----------------------------- MODULE PeerStream -----------------------------
(***************************************************************************)
(* The peer to peer service of a node (service/service.go and sender.go)   *)
(* towards one peer: every call uses the one message sender of that peer,  *)
(* whose stream is kept from call to call.  An answer is recognised only   *)
(* by its place in the stream, so a call that fails has to give up the     *)
(* stream.  The peer serves each stream in a loop of its own.              *)
(***************************************************************************)
EXTENDS Naturals, Sequences, FiniteSets

CONSTANTS
    Calls,              \* calls of SendRequest and SendMessage
    Requests,           \* those of SendRequest
    streamReuseTries,   \* 3 in the code
    MaxStreams,         \* bound: streams that can be opened
    Mishaps             \* bound: how many things go wrong

Nobody == "nobody"

ASSUME PeerStreamAssumption ==
    /\ Requests \subseteq Calls /\ Nobody \notin Calls
    /\ streamReuseTries \in Nat /\ MaxStreams \in Nat /\ Mishaps \in Nat

VARIABLES
    senders,    \* the message senders that were made
    strmap,     \* the one in the map, 0 for none
    call,       \* where each call is, its sender, its retry flag, its answer
    expired,    \* the calls whose context is done
    streams,    \* the streams that were opened: requests and answers on it
    served,     \* how often the peer has handled each call
    mishaps     \* what has gone wrong so far

psVars == <<senders, strmap, call, expired, streams, served, mishaps>>

\* s: the stream, 0 for none.
NewSender == [s |-> 0, invalid |-> FALSE, lk |-> Nobody, singleMes |-> 0]
NewStream == [up |-> TRUE, out |-> <<>>, in |-> <<>>]

PsTypeOK ==
    /\ Len(senders) <= Cardinality(Calls)
    /\ \A n \in DOMAIN senders :
           senders[n] \in [s : 0..Len(streams), invalid : BOOLEAN,
                           lk : Calls \cup {Nobody}, singleMes : 0..(Mishaps + 1)]
    /\ strmap \in 0..Len(senders)
    /\ call \in [Calls -> [at : {"idle", "prep", "remove", "lock", "loop", "write", "read",
                                 "ok", "error"},
                           ms : 0..Len(senders), retry : BOOLEAN,
                           answer : Calls \cup {Nobody}]]
    /\ expired \subseteq Calls
    /\ Len(streams) <= MaxStreams
    /\ \A k \in DOMAIN streams : /\ streams[k].up \in BOOLEAN
                                 /\ streams[k].out \in Seq(Calls)
                                 /\ streams[k].in \in Seq(Calls)
    /\ served \in [Calls -> Nat]
    /\ mishaps \in 0..Mishaps

PsInit ==
    /\ senders = <<>> /\ strmap = 0
    /\ call = [c \in Calls |-> [at |-> "idle", ms |-> 0, retry |-> FALSE, answer |-> Nobody]]
    /\ expired = {} /\ streams = <<>>
    /\ served = [c \in Calls |-> 0]
    /\ mishaps = 0

-----------------------------------------------------------------------------
Mine(c) == senders[call[c].ms]
Stream(c) == streams[Mine(c).s]
To(c, p) == call' = [call EXCEPT ![c].at = p]
SetMine(c, ms) == senders' = [senders EXCEPT ![call[c].ms] = ms]
Unlocked(ms) == [ms EXCEPT !.lk = Nobody]
Mishap == mishaps < Mishaps /\ mishaps' = mishaps + 1

\* messageSenderForPeer: the sender of the map, or a new one to prepare.
SenderForPeer(c) ==
    /\ call[c].at = "idle"
    /\ IF strmap # 0
       THEN /\ call' = [call EXCEPT ![c].at = "lock", ![c].ms = strmap]
            /\ UNCHANGED <<senders, strmap>>
       ELSE /\ senders' = Append(senders, NewSender)
            /\ strmap' = Len(senders')
            /\ call' = [call EXCEPT ![c].at = "prep", ![c].ms = strmap']
    /\ UNCHANGED <<expired, streams, served, mishaps>>

\* prep can open a stream unless the context is done or the network fails.
CanOpen(c) == c \notin expired /\ Len(streams) < MaxStreams
Opened(ms) == [ms EXCEPT !.s = Len(streams) + 1]

\* invalidate, with the lock released.
Invalidate(ms) == [ms EXCEPT !.invalid = TRUE, !.s = 0, !.lk = Nobody]

\* prepOrInvalidate, when nobody else holds the sender.
PrepOrInvalidate(c) ==
    /\ call[c].at = "prep" /\ Mine(c).lk = Nobody
    /\ \/ /\ ~Mine(c).invalid /\ Mine(c).s # 0
          /\ To(c, "lock")
          /\ UNCHANGED <<senders, streams, mishaps>>
       \/ /\ ~Mine(c).invalid /\ Mine(c).s = 0 /\ CanOpen(c)
          /\ SetMine(c, Opened(Mine(c)))
          /\ streams' = Append(streams, NewStream)
          /\ To(c, "lock") /\ UNCHANGED mishaps
       \/ /\ Mine(c).invalid \/ (Mine(c).s = 0 /\ ~CanOpen(c))
          /\ SetMine(c, Invalidate(Mine(c)))
          /\ To(c, "remove") /\ UNCHANGED <<streams, mishaps>>
       \/ /\ ~Mine(c).invalid /\ Mine(c).s = 0 /\ CanOpen(c) /\ Mishap
          /\ SetMine(c, Invalidate(Mine(c)))
          /\ To(c, "remove") /\ UNCHANGED streams
    /\ UNCHANGED <<strmap, expired, served>>

\* The invalid sender leaves the map, or a newer one is used.
RemoveSender(c) ==
    /\ call[c].at = "remove"
    /\ IF strmap # 0 /\ strmap # call[c].ms
       THEN /\ call' = [call EXCEPT ![c].at = "lock", ![c].ms = strmap]
            /\ UNCHANGED strmap
       ELSE /\ strmap' = 0
            /\ To(c, "error")
    /\ UNCHANGED <<senders, expired, streams, served, mishaps>>

\* SendRequest, SendMessage: the sender is locked for the whole exchange.
LockSender(c) ==
    /\ call[c].at = "lock" /\ Mine(c).lk = Nobody
    /\ SetMine(c, [Mine(c) EXCEPT !.lk = c])
    /\ To(c, "loop")
    /\ UNCHANGED <<strmap, expired, streams, served, mishaps>>

\* The call returns an error.
Bail(c) ==
    /\ To(c, "error")
    /\ SetMine(c, Unlocked(Mine(c)))

\* prep at the top of the loop.
PrepLoop(c) ==
    /\ call[c].at = "loop"
    /\ \/ /\ ~Mine(c).invalid /\ Mine(c).s # 0
          /\ To(c, "write") /\ UNCHANGED <<senders, streams, mishaps>>
       \/ /\ ~Mine(c).invalid /\ Mine(c).s = 0 /\ CanOpen(c)
          /\ SetMine(c, Opened(Mine(c)))
          /\ streams' = Append(streams, NewStream)
          /\ To(c, "write") /\ UNCHANGED mishaps
       \/ /\ Mine(c).invalid \/ (Mine(c).s = 0 /\ ~CanOpen(c))
          /\ Bail(c) /\ UNCHANGED <<streams, mishaps>>
       \/ /\ ~Mine(c).invalid /\ Mine(c).s = 0 /\ CanOpen(c) /\ Mishap
          /\ Bail(c) /\ UNCHANGED streams
    /\ UNCHANGED <<strmap, expired, served>>

\* singleMes counts the streams that could not be reused; after too many each
\* message has a stream of its own.
KeepStream(c, ms) ==
    IF ms.singleMes > streamReuseTries THEN [ms EXCEPT !.s = 0]
    ELSE IF call[c].retry THEN [ms EXCEPT !.singleMes = @ + 1] ELSE ms

\* Nothing makes a write end: it has no deadline and does not look at the
\* context, so a peer that has stopped to read keeps the call in it.
WriteMsg(c) ==
    /\ call[c].at = "write" /\ Stream(c).up
    /\ streams' = [streams EXCEPT ![Mine(c).s].out = Append(@, c)]
    /\ IF c \in Requests
       THEN To(c, "read") /\ UNCHANGED senders
       ELSE To(c, "ok") /\ SetMine(c, Unlocked(KeepStream(c, Mine(c))))
    /\ UNCHANGED <<strmap, expired, served, mishaps>>

\* Mutant: a stream that timed out is used again.
GiveUpKept(c) ==
    /\ IF call[c].retry
       THEN /\ SetMine(c, Unlocked(Mine(c)))
            /\ To(c, "error")
       ELSE /\ UNCHANGED senders
            /\ call' = [call EXCEPT ![c].at = "loop", ![c].retry = TRUE]
    /\ UNCHANGED streams

\* An error resets the stream; the first one is followed by a second try.
GiveUp(c) ==
    /\ IF call[c].retry
       THEN /\ SetMine(c, [Unlocked(Mine(c)) EXCEPT !.s = 0])
            /\ To(c, "error")
       ELSE /\ SetMine(c, [Mine(c) EXCEPT !.s = 0])
            /\ call' = [call EXCEPT ![c].at = "loop", ![c].retry = TRUE]
    /\ streams' = [streams EXCEPT ![Mine(c).s].up = FALSE, ![Mine(c).s].in = <<>>]

WriteFails(c) ==
    /\ call[c].at = "write" /\ ~Stream(c).up
    /\ GiveUp(c)
    /\ UNCHANGED <<strmap, expired, served, mishaps>>

\* ctxReadMsg: an answer, whichever it is.
ReadMsg(c) ==
    /\ call[c].at = "read" /\ Stream(c).in # <<>>
    /\ call' = [call EXCEPT ![c].at = "ok", ![c].answer = Head(Stream(c).in)]
    /\ streams' = [streams EXCEPT ![Mine(c).s].in = Tail(@)]
    /\ SetMine(c, Unlocked(KeepStream(c, Mine(c))))
    /\ UNCHANGED <<strmap, expired, served, mishaps>>

\* ctxReadMsg: the stream was reset, or the time is over.
ReadMsgFails(c) ==
    /\ call[c].at = "read" /\ (~Stream(c).up \/ c \in expired)
    /\ GiveUp(c)
    /\ UNCHANGED <<strmap, expired, served, mishaps>>

-----------------------------------------------------------------------------
\* The context of the call or the read timer runs out.
Expire(c) ==
    /\ call[c].at \notin {"idle", "ok", "error"} /\ c \notin expired
    /\ expired' = expired \cup {c}
    /\ UNCHANGED <<senders, strmap, call, streams, served, mishaps>>

\* handleNewMessage: the next message of a stream.  A request is answered, a
\* message is not.
Serve(k) ==
    LET c == Head(streams[k].out)
    IN  /\ streams[k].out # <<>>
        /\ served' = [served EXCEPT ![c] = @ + 1]
        /\ streams' = [streams EXCEPT ![k].out = Tail(@),
                         ![k].in = IF c \in Requests /\ streams[k].up THEN Append(@, c) ELSE @]
        /\ UNCHANGED <<senders, strmap, call, expired, mishaps>>

\* An envelope that cannot be verified is skipped; a handler that fails
\* resets the stream.
ServeFails(k) ==
    /\ streams[k].out # <<>> /\ Mishap
    /\ \/ streams' = [streams EXCEPT ![k].out = Tail(@)] /\ UNCHANGED served
       \/ /\ streams' = [streams EXCEPT ![k] = [up |-> FALSE, out |-> <<>>, in |-> <<>>]]
          /\ served' = [served EXCEPT ![Head(streams[k].out)] = @ + 1]
    /\ UNCHANGED <<senders, strmap, call, expired>>

\* The connection breaks, or the idle timer of the peer resets the stream.
Break(k) ==
    /\ streams[k].up /\ Mishap
    /\ streams' = [streams EXCEPT ![k].up = FALSE, ![k].in = <<>>]
    /\ UNCHANGED <<senders, strmap, call, expired, served>>

CallStep(c) ==
    \/ PrepOrInvalidate(c) \/ RemoveSender(c) \/ LockSender(c) \/ PrepLoop(c)
    \/ WriteFails(c) \/ ReadMsg(c) \/ ReadMsgFails(c)

PsProgress == \E c \in Calls : CallStep(c) \/ Expire(c)

PsNext ==
    \/ PsProgress
    \/ \E c \in Calls : SenderForPeer(c) \/ WriteMsg(c)
    \/ \E k \in DOMAIN streams : Serve(k) \/ ServeFails(k) \/ Break(k)

\* Calls go on and their contexts run out; the peer need not do anything, and
\* so not take what is written to it either.
PsSpec == PsInit /\ [][PsNext]_psVars /\ WF_psVars(PsProgress)

-----------------------------------------------------------------------------
\* SendRequest returns the answer to its own request, though an earlier call
\* on the same stream may have given up before its answer came.
AnswerMatches ==
    \A c \in Requests : call[c].at = "ok" => call[c].answer = c

\* A request reaches the handlers of the peer twice at most, however its
\* write and its read fail.
ServedAtMostTwice == \A c \in Calls : served[c] <= 2

\* A sender that has left the map keeps no stream open, or it would stay open
\* for good: nobody else knows it.
NoStreamLeak ==
    \A n \in DOMAIN senders :
        n # strmap /\ senders[n].lk = Nobody
            /\ (\A c \in Calls : call[c].at \in {"ok", "error"})
        => senders[n].s = 0

\* The call is in a write that the peer does not take.
Blocked(c) == call[c].at = "write" /\ Stream(c).up

\* Every call comes back, however the peer answers and whoever else holds the
\* sender: in the end no call, of which each is made once, is on its way, but
\* one whose write the peer does not take and those that wait for its sender.
CallComesBack ==
    <>[](\A c \in Calls :
            \/ call[c].at \in {"idle", "ok", "error"}
            \/ Blocked(c)
            \/ call[c].at \in {"prep", "lock"} /\ \E d \in Calls : Mine(c).lk = d /\ Blocked(d))

\* Streams are reused safely: no call takes the answer of another, no request
\* is served again and again, and no stream is forgotten open.
StreamsSound == AnswerMatches /\ ServedAtMostTwice /\ NoStreamLeak
=============================================================================
