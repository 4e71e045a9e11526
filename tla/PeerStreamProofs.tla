------------------------- MODULE PeerStreamProofs --------------------------
(***************************************************************************)
(* PeerStream for any set of calls, any requests among them and any number *)
(* of mishaps: StreamsSound follows from PsInv.  An answer is known only   *)
(* by its place in the stream, so the invariant says what may be under way *)
(* on the stream of a sender (OneInFlight), and that nobody but the holder *)
(* of the sender touches it (Exchange, OutOfMap, OwnStream); the number of *)
(* times a request is served is bounded by how often it was written        *)
(* (OnceEach).                                                             *)
(*                                                                         *)
(* Search for any sources, answers, limits and failures, at the end:       *)
(* NewestArrives follows from SearchInv, by which what the result set has  *)
(* is on its way or was received, or something as new.                     *)
(***************************************************************************)
EXTENDS PeerStream, Search, TLAPS, FiniteSetTheorems, SequenceTheorems,
        WellFoundedInduction

At == {"idle", "prep", "remove", "lock", "loop", "write", "read", "ok", "error"}
SenderShape == [s : Nat, invalid : BOOLEAN, lk : Calls \cup {Nobody}, singleMes : Nat]
StreamShape == [up : BOOLEAN, out : Seq(Calls), in : Seq(Calls)]
CallShape == [at : At, ms : Nat, retry : BOOLEAN, answer : Calls \cup {Nobody}]

\* The shape of the state, without the bounds of PsTypeOK that count.
PsShape ==
    /\ senders \in Seq(SenderShape) /\ strmap \in 0..Len(senders)
    /\ call \in [Calls -> CallShape]
    /\ \A c \in Calls : call[c].at # "idle" => call[c].ms \in 1..Len(senders)
    /\ streams \in Seq(StreamShape)
    /\ \A n \in 1..Len(senders) : senders[n].s <= Len(streams)
    /\ served \in [Calls -> Nat] /\ mishaps \in Nat

\* A call in the exchange holds its sender, and has a stream to write and read.
Exchange ==
    \A c \in Calls :
        /\ call[c].at \in {"loop", "write", "read"} => Mine(c).lk = c
        /\ call[c].at \in {"write", "read"} => Mine(c).s # 0 /\ ~Mine(c).invalid
        /\ call[c].at = "read" => c \in Requests

\* An invalid sender has given up its stream; a sender that is removed or not
\* in the map is invalid.
OutOfMap ==
    /\ \A n \in 1..Len(senders) : /\ senders[n].invalid => senders[n].s = 0
                                  /\ n # strmap => senders[n].invalid
    /\ \A c \in Calls : call[c].at = "remove" => Mine(c).invalid

\* No two senders use the same stream.
OwnStream ==
    \A n, m \in 1..Len(senders) :
        senders[n].s = senders[m].s /\ senders[n].s # 0 => n = m

\* On the stream of a sender nothing is under way but the one request that its
\* holder waits for, on its way to the peer or back, and messages before it.
Awaited(n, r) ==
    r = senders[n].lk /\ r \in Requests /\ call[r].at = "read" /\ call[r].ms = n
Flight(n, st) ==
    /\ \A i \in 1..Len(st.in) : Awaited(n, st.in[i])
    /\ \A i \in 1..Len(st.out) : st.out[i] \in Requests => Awaited(n, st.out[i])
    /\ Len(st.in) <= 1
    /\ Len(st.in) = 1 => \A i \in 1..Len(st.out) : st.out[i] \notin Requests
OneInFlight ==
    \A n \in 1..Len(senders) : senders[n].s # 0 => Flight(n, streams[senders[n].s])

\* A call is on a stream once, and with the times the peer has handled it on no
\* more streams than it has been written to.
On(c) == {k \in 1..Len(streams) : \E i \in 1..Len(streams[k].out) : streams[k].out[i] = c}
Written(c) ==
    IF call[c].at = "read" THEN IF call[c].retry THEN 2 ELSE 1
    ELSE IF call[c].at \in {"ok", "error"} THEN 2
    ELSE IF call[c].retry /\ c \in Requests THEN 1 ELSE 0
OnceEach ==
    /\ \A k \in 1..Len(streams) : \A i, j \in 1..Len(streams[k].out) :
           streams[k].out[i] = streams[k].out[j] => i = j
    /\ \A c \in Calls : served[c] + Cardinality(On(c)) <= Written(c)

PsInv ==
    /\ PsShape /\ Exchange /\ OutOfMap /\ OwnStream /\ OneInFlight /\ OnceEach
    /\ AnswerMatches

-----------------------------------------------------------------------------
LEMMA OnFinite ==
    ASSUME PsShape, NEW c \in Calls
    PROVE  /\ IsFiniteSet(On(c)) /\ Cardinality(On(c)) \in Nat
           /\ On(c) \subseteq 1..Len(streams)
  <1>1. Len(streams) \in Nat
    BY LenProperties DEF PsShape
  <1>2. IsFiniteSet(1..Len(streams))
    BY <1>1, FS_Interval
  <1>3. On(c) \in SUBSET (1..Len(streams))
    BY DEF On
  <1>4. IsFiniteSet(On(c))
    BY <1>2, <1>3, FS_Subset
  <1> QED BY <1>3, <1>4, FS_CardinalityType

\* Nothing was written and nothing served: what is on the streams stays.
LEMMA NothingWritten ==
    ASSUME PsShape, PsShape', OnceEach, served' = served,
           Len(streams) <= Len(streams'),
           \A k \in 1..Len(streams) : streams'[k].out = streams[k].out,
           \A k \in 1..Len(streams') : k > Len(streams) => streams'[k].out = <<>>,
           \A c \in Calls : Written(c)' >= Written(c)
    PROVE  OnceEach'
  <1>1. Len(streams) \in Nat /\ Len(streams') \in Nat
    BY LenProperties DEF PsShape
  <1>2. ASSUME NEW c \in Calls PROVE On(c)' = On(c)
    BY <1>1, EmptySeq DEF On
  <1>3. ASSUME NEW c \in Calls PROVE Cardinality(On(c)) \in Nat
    BY OnFinite
  <1>4. ASSUME NEW c \in Calls PROVE Written(c) \in Nat /\ Written(c)' \in Nat
    BY DEF Written
  <1>5. \A c \in Calls : served'[c] + Cardinality(On(c)') <= Written(c)'
    BY <1>2, <1>3, <1>4 DEF OnceEach, PsShape
  <1>6. \A k \in 1..Len(streams') : \A i, j \in 1..Len(streams'[k].out) :
            streams'[k].out[i] = streams'[k].out[j] => i = j
    BY <1>1, EmptySeq DEF OnceEach
  <1> QED BY <1>5, <1>6 DEF OnceEach

LEMMA PsInitOK == PsInit => PsInv
  <1> SUFFICES ASSUME PsInit PROVE PsInv
    OBVIOUS
  <1> USE PeerStreamAssumption DEF PsInit
  <1>1. PsShape
    BY EmptySeq DEF PsShape, SenderShape, StreamShape, At, CallShape
  <1>2. Exchange /\ OutOfMap /\ OwnStream /\ OneInFlight /\ AnswerMatches
    BY EmptySeq DEF Exchange, OutOfMap, OwnStream, OneInFlight, AnswerMatches
  <1>3. ASSUME NEW c \in Calls PROVE On(c) = {}
    BY EmptySeq DEF On
  <1>4. \A c \in Calls : Cardinality(On(c)) = 0
    BY <1>3, FS_EmptySet
  <1>5. OnceEach
    BY EmptySeq, <1>4 DEF OnceEach, Written
  <1> QED BY <1>1, <1>2, <1>5 DEF PsInv

\* What a call, a sender and a stream look like after a step.
CallNow(c, a, m, b, x) ==
    /\ call' \in [Calls -> CallShape]
    /\ \A d \in Calls \ {c} : call'[d] = call[d]
    /\ call'[c].at = a /\ call'[c].ms = m /\ call'[c].retry = b /\ call'[c].answer = x
LEMMA CallFields ==
    ASSUME call \in [Calls -> CallShape], NEW c \in Calls, NEW a \in At, NEW m \in Nat,
           NEW x \in Calls \cup {Nobody}
    PROVE  /\ call' = [call EXCEPT ![c].at = a] =>
                  CallNow(c, a, call[c].ms, call[c].retry, call[c].answer)
           /\ call' = [call EXCEPT ![c].at = a, ![c].ms = m] =>
                  CallNow(c, a, m, call[c].retry, call[c].answer)
           /\ call' = [call EXCEPT ![c].at = a, ![c].retry = TRUE] =>
                  CallNow(c, a, call[c].ms, TRUE, call[c].answer)
           /\ call' = [call EXCEPT ![c].at = a, ![c].answer = x] =>
                  CallNow(c, a, call[c].ms, call[c].retry, x)
 BY DEF CallShape, CallNow

SenderNow(n, s, invalid, lk) ==
    /\ senders' \in Seq(SenderShape) /\ Len(senders') = Len(senders)
    /\ \A m \in 1..Len(senders) : m # n => senders'[m] = senders[m]
    /\ senders'[n].s = s /\ senders'[n].invalid = invalid /\ senders'[n].lk = lk

LEMMA SenderFields ==
    ASSUME senders \in Seq(SenderShape), NEW c \in Calls, call[c].ms \in 1..Len(senders)
    PROVE  /\ UNCHANGED senders =>
                  SenderNow(call[c].ms, Mine(c).s, Mine(c).invalid, Mine(c).lk)
           /\ \A ms \in SenderShape :
                  SetMine(c, ms) => SenderNow(call[c].ms, ms.s, ms.invalid, ms.lk)
           /\ Mine(c) \in SenderShape
  BY ExceptSeq, ElementOfSeq DEF SenderNow, SetMine, Mine

StreamNow(k, u, o, i) ==
    /\ streams' \in Seq(StreamShape) /\ Len(streams') = Len(streams)
    /\ \A j \in 1..Len(streams) : j # k => streams'[j] = streams[j]
    /\ streams'[k].up = u /\ streams'[k].out = o /\ streams'[k].in = i
LEMMA StreamFields ==
    ASSUME streams \in Seq(StreamShape), NEW k \in 1..Len(streams), NEW o \in Seq(Calls),
           NEW i \in Seq(Calls)
    PROVE  /\ streams' = [streams EXCEPT ![k].out = o] =>
                  StreamNow(k, streams[k].up, o, streams[k].in)
           /\ streams' = [streams EXCEPT ![k].in = i] =>
                  StreamNow(k, streams[k].up, streams[k].out, i)
           /\ streams' = [streams EXCEPT ![k].out = o, ![k].in = i] =>
                  StreamNow(k, streams[k].up, o, i)
           /\ streams' = [streams EXCEPT ![k].up = FALSE, ![k].in = <<>>] =>
                  StreamNow(k, FALSE, streams[k].out, <<>>)
           /\ streams' = [streams EXCEPT ![k] = [up |-> FALSE, out |-> <<>>, in |-> <<>>]] =>
                  StreamNow(k, FALSE, <<>>, <<>>)
  <1>1. streams[k] \in StreamShape /\ streams \in [1..Len(streams) -> StreamShape]
    BY ElementOfSeq, LenProperties
  <1>2. Len(streams) \in Nat /\ <<>> \in Seq(Calls)
    BY LenProperties, EmptySeq
  <1>3. ASSUME streams' \in [1..Len(streams) -> StreamShape]
        PROVE  streams' \in Seq(StreamShape) /\ Len(streams') = Len(streams)
    BY <1>2, <1>3
  <1>4. ASSUME streams' = [streams EXCEPT ![k].out = o]
        PROVE  StreamNow(k, streams[k].up, o, streams[k].in)
    <2>1. /\ streams' \in [1..Len(streams) -> StreamShape]
          /\ \A j \in 1..Len(streams) : j # k => streams'[j] = streams[j]
          /\ streams'[k].up = streams[k].up /\ streams'[k].out = o
          /\ streams'[k].in = streams[k].in
      BY <1>1, <1>4 DEF StreamShape
    <2> QED BY <2>1, <1>3 DEF StreamNow
  <1>5. ASSUME streams' = [streams EXCEPT ![k].in = i]
        PROVE  StreamNow(k, streams[k].up, streams[k].out, i)
    <2>1. /\ streams' \in [1..Len(streams) -> StreamShape]
          /\ \A j \in 1..Len(streams) : j # k => streams'[j] = streams[j]
          /\ streams'[k].up = streams[k].up /\ streams'[k].out = streams[k].out
          /\ streams'[k].in = i
      BY <1>1, <1>5 DEF StreamShape
    <2> QED BY <2>1, <1>3 DEF StreamNow
  <1>6. ASSUME streams' = [streams EXCEPT ![k].out = o, ![k].in = i]
        PROVE  StreamNow(k, streams[k].up, o, i)
    <2>1. /\ streams' \in [1..Len(streams) -> StreamShape]
          /\ \A j \in 1..Len(streams) : j # k => streams'[j] = streams[j]
          /\ streams'[k].up = streams[k].up /\ streams'[k].out = o
          /\ streams'[k].in = i
      BY <1>1, <1>6 DEF StreamShape
    <2> QED BY <2>1, <1>3 DEF StreamNow
  <1>7. ASSUME streams' = [streams EXCEPT ![k].up = FALSE, ![k].in = <<>>]
        PROVE  StreamNow(k, FALSE, streams[k].out, <<>>)
    <2>1. /\ streams' \in [1..Len(streams) -> StreamShape]
          /\ \A j \in 1..Len(streams) : j # k => streams'[j] = streams[j]
          /\ streams'[k].up = FALSE /\ streams'[k].out = streams[k].out
          /\ streams'[k].in = <<>>
      BY <1>1, <1>2, <1>7 DEF StreamShape
    <2> QED BY <2>1, <1>3 DEF StreamNow
  <1>8. ASSUME streams' = [streams EXCEPT ![k] = [up |-> FALSE, out |-> <<>>, in |-> <<>>]]
        PROVE  StreamNow(k, FALSE, <<>>, <<>>)
    <2>1. /\ streams' \in [1..Len(streams) -> StreamShape]
          /\ \A j \in 1..Len(streams) : j # k => streams'[j] = streams[j]
          /\ streams'[k].up = FALSE /\ streams'[k].out = <<>> /\ streams'[k].in = <<>>
      BY <1>1, <1>2, <1>8 DEF StreamShape
    <2> QED BY <2>1, <1>3 DEF StreamNow
  <1> QED BY <1>4, <1>5, <1>6, <1>7, <1>8

\* Senders that keep their stream and their holder, on a stream that stays.
LEMMA FlightKept ==
    ASSUME OneInFlight, NEW n \in 1..Len(senders),
           senders[n].s # 0, senders'[n].s = senders[n].s,
           streams'[senders[n].s] = streams[senders[n].s],
           \A r \in Requests : Awaited(n, r) => Awaited(n, r)'
    PROVE  Flight(n, streams[senders[n].s])'
  <1>1. Flight(n, streams[senders[n].s])
    BY DEF OneInFlight
  <1>2. \A r : Awaited(n, r) => r \in Requests
    BY DEF Awaited
  <1> QED BY <1>1, <1>2 DEF Flight

\* A step of a call c that changes only its own sender, and perhaps opens a
\* stream.
OnlyMine(c) ==
    /\ senders' \in Seq(SenderShape) /\ Len(senders') = Len(senders)
    /\ \A m \in 1..Len(senders) : m # call[c].ms => senders'[m] = senders[m]
    /\ call' \in [Calls -> CallShape]
    /\ \A d \in Calls \ {c} : call'[d] = call[d]
    /\ call'[c].ms = call[c].ms /\ call'[c].at # "idle"

Mine2(c) == senders'[call[c].ms]

LEMMA OwnStep ==
    ASSUME PsInv, NEW c \in Calls, call[c].at # "idle", Mine(c).lk \in {c, Nobody},
           OnlyMine(c),
           call'[c].at \in {"loop", "write", "read"} => Mine2(c).lk = c,
           call'[c].at \in {"write", "read"} => Mine2(c).s # 0 /\ ~Mine2(c).invalid,
           call'[c].at = "read" => c \in Requests,
           call'[c].at = "remove" => Mine2(c).invalid,
           Mine2(c).invalid => Mine2(c).s = 0, Mine(c).invalid => Mine2(c).invalid,
           call'[c].at = "ok" /\ c \in Requests => call'[c].answer = c,
           UNCHANGED <<strmap, served>>, mishaps' \in Nat,
           streams' \in Seq(StreamShape), Len(streams) <= Len(streams'),
           \/ Mine2(c).s = 0 \/ Mine2(c).s = Mine(c).s
           \/ Mine2(c).s = Len(streams) + 1 /\ Mine2(c).s <= Len(streams')
    PROVE  PsShape' /\ Exchange' /\ OutOfMap' /\ OwnStream' /\ AnswerMatches'
  <1> USE PeerStreamAssumption DEF PsInv
  <1>0. Len(senders) \in Nat /\ Len(streams) \in Nat /\ Len(streams') \in Nat
    BY LenProperties DEF PsShape
  <1> DEFINE n == call[c].ms
             s == senders'[n].s
  <1>1. n \in 1..Len(senders) /\ Len(senders') = Len(senders) /\ senders[n].lk \in {c, Nobody}
    BY DEF PsShape, OnlyMine, Mine
  <1>2. \A m \in 1..Len(senders) : m # n => senders'[m] = senders[m]
    BY DEF OnlyMine
  <1>4. \A d \in Calls \ {c} : call'[d] = call[d]
    BY DEF OnlyMine
  <1>5. call'[c].ms = n /\ call'[c].at # "idle"
    BY DEF OnlyMine
  <1>6. \A m \in 1..Len(senders) : senders[m].s \in Nat /\ senders[m].s <= Len(streams)
    <2>1. \A m \in 1..Len(senders) : senders[m] \in SenderShape
      BY ElementOfSeq DEF PsShape
    <2> QED BY <2>1 DEF PsShape, SenderShape
  <1>7. PsShape'
    <2>1. \A m \in 1..Len(senders') : senders'[m].s <= Len(streams')
      BY <1>0, <1>1, <1>2, <1>6, SMTT(60) DEF Mine, Mine2
    <2>2. \A d \in Calls : call'[d].at # "idle" => call'[d].ms \in 1..Len(senders')
      BY <1>1, <1>4, <1>5 DEF PsShape
    <2> QED BY <2>1, <2>2, <1>1 DEF PsShape, OnlyMine
  <1>8. Exchange'
    <2>1. ASSUME NEW d \in Calls
          PROVE  /\ call'[d].at \in {"loop", "write", "read"} => senders'[call'[d].ms].lk = d
                 /\ call'[d].at \in {"write", "read"} =>
                        senders'[call'[d].ms].s # 0 /\ ~senders'[call'[d].ms].invalid
                 /\ call'[d].at = "read" => d \in Requests
      <3>1. CASE d = c
        BY <3>1, <1>5 DEF Mine2
      <3>2. CASE d # c /\ call[d].at \in {"loop", "write", "read"}
        <4>1. call[d].ms \in 1..Len(senders) /\ senders[call[d].ms].lk = d
          BY <3>2 DEF PsShape, Exchange, Mine
        <4>2. call[d].ms # n
          BY <4>1, <3>2, <1>1
        <4>3. senders'[call[d].ms] = senders[call[d].ms] /\ call'[d] = call[d]
          BY <4>1, <4>2, <3>2, <1>2, <1>4
        <4> QED BY <4>3, <3>2 DEF Exchange, Mine
      <3>3. CASE d # c /\ call[d].at \notin {"loop", "write", "read"}
        BY <3>3, <1>4
      <3> QED BY <3>1, <3>2, <3>3
    <2> QED BY <2>1 DEF Exchange, Mine
  <1>9. OutOfMap'
    <2>1. \A m \in 1..Len(senders') : /\ senders'[m].invalid => senders'[m].s = 0
                                      /\ m # strmap' => senders'[m].invalid
      BY <1>1, <1>2 DEF OutOfMap, Mine, Mine2
    <2>2. \A d \in Calls : call'[d].at = "remove" => senders'[call'[d].ms].invalid
      <3>1. ASSUME NEW d \in Calls, d # c, call[d].at = "remove"
            PROVE  senders'[call[d].ms].invalid
        <4>1. call[d].ms \in 1..Len(senders) /\ senders[call[d].ms].invalid
          BY <3>1 DEF PsShape, OutOfMap, Mine
        <4>2. CASE call[d].ms = n
          BY <4>1, <4>2 DEF Mine, Mine2
        <4>3. CASE call[d].ms # n
          <5>1. senders'[call[d].ms] = senders[call[d].ms]
            BY <4>1, <4>3, <1>2
          <5> QED BY <4>1, <5>1
        <4> QED BY <4>2, <4>3
      <3> QED BY <3>1, <1>4, <1>5 DEF Mine2
    <2> QED BY <2>1, <2>2 DEF OutOfMap, Mine
  <1>10. OwnStream'
    <2>1. \A m \in 1..Len(senders) : m # n /\ senders[m].s # 0 => senders[m].s # s
      <3>1. CASE s = 0 \/ s = Len(streams) + 1
        BY <3>1, <1>0, <1>6
      <3>2. CASE s = senders[n].s
        BY <3>2, <1>1 DEF OwnStream
      <3> QED BY <3>1, <3>2 DEF Mine, Mine2
    <2> SUFFICES ASSUME NEW i \in 1..Len(senders), NEW j \in 1..Len(senders),
                        senders'[i].s = senders'[j].s, senders'[i].s # 0
                 PROVE  i = j
      BY <1>1 DEF OwnStream
    <2>2. CASE i # n /\ j # n
      BY <2>2, <1>2 DEF OwnStream
    <2>3. CASE i = n \/ j = n
      BY <2>1, <2>3, <1>2
    <2> QED BY <2>2, <2>3
  <1>11. AnswerMatches'
    BY <1>4 DEF AnswerMatches
  <1> QED BY <1>7, <1>8, <1>9, <1>10, <1>11

\* The streams of the other senders stay as they are.
LEMMA OwnFlight ==
    ASSUME PsInv, NEW c \in Calls, call[c].at # "idle", OnlyMine(c),
           \A m \in 1..Len(senders) : m # call[c].ms /\ senders[m].s # 0 =>
               streams'[senders[m].s] = streams[senders[m].s],
           Mine2(c).s # 0 => Flight(call[c].ms, streams[Mine(c).s])'
    PROVE  OneInFlight'
  <1> USE DEF PsInv
  <1> DEFINE n == call[c].ms
  <1>1. ASSUME NEW m \in 1..Len(senders), m # n, senders[m].s # 0
        PROVE  Flight(m, streams[senders[m].s])'
    <2>1. senders'[m] = senders[m]
      BY <1>1 DEF OnlyMine
    <2>2. \A r \in Requests : Awaited(m, r) => Awaited(m, r)'
      BY <2>1, <1>1, PeerStreamAssumption DEF Awaited, OnlyMine
    <2> QED BY <1>1, <2>1, <2>2, FlightKept
  <1>2. Len(senders') = Len(senders)
    BY DEF OnlyMine
  <1>3. \A m \in 1..Len(senders) : m # n => senders'[m] = senders[m]
    BY DEF OnlyMine
  <1>4. call'[c].ms = n
    BY DEF OnlyMine
  <1> SUFFICES ASSUME NEW m \in 1..Len(senders), senders'[m].s # 0
               PROVE  Flight(m, streams[senders[m].s])'
    BY <1>2 DEF OneInFlight
  <1>5. CASE m = n
    BY <1>4, <1>5 DEF Mine, Mine2
  <1>6. CASE m # n
    BY <1>1, <1>3, <1>6
  <1> QED BY <1>5, <1>6

\* A call that does not wait for an answer has none under way on its stream.
LEMMA NoneAwaited ==
    ASSUME PsInv, NEW c \in Calls, call[c].at \notin {"idle", "read"},
           Mine(c).lk \in {c, Nobody}
    PROVE  /\ \A r : ~Awaited(call[c].ms, r)
           /\ Mine(c).s # 0 => /\ Len(Stream(c).in) = 0
                               /\ \A i \in 1..Len(Stream(c).out) : Stream(c).out[i] \notin Requests
  <1> USE PeerStreamAssumption DEF PsInv, Mine, Stream
  <1>1. call[c].ms \in 1..Len(senders)
    BY DEF PsShape
  <1>2. \A r : ~Awaited(call[c].ms, r)
    BY DEF Awaited
  <1>3. ASSUME Mine(c).s # 0 PROVE Flight(call[c].ms, Stream(c))
    BY <1>1, <1>3 DEF OneInFlight
  <1>4. ASSUME Mine(c).s # 0 PROVE Stream(c) \in StreamShape
    <2>1. senders[call[c].ms] \in SenderShape /\ senders[call[c].ms].s <= Len(streams)
      BY <1>1, ElementOfSeq DEF PsShape
    <2>2. Len(streams) \in Nat
      BY LenProperties DEF PsShape
    <2> QED BY <1>4, <2>1, <2>2, ElementOfSeq DEF PsShape, SenderShape
  <1>5. ASSUME Mine(c).s # 0 PROVE Len(Stream(c).in) \in Nat
    BY <1>4, <1>5, LenProperties DEF StreamShape
  <1>6. ASSUME Mine(c).s # 0
        PROVE  /\ Len(Stream(c).in) = 0
               /\ \A i \in 1..Len(Stream(c).out) : Stream(c).out[i] \notin Requests
    <2> HIDE DEF PsInv, Mine, Stream
    <2> DEFINE st == Stream(c)
    <2>2. Flight(call[c].ms, st) /\ Len(st.in) \in Nat
      BY <1>3, <1>5, <1>6
    <2> HIDE DEF st
    <2>3. Len(st.in) = 0
      BY ONLY <1>2, <2>2 DEF Flight
    <2>4. \A i \in 1..Len(st.out) : st.out[i] \notin Requests
      BY ONLY <1>2, <2>2 DEF Flight
    <2> QED BY <2>3, <2>4 DEF st
  <1> QED BY ONLY <1>2, <1>6

\* A step of c that neither writes nor reads: its stream stays, or is given up,
\* or is the new last one.
LEMMA QuietStep ==
    ASSUME PsInv, NEW c \in Calls, call[c].at \notin {"idle", "read", "ok", "error"},
           Mine(c).lk \in {c, Nobody}, OnlyMine(c), call'[c].at # "read",
           call'[c].retry = call[c].retry,
           call'[c].at \in {"loop", "write"} => Mine2(c).lk = c,
           call'[c].at = "write" => Mine2(c).s # 0 /\ ~Mine2(c).invalid,
           call'[c].at = "remove" => Mine2(c).invalid,
           Mine2(c).invalid => Mine2(c).s = 0, Mine(c).invalid => Mine2(c).invalid,
           call'[c].at # "ok",
           UNCHANGED <<strmap, served>>, mishaps' \in Nat,
           \/ Mine2(c).s \in {0, Mine(c).s} /\ UNCHANGED streams
           \/ Mine2(c).s = Len(streams) + 1 /\ streams' = Append(streams, NewStream)
    PROVE  PsInv'
  <1> USE DEF PsInv
  <1> DEFINE n == call[c].ms
             s == senders'[n].s
  <1>0. Len(streams) \in Nat /\ NewStream \in StreamShape
    BY LenProperties, EmptySeq DEF PsShape, NewStream, StreamShape
  <1>1. n \in 1..Len(senders) /\ senders[n].s <= Len(streams) /\ senders[n].s \in Nat
    <2>1. n \in 1..Len(senders)
      BY DEF PsShape
    <2>2. senders[n] \in SenderShape
      BY <2>1, ElementOfSeq DEF PsShape
    <2> QED BY <2>1, <2>2 DEF PsShape, SenderShape
  <1>2. /\ streams' \in Seq(StreamShape) /\ Len(streams) <= Len(streams')
        /\ \A k \in 1..Len(streams) : streams'[k] = streams[k]
        /\ \A k \in 1..Len(streams') : k > Len(streams) => streams'[k] = NewStream
        /\ s \in {0, senders[n].s} \/ (s = Len(streams) + 1 /\ s = Len(streams'))
    <2>1. CASE UNCHANGED streams
      BY <1>0, <2>1 DEF PsShape, Mine, Mine2
    <2>2. CASE s = Len(streams) + 1 /\ streams' = Append(streams, NewStream)
      BY <1>0, <2>2, AppendProperties DEF PsShape
    <2> QED BY <2>1, <2>2 DEF Mine2
  <1>3. PsShape' /\ Exchange' /\ OutOfMap' /\ OwnStream' /\ AnswerMatches'
    <2>1. s = 0 \/ s = senders[n].s \/ (s = Len(streams) + 1 /\ s <= Len(streams'))
      BY <1>0, <1>2
    <2> QED BY <1>2, <2>1, OwnStep DEF Mine, Mine2
  <1>4. OneInFlight'
    <2>1. ASSUME NEW m \in 1..Len(senders), senders[m].s # 0
          PROVE  streams'[senders[m].s] = streams[senders[m].s]
      <3>1. senders[m] \in SenderShape
        BY ElementOfSeq DEF PsShape
      <3> QED BY <1>0, <1>2, <2>1, <3>1, SMTT(60) DEF PsShape, SenderShape
    <2>2. call'[c].ms = n
      BY DEF OnlyMine
    <2>3. ASSUME s # 0
          PROVE  /\ Len(streams'[s].in) = 0
                 /\ \A i \in 1..Len(streams'[s].out) : streams'[s].out[i] \notin Requests
      <3>1. CASE s = senders[n].s
        BY <1>1, <2>1, <2>3, <3>1, NoneAwaited DEF Mine, Stream
      <3>2. CASE s = Len(streams) + 1 /\ s = Len(streams')
        <4>1. streams'[s] = NewStream
          BY <1>0, <1>2, <3>2
        <4> QED BY <4>1, EmptySeq DEF NewStream
      <3> QED BY <1>2, <2>3, <3>1, <3>2
    <2>4. ASSUME s # 0 PROVE Flight(n, streams[Mine(c).s])'
      <3>1. streams'[Mine(c)'.s] = streams'[s]
        BY <2>2 DEF Mine
      <3>2. \A i \in 1..0 : FALSE
        OBVIOUS
      <3> HIDE DEF s, n
      <3> QED BY <3>1, <3>2, <2>3, <2>4 DEF Flight
    <2> QED BY <2>1, <2>2, <2>4, OwnFlight DEF Mine2
  <1>5. OnceEach'
    <2>1. ASSUME NEW d \in Calls PROVE Written(d)' >= Written(d)
      <3>1. CASE d = c
        BY <3>1 DEF Written, OnlyMine, PsShape, CallShape
      <3>2. CASE d # c
        BY <3>2 DEF Written, OnlyMine
      <3> QED BY <3>1, <3>2
    <2>2. \A k \in 1..Len(streams') : k > Len(streams) => streams'[k].out = <<>>
      BY <1>2 DEF NewStream
    <2> QED BY <1>2, <1>3, <2>1, <2>2, NothingWritten
  <1> QED BY <1>3, <1>4, <1>5

\* What the steps of a call start from.
LEMMA MineShape ==
    ASSUME PsInv, NEW c \in Calls, call[c].at # "idle"
    PROVE  /\ call[c].ms \in 1..Len(senders) /\ Mine(c) \in SenderShape
           /\ Mine(c).s \in 0..Len(streams) /\ Len(streams) \in Nat
           /\ Mine(c).s # 0 => Stream(c) \in StreamShape
           /\ call[c] \in CallShape
  <1>1. call[c].ms \in 1..Len(senders) /\ senders[call[c].ms].s <= Len(streams)
    BY DEF PsInv, PsShape
  <1>2. Mine(c) \in SenderShape
    BY <1>1, ElementOfSeq DEF PsInv, PsShape, Mine
  <1>3. Len(streams) \in Nat
    BY LenProperties DEF PsInv, PsShape
  <1>4. Mine(c).s \in 0..Len(streams)
    BY <1>1, <1>2, <1>3 DEF Mine, SenderShape
  <1>5. Mine(c).s # 0 => Stream(c) \in StreamShape
    BY <1>3, <1>4, ElementOfSeq DEF PsInv, PsShape, Stream
  <1> QED BY <1>1, <1>2, <1>3, <1>4, <1>5 DEF PsInv, PsShape

LEMMA PsPrep ==
    ASSUME PsInv, NEW c \in Calls, PrepOrInvalidate(c) \/ PrepLoop(c) \/ LockSender(c)
    PROVE  PsInv'
  <1> USE PeerStreamAssumption
  <1>0. /\ call[c].at \in {"prep", "loop", "lock"} /\ Mine(c).lk \in {c, Nobody}
        /\ call[c].at = "loop" => Mine(c).lk = c
        /\ UNCHANGED <<strmap, served>> /\ mishaps' \in Nat
    BY DEF PsInv, PsShape, Exchange, PrepOrInvalidate, PrepLoop, LockSender, Mishap
  <1>1. call \in [Calls -> CallShape] /\ senders \in Seq(SenderShape)
    BY DEF PsInv, PsShape
  <1>2. /\ call[c].ms \in 1..Len(senders) /\ Mine(c) \in SenderShape
        /\ Len(streams) \in Nat /\ call[c].at # "idle"
    BY <1>0, MineShape
  <1>3. Mine(c).invalid => Mine(c).s = 0
    BY <1>2 DEF PsInv, OutOfMap, Mine
  <1>4. /\ Opened(Mine(c)) \in SenderShape /\ Opened(Mine(c)).s = Len(streams) + 1
        /\ Opened(Mine(c)).invalid = Mine(c).invalid /\ Opened(Mine(c)).lk = Mine(c).lk
    BY <1>2 DEF Opened, SenderShape
  <1>5. /\ Invalidate(Mine(c)) \in SenderShape /\ Invalidate(Mine(c)).s = 0
        /\ Invalidate(Mine(c)).invalid = TRUE /\ Invalidate(Mine(c)).lk = Nobody
    BY <1>2 DEF Invalidate, SenderShape
  <1>6. /\ Unlocked(Mine(c)) \in SenderShape /\ Unlocked(Mine(c)).s = Mine(c).s
        /\ Unlocked(Mine(c)).invalid = Mine(c).invalid /\ Unlocked(Mine(c)).lk = Nobody
    BY <1>2 DEF Unlocked, SenderShape
  <1>7. \A a \in At : To(c, a) => CallNow(c, a, call[c].ms, call[c].retry, call[c].answer)
    BY <1>1, <1>2, CallFields DEF To, CallShape
  <1>8. ASSUME NEW a \in {"lock", "write"}, To(c, a), UNCHANGED <<senders, streams>>,
               ~Mine(c).invalid, Mine(c).s # 0, a = "write" => Mine(c).lk = c
        PROVE  PsInv'
    <2>1. /\ OnlyMine(c) /\ call'[c].at = a /\ call'[c].retry = call[c].retry
          /\ Mine2(c).s = Mine(c).s /\ Mine2(c).invalid = Mine(c).invalid
          /\ Mine2(c).lk = Mine(c).lk
      <3>1. SenderNow(call[c].ms, Mine(c).s, Mine(c).invalid, Mine(c).lk)
        BY <1>1, <1>2, <1>8, SenderFields
      <3>2. CallNow(c, a, call[c].ms, call[c].retry, call[c].answer)
        BY <1>7, <1>8 DEF At
      <3> QED BY <1>2, <3>1, <3>2 DEF SenderNow, CallNow, OnlyMine, Mine2
    <2>2. ~Mine2(c).invalid
      BY <1>8, <2>1
    <2>3. call'[c].at = "write" => Mine2(c).lk = c /\ Mine2(c).s # 0
      BY <1>8, <2>1
    <2>4. call'[c].at \notin {"read", "ok", "remove", "loop"}
      BY <1>8, <2>1
    <2> QED BY <1>0, <1>8, <2>1, <2>2, <2>3, <2>4, QuietStep
  <1>9. ASSUME NEW a \in {"lock", "write"}, To(c, a), SetMine(c, Opened(Mine(c))),
               streams' = Append(streams, NewStream), ~Mine(c).invalid,
               a = "write" => Mine(c).lk = c
        PROVE  PsInv'
    <2>1. /\ OnlyMine(c) /\ call'[c].at = a /\ call'[c].retry = call[c].retry
          /\ Mine2(c).s = Len(streams) + 1 /\ Mine2(c).invalid = Mine(c).invalid
          /\ Mine2(c).lk = Mine(c).lk
      <3>1. SenderNow(call[c].ms, Len(streams) + 1, Mine(c).invalid, Mine(c).lk)
        BY <1>1, <1>2, <1>4, <1>9, SenderFields
      <3>2. CallNow(c, a, call[c].ms, call[c].retry, call[c].answer)
        BY <1>7, <1>9 DEF At
      <3> QED BY <1>2, <3>1, <3>2 DEF SenderNow, CallNow, OnlyMine, Mine2
    <2>2. ~Mine2(c).invalid
      BY <1>9, <2>1
    <2>3. call'[c].at = "write" => Mine2(c).lk = c /\ Mine2(c).s # 0
      BY <1>2, <1>9, <2>1
    <2>4. call'[c].at \notin {"read", "ok", "remove", "loop"} /\ call'[c].at # "idle"
      BY <1>9, <2>1
    <2> QED BY <1>0, <1>9, <2>1, <2>2, <2>3, <2>4, QuietStep
  <1>10. ASSUME To(c, "remove"), SetMine(c, Invalidate(Mine(c))), UNCHANGED streams
         PROVE  PsInv'
    <2>1. /\ OnlyMine(c) /\ call'[c].at = "remove" /\ call'[c].retry = call[c].retry
          /\ Mine2(c).s = 0 /\ Mine2(c).invalid = TRUE
      <3>1. SenderNow(call[c].ms, 0, TRUE, Nobody)
        BY <1>1, <1>2, <1>5, <1>10, SenderFields
      <3>2. CallNow(c, "remove", call[c].ms, call[c].retry, call[c].answer)
        BY <1>7, <1>10 DEF At
      <3> QED BY <1>2, <3>1, <3>2 DEF SenderNow, CallNow, OnlyMine, Mine2
    <2> QED BY <1>0, <1>10, <2>1, QuietStep
  <1>11. ASSUME Bail(c), UNCHANGED streams
         PROVE  PsInv'
    <2>1. /\ OnlyMine(c) /\ call'[c].at = "error" /\ call'[c].retry = call[c].retry
          /\ Mine2(c).s = Mine(c).s /\ Mine2(c).invalid = Mine(c).invalid
      <3>1. SenderNow(call[c].ms, Mine(c).s, Mine(c).invalid, Nobody)
        BY <1>1, <1>2, <1>6, <1>11, SenderFields DEF Bail
      <3>2. CallNow(c, "error", call[c].ms, call[c].retry, call[c].answer)
        BY <1>7, <1>11 DEF At, Bail
      <3> QED BY <1>2, <3>1, <3>2 DEF SenderNow, CallNow, OnlyMine, Mine2
    <2>2. /\ Mine(c).invalid => Mine2(c).invalid
          /\ Mine2(c).invalid => Mine2(c).s = 0
      BY <1>3, <2>1
    <2>3. call'[c].at \notin {"read", "ok", "remove", "loop", "write", "idle"}
      BY <2>1
    <2> QED BY <1>0, <1>11, <2>1, <2>2, <2>3, QuietStep
  <1>12. CASE PrepOrInvalidate(c)
    BY <1>8, <1>9, <1>10, <1>12 DEF PrepOrInvalidate
  <1>13. CASE PrepLoop(c)
    BY <1>0, <1>8, <1>9, <1>11, <1>13 DEF PrepLoop
  <1>14. CASE LockSender(c)
    <2> DEFINE ms == [Mine(c) EXCEPT !.lk = c]
    <2>1. /\ ms \in SenderShape /\ ms.s = Mine(c).s
          /\ ms.invalid = Mine(c).invalid /\ ms.lk = c
      BY <1>2 DEF SenderShape
    <2>2. /\ OnlyMine(c) /\ call'[c].at = "loop" /\ call'[c].retry = call[c].retry
          /\ Mine2(c).s = Mine(c).s /\ Mine2(c).invalid = Mine(c).invalid
          /\ Mine2(c).lk = c
      <3>1. SenderNow(call[c].ms, Mine(c).s, Mine(c).invalid, c)
        BY <1>1, <1>2, <1>14, <2>1, SenderFields DEF LockSender
      <3>2. CallNow(c, "loop", call[c].ms, call[c].retry, call[c].answer)
        BY <1>7, <1>14 DEF At, LockSender
      <3> QED BY <1>2, <3>1, <3>2 DEF SenderNow, CallNow, OnlyMine, Mine2
    <2>3. /\ Mine(c).invalid => Mine2(c).invalid
          /\ Mine2(c).invalid => Mine2(c).s = 0
      BY <1>3, <2>2
    <2>4. call'[c].at \notin {"read", "ok", "remove", "write", "idle"}
      BY <2>2
    <2> QED BY <1>0, <1>14, <2>2, <2>3, <2>4, QuietStep DEF LockSender
  <1> QED BY <1>12, <1>13, <1>14

\* The other senders do not use the stream of c.
LEMMA OtherStreams ==
    ASSUME PsInv, NEW c \in Calls, call[c].at # "idle", Mine(c).s # 0,
           NEW m \in 1..Len(senders), m # call[c].ms, senders[m].s # 0
    PROVE  senders[m].s # Mine(c).s /\ senders[m].s \in 1..Len(streams)
  <1>1. senders[m] \in SenderShape
    BY ElementOfSeq DEF PsInv, PsShape
  <1>2. call[c].ms \in 1..Len(senders) /\ Len(streams) \in Nat
    BY MineShape
  <1>3. senders[m].s # Mine(c).s
    BY <1>2 DEF PsInv, OwnStream, Mine
  <1>4. senders[m].s \in Nat /\ senders[m].s <= Len(streams)
    BY <1>1 DEF PsInv, PsShape, SenderShape
  <1> QED BY <1>2, <1>3, <1>4

\* A stream that is given up after an error or a timeout.
LEMMA PsGiveUp ==
    ASSUME PsInv, NEW c \in Calls, WriteFails(c) \/ ReadMsgFails(c)
    PROVE  PsInv'
  <1> DEFINE k == Mine(c).s
  <1>0. /\ call[c].at \in {"write", "read"} /\ GiveUp(c)
        /\ UNCHANGED <<strmap, served, mishaps>>
    BY DEF WriteFails, ReadMsgFails
  <1>1. /\ call \in [Calls -> CallShape] /\ senders \in Seq(SenderShape)
        /\ streams \in Seq(StreamShape) /\ mishaps \in Nat
        /\ Mine(c).lk = c /\ k # 0 /\ ~Mine(c).invalid
        /\ call[c].at = "read" => c \in Requests
    BY <1>0 DEF PsInv, PsShape, Exchange
  <1>2. /\ call[c].ms \in 1..Len(senders) /\ Mine(c) \in SenderShape
        /\ Len(streams) \in Nat /\ call[c].at # "idle" /\ call[c] \in CallShape
        /\ k \in 1..Len(streams) /\ streams[k] \in StreamShape
    BY <1>0, <1>1, MineShape DEF Stream
  <1>3. StreamNow(k, FALSE, streams[k].out, <<>>)
    BY <1>0, <1>1, <1>2, EmptySeq, StreamFields DEF GiveUp, StreamShape
  <1>4. \E lk \in {c, Nobody} : SenderNow(call[c].ms, 0, Mine(c).invalid, lk)
                /\ (lk = Nobody => call[c].retry) /\ (lk = c => ~call[c].retry)
    <2>1. /\ [Unlocked(Mine(c)) EXCEPT !.s = 0] \in SenderShape
          /\ [Unlocked(Mine(c)) EXCEPT !.s = 0].s = 0
          /\ [Unlocked(Mine(c)) EXCEPT !.s = 0].invalid = Mine(c).invalid
          /\ [Unlocked(Mine(c)) EXCEPT !.s = 0].lk = Nobody
      BY <1>2 DEF SenderShape, Unlocked
    <2>2. /\ [Mine(c) EXCEPT !.s = 0] \in SenderShape
          /\ [Mine(c) EXCEPT !.s = 0].s = 0
          /\ [Mine(c) EXCEPT !.s = 0].invalid = Mine(c).invalid
          /\ [Mine(c) EXCEPT !.s = 0].lk = c
      BY <1>1, <1>2 DEF SenderShape
    <2>3. CASE call[c].retry
      BY <1>0, <1>1, <1>2, <2>1, <2>3, SenderFields, PeerStreamAssumption DEF GiveUp
    <2>4. CASE ~call[c].retry
      <3>1. SetMine(c, [Mine(c) EXCEPT !.s = 0])
        BY <1>0, <2>4 DEF GiveUp
      <3>2. SenderNow(call[c].ms, 0, Mine(c).invalid, c)
        BY <1>1, <1>2, <2>2, <3>1, SenderFields
      <3> QED BY <2>4, <3>2, PeerStreamAssumption
    <2> QED BY <2>3, <2>4
  <1>5. \/ call[c].retry /\ CallNow(c, "error", call[c].ms, call[c].retry, call[c].answer)
        \/ ~call[c].retry /\ CallNow(c, "loop", call[c].ms, TRUE, call[c].answer)
    BY <1>0, <1>1, <1>2, CallFields DEF GiveUp, To, At, CallShape
  <1>6. /\ OnlyMine(c) /\ Mine2(c).s = 0 /\ ~Mine2(c).invalid
        /\ call'[c].at = "error" \/ (call'[c].at = "loop" /\ Mine2(c).lk = c)
    BY <1>1, <1>2, <1>4, <1>5 DEF SenderNow, CallNow, OnlyMine, Mine2
  <1>7. /\ streams' \in Seq(StreamShape) /\ Len(streams') = Len(streams)
        /\ \A j \in 1..Len(streams) : j # k => streams'[j] = streams[j]
        /\ streams'[k].out = streams[k].out
    BY <1>3 DEF StreamNow
  <1>8. PsShape' /\ Exchange' /\ OutOfMap' /\ OwnStream' /\ AnswerMatches'
    BY <1>0, <1>1, <1>2, <1>6, <1>7, OwnStep
  <1>9. OneInFlight'
    BY <1>1, <1>2, <1>6, <1>7, OtherStreams, OwnFlight
  <1>10. OnceEach'
    <2>1. ASSUME NEW d \in Calls PROVE Written(d)' >= Written(d)
      <3>1. CASE d = c
        BY <1>0, <1>1, <1>5, <3>1 DEF Written, CallNow
      <3>2. CASE d # c
        BY <1>6, <3>2 DEF Written, OnlyMine
      <3> QED BY <3>1, <3>2
    <2>2. /\ \A j \in 1..Len(streams) : streams'[j].out = streams[j].out
          /\ \A j \in 1..Len(streams') : j > Len(streams) => streams'[j].out = <<>>
      BY <1>2, <1>7
    <2> QED BY <1>0, <1>2, <1>7, <1>8, <2>1, <2>2, NothingWritten DEF PsInv
  <1> QED BY <1>8, <1>9, <1>10 DEF PsInv

\* KeepStream gives up the stream of the sender, or keeps it.
LEMMA KeepFields ==
    ASSUME NEW c \in Calls, NEW ms \in SenderShape
    PROVE  /\ Unlocked(KeepStream(c, ms)) \in SenderShape
           /\ Unlocked(KeepStream(c, ms)).s \in {0, ms.s}
           /\ Unlocked(KeepStream(c, ms)).invalid = ms.invalid
           /\ Unlocked(KeepStream(c, ms)).lk = Nobody
  <1>1. KeepStream(c, ms) \in SenderShape /\ KeepStream(c, ms).s \in {0, ms.s}
        /\ KeepStream(c, ms).invalid = ms.invalid
    BY DEF KeepStream, SenderShape
  <1> QED BY <1>1 DEF Unlocked, SenderShape

\* The answer that is read is the only one on the stream.
LEMMA PsRead ==
    ASSUME PsInv, NEW c \in Calls, ReadMsg(c)
    PROVE  PsInv'
  <1> DEFINE k == Mine(c).s
             ms == Unlocked(KeepStream(c, Mine(c)))
  <1>0. /\ call[c].at = "read" /\ streams[k].in # <<>> /\ SetMine(c, ms)
        /\ call' = [call EXCEPT ![c].at = "ok", ![c].answer = Head(streams[k].in)]
        /\ streams' = [streams EXCEPT ![k].in = Tail(@)]
        /\ UNCHANGED <<strmap, served, mishaps>>
    BY DEF ReadMsg, Stream
  <1>1. /\ call \in [Calls -> CallShape] /\ senders \in Seq(SenderShape)
        /\ streams \in Seq(StreamShape) /\ mishaps \in Nat
        /\ Mine(c).lk = c /\ k # 0 /\ ~Mine(c).invalid /\ c \in Requests
    BY <1>0 DEF PsInv, PsShape, Exchange
  <1>2. /\ call[c].ms \in 1..Len(senders) /\ Mine(c) \in SenderShape
        /\ Len(streams) \in Nat /\ call[c].at # "idle" /\ call[c] \in CallShape
        /\ k \in 1..Len(streams) /\ streams[k] \in StreamShape
    BY <1>0, <1>1, MineShape DEF Stream
  <1>3. Flight(call[c].ms, streams[k])
    BY <1>1, <1>2 DEF PsInv, OneInFlight, Mine
  <1>4. /\ Len(streams[k].in) = 1 /\ Head(streams[k].in) = c
        /\ Tail(streams[k].in) \in Seq(Calls) /\ Len(Tail(streams[k].in)) = 0
    <2>1. streams[k].in \in Seq(Calls)
      BY <1>2 DEF StreamShape
    <2>2. Len(streams[k].in) = 1
      <3>1. Len(streams[k].in) \in Nat \ {0}
        BY <1>0, <2>1, EmptySeq
      <3>2. Len(streams[k].in) <= 1
        BY <1>3 DEF Flight
      <3>3. \A x \in Nat \ {0} : x <= 1 => x = 1
        OBVIOUS
      <3> HIDE DEF k
      <3> QED BY <3>1, <3>2, <3>3
    <2>3. streams[k].in[1] = c
      <3>1. Awaited(call[c].ms, streams[k].in[1])
        BY <1>3, <2>2 DEF Flight
      <3> QED BY <1>1, <3>1 DEF Awaited, Mine
    <2> QED BY <1>0, <2>1, <2>2, <2>3, HeadTailProperties
  <1>5. StreamNow(k, streams[k].up, streams[k].out, Tail(streams[k].in))
    BY <1>0, <1>1, <1>2, <1>4, StreamFields DEF StreamShape
  <1>6. SenderNow(call[c].ms, ms.s, ms.invalid, ms.lk) /\ ms.s \in {0, k}
        /\ ms.invalid = Mine(c).invalid
    BY <1>0, <1>1, <1>2, KeepFields, SenderFields
  <1>7. CallNow(c, "ok", call[c].ms, call[c].retry, c)
    BY <1>0, <1>1, <1>2, <1>4, CallFields DEF At
  <1>8. /\ OnlyMine(c) /\ Mine2(c).s \in {0, k} /\ ~Mine2(c).invalid
        /\ call'[c].at = "ok" /\ call'[c].answer = c
    BY <1>1, <1>2, <1>6, <1>7 DEF SenderNow, CallNow, OnlyMine, Mine2
  <1>9. /\ streams' \in Seq(StreamShape) /\ Len(streams') = Len(streams)
        /\ \A j \in 1..Len(streams) : j # k => streams'[j] = streams[j]
        /\ streams'[k].out = streams[k].out /\ Len(streams'[k].in) = 0
    BY <1>4, <1>5 DEF StreamNow
  <1>10. PsShape' /\ Exchange' /\ OutOfMap' /\ OwnStream' /\ AnswerMatches'
    <2>1. call'[c].at \notin {"loop", "write", "read", "remove"}
      BY <1>8
    <2>2. Mine2(c).s = 0 \/ Mine2(c).s = Mine(c).s
      BY <1>8
    <2>3. Len(streams) <= Len(streams') /\ Mine(c).lk \in {c, Nobody} /\ mishaps' \in Nat
      BY <1>0, <1>1, <1>2, <1>9
    <2>4. /\ ~Mine2(c).invalid /\ ~Mine(c).invalid /\ UNCHANGED <<strmap, served>>
          /\ OnlyMine(c) /\ call'[c].answer = c /\ streams' \in Seq(StreamShape)
          /\ call[c].at # "idle"
      BY <1>0, <1>1, <1>2, <1>8, <1>9
    <2> QED BY <2>1, <2>2, <2>3, <2>4, OwnStep
  <1>11. OneInFlight'
    <2>1. ASSUME Mine2(c).s # 0 PROVE Flight(call[c].ms, streams[Mine(c).s])'
      <3>1. Mine(c)'.s = k
        BY <1>8, <2>1 DEF OnlyMine, Mine, Mine2
      <3> QED BY <1>3, <1>4, <1>9, <3>1 DEF Flight
    <2> QED BY <1>1, <1>2, <1>8, <1>9, <2>1, OtherStreams, OwnFlight
  <1>12. OnceEach'
    <2>1. ASSUME NEW d \in Calls PROVE Written(d)' >= Written(d)
      BY <1>0, <1>8 DEF Written, OnlyMine
    <2>2. /\ \A j \in 1..Len(streams) : streams'[j].out = streams[j].out
          /\ \A j \in 1..Len(streams') : j > Len(streams) => streams'[j].out = <<>>
      BY <1>2, <1>9
    <2> QED BY <1>0, <1>2, <1>9, <1>10, <2>1, <2>2, NothingWritten DEF PsInv
  <1> QED BY <1>10, <1>11, <1>12 DEF PsInv

\* One call is written to one stream, where it was not before.
LEMMA WrittenTo ==
    ASSUME PsShape, PsShape', OnceEach, served' = served, NEW c \in Calls,
           NEW k \in 1..Len(streams), Len(streams') = Len(streams),
           \A j \in 1..Len(streams) : j # k => streams'[j] = streams[j],
           streams[k].out \in Seq(Calls), streams'[k].out = Append(streams[k].out, c),
           \A i \in 1..Len(streams[k].out) : streams[k].out[i] # c,
           \A d \in Calls \ {c} : Written(d)' = Written(d), Written(c)' >= Written(c) + 1
    PROVE  OnceEach'
  <1>1. /\ Len(streams'[k].out) = Len(streams[k].out) + 1 /\ Len(streams[k].out) \in Nat
        /\ \A i \in 1..Len(streams[k].out) : streams'[k].out[i] = streams[k].out[i]
        /\ streams'[k].out[Len(streams[k].out) + 1] = c
    BY AppendProperties, LenProperties
  <1>2. ASSUME NEW d \in Calls PROVE Cardinality(On(d)) \in Nat /\ IsFiniteSet(On(d))
    BY OnFinite
  <1>3. ASSUME NEW d \in Calls PROVE Written(d) \in Nat /\ Written(d)' \in Nat
    BY DEF Written
  <1>4. On(c)' = On(c) \cup {k}
    BY <1>1 DEF On
  <1>5. k \notin On(c)
    BY DEF On
  <1>6. Cardinality(On(c)') = Cardinality(On(c)) + 1
    BY <1>2, <1>4, <1>5, FS_AddElement
  <1>7. ASSUME NEW d \in Calls \ {c} PROVE On(d)' = On(d)
    <2>1. (\E i \in 1..Len(streams'[k].out) : streams'[k].out[i] = d)
              <=> (\E i \in 1..Len(streams[k].out) : streams[k].out[i] = d)
      BY <1>1
    <2> QED BY <2>1 DEF On
  <1>8. \A d \in Calls : served'[d] + Cardinality(On(d)') <= Written(d)'
    <2>1. served'[c] + Cardinality(On(c)') <= Written(c)'
      BY <1>2, <1>3, <1>6 DEF OnceEach, PsShape
    <2>2. ASSUME NEW d \in Calls \ {c}
          PROVE  served'[d] + Cardinality(On(d)') <= Written(d)'
      BY <1>7 DEF OnceEach
    <2> QED BY <2>1, <2>2
  <1>9. ASSUME NEW j \in 1..Len(streams'), NEW x \in 1..Len(streams'[j].out),
               NEW y \in 1..Len(streams'[j].out), streams'[j].out[x] = streams'[j].out[y]
        PROVE  x = y
    <2>1. CASE j # k
      BY <1>9, <2>1 DEF OnceEach
    <2>2. CASE j = k
      <3> DEFINE L == Len(streams[k].out)
      <3>1. /\ x \in 1..(L + 1) /\ y \in 1..(L + 1) /\ L \in Nat
            /\ streams'[k].out[x] = streams'[k].out[y]
        BY <1>1, <1>9, <2>2
      <3>2. CASE x \in 1..L /\ y \in 1..L
        BY <1>1, <3>1, <3>2 DEF OnceEach
      <3>3. CASE x = L + 1 /\ y \in 1..L
        BY <1>1, <3>1, <3>3
      <3>4. CASE y = L + 1 /\ x \in 1..L
        BY <1>1, <3>1, <3>4
      <3>5. CASE x = L + 1 /\ y = L + 1
        BY <3>5
      <3> HIDE DEF L
      <3> QED BY <3>1, <3>2, <3>3, <3>4, <3>5
    <2> QED BY <2>1, <2>2
  <1> QED BY <1>8, <1>9 DEF OnceEach

LEMMA PsWrite ==
    ASSUME PsInv, NEW c \in Calls, WriteMsg(c)
    PROVE  PsInv'
  <1> DEFINE k == Mine(c).s
             ms == Unlocked(KeepStream(c, Mine(c)))
             a == IF c \in Requests THEN "read" ELSE "ok"
  <1>0. /\ call[c].at = "write" /\ To(c, a)
        /\ streams' = [streams EXCEPT ![k].out = Append(@, c)]
        /\ IF c \in Requests THEN UNCHANGED senders ELSE SetMine(c, ms)
        /\ UNCHANGED <<strmap, served, mishaps>>
    BY DEF WriteMsg
  <1>1. /\ call \in [Calls -> CallShape] /\ senders \in Seq(SenderShape)
        /\ streams \in Seq(StreamShape) /\ mishaps \in Nat
        /\ Mine(c).lk = c /\ k # 0 /\ ~Mine(c).invalid
    BY <1>0 DEF PsInv, PsShape, Exchange
  <1>2. /\ call[c].ms \in 1..Len(senders) /\ Mine(c) \in SenderShape
        /\ Len(streams) \in Nat /\ call[c].at # "idle" /\ call[c] \in CallShape
        /\ k \in 1..Len(streams) /\ streams[k] \in StreamShape
    BY <1>0, <1>1, MineShape DEF Stream
  <1>3. /\ Len(streams[k].in) = 0
        /\ \A i \in 1..Len(streams[k].out) : streams[k].out[i] \notin Requests
    BY <1>0, <1>1, NoneAwaited DEF Stream
  <1>4. streams[k].out \in Seq(Calls) /\ Append(streams[k].out, c) \in Seq(Calls)
    BY <1>2, AppendProperties DEF StreamShape
  <1>5. StreamNow(k, streams[k].up, Append(streams[k].out, c), streams[k].in)
    BY <1>0, <1>1, <1>2, <1>4, StreamFields DEF StreamShape
  <1>6. \E lk \in {c, Nobody}, s \in {0, k} :
            /\ SenderNow(call[c].ms, s, Mine(c).invalid, lk)
            /\ c \in Requests => lk = c /\ s = k
    <2>1. CASE c \in Requests
      BY <1>0, <1>1, <1>2, <2>1, SenderFields
    <2>2. CASE c \notin Requests
      <3>1. SenderNow(call[c].ms, ms.s, ms.invalid, ms.lk) /\ ms.s \in {0, k}
            /\ ms.invalid = Mine(c).invalid /\ ms.lk = Nobody
        BY <1>0, <1>1, <1>2, <2>2, KeepFields, SenderFields
      <3> HIDE DEF ms, k
      <3> QED BY <2>2, <3>1
    <2> QED BY <2>1, <2>2
  <1>7. CallNow(c, a, call[c].ms, call[c].retry, call[c].answer)
    BY <1>0, <1>1, <1>2, CallFields DEF At, To, CallShape
  <1>8. /\ OnlyMine(c) /\ Mine2(c).s \in {0, k} /\ ~Mine2(c).invalid
        /\ call'[c].at = a /\ call'[c].retry = call[c].retry
        /\ c \in Requests => Mine2(c).lk = c /\ Mine2(c).s = k
    BY <1>1, <1>2, <1>6, <1>7 DEF SenderNow, CallNow, OnlyMine, Mine2
  <1>9. /\ streams' \in Seq(StreamShape) /\ Len(streams') = Len(streams)
        /\ \A j \in 1..Len(streams) : j # k => streams'[j] = streams[j]
        /\ streams'[k].out = Append(streams[k].out, c) /\ streams'[k].in = streams[k].in
    BY <1>5 DEF StreamNow
  <1>10. PsShape' /\ Exchange' /\ OutOfMap' /\ OwnStream' /\ AnswerMatches'
    <2>1. /\ call'[c].at \notin {"loop", "write", "remove"}
          /\ call'[c].at = "read" => c \in Requests
          /\ call'[c].at = "ok" => c \notin Requests
      BY <1>8
    <2>2. Mine2(c).s = 0 \/ Mine2(c).s = Mine(c).s
      BY <1>8
    <2>3. Len(streams) <= Len(streams') /\ Mine(c).lk \in {c, Nobody} /\ mishaps' \in Nat
      BY <1>0, <1>1, <1>2, <1>9
    <2>4. /\ ~Mine2(c).invalid /\ ~Mine(c).invalid /\ UNCHANGED <<strmap, served>>
          /\ OnlyMine(c) /\ streams' \in Seq(StreamShape) /\ call[c].at # "idle"
          /\ c \in Requests => Mine2(c).lk = c /\ Mine2(c).s # 0
      BY <1>0, <1>1, <1>2, <1>8, <1>9
    <2> QED BY <2>1, <2>2, <2>3, <2>4, OwnStep
  <1>11. OneInFlight'
    <2>1. ASSUME Mine2(c).s # 0 PROVE Flight(call[c].ms, streams[Mine(c).s])'
      <3>1. Mine(c)'.s = k /\ call'[c].ms = call[c].ms
        BY <1>8, <2>1 DEF OnlyMine, Mine, Mine2
      <3>2. /\ Len(streams'[k].out) = Len(streams[k].out) + 1 /\ Len(streams[k].out) \in Nat
            /\ \A i \in 1..Len(streams[k].out) : streams'[k].out[i] = streams[k].out[i]
            /\ streams'[k].out[Len(streams[k].out) + 1] = c
        BY <1>4, <1>9, AppendProperties, LenProperties
      <3>3. c \in Requests => Awaited(call[c].ms, c)'
        BY <1>8, <3>1 DEF Awaited, Mine2
      <3>4. ASSUME NEW i \in 1..Len(streams'[k].out), streams'[k].out[i] \in Requests
            PROVE  streams'[k].out[i] = c
        <4>1. i \in 1..Len(streams[k].out) \/ i = Len(streams[k].out) + 1
          BY <3>2
        <4>2. CASE i \in 1..Len(streams[k].out)
          <5>1. streams[k].out[i] \in Requests
            BY <3>2, <3>4, <4>2
          <5> QED BY <1>3, <4>2, <5>1
        <4> QED BY <3>2, <4>1, <4>2
      <3>5. Len(streams'[k].in) = 0
        BY <1>3, <1>9
      <3> HIDE DEF k
      <3> QED BY <3>1, <3>3, <3>4, <3>5 DEF Flight
    <2> QED BY <1>1, <1>2, <1>8, <1>9, <2>1, OtherStreams, OwnFlight
  <1>12. OnceEach'
    <2>1. Written(c)' >= Written(c) + 1
      BY <1>0, <1>8 DEF Written
    <2>2. \A d \in Calls \ {c} : Written(d)' = Written(d)
      BY <1>8 DEF Written, OnlyMine
    <2>3. \A i \in 1..Len(streams[k].out) : streams[k].out[i] # c
      <3>1. CASE c \in Requests
        BY <1>3, <3>1
      <3>2. CASE c \notin Requests
        <4>1. Written(c) = 0
          BY <1>0, <3>2 DEF Written
        <4>2. Cardinality(On(c)) = 0
          BY <4>1, OnFinite DEF PsInv, OnceEach, PsShape
        <4>3. On(c) = {}
          BY <4>2, OnFinite, FS_EmptySet DEF PsInv
        <4> QED BY <1>2, <4>3 DEF On
      <3> QED BY <3>1, <3>2
    <2> HIDE DEF k
    <2> QED BY <1>0, <1>2, <1>4, <1>9, <1>10, <2>1, <2>2, <2>3, WrittenTo DEF PsInv
  <1> QED BY <1>10, <1>11, <1>12 DEF PsInv

\* The map of senders: a call takes the sender of the map, or a new one.
LEMMA PsSender ==
    ASSUME PsInv, NEW c \in Calls, SenderForPeer(c) \/ RemoveSender(c)
    PROVE  PsInv'
  <1> USE PeerStreamAssumption
  <1>0. /\ Len(senders) \in Nat /\ NewSender \in SenderShape /\ strmap \in 0..Len(senders)
        /\ call \in [Calls -> CallShape] /\ call[c] \in CallShape
        /\ senders \in Seq(SenderShape) /\ call[c].at \in {"idle", "remove"}
        /\ UNCHANGED <<streams, served, mishaps>>
        /\ call[c].at = "remove" => call[c].ms \in 1..Len(senders)
    BY LenProperties DEF PsInv, PsShape, NewSender, SenderShape, SenderForPeer,
       RemoveSender
  <1>1. ASSUME NEW a \in {"lock", "prep", "error"}, NEW ms,
               CallNow(c, a, ms, call[c].retry, call[c].answer),
               ms \in 1..Len(senders'), Len(senders) <= Len(senders'),
                  Len(senders') \in Nat,
               senders' \in Seq(SenderShape), strmap' \in 0..Len(senders'),
               \A n \in 1..Len(senders) : senders'[n] = senders[n],
               \A n \in 1..Len(senders') : n > Len(senders) => senders'[n] = NewSender,
               \A n \in 1..Len(senders') : n # strmap' => senders'[n].invalid
        PROVE  PsInv'
    <2>1. /\ \A d \in Calls : d # c => call'[d] = call[d]
          /\ call'[c].at = a /\ call'[c].ms = ms /\ call'[c].retry = call[c].retry
          /\ call' \in [Calls -> CallShape]
      BY <1>1 DEF CallNow
    <2>2. \A d \in Calls : d # c /\ call[d].at # "idle" =>
              /\ call[d].ms \in 1..Len(senders)
              /\ senders'[call'[d].ms] = senders[call[d].ms]
      BY <1>1, <2>1 DEF PsInv, PsShape
    <2>3. PsShape'
      <3>1. \A n \in 1..Len(senders') : senders'[n].s <= Len(streams')
        BY <1>0, <1>1, LenProperties DEF PsInv, PsShape, NewSender
      <3>2. \A d \in Calls : call'[d].at # "idle" => call'[d].ms \in 1..Len(senders')
        BY <1>0, <1>1, <2>1, <2>2
      <3> QED BY <1>0, <1>1, <2>1, <3>1, <3>2 DEF PsInv, PsShape
    <2>4. Exchange'
      BY <1>1, <2>1, <2>2 DEF PsInv, Exchange, Mine
    <2>5. OutOfMap'
      <3>1. \A n \in 1..Len(senders') : senders'[n].invalid => senders'[n].s = 0
        BY <1>0, <1>1 DEF PsInv, OutOfMap, NewSender
      <3>2. \A d \in Calls : call'[d].at = "remove" => senders'[call'[d].ms].invalid
        BY <1>1, <2>1, <2>2 DEF PsInv, OutOfMap, Mine
      <3> QED BY <1>1, <3>1, <3>2 DEF OutOfMap, Mine
    <2>6. \A n \in 1..Len(senders') : senders'[n].s # 0 =>
              n \in 1..Len(senders) /\ senders'[n] = senders[n]
      BY <1>0, <1>1 DEF NewSender
    <2>7. OwnStream'
      BY <2>6 DEF PsInv, OwnStream
    <2>8. OneInFlight'
      <3>1. ASSUME NEW n \in 1..Len(senders'), senders'[n].s # 0
            PROVE  Flight(n, streams[senders[n].s])'
        <4>1. \A r \in Requests : Awaited(n, r) => Awaited(n, r)'
          BY <1>0, <2>1, <2>6, <3>1 DEF Awaited
        <4> QED BY <1>0, <2>6, <3>1, <4>1, FlightKept DEF PsInv
      <3> QED BY <3>1 DEF OneInFlight
    <2>9. OnceEach'
      <3>1. ASSUME NEW d \in Calls PROVE Written(d)' >= Written(d)
        <4>1. CASE d = c
          BY <1>0, <1>1, <2>1, <4>1 DEF Written, CallShape
        <4>2. CASE d # c
          BY <2>1, <4>2 DEF Written
        <4> QED BY <4>1, <4>2
      <3> QED BY <1>0, <2>3, <3>1, NothingWritten, LenProperties DEF PsInv, PsShape
    <2>10. AnswerMatches'
      BY <1>1, <2>1 DEF PsInv, AnswerMatches
    <2> QED BY <2>3, <2>4, <2>5, <2>7, <2>8, <2>9, <2>10 DEF PsInv
  <1>2. CASE strmap # 0 /\ SenderForPeer(c)
    <2>1. call' = [call EXCEPT ![c].at = "lock", ![c].ms = strmap] /\ UNCHANGED <<senders, strmap>>
      BY <1>2 DEF SenderForPeer
    <2>2. CallNow(c, "lock", strmap, call[c].retry, call[c].answer)
      <3>1. strmap \in Nat /\ call \in [Calls -> CallShape]
        BY <1>0
      <3> QED BY ONLY <2>1, <3>1 DEF CallNow, CallShape, At
    <2> QED BY <1>0, <1>1, <1>2, <2>1, <2>2, SMTT(60) DEF PsInv, OutOfMap
  <1>3. CASE strmap = 0 /\ SenderForPeer(c)
    <2>1. /\ senders' = Append(senders, NewSender) /\ strmap' = Len(senders')
          /\ call' = [call EXCEPT ![c].at = "prep", ![c].ms = strmap']
      BY <1>3 DEF SenderForPeer
    <2>2. /\ Len(senders') = Len(senders) + 1 /\ senders' \in Seq(SenderShape)
          /\ \A n \in 1..Len(senders) : senders'[n] = senders[n]
          /\ senders'[Len(senders) + 1] = NewSender
      BY <1>0, <2>1, AppendProperties
    <2>3. CallNow(c, "prep", strmap', call[c].retry, call[c].answer)
      <3>1. strmap' \in Nat /\ call \in [Calls -> CallShape]
        BY <1>0, <2>1, <2>2
      <3> QED BY ONLY <2>1, <3>1 DEF CallNow, CallShape, At
    <2>4. \A n \in 1..Len(senders) : senders[n].invalid
      BY <1>3 DEF PsInv, OutOfMap
    <2>5. \A n \in 1..Len(senders') : n # strmap' => senders'[n].invalid
      BY <1>0, <2>1, <2>2, <2>4
    <2> QED BY <1>0, <1>1, <2>1, <2>2, <2>3, <2>5
  <1>4. CASE RemoveSender(c) /\ strmap # 0 /\ strmap # call[c].ms
    <2>1. call' = [call EXCEPT ![c].at = "lock", ![c].ms = strmap] /\ UNCHANGED <<senders, strmap>>
      BY <1>4 DEF RemoveSender
    <2>2. CallNow(c, "lock", strmap, call[c].retry, call[c].answer)
      <3>1. strmap \in Nat /\ call \in [Calls -> CallShape]
        BY <1>0
      <3> QED BY ONLY <2>1, <3>1 DEF CallNow, CallShape, At
    <2> QED BY <1>0, <1>1, <1>4, <2>1, <2>2, SMTT(60) DEF PsInv, OutOfMap
  <1>5. CASE RemoveSender(c) /\ ~(strmap # 0 /\ strmap # call[c].ms)
    <2>1. strmap' = 0 /\ To(c, "error") /\ UNCHANGED senders /\ call[c].at = "remove"
      BY <1>5 DEF RemoveSender
    <2>2. CallNow(c, "error", call[c].ms, call[c].retry, call[c].answer)
      BY <1>0, <2>1, CallFields DEF At, CallShape, To
    <2>3. \A n \in 1..Len(senders) : senders[n].invalid
      BY <1>0, <1>5, <2>1 DEF PsInv, OutOfMap, Mine
    <2> QED BY <1>0, <1>1, <2>1, <2>2, <2>3
  <1> QED BY <1>2, <1>3, <1>4, <1>5

\* A step of the peer or of the connection, which changes one stream: nothing
\* is added to the way out, and at most the request that was served to the way
\* back.
LEMMA StreamStep ==
    ASSUME PsInv, NEW k \in 1..Len(streams), NEW u, NEW o \in Seq(Calls), NEW i,
           StreamNow(k, u, o, i), UNCHANGED <<senders, strmap, call>>, mishaps' \in Nat,
           \A n \in 1..Len(senders) : senders[n].s = k =>
               Flight(n, [up |-> u, out |-> o, in |-> i]),
           served' \in [Calls -> Nat], OnceEach'
    PROVE  PsInv'
  <1>0. Len(streams') = Len(streams) /\ Len(streams) \in Nat /\ streams' \in Seq(StreamShape)
    BY LenProperties DEF StreamNow, PsInv, PsShape
  <1>1. PsShape'
    BY <1>0 DEF PsInv, PsShape
  <1>2. Exchange' /\ OutOfMap' /\ OwnStream' /\ AnswerMatches'
    BY DEF PsInv, Exchange, OutOfMap, OwnStream, AnswerMatches, Mine
  <1>3. OneInFlight'
    <2>1. ASSUME NEW n \in 1..Len(senders), senders[n].s # 0
          PROVE  Flight(n, streams[senders[n].s])'
      <3>1. senders[n].s \in 1..Len(streams)
        <4>1. senders[n] \in SenderShape
          BY ElementOfSeq DEF PsInv, PsShape
        <4> QED BY <1>0, <2>1, <4>1 DEF PsInv, PsShape, SenderShape
      <3>2. \A r : Awaited(n, r)' <=> Awaited(n, r)
        BY DEF Awaited
      <3>3. CASE senders[n].s = k
        BY <3>2, <3>3 DEF Flight, StreamNow
      <3>4. CASE senders[n].s # k
        <4>1. streams'[senders[n].s] = streams[senders[n].s]
          BY <3>1, <3>4 DEF StreamNow
        <4> QED BY <2>1, <3>2, <4>1 DEF PsInv, OneInFlight, Flight
      <3> QED BY <3>3, <3>4
    <2> QED BY <2>1 DEF OneInFlight
  <1> QED BY <1>1, <1>2, <1>3 DEF PsInv

\* The first call on a stream is handled, or is lost with others behind it.
LEMMA TakenFrom ==
    ASSUME PsShape, PsShape', OnceEach, UNCHANGED call,
           NEW k \in 1..Len(streams), Len(streams') = Len(streams),
           \A j \in 1..Len(streams) : j # k => streams'[j] = streams[j],
           streams[k].out \in Seq(Calls), streams[k].out # <<>>,
           streams'[k].out \in {Tail(streams[k].out), <<>>},
           \/ UNCHANGED served
           \/ served' = [served EXCEPT ![Head(streams[k].out)] = @ + 1]
    PROVE  OnceEach'
  <1>a. PICK h \in Calls : h = Head(streams[k].out)
    BY HeadTailProperties
  <1>1. /\ h \in Calls /\ h = streams[k].out[1]
        /\ Len(streams[k].out) \in Nat /\ Len(streams[k].out) # 0
    BY <1>a, HeadTailProperties, EmptySeq
  <1>2. /\ Len(streams'[k].out) \in Nat /\ Len(streams'[k].out) < Len(streams[k].out)
        /\ \A x \in 1..Len(streams'[k].out) :
               /\ x + 1 \in 1..Len(streams[k].out)
               /\ streams'[k].out[x] = streams[k].out[x + 1]
    <2>1. CASE streams'[k].out = <<>>
      BY <1>1, <2>1, EmptySeq
    <2>2. CASE streams'[k].out = Tail(streams[k].out)
      <3>1. /\ Len(streams'[k].out) = Len(streams[k].out) - 1
            /\ \A x \in 1..Len(streams'[k].out) : streams'[k].out[x] = streams[k].out[x + 1]
        BY <2>2, HeadTailProperties
      <3> QED BY <1>1, <3>1
    <2> QED BY <2>1, <2>2
  <1>3. ASSUME NEW d \in Calls
        PROVE  On(d)' \subseteq On(d)
    <2> SUFFICES ASSUME NEW j \in 1..Len(streams), NEW x \in 1..Len(streams'[j].out),
                        streams'[j].out[x] = d
                 PROVE  \E y \in 1..Len(streams[j].out) : streams[j].out[y] = d
      BY DEF On
    <2>1. CASE j = k
      BY <1>2, <2>1
    <2>2. CASE j # k
      BY <2>2
    <2> QED BY <2>1, <2>2
  <1>4. ASSUME NEW d \in Calls
        PROVE  /\ Cardinality(On(d)) \in Nat /\ IsFiniteSet(On(d))
               /\ Cardinality(On(d)') \in Nat
    BY <1>3, OnFinite, FS_Subset, FS_CardinalityType
  <1>5. k \in On(h) /\ k \notin On(h)'
    <2>1. k \in On(h)
      BY <1>1 DEF On
    <2>2. ASSUME NEW x \in 1..Len(streams'[k].out), streams'[k].out[x] = h PROVE FALSE
      <3>1. streams[k].out[x + 1] = streams[k].out[1] /\ x + 1 \in 1..Len(streams[k].out)
        BY <1>1, <1>2, <2>2
      <3>2. 1 \in 1..Len(streams[k].out)
        BY <1>1
      <3>3. x + 1 = 1
        BY <3>1, <3>2 DEF OnceEach
      <3> QED BY <1>2, <3>3
    <2>3. \A x \in 1..Len(streams'[k].out) : streams'[k].out[x] # h
      BY <2>2
    <2> QED BY <2>1, <2>3 DEF On
  <1>6. ASSUME NEW d \in Calls PROVE Cardinality(On(d)') <= Cardinality(On(d))
    BY <1>3, <1>4, FS_Subset
  <1>7. Cardinality(On(h)') < Cardinality(On(h))
    <2>1. On(h)' \subseteq On(h) \ {k}
      BY <1>1, <1>3, <1>5
    <2>2. IsFiniteSet(On(h) \ {k}) /\ Cardinality(On(h) \ {k}) = Cardinality(On(h)) - 1
      BY <1>1, <1>4, <1>5, FS_RemoveElement
    <2>3. Cardinality(On(h)') <= Cardinality(On(h) \ {k})
      BY <2>1, <2>2, FS_Subset
    <2> QED BY <1>1, <1>4, <2>2, <2>3
  <1>8. \A d \in Calls : Written(d)' = Written(d) /\ Written(d) \in Nat
    BY DEF Written
  <1>9. \A d \in Calls : served'[d] + Cardinality(On(d)') <= Written(d)'
    <2> SUFFICES ASSUME NEW d \in Calls
                 PROVE  served'[d] + Cardinality(On(d)') <= Written(d)'
      OBVIOUS
    <2>1. /\ served[d] \in Nat /\ served'[d] \in Nat
          /\ served'[d] = served[d] \/ (d = h /\ served'[d] = served[d] + 1)
      BY <1>a DEF PsShape
    <2>2. served[d] + Cardinality(On(d)) <= Written(d)
      BY DEF OnceEach
    <2> QED BY <1>4, <1>6, <1>7, <1>8, <2>1, <2>2, SMTT(60)
  <1>10. ASSUME NEW j \in 1..Len(streams'), NEW x \in 1..Len(streams'[j].out),
                NEW y \in 1..Len(streams'[j].out), streams'[j].out[x] = streams'[j].out[y]
         PROVE  x = y
    <2>1. CASE j # k
      BY <1>10, <2>1 DEF OnceEach
    <2>2. CASE j = k
      <3>1. /\ x + 1 \in 1..Len(streams[k].out) /\ y + 1 \in 1..Len(streams[k].out)
            /\ streams[k].out[x + 1] = streams[k].out[y + 1]
        BY <1>2, <1>10, <2>2
      <3>2. x + 1 = y + 1
        BY <3>1 DEF OnceEach
      <3> QED BY <1>2, <1>10, <2>2, <3>2
    <2> QED BY <2>1, <2>2
  <1> QED BY <1>9, <1>10 DEF OnceEach

LEMMA PsPeer ==
    ASSUME PsInv, NEW k \in DOMAIN streams, Serve(k) \/ ServeFails(k) \/ Break(k)
    PROVE  PsInv'
  <1> DEFINE out == streams[k].out
             in == streams[k].in
             up == streams[k].up
  <1>0. /\ streams \in Seq(StreamShape) /\ k \in 1..Len(streams) /\ streams[k] \in StreamShape
        /\ out \in Seq(Calls) /\ in \in Seq(Calls) /\ up \in BOOLEAN
        /\ Len(out) \in Nat /\ Len(in) \in Nat
        /\ served \in [Calls -> Nat] /\ mishaps \in Nat /\ <<>> \in Seq(Calls)
        /\ UNCHANGED <<senders, strmap, call>>
    <2>1. streams \in Seq(StreamShape) /\ k \in 1..Len(streams)
      BY LenProperties DEF PsInv, PsShape
    <2>2. streams[k] \in StreamShape
      BY <2>1, ElementOfSeq
    <2>3. Len(out) \in Nat /\ Len(in) \in Nat
      BY <2>2, LenProperties DEF StreamShape
    <2> QED BY <2>1, <2>2, <2>3, EmptySeq DEF StreamShape, PsInv, PsShape, Serve,
      ServeFails, Break
  <1>1. ASSUME NEW n \in 1..Len(senders), senders[n].s = k PROVE Flight(n, streams[k])
    BY <1>0, <1>1, SMTT(60) DEF PsInv, OneInFlight
  <1>2. ASSUME out # <<>>
        PROVE  /\ Head(out) \in Calls /\ Tail(out) \in Seq(Calls) /\ Head(out) = out[1]
               /\ Len(out) > 0 /\ Len(Tail(out)) = Len(out) - 1
               /\ \A x \in 1..Len(Tail(out)) : x + 1 \in 1..Len(out) /\ Tail(out)[x] = out[x + 1]
    <2>1. /\ Head(out) \in Calls /\ Tail(out) \in Seq(Calls) /\ Head(out) = out[1]
          /\ Len(Tail(out)) = Len(out) - 1
          /\ \A x \in 1..Len(Tail(out)) : Tail(out)[x] = out[x + 1]
      BY <1>0, <1>2, HeadTailProperties
    <2>2. Len(out) > 0
      BY <1>0, <1>2, EmptySeq
    <2> HIDE DEF out
    <2> QED BY <1>0, <2>1, <2>2
  <1>3. ASSUME NEW n, NEW u, NEW o, NEW i, Flight(n, streams[k]),
               o = out \/ o = <<>> \/ (out # <<>> /\ o = Tail(out)), i = in \/ i = <<>>
        PROVE  Flight(n, [up |-> u, out |-> o, in |-> i])
    <2>1. \A x \in 1..Len(o) : \E y \in 1..Len(out) : o[x] = out[y]
      <3>1. CASE o = out
        BY <3>1
      <3>2. CASE o = <<>>
        BY <3>2, EmptySeq
      <3>3. CASE o = Tail(out)
        BY <1>2, <1>3, <3>3
      <3> QED BY <1>3, <3>1, <3>2, <3>3
    <2>2. /\ \A x \in 1..Len(i) : Awaited(n, i[x])
          /\ Len(i) <= 1 /\ (Len(i) = 1 => Len(in) = 1)
      <3>1. CASE i = in
        BY <1>3, <3>1 DEF Flight
      <3>2. CASE i = <<>>
        BY <3>2, EmptySeq
      <3> QED BY <1>3, <3>1, <3>2
    <2>3. /\ \A x \in 1..Len(out) : out[x] \in Requests => Awaited(n, out[x])
          /\ Len(in) = 1 => \A x \in 1..Len(out) : out[x] \notin Requests
      BY <1>3 DEF Flight
    <2> HIDE DEF out, in
    <2> QED BY <2>1, <2>2, <2>3 DEF Flight
  <1>4. CASE Serve(k)
    <2> DEFINE c == Head(out)
               answered == c \in Requests /\ up
               i == IF answered THEN Append(in, c) ELSE in
    <2>1. /\ out # <<>> /\ served' = [served EXCEPT ![c] = @ + 1] /\ UNCHANGED mishaps
          /\ streams' = [streams EXCEPT ![k].out = Tail(out), ![k].in = i]
      BY <1>4 DEF Serve
    <2>2. i \in Seq(Calls)
      BY <1>0, <1>2, <2>1, AppendProperties
    <2>3. StreamNow(k, up, Tail(out), i)
      BY <1>0, <1>2, <2>1, <2>2, StreamFields
    <2>4. ASSUME NEW n \in 1..Len(senders), senders[n].s = k
          PROVE  Flight(n, [up |-> up, out |-> Tail(out), in |-> i])
      <3>1. CASE ~answered
        BY <1>1, <1>3, <2>1, <2>4, <3>1
      <3>2. CASE answered
        <4>1. Awaited(n, c) /\ Len(in) = 0
          <5>1. Flight(n, streams[k]) /\ 1 \in 1..Len(out) /\ out[1] = c
            BY <1>0, <1>1, <1>2, <2>1, <2>4
          <5>2. /\ out[1] \in Requests => Awaited(n, out[1])
                /\ Len(in) <= 1 /\ (Len(in) = 1 => out[1] \notin Requests)
            BY <5>1 DEF Flight
          <5>3. c \in Requests /\ Len(in) \in Nat
            BY <1>0, <3>2
          <5> HIDE DEF out, in, c
          <5>4. Len(in) = 0
            <6>1. Len(in) # 1
              BY <5>1, <5>2, <5>3
            <6>2. Len(in) <= 1
              BY <5>2
            <6> QED BY <5>3, <6>1, <6>2
          <5>5. Awaited(n, c)
            BY ONLY <5>1, <5>2, <5>3
          <5> QED BY <5>4, <5>5
        <4>2. \A x \in 1..Len(Tail(out)) : Tail(out)[x] \notin Requests
          <5> SUFFICES ASSUME NEW x \in 1..Len(Tail(out)), Tail(out)[x] \in Requests PROVE FALSE
            OBVIOUS
          <5>1. x + 1 \in 1..Len(out) /\ out[x + 1] \in Requests /\ 1 \in 1..Len(out)
            BY <1>0, <1>2, <2>1
          <5>2. Awaited(n, out[x + 1])
            BY <1>1, <2>4, <5>1 DEF Flight
          <5>3. out[x + 1] = out[1]
            BY <1>2, <2>1, <4>1, <5>2 DEF Awaited
          <5>4. x + 1 = 1
            BY <1>0, <5>1, <5>3 DEF PsInv, OnceEach
          <5> QED BY <1>0, <1>2, <2>1, <5>4
        <4>3. Len(i) = 1 /\ i[1] = c
          BY <1>0, <1>2, <2>1, <3>2, <4>1, AppendProperties
        <4>4. \A x \in 1..Len(i) : Awaited(n, i[x])
          <5>1. \A x \in 1..1 : x = 1
            OBVIOUS
          <5> HIDE DEF i, c
          <5> QED BY <4>1, <4>3, <5>1
        <4> HIDE DEF i, c, out
        <4> DEFINE t == Tail(out)
        <4>6. \A x \in 1..Len(t) : t[x] \notin Requests
          BY <4>2
        <4> HIDE DEF t
        <4>7. Flight(n, [up |-> up, out |-> t, in |-> i])
          BY <4>3, <4>4, <4>6, SMTT(60) DEF Flight
        <4> QED BY <4>7 DEF t
      <3> QED BY <3>1, <3>2
    <2>5. PsShape'
      BY <1>0, <1>2, <2>1, <2>3, SMTT(60) DEF PsInv, PsShape, StreamNow
    <2>6. OnceEach'
      BY <1>0, <2>1, <2>3, <2>5, TakenFrom DEF PsInv, StreamNow
    <2> QED BY <1>0, <1>2, <2>1, <2>2, <2>3, <2>4, <2>5, <2>6, StreamStep DEF PsShape
  <1>5. CASE ServeFails(k)
    <2>1. /\ out # <<>> /\ mishaps' \in Nat
          /\ \/ streams' = [streams EXCEPT ![k].out = Tail(out)] /\ UNCHANGED served
             \/ /\ streams' = [streams EXCEPT ![k] = [up |-> FALSE, out |-> <<>>, in |-> <<>>]]
                /\ served' = [served EXCEPT ![Head(out)] = @ + 1]
      BY <1>0, <1>5, SMTT(60) DEF ServeFails, Mishap
    <2>2. \E u, i, o : /\ StreamNow(k, u, o, i) /\ o \in {Tail(out), <<>>} /\ i \in {in, <<>>}
      BY <1>0, <1>2, <2>1, StreamFields
    <2>3. PICK u, i, o : /\ StreamNow(k, u, o, i) /\ o \in {Tail(out), <<>>} /\ i \in {in, <<>>}
      BY <2>2
    <2>4. served' \in [Calls -> Nat]
      BY <1>0, <1>2, <2>1
    <2>5. PsShape'
      BY <1>0, <2>1, <2>3, <2>4 DEF PsInv, PsShape, StreamNow
    <2>6. OnceEach'
      BY <1>0, <2>1, <2>3, <2>5, TakenFrom DEF PsInv, StreamNow
    <2>7. ASSUME NEW n \in 1..Len(senders), senders[n].s = k
          PROVE  Flight(n, [up |-> u, out |-> o, in |-> i])
      BY <1>1, <1>3, <2>1, <2>3, <2>7
    <2> QED BY <1>0, <1>2, <2>1, <2>3, <2>4, <2>6, <2>7, StreamStep
  <1>6. CASE Break(k)
    <2>1. /\ streams' = [streams EXCEPT ![k].up = FALSE, ![k].in = <<>>] /\ UNCHANGED served
          /\ mishaps' \in Nat
      BY <1>0, <1>6 DEF Break, Mishap
    <2>2. StreamNow(k, FALSE, out, <<>>)
      BY <1>0, <2>1, StreamFields
    <2>3. PsShape'
      BY <1>0, <2>1, <2>2 DEF PsInv, PsShape, StreamNow
    <2>4. /\ Len(streams) \in Nat /\ Len(streams') = Len(streams)
          /\ \A j \in 1..Len(streams) : streams'[j].out = streams[j].out
      BY <1>0, <2>2, LenProperties DEF StreamNow
    <2>5. \A d \in Calls : Written(d)' >= Written(d)
      BY <1>0 DEF Written
    <2>6. OnceEach'
      BY <2>1, <2>3, <2>4, <2>5, NothingWritten DEF PsInv
    <2>7. ASSUME NEW n \in 1..Len(senders), senders[n].s = k
          PROVE  Flight(n, [up |-> FALSE, out |-> out, in |-> <<>>])
      BY <1>1, <1>3, <2>7
    <2> QED BY <1>0, <2>1, <2>2, <2>6, <2>7, StreamStep
  <1> QED BY <1>4, <1>5, <1>6

\* Whoever calls, waits, times out and retries, the exchanges of all calls keep
\* apart on the streams of the peer (service.go, sender.go).
THEOREM StreamsInvariant == PsSpec => []PsInv
  <1>1. ASSUME PsInv, [PsNext]_psVars PROVE PsInv'
    <2>1. ASSUME NEW c \in Calls, CallStep(c) PROVE PsInv'
      BY <1>1, <2>1, PsPrep, PsGiveUp, PsRead, PsSender DEF CallStep
    <2>2. ASSUME UNCHANGED <<senders, strmap, call, streams, served, mishaps>> PROVE PsInv'
      <3>1. PsShape' /\ Exchange' /\ OutOfMap' /\ OwnStream' /\ AnswerMatches'
        BY <1>1, <2>2 DEF PsInv, PsShape, Exchange, OutOfMap, OwnStream, AnswerMatches,
           Mine
      <3>2. OneInFlight'
        <4>1. \A n, r : Awaited(n, r)' <=> Awaited(n, r)
          BY <2>2 DEF Awaited
        <4>2. \A n : Flight(n, streams[senders[n].s])' <=> Flight(n, streams[senders[n].s])
          BY <2>2, <4>1 DEF Flight
        <4> QED BY <1>1, <2>2, <4>2 DEF PsInv, OneInFlight
      <3>3. \A c \in Calls : On(c)' = On(c) /\ Written(c)' = Written(c)
        BY <2>2 DEF On, Written
      <3>4. OnceEach'
        BY <1>1, <2>2, <3>3 DEF PsInv, OnceEach
      <3> QED BY <3>1, <3>2, <3>4 DEF PsInv
    <2>3. ASSUME NEW c \in Calls, Expire(c) PROVE PsInv'
      BY <2>2, <2>3 DEF Expire
    <2>4. CASE UNCHANGED psVars
      BY <2>2, <2>4 DEF psVars
    <2>5. ASSUME NEW c \in Calls, WriteMsg(c) PROVE PsInv'
      BY <1>1, <2>5, PsWrite
    <2> QED BY <1>1, <2>1, <2>3, <2>4, <2>5, PsSender, PsPeer DEF PsNext, PsProgress
  <1> QED BY PsInitOK, <1>1, PTL DEF PsSpec

LEMMA StreamsFollow == PsInv => StreamsSound
  <1> SUFFICES ASSUME PsInv PROVE StreamsSound
    OBVIOUS
  <1>1. AnswerMatches
    BY DEF PsInv
  <1>2. ServedAtMostTwice
    <2> SUFFICES ASSUME NEW c \in Calls PROVE served[c] <= 2
      BY DEF ServedAtMostTwice
    <2>1. /\ served[c] \in Nat /\ Cardinality(On(c)) \in Nat
          /\ served[c] + Cardinality(On(c)) <= Written(c)
      BY OnFinite DEF PsInv, PsShape, OnceEach
    <2>2. Written(c) \in 0..2
      BY DEF Written
    <2> QED BY <2>1, <2>2
  <1>3. NoStreamLeak
    <2>1. DOMAIN senders = 1..Len(senders)
      BY LenProperties DEF PsInv, PsShape
    <2> QED BY <2>1 DEF PsInv, OutOfMap, NoStreamLeak
  <1> QED BY <1>1, <1>2, <1>3 DEF StreamsSound

\* However calls give up and streams break: no call takes the answer of
\* another, a request is served twice at most, and a sender that left the map
\* keeps no stream (sender.go).
THEOREM StreamsAlwaysSound == PsSpec => []StreamsSound
  BY StreamsInvariant, StreamsFollow, PTL

-----------------------------------------------------------------------------
(* Search                                                                    *)

\* A result that is on its way, or was given to the consumer.
Carried(i) ==
    \/ i \in localLeft \/ i \in received
    \/ \E s \in Sources : hand[s] = i
    \/ \E c \in Channels : copier[c] = i

\* What the result set has is on its way, or something as new.
SetCarried ==
    \A x \in Ids : found[x] # 0 =>
        \E i \in Item : i.id = x /\ Carried(i) /\ (plan.hideOlder => i.date >= found[x])

\* The answers of a source are read in their order.
ReadInOrder ==
    \A s \in Sources :
        /\ Len(rest[s]) <= Len(plan.remote[s])
        /\ \A k \in 1..Len(rest[s]) :
              rest[s][k] = plan.remote[s][k + (Len(plan.remote[s]) - Len(rest[s]))]

\* What was read is in the result set.
ReadFound ==
    \A s \in Sources : \A k \in 1..(Len(plan.remote[s]) - Len(rest[s])) :
        LET i == plan.remote[s][k]
        IN  found[i.id] # 0 /\ (plan.hideOlder => found[i.id] >= i.date)

\* Sources are asked when the own index is read; a channel is closed when nothing
\* is left for it, and so are the merged results.
Closing ==
    /\ seeker \in {"local", "failing"} => \A s \in Sources : reader[s] = "off"
    /\ seeker # "local" => localLeft = {}
    /\ \A s \in Sources : /\ reader[s] = "off" => rest[s] = plan.remote[s]
                          /\ reader[s] # "sending" => hand[s] = Nothing
    /\ seeker = "closed" => \A s \in Sources : reader[s] \in {"off", "done"}
    /\ consumer = "done" => seeker = "closed" /\ \A c \in Channels : copier[c] = Nothing

\* What was found in the own index counts only if sources are asked.
Asked == seeker = "local" \/ \E s \in Sources : reader[s] # "off"

SearchInv ==
    /\ SearchTypeOK /\ ReadInOrder /\ ReadFound /\ Closing
    /\ Asked => SetCarried

\* A finite set of numbers has a last one: nothing is above it.
LEMMA LastOf ==
    ASSUME NEW D, D \subseteq Nat, IsFiniteSet(D), D # {}
    PROVE  \E d \in D : \A e \in D : e <= d
  <1> DEFINE Above(n) == {e \in D : e > n}
  <1>1. PICK F : F = {Above(n) : n \in D}
    OBVIOUS
  <1>2. F # {} /\ F \subseteq SUBSET D /\ \A n \in D : Above(n) \in F
    BY <1>1
  <1>3. FiniteSubsetsOf(D) = SUBSET D
    BY FS_FiniteSubsetsOfFinite
  <1>4. IsWellFoundedOn(StrictSubsetOrdering(D), SUBSET D)
    BY <1>3, FS_StrictSubsetOrderingWellFounded
  <1>5. PICK A \in F : \A B \in F : <<B, A>> \notin StrictSubsetOrdering(D)
    <2> HIDE DEF Above
    <2> QED BY <1>2, <1>4, WFMin
  <1>6. PICK d \in D : A = Above(d)
    BY <1>1
  <1>7. ASSUME NEW e \in D, e > d PROVE FALSE
    <2>1. e \in Nat /\ d \in Nat
      OBVIOUS
    <2>2. \A x \in Above(e) : x \in Above(d)
      <3>1. ASSUME NEW x \in D, x > e PROVE x > d
        <4>1. x \in Nat
          OBVIOUS
        <4> QED BY <1>7, <2>1, <3>1, <4>1
      <3> QED BY <3>1
    <2>3. e \in Above(d) /\ e \notin Above(e)
      BY <1>7, <2>1
    <2>4. PICK B : B = Above(e)
      OBVIOUS
    <2>5. B \in F /\ B \subseteq A /\ B # A /\ B \in SUBSET D /\ A \in SUBSET D
      BY <1>2, <1>6, <2>2, <2>3, <2>4
    <2>6. <<B, A>> \in StrictSubsetOrdering(D)
      BY <2>5 DEF StrictSubsetOrdering
    <2> QED BY <1>5, <2>5, <2>6
  <1>8. ASSUME NEW e \in D PROVE e <= d
    <2>1. e \in Nat /\ d \in Nat /\ ~(e > d)
      BY <1>7
    <2> QED BY <2>1
  <1> QED BY <1>8

LEMMA NothingIs == Nothing \notin Item /\ (\A d \in Dates : d \in Nat /\ d # 0)
  BY SearchAssumption DEF Nothing, Item

LEMMA SearchTyped == SearchTypeOK /\ [SearchNext]_searchVars => SearchTypeOK'
  <1> SUFFICES ASSUME SearchTypeOK, [SearchNext]_searchVars PROVE SearchTypeOK'
    OBVIOUS
  <1>1. CASE UNCHANGED searchVars
    BY <1>1 DEF SearchTypeOK, searchVars
  <1>2. ASSUME NEW i \in Item, LocalSend(i) PROVE SearchTypeOK'
    BY <1>2 DEF SearchTypeOK, LocalSend
  <1>3. CASE LocalFails
    BY <1>3 DEF SearchTypeOK, LocalFails
  <1>4. CASE LocalEnd
    BY <1>4 DEF SearchTypeOK, LocalEnd
  <1>5. ASSUME NEW s \in Sources, ReadResult(s) PROVE SearchTypeOK'
    <2>1. PICK i : i = Head(rest[s])
      OBVIOUS
    <2>2. rest[s] \in Seq(Item) /\ rest[s] # <<>>
      BY <1>5 DEF SearchTypeOK, ReadResult
    <2>3. i \in Item /\ Tail(rest[s]) \in Seq(Item)
      BY <2>1, <2>2, HeadTailProperties
    <2>4. i.id \in Ids /\ i.date \in Dates
      BY <2>3 DEF Item
    <2>5. rest' \in [Sources -> Seq(Item)]
      BY <1>5, <2>3 DEF SearchTypeOK, ReadResult
    <2>6. [found EXCEPT ![i.id] = i.date] \in [Ids -> Dates \cup {0}]
      BY <2>4 DEF SearchTypeOK
    <2>7. found' = [found EXCEPT ![i.id] = i.date] \/ found' = found
      BY <1>5, <2>1 DEF ReadResult
    <2>8. quit' \in BOOLEAN
      BY <1>5, <2>1 DEF SearchTypeOK, ReadResult, Full
    <2>9. hand' = [hand EXCEPT ![s] = i] \/ hand' = hand
      BY <1>5, <2>1 DEF ReadResult
    <2>10. hand' \in [Sources -> Item \cup {Nothing}]
      BY <2>3, <2>9 DEF SearchTypeOK
    <2>11. reader' = [reader EXCEPT ![s] = "sending"] \/ reader' = reader
      BY <1>5 DEF ReadResult
    <2>12. reader' \in [Sources -> {"off", "reading", "sending", "failing", "done"}]
      BY <2>11 DEF SearchTypeOK
    <2>13. UNCHANGED <<plan, seeker, localLeft, copier, consumer, received>>
      BY <1>5 DEF ReadResult
    <2> QED BY <2>5, <2>6, <2>7, <2>8, <2>10, <2>12, <2>13 DEF SearchTypeOK
  <1>6. ASSUME NEW s \in Sources, SendResult(s) PROVE SearchTypeOK'
    <2>1. quit' \in BOOLEAN
      BY <1>6 DEF SearchTypeOK, SendResult, Full
    <2>2. /\ copier' = [copier EXCEPT ![s] = hand[s]] /\ hand' = [hand EXCEPT ![s] = Nothing]
          /\ reader' = [reader EXCEPT ![s] = "reading"]
          /\ UNCHANGED <<plan, seeker, localLeft, found, rest, consumer, received>>
      BY <1>6 DEF SendResult
    <2> QED BY <2>1, <2>2 DEF SearchTypeOK
  <1>7. ASSUME NEW s \in Sources, ReadEnd(s) PROVE SearchTypeOK'
    BY <1>7 DEF SearchTypeOK, ReadEnd
  <1>8. ASSUME NEW s \in Sources, ReadFails(s) PROVE SearchTypeOK'
    BY <1>8 DEF SearchTypeOK, ReadFails
  <1>9. ASSUME NEW s \in Sources, SourceError(s) PROVE SearchTypeOK'
    BY <1>9 DEF SearchTypeOK, SourceError
  <1>10. CASE LocalError
    BY <1>10 DEF SearchTypeOK, LocalError
  <1>11. CASE CloseChannels
    BY <1>11 DEF SearchTypeOK, CloseChannels
  <1>12. ASSUME NEW c \in Channels, Merge(c) PROVE SearchTypeOK'
    <2>1. copier[c] \in Item
      BY <1>12 DEF SearchTypeOK, Merge
    <2> QED BY <1>12, <2>1 DEF SearchTypeOK, Merge
  <1>13. CASE ResultsEnd
    BY <1>13 DEF SearchTypeOK, ResultsEnd
  <1>14. CASE Cancel
    BY <1>14 DEF SearchTypeOK, Cancel
  <1> QED BY <1>1, <1>2, <1>3, <1>4, <1>5, <1>6, <1>7, <1>8, <1>9, <1>10, <1>11, <1>12, <1>13,
             <1>14 DEF SearchNext, SearchProgress

\* A step by which no result gets lost and no source is read.
LEMMA NothingRead ==
    ASSUME SearchInv, UNCHANGED <<plan, found, rest>>, Asked' => Asked,
           \A i \in Item : Carried(i) => Carried(i)'
    PROVE  ReadInOrder' /\ ReadFound' /\ (Asked' => SetCarried')
  <1>1. ReadInOrder' /\ ReadFound'
    BY DEF SearchInv, ReadInOrder, ReadFound
  <1>2. ASSUME Asked' PROVE SetCarried'
    <2>1. SetCarried
      BY <1>2 DEF SearchInv
    <2> SUFFICES ASSUME NEW x \in Ids, found[x] # 0
                 PROVE  \E i \in Item : i.id = x /\ Carried(i)' /\ (plan.hideOlder => i.date >= found[x])
      BY DEF SetCarried
    <2>2. PICK i \in Item : i.id = x /\ Carried(i) /\ (plan.hideOlder => i.date >= found[x])
      BY <2>1 DEF SetCarried
    <2> QED BY <2>2
  <1> QED BY <1>1, <1>2

LEMMA SearchStart == SearchInit => SearchInv
  <1> SUFFICES ASSUME SearchInit PROVE SearchInv
    OBVIOUS
  <1>1. plan \in Plan /\ IsFiniteSet(plan.local)
    BY SearchAssumption DEF SearchInit
  <1>2. plan.local \subseteq Item /\ plan.remote \in [Sources -> Seq(Item)]
    BY <1>1 DEF Plan
  <1>3. ASSUME NEW x \in Ids
        PROVE  /\ found[x] \in Dates \cup {0}
               /\ found[x] # 0 => \E i \in plan.local : i.id = x /\ i.date = found[x]
    <2>1. PICK D : D = {i.date : i \in {j \in plan.local : j.id = x}}
      OBVIOUS
    <2>2. found[x] = IF D = {} THEN 0 ELSE CHOOSE d \in D : \A e \in D : e <= d
      BY <2>1 DEF SearchInit, SearchLocal
    <2>3. D \subseteq Dates /\ D \subseteq Nat
      BY <1>2, <2>1, NothingIs DEF Item
    <2>4. IsFiniteSet(D)
      <3>1. PICK J : J = {j \in plan.local : j.id = x}
        OBVIOUS
      <3>2. IsFiniteSet(J)
        BY <1>1, <3>1, FS_Subset
      <3>3. PICK r : r = [i \in J |-> i.date]
        OBVIOUS
      <3>4. r \in Surjection(J, D)
        BY <2>1, <3>1, <3>3 DEF Surjection
      <3> QED BY <3>2, <3>4, FS_Surjection
    <2>5. ASSUME D # {} PROVE found[x] \in D
      <3>1. \E d \in D : \A e \in D : e <= d
        BY <2>3, <2>4, <2>5, LastOf
      <3> QED BY <2>2, <2>5, <3>1
    <2> QED BY <2>1, <2>2, <2>3, <2>5
  <1>4. SearchTypeOK
    <2>1. found \in [Ids -> Dates \cup {0}]
      <3>1. found = [x \in Ids |-> found[x]]
        BY DEF SearchInit, SearchLocal
      <3> QED BY <1>3, <3>1
    <2> QED BY <1>2, <2>1 DEF SearchInit, SearchTypeOK
  <1>5. ReadInOrder /\ ReadFound
    BY <1>2, LenProperties DEF SearchInit, ReadInOrder, ReadFound
  <1>6. Closing
    BY DEF SearchInit, Closing
  <1>7. SetCarried
    <2> SUFFICES ASSUME NEW x \in Ids, found[x] # 0
                 PROVE  \E i \in Item : i.id = x /\ Carried(i) /\ (plan.hideOlder => i.date >= found[x])
      BY DEF SetCarried
    <2>1. PICK i \in plan.local : i.id = x /\ i.date = found[x]
      BY <1>3
    <2>2. i \in Item /\ i \in localLeft
      BY <1>2, <2>1 DEF SearchInit
    <2>3. i.date \in Nat
      BY <2>2, NothingIs DEF Item
    <2>4. i.date >= found[x]
      BY <2>1, <2>3
    <2> QED BY <2>1, <2>2, <2>4 DEF Carried
  <1> QED BY <1>4, <1>5, <1>6, <1>7 DEF SearchInv

\* A source that is read.
LEMMA ReadKept ==
    ASSUME SearchInv, SearchTypeOK', NEW s \in Sources, ReadResult(s)
    PROVE  SearchInv'
  <1>1. PICK i : i = Head(rest[s])
    OBVIOUS
  <1>2. /\ reader[s] = "reading" /\ rest[s] # <<>> /\ rest' = [rest EXCEPT ![s] = Tail(rest[s])]
        /\ UNCHANGED <<plan, seeker, localLeft, copier, consumer, received>>
    BY DEF ReadResult
  <1>3. rest \in [Sources -> Seq(Item)] /\ plan.remote \in [Sources -> Seq(Item)]
        /\ found \in [Ids -> Dates \cup {0}]
    <2>1. plan \in Plan
      BY SearchAssumption DEF SearchInv, SearchTypeOK
    <2> QED BY <2>1 DEF SearchInv, SearchTypeOK, Plan
  <1>4. /\ i \in Item /\ i = rest[s][1] /\ Len(rest[s]) \in Nat /\ Len(rest[s]) >= 1
        /\ Len(Tail(rest[s])) = Len(rest[s]) - 1
        /\ \A k \in 1..Len(Tail(rest[s])) : Tail(rest[s])[k] = rest[s][k + 1]
    <2>1. rest[s] \in Seq(Item) /\ rest[s] # <<>>
      BY <1>2, <1>3
    <2>2. /\ Head(rest[s]) \in Item /\ Tail(rest[s]) \in Seq(Item)
          /\ Len(Tail(rest[s])) = Len(rest[s]) - 1
      BY <2>1, HeadTailProperties
    <2>3. Len(rest[s]) \in Nat /\ Len(rest[s]) >= 1
      BY <2>1
    <2>4. \A k \in 1..Len(Tail(rest[s])) : Tail(rest[s])[k] = rest[s][k + 1]
      BY <2>1
    <2>5. Head(rest[s]) = rest[s][1]
      BY <2>1
    <2> QED BY <1>1, <2>2, <2>3, <2>4, <2>5
  <1>5. i.id \in Ids /\ i.date \in Dates /\ i.date \in Nat /\ i.date # 0
    BY <1>4, NothingIs DEF Item
  <1>6. PICK n, m : n = Len(rest[s]) /\ m = Len(plan.remote[s])
    OBVIOUS
  <1>7. n \in Nat /\ m \in Nat /\ 1 <= n /\ n <= m
    BY <1>3, <1>4, <1>6 DEF SearchInv, ReadInOrder
  <1>8. Len(rest'[s]) = n - 1
    BY <1>2, <1>3, <1>4, <1>6
  <1>9. i = plan.remote[s][(m - n) + 1]
    <2>1. \A k \in 1..n : rest[s][k] = plan.remote[s][k + (m - n)]
      BY <1>6 DEF SearchInv, ReadInOrder
    <2>2. i = plan.remote[s][1 + (m - n)]
      BY <1>4, <1>7, <2>1
    <2>3. 1 + (m - n) = (m - n) + 1
      BY <1>7
    <2> QED BY <2>2, <2>3
  <1>10. ReadInOrder'
    <2> SUFFICES ASSUME NEW t \in Sources
                 PROVE  /\ Len(rest'[t]) <= Len(plan.remote[t])
                        /\ \A k \in 1..Len(rest'[t]) :
                              rest'[t][k] = plan.remote[t][k + (Len(plan.remote[t]) - Len(rest'[t]))]
      BY <1>2 DEF ReadInOrder
    <2>1. CASE t = s
      <3>1. Len(rest'[t]) = n - 1 /\ Len(plan.remote[t]) = m
        BY <1>6, <1>8, <2>1
      <3>2. ASSUME NEW k \in 1..(n - 1) PROVE rest'[s][k] = plan.remote[s][k + (m - (n - 1))]
        <4>1. rest'[s] = Tail(rest[s])
          BY <1>2, <1>3
        <4>2. k \in 1..Len(Tail(rest[s]))
          BY <1>4, <1>6
        <4>3. rest'[s][k] = rest[s][k + 1]
          BY <1>4, <4>1, <4>2
        <4>4. k + 1 \in 1..n
          BY <1>7
        <4>5. rest[s][k + 1] = plan.remote[s][(k + 1) + (m - n)]
          BY <1>6, <4>4 DEF SearchInv, ReadInOrder
        <4>6. (k + 1) + (m - n) = k + (m - (n - 1))
          BY <1>7
        <4> QED BY <4>3, <4>5, <4>6
      <3>3. n - 1 <= m
        BY <1>7
      <3> QED BY <2>1, <3>1, <3>2, <3>3
    <2>2. CASE t # s
      <3>1. rest'[t] = rest[t]
        BY <1>2, <1>3, <2>2
      <3> QED BY <3>1 DEF SearchInv, ReadInOrder
    <2> QED BY <2>1, <2>2
  <1>11. \/ found' = found /\ reader' = reader /\ hand' = hand /\ ~Accepts(found, i)
         \/ /\ found' = [found EXCEPT ![i.id] = i.date] /\ reader' = [reader EXCEPT ![s] = "sending"]
            /\ hand' = [hand EXCEPT ![s] = i] /\ Accepts(found, i)
    BY <1>1 DEF ReadResult
  <1>12. \A x \in Ids : found[x] \in Nat /\ found'[x] \in Nat
    BY <1>3, NothingIs DEF SearchTypeOK
  <1>13. \A x \in Ids : /\ found[x] # 0 => found'[x] # 0
                        /\ plan.hideOlder => found'[x] >= found[x]
    <2>1. CASE found' = found
      BY <1>12, <2>1
    <2>2. CASE found' # found
      <3>1. found' = [found EXCEPT ![i.id] = i.date] /\ Accepts(found, i)
        BY <1>11, <2>2
      <3>2. found'[i.id] = i.date /\ \A x \in Ids : x # i.id => found'[x] = found[x]
        BY <1>3, <1>5, <3>1
      <3>3. plan.hideOlder => i.date > found[i.id]
        BY <3>1 DEF Accepts
      <3> QED BY <1>5, <1>12, <3>2, <3>3
    <2> QED BY <2>1, <2>2
  <1>14. found'[i.id] # 0 /\ (plan.hideOlder => found'[i.id] >= i.date)
    <2>1. CASE Accepts(found, i)
      <3>1. found'[i.id] = i.date
        BY <1>3, <1>5, <1>11, <2>1
      <3> QED BY <1>5, <3>1
    <2>2. CASE ~Accepts(found, i)
      <3>1. found' = found /\ plan.hideOlder /\ ~(i.date > found[i.id])
        BY <1>11, <2>2 DEF Accepts
      <3>2. found[i.id] \in Nat
        BY <1>5, <1>12
      <3> QED BY <1>5, <3>1, <3>2
    <2> QED BY <2>1, <2>2
  <1>15. ReadFound'
    <2> SUFFICES ASSUME NEW t \in Sources, NEW k \in 1..(Len(plan.remote[t]) - Len(rest'[t]))
                 PROVE  /\ found'[plan.remote[t][k].id] # 0
                        /\ plan.hideOlder => found'[plan.remote[t][k].id] >= plan.remote[t][k].date
      BY <1>2 DEF ReadFound
    <2>1. CASE t = s /\ k = (m - n) + 1
      BY <1>9, <1>14, <2>1
    <2>2. CASE ~(t = s /\ k = (m - n) + 1)
      <3>1. k \in 1..(Len(plan.remote[t]) - Len(rest[t]))
        <4>1. CASE t = s
          <5>1. k \in 1..(m - (n - 1)) /\ k # (m - n) + 1
            BY <1>6, <1>8, <2>2, <4>1
          <5>2. k \in 1..(m - n)
            BY <1>7, <5>1
          <5> QED BY <1>6, <4>1, <5>2
        <4>2. CASE t # s
          BY <1>2, <1>3, <4>2
        <4> QED BY <4>1, <4>2
      <3>2. PICK j : j = plan.remote[t][k]
        OBVIOUS
      <3>3. found[j.id] # 0 /\ (plan.hideOlder => found[j.id] >= j.date)
        BY <3>1, <3>2 DEF SearchInv, ReadFound
      <3>4. j \in Item
        <4>1. plan.remote[t] \in Seq(Item) /\ rest[t] \in Seq(Item)
          BY <1>3
        <4>2. Len(plan.remote[t]) \in Nat /\ Len(rest[t]) \in Nat
          BY <4>1
        <4>3. k \in 1..Len(plan.remote[t])
          BY <3>1, <4>2
        <4> QED BY <3>2, <4>1, <4>3
      <3>5. j.id \in Ids /\ j.date \in Nat
        BY <3>4, NothingIs DEF Item
      <3>6. found'[j.id] # 0 /\ (plan.hideOlder => found'[j.id] >= found[j.id])
        BY <1>13, <3>3, <3>5
      <3>7. plan.hideOlder => found'[j.id] >= j.date
        BY <1>12, <3>3, <3>5, <3>6
      <3> QED BY <3>2, <3>6, <3>7
    <2> QED BY <2>1, <2>2
  <1>16. hand[s] = Nothing /\ reader \in [Sources -> {"off", "reading", "sending", "failing", "done"}]
         /\ hand \in [Sources -> Item \cup {Nothing}]
    BY <1>2 DEF SearchInv, Closing, SearchTypeOK
  <1>17. Closing'
    <2>1. \A t \in Sources : t # s => /\ rest'[t] = rest[t] /\ reader'[t] = reader[t]
                                      /\ hand'[t] = hand[t]
      BY <1>2, <1>3, <1>11, <1>16
    <2>2. reader'[s] # "off" /\ (reader'[s] # "sending" => hand'[s] = Nothing)
      BY <1>2, <1>11, <1>16
    <2>3. seeker \notin {"local", "failing", "closed"}
      BY <1>2 DEF SearchInv, Closing
    <2> QED BY <1>2, <2>1, <2>2, <2>3 DEF SearchInv, Closing
  <1>18. SetCarried'
    <2>1. Asked
      BY <1>2 DEF Asked
    <2>2. \A j \in Item : Carried(j) => Carried(j)'
      <3>1. \A t \in Sources : hand[t] \in Item => hand'[t] = hand[t]
        BY <1>11, <1>16, NothingIs
      <3> QED BY <1>2, <3>1 DEF Carried
    <2> SUFFICES ASSUME NEW x \in Ids, found'[x] # 0
                 PROVE  \E j \in Item : j.id = x /\ Carried(j)' /\ (plan.hideOlder => j.date >= found'[x])
      BY <1>2 DEF SetCarried
    <2>3. CASE found'[x] = found[x]
      <3>1. PICK j \in Item : j.id = x /\ Carried(j) /\ (plan.hideOlder => j.date >= found[x])
        BY <2>1, <2>3 DEF SearchInv, SetCarried
      <3> QED BY <2>2, <2>3, <3>1
    <2>4. CASE found'[x] # found[x]
      <3>1. x = i.id /\ found'[x] = i.date /\ hand'[s] = i
        BY <1>3, <1>5, <1>11, <1>16, <2>4
      <3>2. Carried(i)'
        BY <3>1 DEF Carried
      <3>3. i.date >= i.date
        BY <1>5
      <3> QED BY <1>4, <3>1, <3>2, <3>3
    <2> QED BY <2>3, <2>4
  <1> QED BY <1>10, <1>15, <1>17, <1>18 DEF SearchInv

LEMMA SearchStep == SearchInv /\ [SearchNext]_searchVars => SearchInv'
  <1> SUFFICES ASSUME SearchInv, [SearchNext]_searchVars PROVE SearchInv'
    OBVIOUS
  <1>1. SearchTypeOK'
    BY SearchTyped DEF SearchInv
  <1>2. SearchTypeOK
    BY DEF SearchInv
  <1>3. CASE UNCHANGED searchVars
    <2>1. /\ UNCHANGED <<plan, found, rest>> /\ (Asked' => Asked)
          /\ \A i \in Item : Carried(i) => Carried(i)'
      BY <1>3 DEF searchVars, Asked, Carried
    <2>2. Closing'
      BY <1>3 DEF searchVars, SearchInv, Closing
    <2> QED BY <1>1, <2>1, <2>2, NothingRead DEF SearchInv
  <1>4. ASSUME NEW i \in Item, LocalSend(i) PROVE SearchInv'
    <2>1. \A j \in Item : Carried(j) => Carried(j)'
      <3>1. ASSUME NEW j \in Item, Carried(j) PROVE Carried(j)'
        <4>1. copier'["local"] = i /\ \A c \in Channels : copier[c] \in Item => copier'[c] = copier[c]
          BY <1>2, <1>4, NothingIs DEF LocalSend, SearchTypeOK, Channels
        <4>2. "local" \in Channels
          BY DEF Channels
        <4> QED BY <1>4, <3>1, <4>1, <4>2 DEF LocalSend, Carried
      <3> QED BY <3>1
    <2>2. UNCHANGED <<plan, found, rest>> /\ (Asked' => Asked)
      BY <1>4 DEF LocalSend, Asked
    <2>3. consumer # "done"
      BY <1>4 DEF LocalSend, SearchInv, Closing
    <2>4. Closing'
      BY <1>4, <2>3 DEF LocalSend, SearchInv, Closing
    <2> QED BY <1>1, <2>1, <2>2, <2>4, NothingRead DEF SearchInv
  <1>5. CASE LocalFails
    <2>1. ~Asked'
      BY <1>5 DEF LocalFails, SearchInv, Closing, Asked
    <2>2. Closing'
      BY <1>5 DEF LocalFails, SearchInv, Closing
    <2>3. ReadInOrder' /\ ReadFound'
      BY <1>5 DEF LocalFails, SearchInv, ReadInOrder, ReadFound
    <2> QED BY <1>1, <2>1, <2>2, <2>3 DEF SearchInv
  <1>6. CASE LocalEnd
    <2>1. /\ UNCHANGED <<plan, found, rest>> /\ (Asked' => Asked)
          /\ \A i \in Item : Carried(i) => Carried(i)'
      BY <1>6 DEF LocalEnd, Asked, Carried
    <2>2. consumer # "done"
      BY <1>6 DEF LocalEnd, SearchInv, Closing
    <2>3. Closing'
      <3>1. CASE seeker' = "closed" /\ reader' = reader
        BY <1>6, <2>2, <3>1 DEF LocalEnd, SearchInv, Closing
      <3>2. CASE seeker' = "waiting" /\ reader' = [s \in Sources |-> "reading"]
        <4>1. \A s \in Sources : reader[s] = "off" /\ hand[s] = Nothing
          BY <1>6 DEF LocalEnd, SearchInv, Closing
        <4> QED BY <1>6, <2>2, <3>2, <4>1 DEF LocalEnd, SearchInv, Closing
      <3> QED BY <1>6, <3>1, <3>2 DEF LocalEnd
    <2> QED BY <1>1, <2>1, <2>3, NothingRead DEF SearchInv
  <1>7. ASSUME NEW s \in Sources, ReadResult(s) PROVE SearchInv'
    BY <1>1, <1>7, ReadKept
  <1>8. ASSUME NEW s \in Sources, SendResult(s) PROVE SearchInv'
    <2>1. /\ reader[s] = "sending" /\ copier[s] = Nothing
          /\ copier' = [copier EXCEPT ![s] = hand[s]] /\ hand' = [hand EXCEPT ![s] = Nothing]
          /\ reader' = [reader EXCEPT ![s] = "reading"]
          /\ UNCHANGED <<plan, seeker, localLeft, found, rest, consumer, received>>
      BY <1>8 DEF SendResult
    <2>2. s \in Channels /\ copier'[s] = hand[s] /\ reader'[s] = "reading" /\ hand'[s] = Nothing
          /\ (\A t \in Sources : t # s => hand'[t] = hand[t] /\ reader'[t] = reader[t])
          /\ \A c \in Channels : c # s => copier'[c] = copier[c]
      BY <1>2, <2>1 DEF SearchTypeOK, Channels
    <2>3. \A i \in Item : Carried(i) => Carried(i)'
      BY <2>1, <2>2, NothingIs DEF Carried
    <2>4. Asked' => Asked
      BY <2>1 DEF Asked
    <2>5. seeker \notin {"local", "failing", "closed"} /\ consumer # "done"
      BY <2>1 DEF SearchInv, Closing
    <2>6. Closing'
      BY <2>1, <2>2, <2>5 DEF SearchInv, Closing
    <2> QED BY <1>1, <2>1, <2>3, <2>4, <2>6, NothingRead DEF SearchInv
  <1>9. ASSUME NEW s \in Sources, ReadEnd(s) \/ ReadFails(s) \/ SourceError(s) PROVE SearchInv'
    <2>1. /\ reader[s] \in {"reading", "failing"}
          /\ \E a \in {"done", "failing"} : reader' = [reader EXCEPT ![s] = a]
          /\ UNCHANGED <<plan, seeker, localLeft, found, rest, hand, copier, received>>
          /\ consumer' = consumer \/ consumer' = "gone"
      BY <1>9 DEF ReadEnd, ReadFails, SourceError
    <2>2. /\ reader'[s] \in {"done", "failing"}
          /\ \A t \in Sources : t # s => reader'[t] = reader[t]
      BY <1>2, <2>1 DEF SearchTypeOK
    <2>3. (\A i \in Item : Carried(i) => Carried(i)') /\ (Asked' => Asked)
      BY <2>1 DEF Carried, Asked
    <2>4. seeker \notin {"local", "failing", "closed"} /\ consumer # "done"
      BY <2>1 DEF SearchInv, Closing
    <2>5. Closing'
      BY <2>1, <2>2, <2>4 DEF SearchInv, Closing
    <2> QED BY <1>1, <2>1, <2>3, <2>5, NothingRead DEF SearchInv
  <1>10. CASE LocalError \/ CloseChannels \/ ResultsEnd \/ Cancel
    <2>1. UNCHANGED <<plan, localLeft, found, reader, rest, hand, copier, received>>
      BY <1>10 DEF LocalError, CloseChannels, ResultsEnd, Cancel
    <2>2. Asked' => Asked
      BY <1>10 DEF Asked, LocalError, CloseChannels, ResultsEnd, Cancel
    <2>3. \A i \in Item : Carried(i) => Carried(i)'
      BY <2>1 DEF Carried
    <2>4. Closing'
      <3>1. CASE LocalError
        BY <3>1 DEF SearchInv, Closing, LocalError
      <3>2. CASE CloseChannels
        BY <3>2 DEF SearchInv, Closing, CloseChannels
      <3>3. CASE ResultsEnd
        BY <3>3 DEF SearchInv, Closing, ResultsEnd
      <3>4. CASE Cancel
        BY <3>4 DEF SearchInv, Closing, Cancel
      <3> QED BY <1>10, <3>1, <3>2, <3>3, <3>4
    <2> QED BY <1>1, <2>1, <2>2, <2>3, <2>4, NothingRead DEF SearchInv
  <1>11. ASSUME NEW c \in Channels, Merge(c) PROVE SearchInv'
    <2>1. /\ copier[c] # Nothing /\ consumer = "reading"
          /\ copier' = [copier EXCEPT ![c] = Nothing] /\ received' = received \cup {copier[c]}
          /\ UNCHANGED <<plan, seeker, localLeft, found, reader, rest, hand, quit, consumer>>
      BY <1>11 DEF Merge
    <2>2. copier'[c] = Nothing /\ \A b \in Channels : b # c => copier'[b] = copier[b]
      BY <1>2, <2>1 DEF SearchTypeOK
    <2>3. (\A i \in Item : Carried(i) => Carried(i)') /\ (Asked' => Asked)
      BY <2>1, <2>2 DEF Carried, Asked
    <2>4. Closing'
      BY <2>1 DEF SearchInv, Closing
    <2> QED BY <1>1, <2>1, <2>3, <2>4, NothingRead DEF SearchInv
  <1> QED BY <1>3, <1>4, <1>5, <1>6, <1>7, <1>8, <1>9, <1>10, <1>11 DEF SearchNext, SearchProgress

LEMMA SearchAlways == SearchSpec => []SearchInv
  BY SearchStart, SearchStep, PTL DEF SearchSpec

\* core/search.go: who reads a search to its end misses nothing that a source
\* answered, but what is older than a result of the same thing.
THEOREM SearchLosesNothing == SearchSpec => []NewestArrives
  <1>1. SearchInv => NewestArrives
    <2> SUFFICES ASSUME SearchInv, consumer = "done",
                        NEW s \in Sources, NEW k \in 1..(Len(plan.remote[s]) - Len(rest[s]))
                 PROVE  \E r \in received :
                           /\ r.id = plan.remote[s][k].id
                           /\ plan.hideOlder => r.date >= plan.remote[s][k].date
      BY DEF NewestArrives
    <2>1. PICK i : i = plan.remote[s][k]
      OBVIOUS
    <2>2. found[i.id] # 0 /\ (plan.hideOlder => found[i.id] >= i.date)
      BY <2>1 DEF SearchInv, ReadFound
    <2>3. plan.remote[s] \in Seq(Item) /\ rest[s] \in Seq(Item)
      <3>1. plan \in Plan
        BY SearchAssumption DEF SearchInv, SearchTypeOK
      <3> QED BY <3>1 DEF SearchInv, SearchTypeOK, Plan
    <2>4. i \in Item
      <3>1. Len(plan.remote[s]) \in Nat /\ Len(rest[s]) \in Nat
        BY <2>3
      <3>2. k \in 1..Len(plan.remote[s])
        BY <3>1
      <3> QED BY <2>1, <2>3, <3>2
    <2>5. i.id \in Ids /\ i.date \in Nat
      BY <2>4, NothingIs DEF Item
    <2>6. Asked
      <3>1. CASE reader[s] = "off"
        <4>1. rest[s] = plan.remote[s]
          BY <3>1 DEF SearchInv, Closing
        <4>2. Len(rest[s]) \in Nat
          BY <2>3
        <4> QED BY <4>1, <4>2
      <3>2. CASE reader[s] # "off"
        BY <3>2 DEF Asked
      <3> QED BY <3>1, <3>2
    <2>7. PICK r \in Item : r.id = i.id /\ Carried(r) /\ (plan.hideOlder => r.date >= found[i.id])
      BY <2>2, <2>5, <2>6 DEF SearchInv, SetCarried
    <2>8. r \in received
      <3>1. localLeft = {} /\ (\A c \in Channels : copier[c] = Nothing)
            /\ \A t \in Sources : hand[t] = Nothing
        BY DEF SearchInv, Closing
      <3> QED BY <2>7, <3>1, NothingIs DEF Carried
    <2>9. found[i.id] \in Nat /\ r.date \in Nat
      BY <2>5, <2>7, NothingIs DEF SearchInv, SearchTypeOK, Item
    <2>10. plan.hideOlder => r.date >= i.date
      BY <2>2, <2>5, <2>7, <2>9
    <2> QED BY <2>1, <2>7, <2>8, <2>10
  <1> QED BY <1>1, SearchAlways, PTL

\* The result set, the readers and the channels of a search keep their types.
THEOREM SearchTypeCorrect == SearchSpec => []SearchTypeOK
  <1>1. SearchInv => SearchTypeOK
    BY DEF SearchInv
  <1> QED BY <1>1, SearchAlways, PTL
=============================================================================
