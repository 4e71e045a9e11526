----------------------------- MODULE Broadcast -----------------------------
(***************************************************************************)
(* The broadcast channel (broadcast/broadcast.go) and the two calls that   *)
(* wait on one: SendPubSubMessage, for the acknowledgement of a message,   *)
(* and searchPubSub, for the results of a query.  The answers come in      *)
(* handlers that Send to every listener with the broadcaster's lock held,  *)
(* and block while the buffer of a listener is full.                       *)
(***************************************************************************)
EXTENDS Naturals, Sequences

CONSTANTS
    Waiters,    \* calls that wait, each with an identifier of its own
    Loads       \* what may happen in a behaviour: see Load

\* need: the answers that satisfy a call (1 for an acknowledgement, Limit for
\* a query); replies: bound, the answers the peers give to each call;
\* capacity: the buffer of a listener; query: the call is a query, and may be
\* cancelled.
Load == [need : Nat \ {0}, replies : Nat, capacity : Nat, query : BOOLEAN]

ASSUME BroadcastAssumption == Loads \subseteq Load

VARIABLES
    load,       \* chosen once: see Loads
    wait,       \* where each call is
    timer,      \* its timer: "off", "on", "stopped" or "fired"
    guard,      \* its timer goroutine: "none", "asleep", "closing" or "over"
    dones,      \* how often its done channel was closed
    buf,        \* the buffer of its listener
    ears,       \* the listeners of the broadcaster
    answers,    \* how many answers the peers give to each call
    coming,     \* those that wait for a handler
    send,       \* the Send that holds the lock: its answer, and who is left
    got,        \* the answers each call has read
    result,     \* what the call returned
    cancelled   \* the cancel channel of the search was closed

bcVars == <<load, wait, timer, guard, dones, buf, ears, answers, coming,
            send, got, result, cancelled>>

NoSend == [for |-> "nobody", left |-> {}]

\* Only Send keeps the lock from one step to the next.
LockFree == send = NoSend

BcTypeOK ==
    /\ load \in Load
    /\ wait \in [Waiters -> {"idle", "published", "waiting", "closing", "returned"}]
    /\ timer \in [Waiters -> {"off", "on", "stopped", "fired"}]
    /\ guard \in [Waiters -> {"none", "asleep", "closing", "over"}]
    /\ dones \in [Waiters -> Nat]
    /\ buf \in [Waiters -> Seq(Waiters)]
    /\ \A w \in Waiters : Len(buf[w]) <= load.capacity
    /\ ears \subseteq Waiters
    /\ answers \in [Waiters -> 0..load.replies]
    /\ coming \in [Waiters -> Nat] /\ \A w \in Waiters : coming[w] <= answers[w]
    /\ send = NoSend \/ send \in [for : Waiters, left : (SUBSET ears) \ {{}}]
    /\ got \in [Waiters -> Nat]
    /\ result \in [Waiters -> {"none", "ok", "timeout"}]
    /\ cancelled \subseteq Waiters

BcInit ==
    /\ load \in Loads
    /\ wait = [w \in Waiters |-> "idle"]
    /\ timer = [w \in Waiters |-> "off"]
    /\ guard = [w \in Waiters |-> "none"]
    /\ dones = [w \in Waiters |-> 0]
    /\ buf = [w \in Waiters |-> <<>>]
    /\ ears = {}
    /\ answers = [w \in Waiters |-> 0] /\ coming = answers
    /\ send = NoSend
    /\ got = [w \in Waiters |-> 0]
    /\ result = [w \in Waiters |-> "none"]
    /\ cancelled = {}

-----------------------------------------------------------------------------
\* The call publishes its message.  From here on peers answer, as often as
\* they like up to the bound.
PublishTopic(w) ==
    /\ wait[w] = "idle"
    /\ wait' = [wait EXCEPT ![w] = "published"]
    /\ \E n \in 0..load.replies :
        answers' = [answers EXCEPT ![w] = n] /\ coming' = [coming EXCEPT ![w] = n]
    /\ UNCHANGED <<load, timer, guard, dones, buf, ears, send, got, result, cancelled>>

\* Then it starts the timer, adds its listener and starts the goroutine that
\* sleeps until the timer fires.
Listen(w) ==
    /\ wait[w] = "published" /\ LockFree
    /\ wait' = [wait EXCEPT ![w] = "waiting"]
    /\ timer' = [timer EXCEPT ![w] = "on"]
    /\ ears' = ears \cup {w}
    /\ guard' = [guard EXCEPT ![w] = "asleep"]
    /\ UNCHANGED <<load, answers, dones, buf, coming, send, got, result, cancelled>>

TimerFires(w) ==
    /\ timer[w] = "on"
    /\ timer' = [timer EXCEPT ![w] = "fired"]
    /\ UNCHANGED <<load, answers, wait, guard, dones, buf, ears, coming, send, got, result, cancelled>>

GuardWakes(w) ==
    /\ guard[w] = "asleep" /\ timer[w] = "fired"
    /\ guard' = [guard EXCEPT ![w] = "closing"]
    /\ UNCHANGED <<load, answers, wait, timer, dones, buf, ears, coming, send, got, result, cancelled>>

\* Listener.Close and close(doneCh).
Done(w) ==
    /\ LockFree
    /\ ears' = ears \ {w}
    /\ dones' = [dones EXCEPT ![w] = @ + 1]

\* Mutant: the timer goroutine closes the listener and not the done channel.
GuardDoneForgotten(w) ==
    /\ guard[w] = "closing" /\ LockFree
    /\ ears' = ears \ {w}
    /\ guard' = [guard EXCEPT ![w] = "over"]
    /\ UNCHANGED <<load, answers, wait, timer, dones, buf, coming, send, got, result, cancelled>>

GuardDone(w) ==
    /\ guard[w] = "closing" /\ Done(w)
    /\ guard' = [guard EXCEPT ![w] = "over"]
    /\ UNCHANGED <<load, answers, wait, timer, buf, coming, send, got, result, cancelled>>

\* Mutant: done is called whether or not the timer could be stopped.
StopTimerUnchecked(w, enough) ==
    /\ timer' = IF enough /\ timer[w] = "on" THEN [timer EXCEPT ![w] = "stopped"] ELSE timer
    /\ wait' = IF enough THEN [wait EXCEPT ![w] = "closing"] ELSE wait

\* A call that has enough stops the timer, and is the one to call done only if
\* the timer had not fired.
StopTimer(w, enough) ==
    IF enough /\ timer[w] = "on"
    THEN /\ timer' = [timer EXCEPT ![w] = "stopped"]
         /\ wait' = [wait EXCEPT ![w] = "closing"]
    ELSE UNCHANGED <<timer, wait>>

\* Mutant: an answer to another call is taken for an answer to this one.
MatchesAny(w, v) == TRUE

\* r == msgId, or r.Id == query.Id.
Matches(w, v) == v = w

\* The call reads an answer from its listener.
Receive(w) ==
    /\ wait[w] = "waiting" /\ buf[w] # <<>>
    /\ buf' = [buf EXCEPT ![w] = Tail(@)]
    /\ got' = IF Matches(w, Head(buf[w])) THEN [got EXCEPT ![w] = @ + 1] ELSE got
    /\ StopTimer(w, Matches(w, Head(buf[w])) /\ got'[w] >= load.need)
    /\ UNCHANGED <<load, answers, guard, dones, ears, coming, send, result, cancelled>>

\* Whoever searches closes the cancel channel.
CancelSearch(w) ==
    /\ load.query /\ wait[w] \in {"published", "waiting"} /\ w \notin cancelled
    /\ cancelled' = cancelled \cup {w}
    /\ UNCHANGED <<load, answers, wait, timer, guard, dones, buf, ears, coming, send, got, result>>

SeeCancel(w) ==
    /\ wait[w] = "waiting" /\ w \in cancelled /\ timer[w] = "on"
    /\ StopTimer(w, TRUE)
    /\ UNCHANGED <<load, answers, guard, dones, buf, ears, coming, send, got, result, cancelled>>

\* The call itself runs done, and goes back to its loop.
OwnDone(w) ==
    /\ wait[w] = "closing" /\ Done(w)
    /\ wait' = [wait EXCEPT ![w] = "waiting"]
    /\ UNCHANGED <<load, answers, timer, guard, buf, coming, send, got, result, cancelled>>

\* The loop finds the done channel closed.  The error is the one of the timer
\* goroutine; a query that is out of time is not an error.
Return(w) ==
    /\ wait[w] = "waiting" /\ dones[w] > 0
    /\ wait' = [wait EXCEPT ![w] = "returned"]
    /\ result' = [result EXCEPT ![w] = IF guard[w] = "asleep" \/ load.query THEN "ok" ELSE "timeout"]
    /\ UNCHANGED <<load, answers, timer, guard, dones, buf, ears, coming, send, got, cancelled>>

-----------------------------------------------------------------------------
\* Mutant: a Send that finds no listener keeps the lock.
SendLockKept(w) ==
    /\ coming[w] > 0 /\ LockFree
    /\ coming' = [coming EXCEPT ![w] = @ - 1]
    /\ send' = [for |-> w, left |-> ears]
    /\ UNCHANGED <<load, answers, wait, timer, guard, dones, buf, ears, got, result, cancelled>>

\* handlePubSubMessageAck, handlePubSubQueryResults: Send takes the lock.
SendLock(w) ==
    /\ coming[w] > 0 /\ LockFree
    /\ coming' = [coming EXCEPT ![w] = @ - 1]
    /\ send' = IF ears = {} THEN NoSend ELSE [for |-> w, left |-> ears]
    /\ UNCHANGED <<load, answers, wait, timer, guard, dones, buf, ears, got, result, cancelled>>

\* Send gives the answer to the next listener, once its buffer has room.
SendOne(l) ==
    /\ l \in send.left /\ Len(buf[l]) < load.capacity
    /\ buf' = [buf EXCEPT ![l] = Append(@, send.for)]
    /\ send' = IF send.left = {l} THEN NoSend ELSE [send EXCEPT !.left = @ \ {l}]
    /\ UNCHANGED <<load, answers, wait, timer, guard, dones, ears, coming, got, result, cancelled>>

WaiterStep(w) ==
    \/ Listen(w) \/ GuardWakes(w) \/ GuardDone(w) \/ Receive(w) \/ SeeCancel(w)
    \/ OwnDone(w) \/ Return(w)

Handler(w) == SendLock(w) \/ SendOne(w)

BcNext == \E w \in Waiters :
    PublishTopic(w) \/ TimerFires(w) \/ CancelSearch(w) \/ WaiterStep(w) \/ Handler(w)

\* Goroutines that can run do, and timers fire; nobody has to call or to
\* cancel.  Every call takes a bounded number of steps, so one condition on
\* all of them is enough.
BcProgress == \E w \in Waiters : TimerFires(w) \/ WaiterStep(w) \/ Handler(w)

BcSpec == BcInit /\ [][BcNext]_bcVars /\ WF_bcVars(BcProgress)

-----------------------------------------------------------------------------
\* Of the call and its timer goroutine exactly one closes the done channel:
\* closing it twice would panic.
DoneOnce == \A w \in Waiters : dones[w] <= 1

\* SendPubSubMessage returns without an error only when the recipient did
\* acknowledge this very message, so that the block outbox may drop it.
OnlyAcked ==
    \A w \in Waiters : ~load.query /\ result[w] = "ok" => coming[w] < answers[w]

\* Send has the lock and waits for room in the buffer of a listener whose call
\* no longer reads it: the call waits for the lock, to close the listener.
SendStuck ==
    \E w \in send.left : wait[w] = "closing" /\ Len(buf[w]) = load.capacity

\* A call that was made returns, whether it is answered, cancelled or left
\* alone, and however its timer and the last answer race: in the end none, of
\* which each is made once, is still waiting.  The one exception is a Send
\* that is stuck for good, which keeps its call and all that need the lock.
CallReturns ==
    <>[](SendStuck \/ \A w \in Waiters : wait[w] \in {"idle", "returned"})

\* A listener that is being closed is never the one that Send waits for with
\* the lock held that Close needs.
CloseDisables == ~SendStuck
=============================================================================
