-------------------------- MODULE BroadcastProofs --------------------------
(***************************************************************************)
(* Theorems about Broadcast: for any number of calls, any buffers and any  *)
(* number of answers.  And about Events, what the application hears: for   *)
(* any happenings, watchers and capacity of the channels.                  *)
(***************************************************************************)
EXTENDS TLAPS, Broadcast, Events, FiniteSetTheorems

\* Whether the done channel is closed can be read off the timer: who stopped it
\* closes the channel, and if it fired its goroutine does.
Closed(w) == guard[w] = "over" \/ (timer[w] = "stopped" /\ wait[w] # "closing")

DoneOf(w) ==
    /\ wait[w] \in {"idle", "published"} => timer[w] = "off"
    /\ timer[w] = "off" => guard[w] = "none"
    /\ timer[w] \in {"on", "stopped"} => guard[w] = "asleep"
    /\ timer[w] = "fired" => guard[w] \in {"asleep", "closing", "over"}
    /\ wait[w] = "closing" => timer[w] = "stopped"
    /\ dones[w] = IF Closed(w) THEN 1 ELSE 0

DoneInv == \A w \in Waiters : DoneOf(w)

\* A handler has taken an answer to w.
Answered(w) == coming[w] < answers[w]

\* An answer to v is being sent or in a buffer, or made a call return.
Heard(v) ==
    \/ send # NoSend /\ send.for = v
    \/ \E w \in Waiters : \E i \in 1..Len(buf[w]) : buf[w][i] = v
    \/ ~load.query /\ (timer[v] = "stopped" \/ result[v] = "ok")

AckInv ==
    /\ ~load.query => cancelled = {}
    /\ \A v \in Waiters : /\ wait[v] = "idle" => answers[v] = 0
                          /\ Heard(v) => Answered(v)

BcInv == BcTypeOK /\ DoneInv /\ AckInv

-----------------------------------------------------------------------------
LEMMA BcInitOK == BcInit => BcInv
  <1> SUFFICES ASSUME BcInit PROVE BcInv
    OBVIOUS
  <1>1. BcTypeOK
    <2>1. load \in Load
      BY BroadcastAssumption DEF BcInit
    <2>2. \A w \in Waiters : Len(buf[w]) = 0 /\ 0 <= load.capacity
      <3>1. \A w \in Waiters : buf[w] = <<>>
        BY DEF BcInit
      <3>2. load.capacity \in Nat
        BY <2>1 DEF Load
      <3> QED BY <3>1, <3>2
    <2>3. 0 \in 0..load.replies
      BY <2>1 DEF Load
    <2>4. \A w \in Waiters : Len(buf[w]) <= load.capacity
      BY <2>2
    <2>5. \A w \in Waiters : coming[w] <= answers[w]
      <3>1. \A w \in Waiters : answers[w] = 0 /\ coming[w] = 0
        BY DEF BcInit
      <3> QED BY <3>1
    <2> QED
      BY <2>1, <2>3, <2>4, <2>5 DEF BcInit, BcTypeOK
  <1>2. DoneInv
    BY DEF BcInit, DoneInv, DoneOf, Closed
  <1>3. AckInv
    BY DEF BcInit, AckInv, Heard
  <1> QED
    BY <1>1, <1>2, <1>3 DEF BcInv

\* A call publishes: no answer to it was on its way before.
LEMMA PublishOK ==
    ASSUME BcInv, NEW w \in Waiters, PublishTopic(w)
    PROVE  BcInv'
  <1> USE DEF BcInv, PublishTopic
  <1>1. BcTypeOK'
    <2>1. PICK n \in 0..load.replies : /\ answers' = [answers EXCEPT ![w] = n]
                                       /\ coming' = [coming EXCEPT ![w] = n]
      OBVIOUS
    <2>2. n \in Nat
      BY DEF BcTypeOK, Load
    <2>3. /\ answers' \in [Waiters -> 0..load.replies]
          /\ coming' \in [Waiters -> Nat]
      BY <2>1, <2>2 DEF BcTypeOK
    <2>4. ASSUME NEW v \in Waiters PROVE coming'[v] <= answers'[v]
      BY <2>1, <2>2 DEF BcTypeOK
    <2>5. UNCHANGED <<load, timer, guard, dones, buf, ears, send, got, result, cancelled>>
      OBVIOUS
    <2>6. wait' \in [Waiters -> {"idle", "published", "waiting", "closing", "returned"}]
      BY DEF BcTypeOK
    <2>7. BcTypeOK
      OBVIOUS
    <2> HIDE DEF BcInv, PublishTopic
    <2> QED
      BY <2>7, <2>3, <2>4, <2>5, <2>6 DEF BcTypeOK, NoSend
  <1>2. DoneInv'
    <2> SUFFICES ASSUME NEW v \in Waiters PROVE DoneOf(v)'
      BY DEF DoneInv
    <2>1. DoneOf(v) /\ dones[v] \in Nat
      BY DEF BcTypeOK, DoneInv
    <2> QED
      BY <2>1 DEF BcTypeOK, DoneOf, Closed
  <1>3. \A v \in Waiters : Heard(v)' => Heard(v)
    BY DEF Heard
  <1>4. \A v \in Waiters : Answered(v) => Answered(v)'
    BY DEF BcTypeOK, AckInv, Answered, Load
  <1>5. AckInv'
    BY <1>3, <1>4 DEF BcTypeOK, AckInv
  <1> QED
    BY <1>1, <1>2, <1>5

\* Listening, the timer and its goroutine: answers and their readers stay.
LEMMA TimeOK ==
    ASSUME BcInv, NEW w \in Waiters,
           Listen(w) \/ TimerFires(w) \/ GuardWakes(w) \/ GuardDone(w) \/ OwnDone(w)
    PROVE  BcInv'
  <1> USE DEF BcInv, Listen, TimerFires, GuardWakes, GuardDone, OwnDone, Done, LockFree
  <1>1. BcTypeOK'
    <2>1. CASE Listen(w)
      BY <2>1 DEF BcTypeOK
    <2>2. CASE TimerFires(w)
      BY <2>2 DEF BcTypeOK
    <2>3. CASE GuardWakes(w)
      BY <2>3 DEF BcTypeOK
    <2>4. CASE GuardDone(w)
      BY <2>4 DEF BcTypeOK
    <2>5. CASE OwnDone(w)
      BY <2>5 DEF BcTypeOK
    <2> QED
      BY <2>1, <2>2, <2>3, <2>4, <2>5
  <1>2. DoneInv'
    <2> SUFFICES ASSUME NEW v \in Waiters PROVE DoneOf(v)'
      BY DEF DoneInv
    <2>1. DoneOf(v) /\ dones[v] \in Nat
      BY DEF BcTypeOK, DoneInv
    <2> QED
      BY <2>1 DEF BcTypeOK, DoneOf, Closed
  <1>3. UNCHANGED <<load, buf, answers, coming, send, result, cancelled>>
    OBVIOUS
  <1>4. \A v \in Waiters : /\ Heard(v)' => Heard(v)
                           /\ wait'[v] = "idle" => wait[v] = "idle"
    BY <1>3 DEF BcTypeOK, Heard
  <1>5. AckInv'
    BY <1>3, <1>4 DEF AckInv, Answered
  <1> QED
    BY <1>1, <1>2, <1>5

\* A call reads an answer, which is one to it if it makes the call stop.
LEMMA ReceiveOK ==
    ASSUME BcInv, NEW w \in Waiters, Receive(w)
    PROVE  BcInv'
  <1> USE DEF BcInv, Receive, StopTimer, Matches
  <1>1. /\ buf[w] \in Seq(Waiters) /\ buf[w] # <<>>
        /\ Head(buf[w]) = buf[w][1] /\ 1 \in 1..Len(buf[w])
    BY DEF BcTypeOK
  <1>2. /\ buf'[w] \in Seq(Waiters) /\ Len(buf'[w]) = Len(buf[w]) - 1
        /\ \A i \in 1..Len(buf'[w]) : i + 1 \in 1..Len(buf[w]) /\ buf'[w][i] = buf[w][i + 1]
        /\ \A v \in Waiters \ {w} : buf'[v] = buf[v]
    BY <1>1, SMTT(60) DEF BcTypeOK
  <1>3. BcTypeOK'
    <2>1. buf' \in [Waiters -> Seq(Waiters)]
      BY <1>2 DEF BcTypeOK
    <2>2. ASSUME NEW v \in Waiters PROVE Len(buf'[v]) <= load.capacity
      <3>1. Len(buf[v]) <= load.capacity /\ load.capacity \in Nat
        BY DEF BcTypeOK, Load
      <3>2. CASE v = w
        BY <1>1, <1>2, <3>1, <3>2
      <3>3. CASE v # w
        BY <1>2, <3>1, <3>3
      <3> QED
        BY <3>2, <3>3
    <2>3. /\ wait' \in [Waiters -> {"idle", "published", "waiting", "closing", "returned"}]
          /\ timer' \in [Waiters -> {"off", "on", "stopped", "fired"}]
      BY DEF BcTypeOK
    <2>4. got' \in [Waiters -> Nat]
      BY SMTT(60) DEF BcTypeOK
    <2>5. UNCHANGED <<load, answers, guard, dones, ears, coming, send, result, cancelled>>
      OBVIOUS
    <2>7. BcTypeOK
      OBVIOUS
    <2> HIDE DEF BcInv, Receive
    <2> QED
      BY <2>7, <2>1, <2>2, <2>3, <2>4, <2>5 DEF BcTypeOK, NoSend
  <1>4. DoneInv'
    <2> SUFFICES ASSUME NEW v \in Waiters PROVE DoneOf(v)'
      BY DEF DoneInv
    <2>1. DoneOf(v) /\ dones' = dones /\ guard' = guard
      BY DEF DoneInv
    <2>2. CASE timer'[v] = timer[v] /\ wait'[v] = wait[v]
      BY <2>1, <2>2 DEF DoneOf, Closed
    <2>3. CASE timer'[v] # timer[v] \/ wait'[v] # wait[v]
      <3>1. v = w /\ timer[w] = "on" /\ wait[w] = "waiting"
        BY <2>3 DEF BcTypeOK
      <3>2. timer'[w] = "stopped" /\ wait'[w] = "closing"
        BY <2>3, <3>1 DEF BcTypeOK
      <3> QED BY <2>1, <3>1, <3>2 DEF DoneOf, Closed
    <2> QED BY <2>2, <2>3
  <1>5. \A v \in Waiters : Heard(v)' => Heard(v)
    <2>1. timer'[w] = "stopped" => timer[w] = "stopped" \/ buf[w][1] = w
      BY <1>1 DEF BcTypeOK
    <2>2. \A v \in Waiters \ {w} : timer'[v] = timer[v]
      BY DEF BcTypeOK
    <2> QED
      BY <1>1, <1>2, <2>1, <2>2 DEF Heard
  <1>6. AckInv'
    BY <1>5 DEF BcTypeOK, AckInv, Answered
  <1> QED
    BY <1>3, <1>4, <1>6

\* Only a query is cancelled, and a call without an answer returns an error.
LEMMA CancelOK ==
    ASSUME BcInv, NEW w \in Waiters, CancelSearch(w) \/ SeeCancel(w)
    PROVE  BcInv'
  <1> USE DEF BcInv, CancelSearch, SeeCancel, StopTimer
  <1>1. BcTypeOK'
    BY DEF BcTypeOK
  <1>2. DoneInv'
    <2> SUFFICES ASSUME NEW v \in Waiters PROVE DoneOf(v)'
      BY DEF DoneInv
    <2>1. DoneOf(v) /\ dones[v] \in Nat
      BY DEF BcTypeOK, DoneInv
    <2> QED
      BY <2>1 DEF BcTypeOK, DoneOf, Closed
  <1>3. load.query
    BY DEF AckInv
  <1>4. UNCHANGED <<load, buf, answers, coming, send, result>>
    OBVIOUS
  <1>5. \A v \in Waiters : Heard(v)' => Heard(v)
    BY <1>3, <1>4 DEF Heard
  <1>6. \A v \in Waiters : wait'[v] = "idle" => wait[v] = "idle"
    BY DEF BcTypeOK
  <1>7. AckInv'
    BY <1>3, <1>4, <1>5, <1>6 DEF AckInv, Answered
  <1> QED
    BY <1>1, <1>2, <1>7

\* A call whose done channel was closed by itself has stopped its timer.
LEMMA ReturnOK ==
    ASSUME BcInv, NEW w \in Waiters, Return(w)
    PROVE  BcInv'
  <1> USE DEF BcInv, Return
  <1>1. BcTypeOK'
    BY DEF BcTypeOK
  <1>2. DoneInv'
    <2> SUFFICES ASSUME NEW v \in Waiters PROVE DoneOf(v)'
      BY DEF DoneInv
    <2>1. DoneOf(v) /\ dones[v] \in Nat
      BY DEF BcTypeOK, DoneInv
    <2> QED
      BY <2>1 DEF BcTypeOK, DoneOf, Closed
  <1>3. guard[w] = "asleep" => timer[w] = "stopped"
    <2>1. DoneOf(w) /\ dones[w] # 0
      BY DEF BcTypeOK, DoneInv
    <2> QED
      BY <2>1 DEF DoneOf, Closed
  <1>4. \A v \in Waiters : /\ Heard(v)' => Heard(v)
                           /\ wait'[v] = "idle" => wait[v] = "idle"
    BY <1>3 DEF BcTypeOK, Heard
  <1>5. AckInv'
    BY <1>4 DEF AckInv, Answered
  <1> QED
    BY <1>1, <1>2, <1>5

\* A handler takes an answer, and gives it to the listeners.
LEMMA SendOK ==
    ASSUME BcInv, NEW w \in Waiters, SendLock(w)
    PROVE  BcInv'
  <1> USE DEF BcInv, SendLock, LockFree
  <1>1. BcTypeOK'
    BY DEF BcTypeOK
  <1>2. DoneInv'
    <2> SUFFICES ASSUME NEW v \in Waiters PROVE DoneOf(v)'
      BY DEF DoneInv
    <2>1. DoneOf(v) /\ dones[v] \in Nat
      BY DEF BcTypeOK, DoneInv
    <2> QED
      BY <2>1 DEF BcTypeOK, DoneOf, Closed
  <1>3. Answered(w)' /\ \A v \in Waiters : Answered(v) => Answered(v)'
    BY DEF BcTypeOK, Answered, Load
  <1>4. \A v \in Waiters : Heard(v)' => v = w \/ Heard(v)
    BY DEF BcTypeOK, Heard, NoSend
  <1>5. AckInv'
    BY <1>3, <1>4 DEF AckInv
  <1> QED
    BY <1>1, <1>2, <1>5

LEMMA SendOneOK ==
    ASSUME BcInv, NEW l \in Waiters, SendOne(l)
    PROVE  BcInv'
  <1> USE DEF BcInv, SendOne
  <1>1. send # NoSend /\ send \in [for : Waiters, left : (SUBSET ears) \ {{}}]
    <2>1. send # NoSend
      BY DEF NoSend
    <2> QED BY <2>1 DEF BcTypeOK
  <1>2. /\ buf'[l] \in Seq(Waiters) /\ Len(buf'[l]) = Len(buf[l]) + 1
        /\ buf'[l][Len(buf[l]) + 1] = send.for
        /\ \A i \in 1..Len(buf[l]) : buf'[l][i] = buf[l][i]
        /\ \A v \in Waiters \ {l} : buf'[v] = buf[v]
    BY <1>1 DEF BcTypeOK
  <1>3. BcTypeOK'
    <2>1. buf' \in [Waiters -> Seq(Waiters)]
      BY <1>2 DEF BcTypeOK
    <2>3. ASSUME NEW v \in Waiters PROVE Len(buf'[v]) <= load.capacity
      <3>1. /\ Len(buf[v]) \in Nat /\ Len(buf[v]) <= load.capacity
            /\ load.capacity \in Nat /\ Len(buf[l]) < load.capacity
        BY DEF BcTypeOK, Load
      <3>2. CASE v = l
        BY <1>2, <3>1, <3>2
      <3>3. CASE v # l
        BY <1>2, <3>1, <3>3
      <3> QED
        BY <3>2, <3>3
    <2>4. UNCHANGED <<load, answers, wait, timer, guard, dones, ears, coming, got,
      result, cancelled>>
      OBVIOUS
    <2>2. send' = NoSend \/ send' \in [for : Waiters, left : (SUBSET ears) \ {{}}]
      BY <1>1
    <2>7. BcTypeOK
      OBVIOUS
    <2> HIDE DEF BcInv, SendOne
    <2> QED
      BY <2>7, <2>1, <2>2, <2>3, <2>4 DEF BcTypeOK, NoSend
  <1>4. DoneInv'
    <2> SUFFICES ASSUME NEW v \in Waiters PROVE DoneOf(v)'
      BY DEF DoneInv
    <2>1. DoneOf(v) /\ dones[v] \in Nat
      BY DEF BcTypeOK, DoneInv
    <2> QED
      BY <2>1 DEF BcTypeOK, DoneOf, Closed
  <1>5. \A v \in Waiters : Heard(v)' => Heard(v)
    <2>1. send' # NoSend => send'.for = send.for
      BY <1>1
    <2>2. ASSUME NEW x \in Waiters, NEW i \in 1..Len(buf'[x])
          PROVE  buf'[x][i] = send.for \/ (i \in 1..Len(buf[x]) /\ buf'[x][i] = buf[x][i])
      <3>1. Len(buf[l]) \in Nat
        BY DEF BcTypeOK
      <3>2. CASE x = l
        BY <1>2, <3>1, <3>2
      <3>3. CASE x # l
        BY <1>2, <3>3
      <3> QED
        BY <3>2, <3>3
    <2> QED
      BY <1>1, <2>1, <2>2 DEF Heard
  <1>6. AckInv'
    BY <1>5 DEF BcTypeOK, AckInv, Answered
  <1> QED
    BY <1>3, <1>4, <1>6

LEMMA BcStep == BcInv /\ [BcNext]_bcVars => BcInv'
  <1> SUFFICES ASSUME BcInv, [BcNext]_bcVars PROVE BcInv'
    OBVIOUS
  <1>1. CASE UNCHANGED bcVars
    BY <1>1, SMTT(60) DEF bcVars, BcInv, BcTypeOK, DoneInv, DoneOf, Closed, AckInv, Heard, Answered
  <1>2. CASE BcNext
    BY <1>2, PublishOK, TimeOK, ReceiveOK, CancelOK, ReturnOK, SendOK, SendOneOK
    DEF BcNext, WaiterStep, Handler
  <1> QED
    BY <1>1, <1>2

LEMMA BcAlways == BcSpec => []BcInv
  BY BcInitOK, BcStep, PTL DEF BcSpec

-----------------------------------------------------------------------------
\* A call of SendPubSubMessage or searchPubSub never panics: of its reader, its
\* cancellation and its timer only one closes the done channel.
THEOREM ClosedOnce == BcSpec => []DoneOnce
  <1>1. ASSUME BcInv, NEW w \in Waiters PROVE dones[w] <= 1
    <2>1. DoneOf(w)
      BY <1>1 DEF BcInv, DoneInv
    <2> QED
      BY <2>1 DEF DoneOf
  <1>2. BcInv => DoneOnce
    BY <1>1 DEF DoneOnce
  <1> QED
    BY <1>2, BcAlways, PTL

\* SendPubSubMessage succeeds only for a message that its recipient has
\* acknowledged, however many calls share the broadcaster.
THEOREM AckedOnly == BcSpec => []OnlyAcked
  <1>1. BcInv => OnlyAcked
    BY DEF BcInv, AckInv, Heard, Answered, OnlyAcked
  <1> QED
    BY <1>1, BcAlways, PTL

-----------------------------------------------------------------------------
(* What the application hears: the invariant of Events.                       *)

\* What was sent over a channel, each once: it is of that channel, its sender is
\* done or has the broadcaster, and a notification has its row.
Dispatched ==
    \A k \in Channel :
        /\ \A i, j \in DOMAIN sentOn[k] : sentOn[k][i] = sentOn[k][j] => i = j
        /\ \A e \in Within(sentOn[k]) : /\ On(e) = k /\ (writer[e] = "done" \/ e = bcast.by)
                                        /\ k = "note" => noteRows[e] # "none"

\* Who has the broadcaster was the last to send, and is left to listeners only.
Sending ==
    /\ bcast.by = Nobody => bcast.left = {}
    /\ bcast.by # Nobody =>
        /\ On(bcast.by) = "feed" /\ writer[bcast.by] = "send" /\ sentOn["feed"] # <<>>
        /\ sentOn["feed"][Len(sentOn["feed"])] = bcast.by
    /\ \A l \in bcast.left : l = "app" \/ watch[l].at \in {"open", "leaving"}

\* Nothing happens before the node was started, nor is a row made twice.
Writing ==
    \A e \in Happenings :
        /\ writer[e] # "none" => life # "off"
        /\ writer[e] \in {"none", "row"} => noteRows[e] = "none"
        /\ writer[e] \in {"view", "send"} /\ On(e) = "note" => noteRows[e] # "none"

\* The application listens before the node is started; its readers are those of
\* the starts that have returned, and wait together.
Attended ==
    /\ life # "off" => listens /\ lives > 0
    /\ shut # {} => way.host = "daemon" /\ life \in {"stopped", "exited"}
    /\ \A s \in ReaderSets, k \in Channel :
        /\ hands[s][k] # "off" => s <= lives /\ (life = "starting" => s < lives)
        /\ hands[s][k] = "waits" <=> hands[s]["note"] = "waits"

\* What came to the application is in one place, and only there.
Placed(k) ==
    /\ \A i, j \in DOMAIN toldOf[k] : toldOf[k][i] = toldOf[k][j] => i = j
    /\ \A i, j \in DOMAIN chan[k] : chan[k][i] = chan[k][j] => i = j
    /\ \A i \in DOMAIN toldOf[k], j \in DOMAIN chan[k] : toldOf[k][i] # chan[k][j]
    /\ \A s \in Taken(k) : /\ hands[s][k] \notin Within(toldOf[k]) \cup Within(chan[k])
                           /\ \A t \in Taken(k) : hands[s][k] = hands[t][k] => s = t

\* And that is what was sent to it.
Arrived(k) == {e \in Within(sentOn[k]) : k = "feed" => Reached("app", e)}
Came(k) == Arrived(k) = Within(toldOf[k]) \cup Within(chan[k]) \cup {hands[s][k] : s \in Taken(k)}

\* With one set of readers, in the order it was sent in.
Waits(l, k) == IF k = "feed" /\ l \in bcast.left THEN 1 ELSE 0
InHand(k) == IF Taken(k) = {} THEN 0 ELSE 1
InTurn(k) ==
    lives < 2 =>
        LET n == Len(toldOf[k]) IN
        /\ Len(sentOn[k]) = n + InHand(k) + Len(chan[k]) + Waits("app", k)
        /\ \A i \in DOMAIN toldOf[k] : toldOf[k][i] = sentOn[k][i]
        /\ \A s \in Taken(k) : hands[s][k] = sentOn[k][n + 1]
        /\ \A i \in DOMAIN chan[k] : chan[k][i] = sentOn[k][n + InHand(k) + i]

\* A watcher has gone through what was sent up to here; what follows is in its
\* queue.
Seen(w) == Len(sentOn["feed"]) - Waits(w, "feed") - Len(watch[w].queue)
Served(w) ==
    watch[w].at \in {"open", "leaving"} =>
        LET out == sentOn["feed"]
            given == watch[w].given
        IN  /\ watch[w].from <= Seen(w)
            /\ \A i \in DOMAIN watch[w].queue : watch[w].queue[i] = out[Seen(w) + i]
            /\ \A i \in DOMAIN given :
                AsksFor(w, given[i]) /\ \E p \in (watch[w].from + 1)..Seen(w) : out[p] = given[i]
            /\ \A p \in (watch[w].from + 1)..Seen(w) :
                AsksFor(w, out[p]) => \E i \in DOMAIN given : given[i] = out[p]
            /\ \A i, j \in DOMAIN given : i < j =>
                \E p, q \in 1..Seen(w) : p < q /\ out[p] = given[i] /\ out[q] = given[j]

\* Who reads page after page has what was there at the start and is not older
\* than the row it goes on from.
Paged ==
    /\ IsFiniteSet(OfNotes)
    /\ \A e \in pager.want \cup {pager.offset} : e # Nobody => noteRows[e] # "none"
    /\ pager.at = "none" => pager.offset = Nobody
    /\ pager.at = "reading" => pager.offset # Nobody
    /\ pager.at = "reading" /\ ~pager.torn => pager.offset \in OfNotes
    /\ \/ pager.torn \/ DatesEqual \/ pager.at = "none"
       \/ \A e \in pager.want \cap OfNotes :
            e \in pager.got \/ (pager.at = "reading" /\ Date(e) < Date(pager.offset))

EventsInv ==
    /\ EventsTypeOK /\ Dispatched /\ Sending /\ Writing /\ Attended
    /\ \A k \in Channel : Placed(k) /\ Came(k) /\ InTurn(k)
    /\ \A w \in Watchers : Served(w)
    /\ Paged

-----------------------------------------------------------------------------
(* What a step leaves alone                                                  *)

\* A sequence that got one more.
LEMMA Appended ==
    ASSUME NEW S, NEW s \in Seq(S), NEW e \in S
    PROVE  /\ Append(s, e) \in Seq(S) /\ Len(Append(s, e)) = Len(s) + 1 /\ Len(s) \in Nat
           /\ DOMAIN s = 1..Len(s) /\ DOMAIN Append(s, e) = 1..(Len(s) + 1)
           /\ Append(s, e)[Len(s) + 1] = e
           /\ \A i \in DOMAIN s : Append(s, e)[i] = s[i]
           /\ Within(Append(s, e)) = Within(s) \cup {e}
  <1>1. /\ Append(s, e) \in Seq(S) /\ Len(Append(s, e)) = Len(s) + 1 /\ Len(s) \in Nat
        /\ DOMAIN s = 1..Len(s) /\ DOMAIN Append(s, e) = 1..(Len(s) + 1)
        /\ Append(s, e)[Len(s) + 1] = e
        /\ \A i \in DOMAIN s : Append(s, e)[i] = s[i]
    OBVIOUS
  <1>2. \A i \in DOMAIN Append(s, e) : i \in DOMAIN s \/ i = Len(s) + 1
    BY <1>1
  <1>3. \A i \in DOMAIN s : i \in DOMAIN Append(s, e)
    BY <1>1
  <1>4. Len(s) + 1 \in DOMAIN Append(s, e)
    BY <1>1
  <1> QED BY <1>1, <1>2, <1>3, <1>4 DEF Within

\* A sequence without its first.
LEMMA Tailed ==
    ASSUME NEW S, NEW s \in Seq(S), s # <<>>
    PROVE  /\ Tail(s) \in Seq(S) /\ Len(s) = Len(Tail(s)) + 1 /\ Len(Tail(s)) \in Nat
           /\ DOMAIN s = 1..Len(s) /\ DOMAIN Tail(s) = 1..Len(Tail(s))
           /\ Head(s) = s[1] /\ Head(s) \in S
           /\ \A i \in DOMAIN Tail(s) : i + 1 \in DOMAIN s /\ Tail(s)[i] = s[i + 1]
           /\ Within(s) = Within(Tail(s)) \cup {Head(s)}
  <1>1. /\ Tail(s) \in Seq(S) /\ Len(s) = Len(Tail(s)) + 1 /\ Len(Tail(s)) \in Nat
        /\ DOMAIN s = 1..Len(s) /\ DOMAIN Tail(s) = 1..Len(Tail(s))
        /\ Head(s) = s[1] /\ Head(s) \in S
        /\ \A i \in DOMAIN Tail(s) : i + 1 \in DOMAIN s /\ Tail(s)[i] = s[i + 1]
    OBVIOUS
  <1>2. \A i \in DOMAIN s : i = 1 \/ (i - 1 \in DOMAIN Tail(s) /\ s[i] = Tail(s)[i - 1])
    BY <1>1
  <1>3. 1 \in DOMAIN s
    BY <1>1
  <1>4. \A x : x \in Within(s) <=> x = Head(s) \/ x \in Within(Tail(s))
    <2>1. ASSUME NEW x \in Within(s) PROVE x = Head(s) \/ x \in Within(Tail(s))
      <3>1. PICK i \in DOMAIN s : x = s[i]
        BY DEF Within
      <3> QED BY <1>1, <1>2, <3>1 DEF Within
    <2>2. \A x \in Within(Tail(s)) : x \in Within(s)
      BY <1>1 DEF Within
    <2>3. Head(s) \in Within(s)
      BY <1>1, <1>3 DEF Within
    <2> QED BY <2>1, <2>2, <2>3
  <1> QED BY <1>1, <1>4

\* Values of the constants that stand for nobody are no happenings.
LEMMA NobodyIs ==
    /\ Nobody \notin Happenings /\ "waits" \notin Happenings /\ "off" \notin Happenings
    /\ Nobody # "waits" /\ Nobody # "off" /\ "app" \notin Watchers
    /\ Room \in Nat /\ Room > 0 /\ MaxLives \in Nat
  BY EventsAssumption DEF Nobody

\* What is known of the variables.
LEMMA EventsTypes ==
    ASSUME EventsTypeOK
    PROVE  /\ way \in Way
           /\ \A k \in Channel : /\ chan[k] \in Seq(Happenings) /\ sentOn[k] \in Seq(Happenings)
                                 /\ toldOf[k] \in Seq(Happenings)
           /\ \A e \in Happenings : On(e) \in Channel
           /\ bcast.by \in Happenings \cup {Nobody} /\ bcast.left \subseteq Watchers \cup {"app"}
           /\ \A w \in Watchers : /\ watch[w].queue \in Seq(Happenings) /\ watch[w].from \in Nat
                                  /\ watch[w].given \in Seq(Happenings)
           /\ pager.want \subseteq Happenings /\ pager.got \subseteq Happenings
           /\ pager.offset \in Happenings \cup {Nobody} /\ pager.torn \in BOOLEAN
           /\ lives \in Nat
  <1>1. way \in Way
    BY EventsAssumption DEF EventsTypeOK
  <1>2. \A e \in Happenings : way.of[e].on \in Channel
    BY <1>1 DEF Way, Happening
  <1>3. \A w \in Watchers : /\ watch[w].queue \in Seq(Happenings) /\ watch[w].from \in Nat
                             /\ watch[w].given \in Seq(Happenings)
    BY DEF EventsTypeOK, Listener
  <1>4. /\ pager.want \subseteq Happenings /\ pager.got \subseteq Happenings
        /\ pager.offset \in Happenings \cup {Nobody} /\ pager.torn \in BOOLEAN
    BY DEF EventsTypeOK, Pager
  <1>5. bcast.by \in Happenings \cup {Nobody} /\ bcast.left \subseteq Watchers \cup {"app"}
    BY DEF EventsTypeOK
  <1>6. \A k \in Channel : /\ chan[k] \in Seq(Happenings) /\ sentOn[k] \in Seq(Happenings)
                            /\ toldOf[k] \in Seq(Happenings)
    BY DEF EventsTypeOK
  <1>7. lives \in Nat
    <2>1. lives \in 0..MaxLives
      BY DEF EventsTypeOK
    <2> QED BY <2>1, NobodyIs
  <1> QED BY <1>1, <1>2, <1>3, <1>4, <1>5, <1>6, <1>7 DEF On

\* Nothing was sent, nor lost a row.
LEMMA DispatchedKept ==
    ASSUME Dispatched, UNCHANGED <<way, sentOn, bcast>>,
           \A k \in Channel : \A e \in Within(sentOn[k]) :
               (writer[e] = "done" => writer'[e] = "done")
               /\ (noteRows[e] # "none" => noteRows'[e] # "none")
    PROVE  Dispatched'
  BY DEF Dispatched, On, Within

\* Nobody has begun or ended to send to listeners.
LEMMA SendingKept ==
    ASSUME Sending, UNCHANGED <<way, sentOn, bcast>>,
           bcast.by # Nobody => writer'[bcast.by] = writer[bcast.by],
           \A l \in bcast.left : l # "app" => watch'[l].at \in {"open", "leaving"}
    PROVE  Sending'
  BY DEF Sending, On

\* The application is where it was on a channel.
LEMMA PlacesKept ==
    ASSUME NEW k \in Channel, Placed(k), Came(k), InTurn(k), lives' < 2 => lives < 2,
           chan'[k] = chan[k], toldOf'[k] = toldOf[k], sentOn'[k] = sentOn[k],
           \A s \in ReaderSets :
               \/ hands'[s][k] = hands[s][k]
               \/ hands[s][k] \notin Happenings /\ hands'[s][k] \notin Happenings,
           k = "feed" => \A e : Reached("app", e)' = Reached("app", e),
           Waits("app", k)' = Waits("app", k)
    PROVE  Placed(k)' /\ Came(k)' /\ InTurn(k)'
  <1>1. Taken(k)' = Taken(k) /\ \A s \in Taken(k) : hands'[s][k] = hands[s][k]
    BY DEF Taken
  <1>2. Placed(k)'
    BY <1>1 DEF Placed, Within
  <1>3. Came(k)'
    <2>1. Arrived(k)' = Arrived(k)
      BY DEF Arrived, Within
    <2>2. {hands[s][k] : s \in Taken(k)}' = {hands[s][k] : s \in Taken(k)}
      BY <1>1
    <2> QED BY <2>1, <2>2 DEF Came, Within
  <1>4. InTurn(k)'
    BY <1>1 DEF InTurn, InHand
  <1> QED BY <1>2, <1>3, <1>4

\* So is a watcher.
LEMMA ServedKept ==
    ASSUME way' = way, sentOn'["feed"] = sentOn["feed"], NEW w \in Watchers,
           watch'[w] = watch[w], Waits(w, "feed")' = Waits(w, "feed"), Served(w)
    PROVE  Served(w)'
  <1>1. Seen(w)' = Seen(w)
    BY DEF Seen
  <1>2. \A e : AsksFor(w, e)' <=> AsksFor(w, e)
    BY DEF AsksFor
  <1>3. (watch[w].at \in {"open", "leaving"} =>
             /\ watch[w].from <= Seen(w)
             /\ \A i \in DOMAIN watch[w].queue :
                   watch[w].queue[i] = sentOn["feed"][Seen(w) + i])'
    BY <1>1 DEF Served
  <1>4. (watch[w].at \in {"open", "leaving"} =>
             \A i \in DOMAIN watch[w].given :
                 /\ AsksFor(w, watch[w].given[i])
                 /\ \E p \in (watch[w].from + 1)..Seen(w) :
                       sentOn["feed"][p] = watch[w].given[i])'
    BY <1>1, <1>2 DEF Served
  <1>5. (watch[w].at \in {"open", "leaving"} =>
             \A p \in (watch[w].from + 1)..Seen(w) : AsksFor(w, sentOn["feed"][p]) =>
                 \E i \in DOMAIN watch[w].given : watch[w].given[i] = sentOn["feed"][p])'
    BY <1>1, <1>2 DEF Served
  <1>6. (watch[w].at \in {"open", "leaving"} =>
             \A i, j \in DOMAIN watch[w].given : i < j =>
                 \E p, q \in 1..Seen(w) : p < q /\ sentOn["feed"][p] = watch[w].given[i]
                                                /\ sentOn["feed"][q] = watch[w].given[j])'
    BY <1>1 DEF Served
  <1> QED BY <1>3, <1>4, <1>5, <1>6 DEF Served

\* And the table of notifications with who reads it.
LEMMA PagedKept ==
    ASSUME Paged, UNCHANGED <<way, noteRows, pager>>
    PROVE  Paged'
  BY DEF Paged, OfNotes, Date, DatesEqual

-----------------------------------------------------------------------------
(* The node                                                                  *)

\* A step of the node or of who runs it: what was sent and told is as it was.
LEMMA NodeFrame ==
    ASSUME EventsInv, UNCHANGED RestOfNode, EventsTypeOK', Attended', lives' >= lives,
           life # "off" => life' # "off",
           \A s \in ReaderSets, k \in Channel :
               \/ hands'[s][k] = hands[s][k]
               \/ hands[s][k] \notin Happenings /\ hands'[s][k] \notin Happenings
    PROVE  EventsInv'
  <1>1. /\ UNCHANGED <<way, writer, bcast, sentOn, nameless, toldOf, chan, noteRows, pager>>
        /\ UNCHANGED <<watch, fell>>
        /\ EventsTypeOK
    BY DEF RestOfNode, senderVars, noteVars, EventsInv
  <1>2. Dispatched' /\ Sending' /\ Paged'
    BY <1>1, DispatchedKept, SendingKept, PagedKept DEF EventsInv, Sending
  <1>3. Writing'
    BY <1>1 DEF EventsInv, Writing, On
  <1>4. ASSUME NEW k \in Channel PROVE Placed(k)' /\ Came(k)' /\ InTurn(k)'
    <2>1. Placed(k) /\ Came(k) /\ InTurn(k) /\ (lives' < 2 => lives < 2)
      <3>1. lives \in Nat /\ lives' \in Nat
        <4>1. lives \in 0..MaxLives /\ lives' \in 0..MaxLives
          BY <1>1 DEF EventsTypeOK
        <4> QED BY <4>1, NobodyIs
      <3> QED BY <3>1 DEF EventsInv
    <2>2. Waits("app", k)' = Waits("app", k) /\ \A e : Reached("app", e)' = Reached("app", e)
      BY <1>1 DEF Waits, Reached
    <2> QED BY <1>1, <2>1, <2>2, PlacesKept
  <1>5. \A w \in Watchers : Served(w)'
    BY <1>1, ServedKept DEF EventsInv, Waits
  <1> QED BY <1>2, <1>3, <1>4, <1>5 DEF EventsInv

\* A start's readers get a state all together.
LEMMA ReadersAre ==
    ASSUME EventsTypeOK, NEW s \in ReaderSets, NEW state, Readers(s, state)
    PROVE  /\ \A k \in Channel : hands'[s][k] = state
           /\ \A t \in ReaderSets \ {s} : hands'[t] = hands[t]
           /\ state \in {Nobody, "waits", "off"} =>
                hands' \in [ReaderSets -> [Channel -> Happenings \cup {Nobody, "waits", "off"}]]
  BY DEF EventsTypeOK, Readers

\* The steps of the node keep the invariant.
LEMMA NodeMovesKeep ==
    ASSUME EventsInv, NodeMoves
    PROVE  EventsInv'
  <1>0. /\ EventsTypeOK /\ Attended /\ lives \in 0..MaxLives /\ lives \in Nat
    BY EventsTypes DEF EventsInv, EventsTypeOK
  <1>1. ASSUME UNCHANGED <<RestOfNode, hands>>, EventsTypeOK', Attended', lives' >= lives,
               life # "off" => life' # "off"
        PROVE  EventsInv'
    BY <1>1, NodeFrame
  <1>2. ASSUME AppListens PROVE EventsInv'
    <2>1. EventsTypeOK'
      BY <1>0, <1>2 DEF AppListens, EventsTypeOK, RestOfNode, senderVars, noteVars
    <2>2. Attended'
      BY <1>0, <1>2 DEF AppListens, Attended
    <2> QED BY <1>0, <1>1, <1>2, <2>1, <2>2 DEF AppListens
  <1>3. ASSUME StartBegins PROVE EventsInv'
    <2>0. lives' \in 0..MaxLives
      BY <1>0, <1>3, NobodyIs DEF StartBegins
    <2>1. EventsTypeOK'
      BY <1>0, <1>3, <2>0 DEF StartBegins, EventsTypeOK, RestOfNode, senderVars, noteVars
    <2>2. Attended'
      BY <1>0, <1>3 DEF StartBegins, Attended, ReaderSets
    <2> QED BY <1>0, <1>1, <1>3, <2>1, <2>2 DEF StartBegins
  <1>4. ASSUME StartReturns PROVE EventsInv'
    <2>1. PICK state \in {Nobody, "waits"} : Readers(lives, state)
      BY <1>4 DEF StartReturns
    <2>2. lives \in ReaderSets
      BY <1>0, <1>4 DEF StartReturns, Attended, ReaderSets
    <2>3. /\ UNCHANGED <<RestOfNode, lives, onlineNow, listens, shut>>
          /\ life = "starting" /\ life' = "started"
          /\ \A k \in Channel : hands[lives][k] = "off"
      BY <1>0, <1>4, <2>2 DEF StartReturns, Attended
    <2>4. EventsTypeOK'
      BY <1>0, <2>1, <2>2, <2>3, ReadersAre DEF EventsTypeOK, RestOfNode, senderVars, noteVars
    <2>5. Attended'
      BY <1>0, <2>1, <2>2, <2>3, ReadersAre, NobodyIs DEF Attended, ReaderSets, Channel
    <2>6. \A s \in ReaderSets, k \in Channel : hands'[s][k] = hands[s][k]
            \/ (hands[s][k] \notin Happenings /\ hands'[s][k] \notin Happenings)
      BY <1>0, <2>1, <2>2, <2>3, ReadersAre, NobodyIs
    <2> QED BY <1>0, <2>3, <2>4, <2>5, <2>6, NodeFrame
  <1>5. ASSUME StartGivesUp PROVE EventsInv'
    <2>1. EventsTypeOK'
      BY <1>0, <1>5 DEF StartGivesUp, EventsTypeOK, RestOfNode, senderVars, noteVars
    <2>2. Attended'
      BY <1>0, <1>5 DEF StartGivesUp, Attended, ReaderSets
    <2> QED BY <1>0, <1>1, <1>5, <2>1, <2>2 DEF StartGivesUp
  <1>6. ASSUME NodeOnline PROVE EventsInv'
    <2>1. EventsTypeOK'
      BY <1>0, <1>6 DEF NodeOnline, EventsTypeOK, RestOfNode, senderVars, noteVars
    <2>2. Attended'
      BY <1>0, <1>6 DEF NodeOnline, Attended, ReaderSets
    <2> QED BY <1>0, <1>1, <1>6, <2>1, <2>2 DEF NodeOnline
  <1>7. ASSUME NEW s \in ReaderSets, ReadersOnline(s) PROVE EventsInv'
    <2>1. /\ UNCHANGED <<RestOfNode, life, lives, onlineNow, listens, shut>> /\ Readers(s, Nobody)
          /\ \A k \in Channel : hands[s][k] = "waits"
      BY <1>0, <1>7 DEF ReadersOnline, Attended, nodeLife
    <2>2. EventsTypeOK'
      BY <1>0, <2>1, ReadersAre DEF EventsTypeOK, RestOfNode, senderVars, noteVars
    <2>3. Attended'
      BY <1>0, <2>1, ReadersAre, NobodyIs DEF Attended, Channel, RestOfNode
    <2>4. \A t \in ReaderSets, k \in Channel : hands'[t][k] = hands[t][k]
            \/ (hands[t][k] \notin Happenings /\ hands'[t][k] \notin Happenings)
      BY <1>0, <2>1, ReadersAre, NobodyIs
    <2> QED BY <1>0, <2>1, <2>2, <2>3, <2>4, NodeFrame
  <1>8. ASSUME StopNodeNow PROVE EventsInv'
    <2>1. EventsTypeOK'
      BY <1>0, <1>8 DEF StopNodeNow, EventsTypeOK, RestOfNode, senderVars, noteVars
    <2>2. Attended'
      BY <1>0, <1>8 DEF StopNodeNow, Attended, ReaderSets
    <2> QED BY <1>0, <1>1, <1>8, <2>1, <2>2 DEF StopNodeNow
  <1>9. ASSUME CloseChns PROVE EventsInv'
    <2>1. shut' \subseteq Channel
      BY <1>0, <1>9 DEF CloseChns, EventsTypeOK
    <2>2. EventsTypeOK'
      BY <1>0, <1>9, <2>1 DEF CloseChns, EventsTypeOK, RestOfNode, senderVars, noteVars
    <2>3. Attended'
      BY <1>0, <1>9 DEF CloseChns, Attended, RestOfNode
    <2> QED BY <1>0, <1>1, <1>9, <2>2, <2>3 DEF CloseChns
  <1>10. ASSUME Exit PROVE EventsInv'
    <2>1. EventsTypeOK'
      BY <1>0, <1>10 DEF Exit, EventsTypeOK, RestOfNode, senderVars, noteVars
    <2>2. Attended'
      BY <1>0, <1>10 DEF Exit, Attended, Channel, RestOfNode
    <2> QED BY <1>0, <1>1, <1>10, <2>1, <2>2 DEF Exit
  <1> QED BY <1>2, <1>3, <1>4, <1>5, <1>6, <1>7, <1>8, <1>9, <1>10 DEF NodeMoves

-----------------------------------------------------------------------------
(* Senders                                                                   *)

\* A sender has come further, and nothing was sent.
LEMMA SenderMoves ==
    ASSUME EventsInv, EventsTypeOK', Writing', Paged',
           UNCHANGED <<way, nodeLife, readerVars, bcast, sentOn, chan, watch>>,
           \A e \in Happenings : writer[e] = "done" => writer'[e] = "done",
           bcast.by # Nobody => writer'[bcast.by] = writer[bcast.by],
           \A e \in Happenings : noteRows[e] # "none" => noteRows'[e] # "none"
    PROVE  EventsInv'
  <1>1. /\ UNCHANGED <<way, life, lives, onlineNow, listens, shut, hands, toldOf>>
        /\ UNCHANGED <<bcast, sentOn, chan, watch>>
        /\ EventsTypeOK
    BY DEF nodeLife, readerVars, EventsInv
  <1>2. Dispatched'
    <2>1. \A k \in Channel : \A e \in Within(sentOn[k]) : e \in Happenings
      BY <1>1, EventsTypes DEF Within
    <2> QED BY <1>1, <2>1, DispatchedKept DEF EventsInv
  <1>3. Sending'
    BY <1>1, SendingKept DEF EventsInv, Sending
  <1>4. Attended'
    BY <1>1 DEF EventsInv, Attended
  <1>5. ASSUME NEW k \in Channel PROVE Placed(k)' /\ Came(k)' /\ InTurn(k)'
    <2>1. Waits("app", k)' = Waits("app", k) /\ \A e : Reached("app", e)' = Reached("app", e)
      BY <1>1 DEF Waits, Reached
    <2>2. Placed(k) /\ Came(k) /\ InTurn(k)
      BY DEF EventsInv
    <2> QED BY <1>1, <2>1, <2>2, PlacesKept
  <1>6. \A w \in Watchers : Served(w)'
    BY <1>1, ServedKept DEF EventsInv, Waits
  <1> QED BY <1>2, <1>3, <1>4, <1>5, <1>6 DEF EventsInv

\* Where a sender can be.
LEMMA MovesTo ==
    ASSUME EventsTypeOK, NEW e \in Happenings,
           NEW s \in {"none", "row", "view", "send", "done"}, Moves(e, s)
    PROVE  /\ writer' \in [Happenings -> {"none", "row", "view", "send", "done"}]
           /\ writer'[e] = s /\ \A f \in Happenings \ {e} : writer'[f] = writer[f]
  BY DEF EventsTypeOK, Moves

\* What happens is not sent yet.
LEMMA HappenKeeps ==
    ASSUME EventsInv, NEW e \in Happenings, Happen(e)
    PROVE  EventsInv'
  <1>1. PICK s \in {"row", "send", "done"} : Moves(e, s) /\ (s = "row" <=> On(e) = "note")
    BY DEF Happen
  <1>2. /\ UNCHANGED <<way, nodeLife, readerVars, bcast, sentOn, nameless, chan>>
        /\ UNCHANGED <<noteRows, pager, watch, fell>>
        /\ UNCHANGED <<life, lives, onlineNow, listens, shut, hands, toldOf>>
        /\ writer[e] = "none" /\ life # "off" /\ EventsTypeOK
    BY DEF Happen, Rest, noteVars, nodeLife, readerVars, EventsInv
  <1>3. /\ writer' \in [Happenings -> {"none", "row", "view", "send", "done"}]
        /\ writer'[e] = s /\ \A f \in Happenings \ {e} : writer'[f] = writer[f]
    BY <1>1, <1>2, MovesTo
  <1>4. EventsTypeOK'
    BY <1>2, <1>3 DEF EventsTypeOK
  <1>5. Writing'
    BY <1>1, <1>2, <1>3 DEF EventsInv, Writing, On
  <1>6. Paged'
    BY <1>2, PagedKept DEF EventsInv
  <1>7. bcast.by # Nobody => bcast.by # e /\ bcast.by \in Happenings
    BY <1>2, EventsTypes DEF EventsInv, Sending
  <1> QED BY <1>2, <1>3, <1>4, <1>5, <1>6, <1>7, SenderMoves

\* A row that is made is none that a reader of pages wants.
LEMMA AddNoteKeeps ==
    ASSUME EventsInv, NEW e \in Happenings, AddNote(e)
    PROVE  EventsInv'
  <1>1. /\ UNCHANGED <<way, nodeLife, readerVars, bcast, sentOn, nameless, chan, pager, watch, fell>>
        /\ UNCHANGED <<life, lives, onlineNow, listens, shut, hands, toldOf>>
        /\ writer[e] = "row" /\ noteRows[e] = "none" /\ EventsTypeOK /\ life # "off"
    BY DEF AddNote, Rest, nodeLife, readerVars, EventsInv, Writing
  <1>2. bcast.by # Nobody => bcast.by # e /\ bcast.by \in Happenings
    BY <1>1, EventsTypes DEF EventsInv, Sending
  <1>3. CASE Moves(e, "done") /\ noteRows' = noteRows
    <2>1. /\ writer' \in [Happenings -> {"none", "row", "view", "send", "done"}]
          /\ writer'[e] = "done" /\ \A f \in Happenings \ {e} : writer'[f] = writer[f]
      BY <1>1, <1>3, MovesTo
    <2>2. EventsTypeOK'
      BY <1>1, <1>3, <2>1 DEF EventsTypeOK
    <2>3. Writing'
      BY <1>1, <1>3, <2>1 DEF EventsInv, Writing, On
    <2>4. Paged'
      BY <1>1, <1>3, PagedKept DEF EventsInv
    <2> QED BY <1>1, <1>2, <1>3, <2>1, <2>2, <2>3, <2>4, SenderMoves
  <1>4. CASE Moves(e, "view") /\ noteRows' = [noteRows EXCEPT ![e] = "unread"]
    <2>1. /\ writer' \in [Happenings -> {"none", "row", "view", "send", "done"}]
          /\ writer'[e] = "view" /\ \A f \in Happenings \ {e} : writer'[f] = writer[f]
      BY <1>1, <1>4, MovesTo
    <2>2. /\ noteRows' \in NoteTable /\ noteRows'[e] = "unread"
          /\ \A f \in Happenings \ {e} : noteRows'[f] = noteRows[f]
      BY <1>1, <1>4 DEF EventsTypeOK, NoteTable
    <2>3. EventsTypeOK'
      BY <1>1, <2>1, <2>2 DEF EventsTypeOK
    <2>4. Writing'
      BY <1>1, <2>1, <2>2 DEF EventsInv, Writing, On
    <2>5. Paged'
      <3>1. Paged /\ pager.want \subseteq Happenings /\ pager.offset \in Happenings \cup {Nobody}
        BY <1>1, EventsTypes DEF EventsInv
      <3>2. OfNotes' = OfNotes \cup {e}
        BY <2>2 DEF OfNotes
      <3>3. IsFiniteSet(OfNotes')
        BY <3>1, <3>2, FS_AddElement DEF Paged
      <3>4. e \notin pager.want /\ pager.offset # e
        BY <1>1, <3>1, NobodyIs DEF Paged
      <3>5. DatesEqual => DatesEqual'
        BY <1>1, <2>2 DEF DatesEqual, Date
      <3>6. \A f \in pager.want \cup {pager.offset} : f # Nobody => noteRows'[f] # "none"
        BY <2>2, <3>1, <3>4 DEF Paged
      <3> QED BY <1>1, <3>1, <3>2, <3>3, <3>4, <3>5, <3>6 DEF Paged, Date
    <2> QED BY <1>1, <1>2, <2>1, <2>2, <2>3, <2>4, <2>5, SenderMoves
  <1> QED BY <1>3, <1>4 DEF AddNote

\* The view of a notification is made after its row.
LEMMA NotificationViewKeeps ==
    ASSUME EventsInv, NEW e \in Happenings, NotificationView(e)
    PROVE  EventsInv'
  <1>1. /\ UNCHANGED <<way, nodeLife, readerVars, bcast, sentOn, chan, noteRows, pager, watch, fell>>
        /\ UNCHANGED <<life, lives, onlineNow, listens, shut, hands, toldOf>>
        /\ writer[e] = "view" /\ EventsTypeOK /\ life # "off" /\ Moves(e, "send")
        /\ nameless' \subseteq Happenings
    BY DEF NotificationView, Rest, nodeLife, readerVars, noteVars, EventsInv, Writing, EventsTypeOK
  <1>2. bcast.by # Nobody => bcast.by # e /\ bcast.by \in Happenings
    BY <1>1, EventsTypes DEF EventsInv, Sending
  <1>3. /\ writer' \in [Happenings -> {"none", "row", "view", "send", "done"}]
        /\ writer'[e] = "send" /\ \A f \in Happenings \ {e} : writer'[f] = writer[f]
    BY <1>1, MovesTo
  <1>4. EventsTypeOK'
    BY <1>1, <1>3 DEF EventsTypeOK
  <1>5. Writing'
    BY <1>1, <1>3 DEF EventsInv, Writing, On
  <1>6. Paged'
    BY <1>1, PagedKept DEF EventsInv
  <1> QED BY <1>1, <1>2, <1>3, <1>4, <1>5, <1>6, SenderMoves

\* What the sender of a channel puts there was not there.
LEMMA NotYetSent ==
    ASSUME EventsInv, NEW e \in Happenings, writer[e] = "send", e # bcast.by, NEW k \in Channel
    PROVE  e \notin Within(sentOn[k])
  BY DEF EventsInv, Dispatched

\* What is told or on its way was sent.
LEMMA WasSent ==
    ASSUME EventsInv, NEW k \in Channel
    PROVE  /\ Within(toldOf[k]) \subseteq Within(sentOn[k])
           /\ Within(chan[k]) \subseteq Within(sentOn[k])
           /\ \A s \in Taken(k) : hands[s][k] \in Within(sentOn[k])
  <1>1. Came(k)
    BY DEF EventsInv
  <1> QED BY <1>1 DEF Came, Arrived

\* What was sent, cut into what was told, what is in hand, what is in the channel and
\* what waits: each place of a part is a place of the whole.
LEMMA Cut ==
    ASSUME NEW n \in Nat, NEW a \in Nat, NEW h \in Nat, NEW c \in Nat, NEW w \in Nat, n = a + h + c + w
    PROVE  /\ \A i \in 1..a : i \in 1..n
           /\ h >= 1 => a + 1 \in 1..n
           /\ \A i \in 1..c : a + h + i \in 1..n
  OBVIOUS

\* A channel gets one more for the application.
LEMMA ComesIn ==
    ASSUME EventsTypeOK, NEW k \in Channel, NEW e \in Happenings, Placed(k), Came(k), InTurn(k),
           UNCHANGED <<lives, hands>>, toldOf'[k] = toldOf[k], chan'[k] = Append(chan[k], e),
           e \notin Within(toldOf[k]), e \notin Within(chan[k]), \A s \in Taken(k) : hands[s][k] # e,
           Arrived(k)' = Arrived(k) \cup {e}, Waits("app", k)' = 0,
           Len(sentOn'[k]) = Len(sentOn[k]) - Waits("app", k) + 1,
           \A i \in DOMAIN sentOn[k] : sentOn'[k][i] = sentOn[k][i],
           sentOn'[k][Len(sentOn'[k])] = e
    PROVE  Placed(k)' /\ Came(k)' /\ InTurn(k)'
  <1>1. /\ chan[k] \in Seq(Happenings) /\ sentOn[k] \in Seq(Happenings) /\ toldOf[k] \in Seq(Happenings)
    BY EventsTypes
  <1>2. /\ Len(chan'[k]) = Len(chan[k]) + 1 /\ Len(chan[k]) \in Nat
        /\ DOMAIN chan[k] = 1..Len(chan[k]) /\ DOMAIN chan'[k] = 1..(Len(chan[k]) + 1)
        /\ chan'[k][Len(chan[k]) + 1] = e
        /\ \A i \in DOMAIN chan[k] : chan'[k][i] = chan[k][i]
        /\ Within(chan'[k]) = Within(chan[k]) \cup {e}
    BY <1>1, Appended
  <1>3. /\ Taken(k)' = Taken(k) /\ \A s \in Taken(k) : hands'[s][k] = hands[s][k]
        /\ \A i \in DOMAIN chan'[k] : i \in DOMAIN chan[k] \/ i = Len(chan[k]) + 1
    BY <1>2 DEF Taken
  <1>4. Placed(k)'
    <2>1. \A i \in DOMAIN chan[k] : chan[k][i] # e /\ chan'[k][i] = chan[k][i]
      BY <1>2 DEF Within
    <2>2. \A i, j \in DOMAIN chan'[k] : chan'[k][i] = chan'[k][j] => i = j
      BY <1>2, <1>3, <2>1 DEF Placed
    <2>3. \A i \in DOMAIN toldOf[k], j \in DOMAIN chan'[k] : toldOf[k][i] # chan'[k][j]
      BY <1>2, <1>3, <2>1 DEF Placed, Within
    <2>4. \A s \in Taken(k) : hands[s][k] \notin Within(chan'[k])
      BY <1>2 DEF Placed
    <2> QED BY <1>3, <2>2, <2>3, <2>4 DEF Placed, Within
  <1>5. Came(k)'
    <2>1. Within(toldOf[k])' = Within(toldOf[k]) /\ Within(chan[k])' = Within(chan[k]) \cup {e}
      BY <1>2 DEF Within
    <2>2. {hands[s][k] : s \in Taken(k)}' = {hands[s][k] : s \in Taken(k)}
      BY <1>3
    <2> QED BY <2>1, <2>2 DEF Came
  <1>6. InTurn(k)'
    <2>1. InHand(k)' = InHand(k) /\ InHand(k) \in Nat
      BY <1>3 DEF InHand
    <2>2. /\ Len(toldOf[k]) \in Nat /\ DOMAIN toldOf[k] = 1..Len(toldOf[k])
          /\ Len(sentOn[k]) \in Nat /\ DOMAIN sentOn[k] = 1..Len(sentOn[k])
          /\ Waits("app", k) \in Nat
      BY <1>1 DEF Waits
    <2>3. SUFFICES ASSUME lives < 2
                   PROVE  InTurn(k)'
      BY DEF InTurn
    <2>4. /\ Len(sentOn[k]) = Len(toldOf[k]) + InHand(k) + Len(chan[k]) + Waits("app", k)
          /\ \A i \in DOMAIN toldOf[k] : toldOf[k][i] = sentOn[k][i]
          /\ \A s \in Taken(k) : hands[s][k] = sentOn[k][Len(toldOf[k]) + 1]
          /\ \A i \in DOMAIN chan[k] : chan[k][i] = sentOn[k][Len(toldOf[k]) + InHand(k) + i]
      BY <2>3 DEF InTurn
    <2>10. /\ Len(toldOf[k]) \in Nat /\ Len(sentOn[k]) \in Nat /\ Len(chan[k]) \in Nat
           /\ InHand(k) \in Nat /\ Waits("app", k) \in Nat
      BY <1>2, <2>1, <2>2
    <2>11. /\ \A i \in DOMAIN toldOf[k] : i \in DOMAIN sentOn[k]
           /\ InHand(k) >= 1 => Len(toldOf[k]) + 1 \in DOMAIN sentOn[k]
           /\ \A i \in DOMAIN chan[k] : Len(toldOf[k]) + InHand(k) + i \in DOMAIN sentOn[k]
      <3>1. PICK n, a, h, c, w \in Nat : /\ n = Len(sentOn[k]) /\ a = Len(toldOf[k])
                                        /\ h = InHand(k) /\ c = Len(chan[k]) /\ w = Waits("app", k)
        BY <2>10
      <3>2. n = a + h + c + w
        BY <2>4, <3>1
      <3>3. DOMAIN sentOn[k] = 1..n /\ DOMAIN toldOf[k] = 1..a /\ DOMAIN chan[k] = 1..c
        BY <1>2, <2>2, <3>1
      <3>4. /\ \A i \in 1..a : i \in 1..n
            /\ h >= 1 => a + 1 \in 1..n
            /\ \A i \in 1..c : a + h + i \in 1..n
        BY <3>2, Cut
      <3> QED BY <3>1, <3>3, <3>4
    <2>5. Len(sentOn'[k]) = Len(toldOf[k]) + InHand(k) + Len(chan'[k])
      <3>1. PICK n, a, h, c, w \in Nat : /\ n = Len(sentOn[k]) /\ a = Len(toldOf[k])
                                        /\ h = InHand(k) /\ c = Len(chan[k]) /\ w = Waits("app", k)
        BY <2>10
      <3>2. n = a + h + c + w /\ Len(sentOn'[k]) = n - w + 1 /\ Len(chan'[k]) = c + 1
        BY <1>2, <2>4, <3>1
      <3>3. n - w + 1 = a + h + (c + 1)
        BY <3>2
      <3> QED BY <3>1, <3>2, <3>3
    <2>6. \A i \in DOMAIN toldOf[k] : toldOf[k][i] = sentOn'[k][i]
      BY <2>4, <2>11
    <2>7. \A s \in Taken(k) : hands[s][k] = sentOn'[k][Len(toldOf[k]) + 1]
      <3>1. ASSUME NEW s \in Taken(k) PROVE Len(toldOf[k]) + 1 \in DOMAIN sentOn[k]
        <4>1. InHand(k) >= 1
          BY DEF InHand
        <4> QED BY <2>11, <4>1
      <3> QED BY <2>4, <3>1
    <2>8. \A i \in DOMAIN chan'[k] : chan'[k][i] = sentOn'[k][Len(toldOf[k]) + InHand(k) + i]
      <3>1. ASSUME NEW i \in DOMAIN chan[k]
            PROVE  chan'[k][i] = sentOn'[k][Len(toldOf[k]) + InHand(k) + i]
        <4>1. Len(toldOf[k]) + InHand(k) + i \in DOMAIN sentOn[k]
          BY <2>11
        <4> QED BY <1>2, <2>4, <4>1
      <3>2. Len(toldOf[k]) + InHand(k) + (Len(chan[k]) + 1) = Len(sentOn'[k])
        BY <1>2, <2>1, <2>2, <2>5
      <3>3. chan'[k][Len(chan[k]) + 1] = sentOn'[k][Len(toldOf[k]) + InHand(k) + (Len(chan[k]) + 1)]
        BY <1>2, <3>2
      <3> QED BY <1>3, <3>1, <3>3
    <2>9. Len(sentOn'[k]) = Len(toldOf'[k]) + InHand(k)' + Len(chan'[k]) + Waits("app", k)'
      BY <2>1, <2>2, <1>2, <2>5
    <2> QED BY <1>3, <2>1, <2>6, <2>7, <2>8, <2>9 DEF InTurn
  <1> QED BY <1>4, <1>5, <1>6

\* A notification or an account update is put into its channel.
LEMMA SendOnKeeps ==
    ASSUME EventsInv, NEW e \in Happenings, SendOn(e)
    PROVE  EventsInv'
  <1>0. PICK k \in Channel : k = On(e)
    BY EventsTypes DEF EventsInv
  <1>1. /\ UNCHANGED <<way, nodeLife, readerVars, bcast, nameless, noteRows, pager, watch>>
        /\ UNCHANGED <<life, lives, onlineNow, listens, shut, hands, toldOf>>
        /\ writer[e] = "send" /\ k # "feed" /\ k = On(e) /\ k = On(e)'
        /\ EventsTypeOK /\ life # "off"
    BY <1>0 DEF On, SendOn, Rest, nodeLife, readerVars, noteVars, EventsInv, Writing
  <1>2. Paged' /\ (bcast.by # Nobody => bcast.by # e /\ bcast.by \in Happenings)
    BY <1>1, PagedKept, EventsTypes DEF EventsInv, Sending
  <1>3. CASE fell' = "closed channel" /\ UNCHANGED <<chan, sentOn, writer>>
    <2>1. EventsTypeOK'
      BY <1>1, <1>3 DEF EventsTypeOK
    <2>2. Writing'
      BY <1>1, <1>3 DEF EventsInv, Writing, On
    <2> QED BY <1>1, <1>2, <1>3, <2>1, <2>2, SenderMoves
  <1>4. CASE /\ Len(chan[k]) < Room /\ fell' = fell
             /\ Moves(e, "done") /\ PutIn(k, e) /\ NoteSent(k, e)
    <2>1. /\ writer' \in [Happenings -> {"none", "row", "view", "send", "done"}]
          /\ writer'[e] = "done" /\ \A f \in Happenings \ {e} : writer'[f] = writer[f]
      BY <1>1, <1>4, MovesTo
    <2>2. /\ chan[k] \in Seq(Happenings) /\ sentOn[k] \in Seq(Happenings) /\ toldOf[k] \in Seq(Happenings)
          /\ chan'[k] = Append(chan[k], e) /\ sentOn'[k] = Append(sentOn[k], e)
          /\ \A c \in Channel \ {k} : chan'[c] = chan[c] /\ sentOn'[c] = sentOn[c]
          /\ toldOf'[k] = toldOf[k]
      BY <1>1, <1>4, EventsTypes DEF PutIn, NoteSent, EventsTypeOK
    <2>3. /\ Len(chan'[k]) = Len(chan[k]) + 1 /\ Len(chan[k]) \in Nat
          /\ DOMAIN chan[k] = 1..Len(chan[k]) /\ DOMAIN chan'[k] = 1..(Len(chan[k]) + 1)
          /\ chan'[k][Len(chan[k]) + 1] = e
          /\ \A i \in DOMAIN chan[k] : chan'[k][i] = chan[k][i]
          /\ Within(chan'[k]) = Within(chan[k]) \cup {e}
      BY <2>2, Appended
    <2>4. /\ Len(sentOn'[k]) = Len(sentOn[k]) + 1 /\ Len(sentOn[k]) \in Nat
          /\ DOMAIN sentOn[k] = 1..Len(sentOn[k]) /\ DOMAIN sentOn'[k] = 1..(Len(sentOn[k]) + 1)
          /\ sentOn'[k][Len(sentOn[k]) + 1] = e
          /\ \A i \in DOMAIN sentOn[k] : sentOn'[k][i] = sentOn[k][i]
          /\ Within(sentOn'[k]) = Within(sentOn[k]) \cup {e}
      BY <2>2, Appended
    <2>5. /\ chan' \in [Channel -> Seq(Happenings)] /\ sentOn' \in [Channel -> Seq(Happenings)]
          /\ \A c \in Channel : Len(chan'[c]) <= Room
      <3>1. Append(chan[k], e) \in Seq(Happenings) /\ Append(sentOn[k], e) \in Seq(Happenings)
        BY <2>2, Appended
      <3>2. Len(chan'[k]) <= Room
        BY <1>4, <2>3, NobodyIs
      <3> QED BY <1>1, <1>4, <2>2, <3>1, <3>2 DEF PutIn, NoteSent, EventsTypeOK
    <2>6. EventsTypeOK'
      BY <1>1, <1>4, <2>1, <2>5 DEF EventsTypeOK
    <2>7. Writing'
      BY <1>1, <2>1 DEF EventsInv, Writing, On
    <2>8. e \notin Within(sentOn[k]) /\ e # bcast.by
      BY <1>1, <1>2, NotYetSent, NobodyIs
    <2>9. Dispatched'
      <3>1. ASSUME NEW c \in Channel, c # k
            PROVE  /\ \A i, j \in DOMAIN sentOn'[c] : sentOn'[c][i] = sentOn'[c][j] => i = j
                   /\ \A f \in Within(sentOn'[c]) :
                        /\ On(f)' = c /\ (writer'[f] = "done" \/ f = bcast'.by)
                        /\ c = "note" => noteRows'[f] # "none"
        <4>1. sentOn'[c] = sentOn[c] /\ sentOn[c] \in Seq(Happenings)
          BY <1>1, <2>2, <3>1, EventsTypes
        <4>2. \A f \in Within(sentOn[c]) : f \in Happenings
          BY <4>1 DEF Within
        <4> QED BY <1>1, <2>1, <3>1, <4>1, <4>2 DEF EventsInv, Dispatched, On
      <3>2. \A i, j \in DOMAIN sentOn'[k] : sentOn'[k][i] = sentOn'[k][j] => i = j
        <4>1. \A i \in DOMAIN sentOn'[k] : i \in DOMAIN sentOn[k] \/ i = Len(sentOn[k]) + 1
          BY <2>4
        <4>2. \A i \in DOMAIN sentOn[k] : sentOn'[k][i] = sentOn[k][i] /\ sentOn[k][i] # e
          BY <2>4, <2>8 DEF Within
        <4>3. \A i, j \in DOMAIN sentOn[k] : sentOn[k][i] = sentOn[k][j] => i = j
          BY <1>1 DEF EventsInv, Dispatched
        <4> QED BY <2>4, <4>1, <4>2, <4>3
      <3>3. ASSUME NEW f \in Within(sentOn'[k])
            PROVE  /\ On(f)' = k /\ (writer'[f] = "done" \/ f = bcast'.by)
                   /\ k = "note" => noteRows'[f] # "none"
        <4>1. CASE f = e
          BY <1>1, <2>1, <4>1 DEF On, EventsInv, Writing
        <4>2. CASE f \in Within(sentOn[k])
          <5>1. f \in Happenings
            BY <2>2, <4>2 DEF Within
          <5> QED BY <1>1, <2>1, <4>2, <5>1 DEF On, EventsInv, Dispatched
        <4> QED BY <2>4, <3>3, <4>1, <4>2
      <3> QED BY <3>1, <3>2, <3>3 DEF Dispatched
    <2>10. sentOn'["feed"] = sentOn["feed"] /\ "feed" \in Channel
      BY <1>1, <2>2 DEF Channel
    <2>11. Sending'
      BY <1>1, <1>2, <2>1, <2>8, <2>10 DEF EventsInv, Sending, On
    <2>12. Attended'
      BY <1>1 DEF EventsInv, Attended
    <2>13. ASSUME NEW c \in Channel, c # k PROVE Placed(c)' /\ Came(c)' /\ InTurn(c)'
      <3>1. Waits("app", c)' = Waits("app", c) /\ \A f : Reached("app", f)' = Reached("app", f)
        BY <1>1 DEF Waits, Reached
      <3>2. Placed(c) /\ Came(c) /\ InTurn(c)
        BY DEF EventsInv
      <3>3. chan'[c] = chan[c] /\ sentOn'[c] = sentOn[c] /\ toldOf'[c] = toldOf[c]
        BY <1>1, <2>2, <2>13
      <3> QED BY <1>1, <3>1, <3>2, <3>3, PlacesKept
    <2>14. Placed(k)' /\ Came(k)' /\ InTurn(k)'
      <3>1. /\ Placed(k) /\ Came(k) /\ InTurn(k) /\ Waits("app", k) = 0 /\ Waits("app", k)' = 0
            /\ Arrived(k) = Within(sentOn[k])
        BY <1>1 DEF EventsInv, Waits, Arrived
      <3>2. Arrived(k)' = Arrived(k) \cup {e}
        BY <1>1, <2>4, <3>1 DEF Arrived, Within
      <3>3. e \notin Within(toldOf[k]) /\ e \notin Within(chan[k]) /\ \A s \in Taken(k) : hands[s][k] # e
        BY <1>1, <2>8, WasSent
      <3>4. /\ Len(sentOn'[k]) = Len(sentOn[k]) - Waits("app", k) + 1
            /\ sentOn'[k][Len(sentOn'[k])] = e
        BY <2>4, <3>1
      <3>5. \A i \in DOMAIN sentOn[k] : sentOn'[k][i] = sentOn[k][i]
        BY <2>4
      <3> QED BY <1>1, <2>2, <3>1, <3>2, <3>3, <3>4, <3>5, ComesIn
    <2>18. ASSUME NEW w \in Watchers PROVE Served(w)'
      <3>1. Waits(w, "feed")' = Waits(w, "feed") /\ Served(w)
        BY <1>1 DEF Waits, EventsInv
      <3> QED BY <1>1, <2>10, <3>1, ServedKept
    <2>19. \A c \in Channel : Placed(c)' /\ Came(c)' /\ InTurn(c)'
      BY <2>13, <2>14
    <2> QED BY <1>2, <2>6, <2>7, <2>9, <2>11, <2>12, <2>18, <2>19 DEF EventsInv
  <1> QED BY <1>0, <1>3, <1>4 DEF SendOn

\* What is left once one more is given back.
LEMMA OneLess ==
    \A a, c, d \in Nat : a - c - d = (a - c - (d + 1)) + 1
  OBVIOUS

\* How far a watcher has come.
LEMMA SeenIs ==
    ASSUME EventsTypeOK, NEW w \in Watchers
    PROVE  /\ Waits(w, "feed") \in {0, 1} /\ Len(watch[w].queue) \in Nat /\ Len(sentOn["feed"]) \in Nat
           /\ DOMAIN sentOn["feed"] = 1..Len(sentOn["feed"])
           /\ DOMAIN watch[w].queue = 1..Len(watch[w].queue)
           /\ Seen(w) \in Int /\ Seen(w) <= Len(sentOn["feed"])
           /\ Seen(w) + Len(watch[w].queue) + Waits(w, "feed") = Len(sentOn["feed"])
  <1>1. sentOn["feed"] \in Seq(Happenings) /\ watch[w].queue \in Seq(Happenings)
    BY EventsTypes DEF Channel
  <1>2. Waits(w, "feed") \in {0, 1}
    BY DEF Waits
  <1>3. Len(watch[w].queue) \in Nat /\ Len(sentOn["feed"]) \in Nat
    BY <1>1
  <1>4. /\ Seen(w) \in Int /\ Seen(w) <= Len(sentOn["feed"])
        /\ Seen(w) + Len(watch[w].queue) + Waits(w, "feed") = Len(sentOn["feed"])
    <2>1. Waits(w, "feed") \in Int /\ Waits(w, "feed") >= 0
      BY <1>2
    <2>2. Seen(w) = Len(sentOn["feed"]) - Waits(w, "feed") - Len(watch[w].queue)
      BY DEF Seen
    <2> QED BY <1>3, <2>1, <2>2
  <1> QED BY <1>1, <1>2, <1>3, <1>4

\* More is on its way to a watcher, which has seen and given what it had.
LEMMA ServedMore ==
    ASSUME EventsTypeOK, NEW w \in Watchers, way' = way, Seen(w)' = Seen(w), Served(w),
           \A p \in DOMAIN sentOn["feed"] : sentOn'["feed"][p] = sentOn["feed"][p],
           watch'[w].at \in {"open", "leaving"} => watch[w].at \in {"open", "leaving"},
           watch'[w].from = watch[w].from, watch'[w].given = watch[w].given,
           (\A i \in DOMAIN watch[w].queue : watch[w].queue[i] = sentOn["feed"][Seen(w) + i])'
    PROVE  Served(w)'
  <1>1. SUFFICES ASSUME watch[w].at \in {"open", "leaving"}
                 PROVE  Served(w)'
    BY DEF Served
  <1>2. \A p \in 1..Seen(w) : p \in DOMAIN sentOn["feed"]
    BY SeenIs
  <1>3. \A p \in (watch[w].from + 1)..Seen(w) : p \in 1..Seen(w)
    BY SeenIs, EventsTypes
  <1>4. \A i \in DOMAIN watch[w].given :
            /\ AsksFor(w, watch[w].given[i])
            /\ \E p \in (watch[w].from + 1)..Seen(w) : sentOn'["feed"][p] = watch[w].given[i]
    BY <1>1, <1>2, <1>3 DEF Served
  <1>5. \A p \in (watch[w].from + 1)..Seen(w) : AsksFor(w, sentOn'["feed"][p]) =>
            \E i \in DOMAIN watch[w].given : watch[w].given[i] = sentOn'["feed"][p]
    BY <1>1, <1>2, <1>3 DEF Served
  <1>6. \A i, j \in DOMAIN watch[w].given : i < j =>
            \E p, q \in 1..Seen(w) : /\ p < q /\ sentOn'["feed"][p] = watch[w].given[i]
                                     /\ sentOn'["feed"][q] = watch[w].given[j]
    BY <1>1, <1>2 DEF Served
  <1>0. \A e : AsksFor(w, e)' <=> AsksFor(w, e)
    BY DEF AsksFor
  <1>7. (\A i \in DOMAIN watch[w].given :
            /\ AsksFor(w, watch[w].given[i])
            /\ \E p \in (watch[w].from + 1)..Seen(w) : sentOn["feed"][p] = watch[w].given[i])'
    BY <1>0, <1>4
  <1>8. (\A p \in (watch[w].from + 1)..Seen(w) : AsksFor(w, sentOn["feed"][p]) =>
            \E i \in DOMAIN watch[w].given : watch[w].given[i] = sentOn["feed"][p])'
    BY <1>0, <1>5
  <1>9. (\A i, j \in DOMAIN watch[w].given : i < j =>
            \E p, q \in 1..Seen(w) : /\ p < q /\ sentOn["feed"][p] = watch[w].given[i]
                                     /\ sentOn["feed"][q] = watch[w].given[j])'
    BY <1>6
  <1>10. (watch[w].from <= Seen(w))'
    BY <1>1 DEF Served
  <1> QED BY <1>7, <1>8, <1>9, <1>10 DEF Served

\* More was sent, and a watcher is where it was.
LEMMA ServedStill ==
    ASSUME EventsTypeOK, NEW w \in Watchers, way' = way, watch'[w] = watch[w], Seen(w)' = Seen(w),
           \A p \in DOMAIN sentOn["feed"] : sentOn'["feed"][p] = sentOn["feed"][p], Served(w)
    PROVE  Served(w)'
  <1>1. SUFFICES ASSUME watch[w].at \in {"open", "leaving"}
                 PROVE  Served(w)'
    BY DEF Served
  <1>2. ASSUME NEW i \in DOMAIN watch[w].queue PROVE Seen(w) + i \in DOMAIN sentOn["feed"]
    <2>1. i \in Nat /\ 1 <= i /\ i <= Len(watch[w].queue)
      BY SeenIs
    <2>2. watch[w].from <= Seen(w) /\ watch[w].from \in Nat
      BY <1>1, EventsTypes DEF Served
    <2>3. /\ Seen(w) + i <= Len(sentOn["feed"]) /\ 1 <= Seen(w) + i
          /\ Seen(w) + i \in Nat
      <3>1. PICK n, l, q, v \in Int : /\ n = Seen(w) /\ l = Len(sentOn["feed"])
                                     /\ q = Len(watch[w].queue) /\ v = Waits(w, "feed")
        BY SeenIs
      <3>2. n + q + v = l /\ v >= 0
        BY <3>1, SeenIs
      <3>3. n >= 0 /\ i <= q
        BY <2>1, <2>2, <3>1
      <3>4. i \in Nat /\ 1 <= i
        BY <2>1
      <3>5. n + i <= l /\ 1 <= n + i /\ n + i \in Nat
        BY <3>2, <3>3, <3>4
      <3> QED BY <3>1, <3>5
    <2> QED BY <2>3, SeenIs
  <1>3. (\A i \in DOMAIN watch[w].queue : watch[w].queue[i] = sentOn["feed"][Seen(w) + i])'
    BY <1>1, <1>2 DEF Served
  <1> QED BY <1>3, ServedMore

\* A Send that takes the broadcaster has every listener before it; one that
\* finds it closed sends nothing.
LEMMA SendBeginsKeeps ==
    ASSUME EventsInv, NEW e \in Happenings, SendBegins(e)
    PROVE  EventsInv'
  <1>1. /\ UNCHANGED <<way, nodeLife, readerVars, nameless, chan, noteRows, pager, watch, fell>>
        /\ UNCHANGED <<life, lives, onlineNow, listens, shut, hands, toldOf>>
        /\ writer[e] = "send" /\ On(e) = "feed" /\ EventsTypeOK /\ life # "off" /\ listens
        /\ bcast = NoSending /\ bcast.by = Nobody /\ bcast.left = {} /\ e # Nobody
    BY NobodyIs DEF SendBegins, Rest, nodeLife, readerVars, noteVars, EventsInv, Writing,
       Attended, NoSending
  <1>2. Paged'
    BY <1>1, PagedKept DEF EventsInv
  <1>3. CASE Moves(e, "done") /\ UNCHANGED <<bcast, sentOn>>
    <2>1. /\ writer' \in [Happenings -> {"none", "row", "view", "send", "done"}]
          /\ writer'[e] = "done" /\ \A f \in Happenings \ {e} : writer'[f] = writer[f]
      BY <1>1, <1>3, MovesTo
    <2>2. EventsTypeOK'
      BY <1>1, <1>3, <2>1 DEF EventsTypeOK
    <2>3. Writing'
      BY <1>1, <1>3, <2>1 DEF EventsInv, Writing, On
    <2> QED BY <1>1, <1>2, <1>3, <2>1, <2>2, <2>3, SenderMoves
  <1>4. CASE bcast' = [by |-> e, left |-> Listeners] /\ NoteSent("feed", e) /\ writer' = writer
    <2>1. /\ bcast'.by = e /\ bcast'.left = Listeners
          /\ bcast' \in [by : Happenings \cup {Nobody}, left : SUBSET (Watchers \cup {"app"})]
      BY <1>4 DEF Listeners
    <2>2. /\ sentOn["feed"] \in Seq(Happenings) /\ sentOn'["feed"] = Append(sentOn["feed"], e)
          /\ \A c \in Channel \ {"feed"} : sentOn'[c] = sentOn[c]
          /\ "feed" \in Channel
      BY <1>1, <1>4, EventsTypes DEF NoteSent, EventsTypeOK, Channel
    <2>3. /\ Append(sentOn["feed"], e) \in Seq(Happenings)
          /\ Len(sentOn'["feed"]) = Len(sentOn["feed"]) + 1 /\ Len(sentOn["feed"]) \in Nat
          /\ DOMAIN sentOn["feed"] = 1..Len(sentOn["feed"])
          /\ DOMAIN sentOn'["feed"] = 1..(Len(sentOn["feed"]) + 1)
          /\ sentOn'["feed"][Len(sentOn["feed"]) + 1] = e
          /\ \A i \in DOMAIN sentOn["feed"] : sentOn'["feed"][i] = sentOn["feed"][i]
          /\ Within(sentOn'["feed"]) = Within(sentOn["feed"]) \cup {e}
      BY <2>2, Appended
    <2>4. sentOn' \in [Channel -> Seq(Happenings)]
      BY <1>1, <1>4, <2>2, <2>3 DEF NoteSent, EventsTypeOK
    <2>5. EventsTypeOK'
      BY <1>1, <1>4, <2>1, <2>4 DEF EventsTypeOK
    <2>6. Writing'
      BY <1>1, <1>4 DEF EventsInv, Writing, On
    <2>7. e \notin Within(sentOn["feed"])
      BY <1>1, <2>2, NotYetSent
    <2>8. Dispatched'
      <3>1. ASSUME NEW c \in Channel, c # "feed"
            PROVE  /\ \A i, j \in DOMAIN sentOn'[c] : sentOn'[c][i] = sentOn'[c][j] => i = j
                   /\ \A f \in Within(sentOn'[c]) :
                        /\ On(f)' = c /\ (writer'[f] = "done" \/ f = bcast'.by)
                        /\ c = "note" => noteRows'[f] # "none"
        <4>1. sentOn'[c] = sentOn[c] /\ sentOn[c] \in Seq(Happenings)
          BY <1>1, <2>2, <3>1, EventsTypes
        <4>2. \A f \in Within(sentOn[c]) : f \in Happenings
          BY <4>1 DEF Within
        <4> QED BY <1>1, <1>4, NobodyIs, <4>1, <4>2 DEF EventsInv, Dispatched, On
      <3>2. \A i, j \in DOMAIN sentOn'["feed"] : sentOn'["feed"][i] = sentOn'["feed"][j] => i = j
        <4>1. \A i \in DOMAIN sentOn'["feed"] : i \in DOMAIN sentOn["feed"] \/ i = Len(sentOn["feed"]) + 1
          BY <2>3
        <4>2. \A i \in DOMAIN sentOn["feed"] :
                sentOn'["feed"][i] = sentOn["feed"][i] /\ sentOn["feed"][i] # e
          BY <2>3, <2>7 DEF Within
        <4>3. \A i, j \in DOMAIN sentOn["feed"] : sentOn["feed"][i] = sentOn["feed"][j] => i = j
          BY <2>2 DEF EventsInv, Dispatched
        <4> QED BY <2>3, <4>1, <4>2, <4>3
      <3>3. ASSUME NEW f \in Within(sentOn'["feed"])
            PROVE  On(f)' = "feed" /\ (writer'[f] = "done" \/ f = bcast'.by)
        <4>1. CASE f = e
          BY <1>1, <2>1, <4>1 DEF On
        <4>2. CASE f \in Within(sentOn["feed"])
          <5>1. f \in Happenings
            BY <2>2, <4>2 DEF Within
          <5> QED BY <1>1, <1>4, <2>2, <4>2, <5>1, NobodyIs DEF On, EventsInv, Dispatched
        <4> QED BY <2>3, <3>3, <4>1, <4>2
      <3> QED BY <3>1, <3>2, <3>3 DEF Dispatched
    <2>9. Sending'
      <3>1. /\ On(e)' = "feed" /\ writer'[e] = "send" /\ sentOn'["feed"] # <<>>
            /\ sentOn'["feed"][Len(sentOn'["feed"])] = e
        BY <1>1, <1>4, <2>2, <2>3 DEF On
      <3>2. \A l \in Listeners : l = "app" \/ watch'[l].at \in {"open", "leaving"}
        BY <1>1 DEF Listeners
      <3> QED BY <1>1, <2>1, <3>1, <3>2 DEF Sending
    <2>10. Attended'
      BY <1>1 DEF EventsInv, Attended
    <2>11. /\ "app" \in Listeners /\ \A w \in Watchers :
                w \in Listeners <=> watch[w].at \in {"open", "leaving"}
      BY <1>1, NobodyIs DEF Listeners
    <2>12. ASSUME NEW c \in Channel PROVE Placed(c)' /\ Came(c)' /\ InTurn(c)'
      <3>1. Placed(c) /\ Came(c) /\ InTurn(c)
        BY DEF EventsInv
      <3>2. CASE c # "feed"
        <4>1. Waits("app", c)' = Waits("app", c) /\ sentOn'[c] = sentOn[c]
          BY <2>2, <3>2 DEF Waits
        <4> QED BY <1>1, <3>1, <3>2, <4>1, PlacesKept
      <3>3. CASE c = "feed"
        <4>1. Taken(c)' = Taken(c)
          BY <1>1 DEF Taken
        <4>2. Placed(c)'
          BY <1>1, <3>1, <4>1 DEF Placed, Within
        <4>3. Arrived(c) = Within(sentOn[c])
          <5>1. \A f \in Within(sentOn[c]) : Reached("app", f)
            BY <1>1 DEF Reached
          <5> QED BY <5>1 DEF Arrived
        <4>4. Arrived(c)' = Within(sentOn[c])
          <5>1. \A f : f \in Arrived(c)' <=> f \in Within(sentOn[c]) \cup {e} /\ Reached("app", f)'
            <6>1. Within(sentOn[c])' = Within(sentOn[c]) \cup {e}
              <7>1. Within(sentOn[c])' = Within(sentOn'["feed"])
                BY <3>3 DEF Within
              <7> QED BY <2>3, <3>3, <7>1
            <6> QED BY <3>3, <6>1 DEF Arrived
          <5>2. \A f : Reached("app", f)' <=> f # e
            BY <2>1, <2>11 DEF Reached
          <5> QED BY <2>7, <3>3, <5>1, <5>2
        <4>5. Came(c)'
          <5>1. Within(toldOf[c])' = Within(toldOf[c]) /\ Within(chan[c])' = Within(chan[c])
            BY <1>1 DEF Within
          <5>2. {hands[s][c] : s \in Taken(c)}' = {hands[s][c] : s \in Taken(c)}
            BY <1>1, <4>1
          <5> QED BY <3>1, <4>3, <4>4, <5>1, <5>2 DEF Came
        <4>6. InTurn(c)'
          <5>1. Waits("app", c)' = 1 /\ Waits("app", c) = 0 /\ InHand(c)' = InHand(c) /\ InHand(c) \in Nat
            BY <1>1, <2>1, <2>11, <3>3, <4>1 DEF Waits, InHand
          <5>2. SUFFICES ASSUME lives < 2
                         PROVE  InTurn(c)'
            BY <1>1 DEF InTurn
          <5>3. toldOf[c] \in Seq(Happenings) /\ chan[c] \in Seq(Happenings)
            BY <1>1, EventsTypes
          <5>4. /\ Len(toldOf[c]) \in Nat /\ Len(chan[c]) \in Nat
                /\ DOMAIN toldOf[c] = 1..Len(toldOf[c]) /\ DOMAIN chan[c] = 1..Len(chan[c])
            BY <5>3
          <5>5. /\ \A i \in DOMAIN toldOf[c] : toldOf[c][i] = sentOn[c][i]
                /\ \A s \in Taken(c) : hands[s][c] = sentOn[c][Len(toldOf[c]) + 1]
                /\ \A i \in DOMAIN chan[c] : chan[c][i] = sentOn[c][Len(toldOf[c]) + InHand(c) + i]
            BY <3>1, <5>2 DEF InTurn
          <5>6. Len(sentOn[c]) = Len(toldOf[c]) + InHand(c) + Len(chan[c])
            BY <3>1, <5>1, <5>2, <5>4 DEF InTurn
          <5>7. /\ \A i \in DOMAIN toldOf[c] : i \in DOMAIN sentOn[c]
                /\ InHand(c) >= 1 => Len(toldOf[c]) + 1 \in DOMAIN sentOn[c]
                /\ \A i \in DOMAIN chan[c] : Len(toldOf[c]) + InHand(c) + i \in DOMAIN sentOn[c]
            <6>1. PICK n, a, h, m \in Nat : /\ n = Len(sentOn[c]) /\ a = Len(toldOf[c])
                                           /\ h = InHand(c) /\ m = Len(chan[c])
              BY <2>3, <3>3, <5>1, <5>4
            <6>2. n = a + h + m + 0
              BY <5>6, <6>1
            <6>3. DOMAIN sentOn[c] = 1..n /\ DOMAIN toldOf[c] = 1..a /\ DOMAIN chan[c] = 1..m
              BY <2>3, <3>3, <5>4, <6>1
            <6>4. /\ \A i \in 1..a : i \in 1..n
                  /\ h >= 1 => a + 1 \in 1..n
                  /\ \A i \in 1..m : a + h + i \in 1..n
              BY <6>2, Cut
            <6> QED BY <6>1, <6>3, <6>4
          <5>8. ASSUME NEW s \in Taken(c) PROVE Len(toldOf[c]) + 1 \in DOMAIN sentOn[c]
            <6>1. InHand(c) >= 1
              BY DEF InHand
            <6> QED BY <5>7, <6>1
          <5>10. Len(sentOn'[c]) = Len(toldOf'[c]) + InHand(c)' + Len(chan'[c]) + Waits("app", c)'
            BY <1>1, <2>3, <3>3, <5>1, <5>4, <5>6
          <5>11. \A p \in DOMAIN sentOn[c] : sentOn'[c][p] = sentOn[c][p]
            BY <2>3, <3>3
          <5>12. /\ \A i \in DOMAIN toldOf[c] : toldOf[c][i] = sentOn'[c][i]
                 /\ \A i \in DOMAIN chan[c] : chan[c][i] = sentOn'[c][Len(toldOf[c]) + InHand(c) + i]
            BY <5>5, <5>7, <5>11
          <5>13. \A s \in Taken(c) : hands[s][c] = sentOn'[c][Len(toldOf[c]) + 1]
            BY <5>5, <5>8, <5>11
          <5>14. toldOf' = toldOf /\ chan' = chan /\ hands' = hands
            BY <1>1
          <5> QED BY <4>1, <5>1, <5>10, <5>12, <5>13, <5>14 DEF InTurn
        <4> QED BY <4>2, <4>5, <4>6
      <3> QED BY <3>2, <3>3
    <2>13. ASSUME NEW w \in Watchers PROVE Served(w)'
      <3>1. Served(w) /\ watch[w].from \in Nat
        BY <1>1, EventsTypes DEF EventsInv
      <3>2. CASE watch[w].at \in {"open", "leaving"}
        <4>1. Waits(w, "feed")' = 1 /\ Waits(w, "feed") = 0
          BY <1>1, <2>1, <2>11, <3>2 DEF Waits
        <4>2. Seen(w)' = Seen(w)
          BY <1>1, <2>3, <4>1, SeenIs DEF Seen
        <4> QED BY <1>1, <2>3, <3>1, <4>2, ServedStill
      <3>3. CASE watch[w].at \notin {"open", "leaving"}
        BY <1>1, <3>3 DEF Served
      <3> QED BY <3>2, <3>3
    <2> QED BY <1>2, <2>5, <2>6, <2>8, <2>9, <2>10, <2>12, <2>13 DEF EventsInv
  <1> QED BY <1>3, <1>4 DEF SendBegins

\* A listener that changed: the others are as they were.
LEMMA WatchIs ==
    ASSUME EventsTypeOK, NEW w \in Watchers, NEW b \in Listener, watch' = [watch EXCEPT ![w] = b],
           Len(b.queue) <= Room
    PROVE  /\ watch' \in [Watchers -> Listener] /\ \A v \in Watchers : Len(watch'[v].queue) <= Room
           /\ watch'[w] = b /\ \A v \in Watchers \ {w} : watch'[v] = watch[v]
  BY DEF EventsTypeOK

\* A listener with another queue.
LEMMA Requeued ==
    ASSUME NEW r \in Listener, NEW q
    PROVE  [r EXCEPT !.queue = q] = [at |-> r.at, queue |-> q, given |-> r.given, from |-> r.from]
  BY DEF Listener

\* Of n that were sent a are seen, q are in the queue and one is to come.
LEMMA Counted ==
    ASSUME NEW a \in Int, NEW q \in Nat, NEW n \in Nat, a + q + 1 = n
    PROVE  a = n - 0 - (q + 1)
  OBVIOUS

\* Send goes on to the next listener.
LEMMA SendToNextKeeps ==
    ASSUME EventsInv, NEW l \in Watchers \cup {"app"}, SendToNext(l)
    PROVE  EventsInv'
  <1> DEFINE e == bcast.by
  <1>1. /\ UNCHANGED <<way, nodeLife, readerVars, writer, sentOn, nameless, noteRows, pager, fell>>
        /\ UNCHANGED <<life, lives, onlineNow, listens, shut, hands, toldOf>>
        /\ EventsTypeOK /\ l \in bcast.left /\ "feed" \in Channel
        /\ bcast' = [bcast EXCEPT !.left = @ \ {l}]
    BY DEF SendToNext, Rest, nodeLife, readerVars, noteVars, EventsInv, Channel
  <1>2. /\ bcast \in [by : Happenings \cup {Nobody}, left : SUBSET (Watchers \cup {"app"})]
        /\ e \in Happenings /\ e # Nobody
        /\ On(e) = "feed" /\ writer[e] = "send" /\ sentOn["feed"] # <<>>
        /\ sentOn["feed"][Len(sentOn["feed"])] = e
    BY <1>1, EventsTypes DEF EventsInv, Sending, EventsTypeOK
  <1>3. /\ bcast' \in [by : Happenings \cup {Nobody}, left : SUBSET (Watchers \cup {"app"})]
        /\ bcast'.by = e /\ bcast'.left = bcast.left \ {l}
    BY <1>1, <1>2
  <1>4. /\ sentOn["feed"] \in Seq(Happenings) /\ Len(sentOn["feed"]) \in Nat /\ Len(sentOn["feed"]) > 0
        /\ DOMAIN sentOn["feed"] = 1..Len(sentOn["feed"])
        /\ e \in Within(sentOn["feed"])
    <2>1. sentOn["feed"] \in Seq(Happenings)
      BY <1>1, EventsTypes
    <2>2. Len(sentOn["feed"]) \in Nat /\ Len(sentOn["feed"]) > 0
          /\ DOMAIN sentOn["feed"] = 1..Len(sentOn["feed"])
      BY <1>2, <2>1
    <2>3. Len(sentOn["feed"]) \in DOMAIN sentOn["feed"]
      BY <2>2
    <2> QED BY <1>2, <2>1, <2>2, <2>3 DEF Within
  <1>5. Paged' /\ Dispatched' /\ Writing' /\ Attended'
    <2>1. Paged'
      BY <1>1, PagedKept DEF EventsInv
    <2>2. Dispatched'
      BY <1>1, <1>3 DEF EventsInv, Dispatched, On, Within
    <2>3. Writing' /\ Attended'
      BY <1>1 DEF EventsInv, Writing, On, Attended
    <2> QED BY <2>1, <2>2, <2>3
  <1>6. CASE l = "app" /\ Len(chan["feed"]) < Room /\ PutIn("feed", e) /\ watch' = watch
    <2>1. /\ chan["feed"] \in Seq(Happenings) /\ chan'["feed"] = Append(chan["feed"], e)
          /\ \A c \in Channel \ {"feed"} : chan'[c] = chan[c]
      BY <1>1, <1>6, EventsTypes DEF PutIn, EventsTypeOK
    <2>2. /\ Append(chan["feed"], e) \in Seq(Happenings)
          /\ Len(chan'["feed"]) = Len(chan["feed"]) + 1 /\ Len(chan["feed"]) \in Nat
      BY <1>2, <2>1, Appended
    <2>3. chan' \in [Channel -> Seq(Happenings)] /\ \A c \in Channel : Len(chan'[c]) <= Room
      <3>1. Len(chan'["feed"]) <= Room
        BY <1>6, <2>2, NobodyIs
      <3> QED BY <1>1, <1>6, <2>1, <2>2, <3>1 DEF PutIn, EventsTypeOK
    <2>4. EventsTypeOK'
      BY <1>1, <1>3, <1>6, <2>3 DEF EventsTypeOK
    <2>5. Sending'
      BY <1>1, <1>2, <1>3, <1>6 DEF EventsInv, Sending, On
    <2>6. ASSUME NEW c \in Channel PROVE Placed(c)' /\ Came(c)' /\ InTurn(c)'
      <3>1. Placed(c) /\ Came(c) /\ InTurn(c)
        BY DEF EventsInv
      <3>2. CASE c # "feed"
        <4>1. Waits("app", c)' = Waits("app", c) /\ chan'[c] = chan[c]
          BY <2>1, <3>2 DEF Waits
        <4> QED BY <1>1, <3>1, <3>2, <4>1, PlacesKept
      <3>3. CASE c = "feed"
        <4>1. Waits("app", c)' = 0 /\ Waits("app", c) = 1
          BY <1>1, <1>3, <1>6, <3>3 DEF Waits
        <4>2. /\ \A f : Reached("app", f) <=> f # e
              /\ \A f : Reached("app", f)'
          BY <1>1, <1>3, <1>6 DEF Reached
        <4>3. Arrived(c) = Within(sentOn[c]) \ {e} /\ Arrived(c)' = Within(sentOn[c])
          <5>1. Arrived(c) = Within(sentOn[c]) \ {e}
            BY <3>3, <4>2 DEF Arrived
          <5>2. \A f : f \in Arrived(c)' <=> f \in Within(sentOn[c]) /\ Reached("app", f)'
            BY <1>1, <3>3 DEF Arrived, Within
          <5> QED BY <4>2, <5>1, <5>2
        <4>4. Arrived(c)' = Arrived(c) \cup {e}
          BY <1>4, <3>3, <4>3
        <4>5. /\ e \notin Within(toldOf[c]) /\ e \notin Within(chan[c])
              /\ \A s \in Taken(c) : hands[s][c] # e
          BY <3>1, <4>3 DEF Came
        <4>6. /\ Len(sentOn'[c]) = Len(sentOn[c]) - Waits("app", c) + 1
              /\ \A i \in DOMAIN sentOn[c] : sentOn'[c][i] = sentOn[c][i]
              /\ sentOn'[c][Len(sentOn'[c])] = e
          BY <1>1, <1>2, <1>4, <3>3, <4>1
        <4>7. chan'[c] = Append(chan[c], e)
          BY <2>1, <3>3
        <4> QED BY <1>1, <1>2, <3>1, <4>1, <4>4, <4>5, <4>6, <4>7, ComesIn
      <3> QED BY <3>2, <3>3
    <2>7. ASSUME NEW w \in Watchers PROVE Served(w)'
      <3>1. Waits(w, "feed")' = Waits(w, "feed") /\ Served(w)
        BY <1>3, <1>6, NobodyIs DEF Waits, EventsInv
      <3> QED BY <1>1, <1>6, <3>1, ServedKept
    <2> QED BY <1>5, <2>4, <2>5, <2>6, <2>7 DEF EventsInv
  <1>7. CASE /\ l # "app" /\ Len(watch[l].queue) < Room /\ chan' = chan
             /\ watch' = [watch EXCEPT ![l].queue = Append(@, e)]
    <2> DEFINE b == [at |-> watch[l].at, queue |-> Append(watch[l].queue, e),
                     given |-> watch[l].given, from |-> watch[l].from]
    <2>1. /\ l \in Watchers /\ watch[l] \in Listener
          /\ watch[l].queue \in Seq(Happenings) /\ watch[l].given \in Seq(Happenings)
      BY <1>1, <1>7, EventsTypes DEF EventsTypeOK
    <2>2. /\ Append(watch[l].queue, e) \in Seq(Happenings)
          /\ Len(Append(watch[l].queue, e)) = Len(watch[l].queue) + 1 /\ Len(watch[l].queue) \in Nat
          /\ DOMAIN watch[l].queue = 1..Len(watch[l].queue)
          /\ DOMAIN Append(watch[l].queue, e) = 1..(Len(watch[l].queue) + 1)
          /\ Append(watch[l].queue, e)[Len(watch[l].queue) + 1] = e
          /\ \A i \in DOMAIN watch[l].queue : Append(watch[l].queue, e)[i] = watch[l].queue[i]
      BY <1>2, <2>1, Appended
    <2>3. b \in Listener /\ Len(b.queue) <= Room /\ watch' = [watch EXCEPT ![l] = b]
      <3>1. Len(b.queue) <= Room
        BY <1>7, <2>2, NobodyIs
      <3>2. [watch[l] EXCEPT !.queue = Append(watch[l].queue, e)] = b
        BY <2>1, Requeued
      <3>3. watch' = [watch EXCEPT ![l] = [watch[l] EXCEPT !.queue = Append(watch[l].queue, e)]]
        BY <1>7
      <3>4. b \in Listener
        BY <2>1, <2>2 DEF Listener
      <3> QED BY <3>1, <3>2, <3>3, <3>4
    <2>4. /\ watch' \in [Watchers -> Listener] /\ \A v \in Watchers : Len(watch'[v].queue) <= Room
          /\ watch'[l] = b /\ \A v \in Watchers \ {l} : watch'[v] = watch[v]
      BY <1>1, <2>1, <2>3, WatchIs
    <2>5. EventsTypeOK'
      BY <1>1, <1>3, <1>7, <2>4 DEF EventsTypeOK
    <2>6. Sending'
      <3>1. \A v \in Watchers : watch'[v].at = watch[v].at
        BY <2>4
      <3> QED BY <1>1, <1>2, <1>3, <1>7, <3>1 DEF EventsInv, Sending, On
    <2>7. ASSUME NEW c \in Channel PROVE Placed(c)' /\ Came(c)' /\ InTurn(c)'
      <3>1. Placed(c) /\ Came(c) /\ InTurn(c)
        BY DEF EventsInv
      <3>2. Waits("app", c)' = Waits("app", c) /\ \A f : Reached("app", f)' = Reached("app", f)
        BY <1>3, <1>7 DEF Waits, Reached
      <3> QED BY <1>1, <1>7, <3>1, <3>2, PlacesKept
    <2>8. ASSUME NEW w \in Watchers, w # l PROVE Served(w)'
      <3>1. Waits(w, "feed")' = Waits(w, "feed") /\ Served(w) /\ watch'[w] = watch[w]
        BY <1>3, <2>4, <2>8 DEF Waits, EventsInv
      <3> QED BY <1>1, <3>1, ServedKept
    <2>9. Served(l)'
      <3> DEFINE out == sentOn["feed"]
      <3>1. Served(l) /\ watch[l].at \in {"open", "leaving"}
        BY <1>1, <1>7, <2>1 DEF EventsInv, Sending
      <3>2. Waits(l, "feed") = 1 /\ Waits(l, "feed")' = 0
        BY <1>1, <1>3 DEF Waits
      <3>3. Seen(l)' = Seen(l) /\ Seen(l) + Len(watch[l].queue) + 1 = Len(out) /\ Seen(l) \in Int
        <4>1. Seen(l) + Len(watch[l].queue) + 1 = Len(out) /\ Seen(l) \in Int
          BY <1>1, <2>1, <3>2, SeenIs
        <4>2. Len(watch'[l].queue) = Len(watch[l].queue) + 1
          BY <2>2, <2>4
        <4>3. Seen(l)' = Len(sentOn'["feed"]) - Waits(l, "feed")' - Len(watch'[l].queue)
          BY DEF Seen
        <4>4. /\ Len(sentOn'["feed"]) = Len(out) /\ Len(out) \in Nat
              /\ Len(watch[l].queue) \in Nat
          BY <1>1, <1>4, <2>2
        <4>5. Seen(l) = Len(out) - 0 - (Len(watch[l].queue) + 1)
          BY <4>1, <4>4, Counted
        <4>6. Seen(l)' = Seen(l)
          BY <3>2, <4>2, <4>3, <4>4, <4>5, Zenon
        <4> QED BY <4>1, <4>6
      <3>4. \A i \in DOMAIN b.queue : b.queue[i] = out[Seen(l) + i]
        <4>1. \A i \in DOMAIN b.queue : i \in DOMAIN watch[l].queue \/ i = Len(watch[l].queue) + 1
          BY <2>2
        <4>2. \A i \in DOMAIN watch[l].queue : b.queue[i] = out[Seen(l) + i]
          BY <2>2, <3>1 DEF Served
        <4>3. Seen(l) + (Len(watch[l].queue) + 1) = Len(out)
          BY <2>2, <3>3
        <4>4. b.queue[Len(watch[l].queue) + 1] = out[Seen(l) + (Len(watch[l].queue) + 1)]
          BY <1>2, <2>2, <4>3
        <4> QED BY <4>1, <4>2, <4>4
      <3>5. /\ watch'[l].from = watch[l].from /\ watch'[l].given = watch[l].given
            /\ watch'[l].queue = b.queue
        BY <2>4
      <3>6. (\A i \in DOMAIN watch[l].queue : watch[l].queue[i] = sentOn["feed"][Seen(l) + i])'
        BY <1>1, <3>3, <3>4, <3>5
      <3>7. /\ way' = way /\ sentOn'["feed"] = sentOn["feed"] /\ l \in Watchers
            /\ watch'[l].at = watch[l].at /\ watch'[l].from = watch[l].from
            /\ watch'[l].given = watch[l].given
        BY <1>1, <2>1, <2>4
      <3> QED BY <1>1, <3>1, <3>3, <3>6, <3>7, ServedMore
    <2> QED BY <1>5, <2>5, <2>6, <2>7, <2>8, <2>9 DEF EventsInv
  <1> QED BY <1>6, <1>7 DEF SendToNext

\* Send gives the broadcaster back when all have it.
LEMMA SendReturnsKeeps ==
    ASSUME EventsInv, SendReturns
    PROVE  EventsInv'
  <1> DEFINE e == bcast.by
  <1>1. /\ UNCHANGED <<way, nodeLife, readerVars, sentOn, nameless, chan, noteRows, pager, watch, fell>>
        /\ UNCHANGED <<life, lives, onlineNow, listens, shut, hands, toldOf>>
        /\ EventsTypeOK /\ e # Nobody /\ e \in Happenings /\ bcast.left = {}
        /\ bcast' = NoSending /\ Moves(e, "done")
    BY EventsTypes DEF SendReturns, Rest, nodeLife, readerVars, noteVars, EventsInv
  <1>2. bcast'.by = Nobody /\ bcast'.left = {}
    BY <1>1 DEF NoSending
  <1>3. \E f \in Happenings : f = e
    BY <1>1
  <1>4. /\ writer' \in [Happenings -> {"none", "row", "view", "send", "done"}]
        /\ writer'[e] = "done" /\ \A f \in Happenings \ {e} : writer'[f] = writer[f]
        /\ writer[e] = "send"
    BY <1>1 DEF EventsTypeOK, Moves, EventsInv, Sending
  <1>5. EventsTypeOK'
    BY <1>1, <1>4 DEF EventsTypeOK, NoSending
  <1>6. Writing' /\ Sending' /\ Attended' /\ Paged'
    <2>1. Writing'
      BY <1>1, <1>4 DEF EventsInv, Writing, On
    <2>2. Sending'
      BY <1>2 DEF Sending
    <2>3. Attended'
      BY <1>1 DEF EventsInv, Attended
    <2>4. Paged'
      BY <1>1, PagedKept DEF EventsInv
    <2> QED BY <2>1, <2>2, <2>3, <2>4
  <1>7. Dispatched'
    <2>1. \A k \in Channel : \A f \in Within(sentOn[k]) : f \in Happenings
      BY <1>1, EventsTypes DEF Within
    <2>2. \A k \in Channel : \A f \in Within(sentOn[k]) : writer'[f] = "done"
      BY <1>4, <2>1 DEF EventsInv, Dispatched
    <2> QED BY <1>1, <2>2 DEF EventsInv, Dispatched, On, Within
  <1>8. ASSUME NEW c \in Channel PROVE Placed(c)' /\ Came(c)' /\ InTurn(c)'
    <2>1. Waits("app", c)' = Waits("app", c) /\ \A f : Reached("app", f)' = Reached("app", f)
      BY <1>1, <1>2 DEF Waits, Reached
    <2>2. Placed(c) /\ Came(c) /\ InTurn(c)
      BY DEF EventsInv
    <2> QED BY <1>1, <2>1, <2>2, PlacesKept
  <1>9. ASSUME NEW w \in Watchers PROVE Served(w)'
    <2>1. Waits(w, "feed")' = Waits(w, "feed") /\ Served(w)
      BY <1>1, <1>2 DEF Waits, EventsInv
    <2> QED BY <1>1, <2>1, ServedKept
  <1> QED BY <1>5, <1>6, <1>7, <1>8, <1>9 DEF EventsInv

-----------------------------------------------------------------------------
(* Readers                                                                   *)

\* A reader of the application has moved.
LEMMA ReaderMoves ==
    ASSUME EventsInv, UNCHANGED <<way, senderVars, nodeLife, noteVars, watch>>,
           EventsTypeOK', Attended', \A k \in Channel : Placed(k)' /\ Came(k)' /\ InTurn(k)'
    PROVE  EventsInv'
  <1>1. UNCHANGED <<way, writer, bcast, sentOn, life, lives, listens, shut, noteRows, pager, watch>>
    BY DEF senderVars, nodeLife, noteVars
  <1>2. Dispatched' /\ Sending' /\ Paged'
    BY <1>1, DispatchedKept, SendingKept, PagedKept DEF EventsInv, Sending
  <1>3. Writing'
    BY <1>1 DEF EventsInv, Writing, On
  <1>4. \A w \in Watchers : Served(w)'
    BY <1>1, ServedKept DEF EventsInv, Waits
  <1> QED BY <1>2, <1>3, <1>4 DEF EventsInv

\* One hand of a reader.
HandGets(s, k, x) == hands' = [hands EXCEPT ![s][k] = x]

\* The others are as they were.
LEMMA HandIs ==
    ASSUME EventsTypeOK, NEW s \in ReaderSets, NEW k \in Channel,
           NEW x \in Happenings \cup {Nobody, "waits", "off"}, HandGets(s, k, x)
    PROVE  /\ hands' \in [ReaderSets -> [Channel -> Happenings \cup {Nobody, "waits", "off"}]]
           /\ hands'[s][k] = x
           /\ \A t \in ReaderSets, c \in Channel : t # s \/ c # k => hands'[t][c] = hands[t][c]
  <1>1. /\ hands \in [ReaderSets -> [Channel -> Happenings \cup {Nobody, "waits", "off"}]]
        /\ hands' = [hands EXCEPT ![s] = [hands[s] EXCEPT ![k] = x]]
    BY DEF EventsTypeOK, HandGets
  <1>2. [hands[s] EXCEPT ![k] = x] \in [Channel -> Happenings \cup {Nobody, "waits", "off"}]
    BY <1>1
  <1> QED BY <1>1, <1>2

\* A reader that has no more to wait for is there as before.
LEMMA HandAttended ==
    ASSUME EventsInv, NEW s \in ReaderSets, NEW k \in Channel, hands[s][k] \notin {"waits", "off"},
           NEW x \in Happenings \cup {Nobody, "off"}, HandGets(s, k, x),
           UNCHANGED <<way, nodeLife>>
    PROVE  Attended'
  <1>1. UNCHANGED <<life, lives, listens, shut, way>> /\ EventsTypeOK /\ Attended /\ x # "waits"
    BY NobodyIs DEF nodeLife, EventsInv
  <1>2. /\ hands'[s][k] = x
        /\ \A t \in ReaderSets, c \in Channel : t # s \/ c # k => hands'[t][c] = hands[t][c]
    BY <1>1, HandIs
  <1>3. \A t \in ReaderSets, c \in Channel :
            /\ hands'[t][c] # "off" => hands[t][c] # "off"
            /\ hands'[t][c] = "waits" <=> hands[t][c] = "waits"
    BY <1>1, <1>2
  <1>4. "note" \in Channel
    BY DEF Channel
  <1> QED BY <1>1, <1>3, <1>4 DEF Attended

\* With one start there is one reader for a channel.
LEMMA OneReader ==
    ASSUME EventsInv, lives < 2, NEW k \in Channel, NEW s \in ReaderSets, NEW t \in ReaderSets,
           hands[s][k] # "off", hands[t][k] # "off"
    PROVE  s = t
  <1>1. s <= lives /\ t <= lives
    BY DEF EventsInv, Attended
  <1>2. lives \in Nat /\ s \in Nat /\ t \in Nat /\ s >= 1 /\ t >= 1
    BY EventsTypes, NobodyIs DEF EventsInv, ReaderSets
  <1> QED BY <1>1, <1>2

\* One more is in a hand and one less in the channel.
LEMMA InOneHand ==
    ASSUME NEW a \in Nat, NEW b \in Nat, NEW c \in Nat, NEW n, n = a + 0 + (b + 1) + c
    PROVE  n = a + 1 + b + c
  OBVIOUS

\* A reader takes what came first.
LEMMA TakeEventKeeps ==
    ASSUME EventsInv, NEW s \in ReaderSets, NEW k \in Channel, TakeEvent(s, k)
    PROVE  EventsInv'
  <1>1. /\ UNCHANGED <<way, senderVars, toldOf, nodeLife, noteVars, watch, fell>>
        /\ UNCHANGED <<life, lives, onlineNow, listens, shut, writer, bcast, sentOn>>
        /\ UNCHANGED <<nameless, noteRows, pager>>
        /\ EventsTypeOK /\ hands[s][k] = Nobody
    BY DEF TakeEvent, nodeLife, senderVars, noteVars, EventsInv
  <1>2. chan[k] \in Seq(Happenings) /\ toldOf[k] \in Seq(Happenings) /\ sentOn[k] \in Seq(Happenings)
    BY <1>1, EventsTypes
  <1>3. /\ Arrived(k)' = Arrived(k) /\ Waits("app", k)' = Waits("app", k)
        /\ Placed(k) /\ Came(k) /\ InTurn(k)
    BY <1>1 DEF Arrived, Reached, Within, Waits, EventsInv
  <1>4. CASE /\ chan[k] # <<>> /\ hands' = [hands EXCEPT ![s][k] = Head(chan[k])]
             /\ chan' = [chan EXCEPT ![k] = Tail(@)]
    <2>1. PICK q : q = Tail(chan[k])
      OBVIOUS
    <2>2. PICK e : e = Head(chan[k])
      OBVIOUS
    <2>3. /\ q \in Seq(Happenings) /\ Len(chan[k]) = Len(q) + 1 /\ Len(q) \in Nat
          /\ DOMAIN chan[k] = 1..Len(chan[k]) /\ DOMAIN q = 1..Len(q)
          /\ e = chan[k][1] /\ e \in Happenings
          /\ \A i \in DOMAIN q : i + 1 \in DOMAIN chan[k] /\ q[i] = chan[k][i + 1]
          /\ Within(chan[k]) = Within(q) \cup {e}
      BY <1>2, <1>4, <2>1, <2>2, Tailed
    <2>4. chan' = [chan EXCEPT ![k] = q] /\ HandGets(s, k, e)
      BY <1>4, <2>1, <2>2 DEF HandGets
    <2>5. /\ chan' \in [Channel -> Seq(Happenings)] /\ \A c \in Channel : Len(chan'[c]) <= Room
          /\ chan'[k] = q /\ \A c \in Channel \ {k} : chan'[c] = chan[c]
      <3>1. Len(q) <= Room
        <4>1. Len(chan[k]) <= Room
          BY <1>1 DEF EventsTypeOK
        <4>2. Len(q) + 1 <= Room
          BY <2>3, <4>1
        <4> QED BY <2>3, <4>2, NobodyIs
      <3> QED BY <1>1, <2>3, <2>4, <3>1 DEF EventsTypeOK
    <2>6. /\ hands' \in [ReaderSets -> [Channel -> Happenings \cup {Nobody, "waits", "off"}]]
          /\ hands'[s][k] = e
          /\ \A t \in ReaderSets, c \in Channel : t # s \/ c # k => hands'[t][c] = hands[t][c]
      BY <1>1, <2>3, <2>4, HandIs
    <2>7. EventsTypeOK'
      BY <1>1, <2>5, <2>6 DEF EventsTypeOK
    <2>8. Attended'
      BY <1>1, <2>3, <2>4, HandAttended, NobodyIs
    <2>9. ASSUME NEW c \in Channel, c # k PROVE Placed(c)' /\ Came(c)' /\ InTurn(c)'
      <3>1. Waits("app", c)' = Waits("app", c) /\ \A f : Reached("app", f)' = Reached("app", f)
        BY <1>1 DEF Waits, Reached
      <3>2. Placed(c) /\ Came(c) /\ InTurn(c)
        BY DEF EventsInv
      <3>3. chan'[c] = chan[c] /\ \A t \in ReaderSets : hands'[t][c] = hands[t][c]
        BY <2>5, <2>6, <2>9
      <3> QED BY <1>1, <3>1, <3>2, <3>3, PlacesKept
    <2>10. /\ Taken(k)' = Taken(k) \cup {s} /\ s \notin Taken(k)
           /\ \A t \in Taken(k) : hands'[t][k] = hands[t][k]
      BY <1>1, <2>3, <2>6, NobodyIs DEF Taken
    <2>11. e \in Within(chan[k]) /\ \A f \in Within(q) : f \in Within(chan[k])
      BY <2>3
    <2>12. Placed(k)'
      <3>1. \A i \in DOMAIN q : q[i] # e
        <4>1. 1 \in DOMAIN chan[k]
          BY <2>3
        <4>2. ASSUME NEW i \in DOMAIN q PROVE q[i] # e
          <5>1. i + 1 # 1 /\ i + 1 \in DOMAIN chan[k]
            BY <2>3
          <5> QED BY <1>3, <2>3, <4>1, <5>1 DEF Placed
        <4> QED BY <4>2
      <3>2. \A i, j \in DOMAIN q : q[i] = q[j] => i = j
        <4>1. ASSUME NEW i \in DOMAIN q, NEW j \in DOMAIN q, q[i] = q[j] PROVE i = j
          <5>1. i + 1 = j + 1
            BY <1>3, <2>3, <4>1 DEF Placed
          <5> QED BY <2>3, <5>1
        <4> QED BY <4>1
      <3>3. \A i \in DOMAIN toldOf[k], j \in DOMAIN q : toldOf[k][i] # q[j]
        BY <1>3, <2>3 DEF Placed
      <3>4. e \notin Within(toldOf[k]) /\ e \notin Within(q)
        BY <1>3, <2>11, <3>1 DEF Placed, Within
      <3>5. \A t \in Taken(k) :
                /\ hands[t][k] \notin Within(toldOf[k]) \cup Within(q) /\ hands[t][k] # e
                /\ \A u \in Taken(k) : hands[t][k] = hands[u][k] => t = u
        BY <1>3, <2>11 DEF Placed
      <3>6. /\ Within(toldOf[k])' = Within(toldOf[k]) /\ Within(chan[k])' = Within(q)
        BY <1>1, <2>5 DEF Within
      <3>7. \A t \in Taken(k)' :
                /\ hands'[t][k] \notin Within(toldOf[k])' \cup Within(chan[k])'
                /\ \A u \in Taken(k)' : hands'[t][k] = hands'[u][k] => t = u
        BY <2>6, <2>10, <3>4, <3>5, <3>6
      <3> QED BY <1>1, <2>5, <3>2, <3>3, <3>7, <1>3 DEF Placed
    <2>13. Came(k)'
      <3>1. {hands[t][k] : t \in Taken(k)}' = {hands[t][k] : t \in Taken(k)} \cup {e}
        BY <2>6, <2>10
      <3>2. /\ Within(toldOf[k])' = Within(toldOf[k]) /\ Within(chan[k])' = Within(q)
        BY <1>1, <2>5 DEF Within
      <3> QED BY <1>3, <2>3, <3>1, <3>2 DEF Came
    <2>14. InTurn(k)'
      <3>1. SUFFICES ASSUME lives < 2
                     PROVE  InTurn(k)'
        BY <1>1 DEF InTurn
      <3>2. Taken(k) = {} /\ Taken(k)' = {s}
        <4>1. ASSUME NEW t \in Taken(k) PROVE FALSE
          BY <1>1, <2>10, <3>1, <4>1, OneReader, NobodyIs DEF Taken
        <4> QED BY <2>10, <4>1
      <3>3. InHand(k) = 0 /\ InHand(k)' = 1
        BY <3>2 DEF InHand
      <3>4. /\ Len(toldOf[k]) \in Nat /\ DOMAIN toldOf[k] = 1..Len(toldOf[k]) /\ Waits("app", k) \in Nat
        BY <1>2 DEF Waits
      <3>5. /\ Len(sentOn[k]) = Len(toldOf[k]) + InHand(k) + Len(chan[k]) + Waits("app", k)
            /\ \A i \in DOMAIN toldOf[k] : toldOf[k][i] = sentOn[k][i]
            /\ \A i \in DOMAIN chan[k] : chan[k][i] = sentOn[k][Len(toldOf[k]) + InHand(k) + i]
        BY <1>3, <3>1 DEF InTurn
      <3>6. \A i \in DOMAIN chan[k] : chan[k][i] = sentOn[k][Len(toldOf[k]) + i]
        <4>1. ASSUME NEW i \in DOMAIN chan[k] PROVE Len(toldOf[k]) + InHand(k) + i = Len(toldOf[k]) + i
          BY <2>3, <3>3, <3>4
        <4> QED BY <3>5, <4>1
      <3>7. e = sentOn[k][Len(toldOf[k]) + 1]
        <4>1. 1 \in DOMAIN chan[k]
          BY <2>3
        <4> QED BY <2>3, <3>6, <4>1
      <3>8. ASSUME NEW i \in DOMAIN q PROVE q[i] = sentOn[k][Len(toldOf[k]) + 1 + i]
        <4>1. Len(toldOf[k]) + (i + 1) = Len(toldOf[k]) + 1 + i
          <5>1. i \in Nat
            BY <2>3
          <5>2. Len(toldOf[k]) \in Nat
            BY <3>4
          <5> QED BY <5>1, <5>2
        <4>2. i + 1 \in DOMAIN chan[k] /\ q[i] = chan[k][i + 1]
          BY <2>3
        <4>3. chan[k][i + 1] = sentOn[k][Len(toldOf[k]) + (i + 1)]
          BY <3>6, <4>2
        <4> QED BY <4>1, <4>2, <4>3
      <3>9. Len(sentOn[k]) = Len(toldOf[k]) + 1 + Len(q) + Waits("app", k)
        <4>1. Len(sentOn[k]) = Len(toldOf[k]) + 0 + (Len(q) + 1) + Waits("app", k)
          BY <2>3, <3>3, <3>5
        <4>2. Len(toldOf[k]) \in Nat /\ Len(q) \in Nat /\ Waits("app", k) \in Nat
          BY <2>3, <3>4
        <4>3. PICK n : n = Len(sentOn[k])
          OBVIOUS
        <4>4. PICK a \in Nat, b \in Nat, c \in Nat :
                a = Len(toldOf[k]) /\ b = Len(q) /\ c = Waits("app", k)
          BY <4>2
        <4>5. n = a + 0 + (b + 1) + c
          BY <4>1, <4>3, <4>4
        <4>6. n = a + 1 + b + c
          BY <4>5, InOneHand
        <4> QED BY <4>3, <4>4, <4>6
      <3> QED BY <1>1, <1>3, <2>5, <2>6, <3>2, <3>3, <3>5, <3>7, <3>8, <3>9 DEF InTurn
    <2>15. \A c \in Channel : Placed(c)' /\ Came(c)' /\ InTurn(c)'
      BY <2>9, <2>12, <2>13, <2>14
    <2> QED BY <1>1, <2>7, <2>8, <2>15, ReaderMoves
  <1>5. CASE chan' = chan /\ HandGets(s, k, "off")
    <2>1. /\ hands' \in [ReaderSets -> [Channel -> Happenings \cup {Nobody, "waits", "off"}]]
          /\ hands'[s][k] = "off"
          /\ \A t \in ReaderSets, c \in Channel : t # s \/ c # k => hands'[t][c] = hands[t][c]
      BY <1>1, <1>5, HandIs
    <2>2. EventsTypeOK'
      BY <1>1, <1>5, <2>1 DEF EventsTypeOK
    <2>3. Attended'
      BY <1>1, <1>5, HandAttended, NobodyIs
    <2>4. ASSUME NEW c \in Channel PROVE Placed(c)' /\ Came(c)' /\ InTurn(c)'
      <3>1. Waits("app", c)' = Waits("app", c) /\ \A f : Reached("app", f)' = Reached("app", f)
        BY <1>1 DEF Waits, Reached
      <3>2. Placed(c) /\ Came(c) /\ InTurn(c)
        BY DEF EventsInv
      <3>3. \A t \in ReaderSets : hands'[t][c] = hands[t][c]
                \/ (hands[t][c] \notin Happenings /\ hands'[t][c] \notin Happenings)
        BY <1>1, <2>1, NobodyIs
      <3> QED BY <1>1, <1>5, <3>1, <3>2, <3>3, PlacesKept
    <2> QED BY <1>1, <2>2, <2>3, <2>4, ReaderMoves
  <1> QED BY <1>4, <1>5 DEF TakeEvent, HandGets

\* A reader tells what it has taken.
LEMMA TellKeeps ==
    ASSUME EventsInv, NEW s \in ReaderSets, NEW k \in Channel, Tell(s, k)
    PROVE  EventsInv'
  <1>1. /\ UNCHANGED <<way, senderVars, nodeLife, chan, noteVars, watch>>
        /\ UNCHANGED <<life, lives, onlineNow, listens, shut, writer, bcast, sentOn>>
        /\ UNCHANGED <<nameless, noteRows, pager>>
        /\ EventsTypeOK /\ hands[s][k] \in Happenings
    BY DEF Tell, nodeLife, senderVars, noteVars, EventsInv
  <1>2. chan[k] \in Seq(Happenings) /\ toldOf[k] \in Seq(Happenings) /\ sentOn[k] \in Seq(Happenings)
    BY <1>1, EventsTypes
  <1>3. /\ Arrived(k)' = Arrived(k) /\ Waits("app", k)' = Waits("app", k)
        /\ Placed(k) /\ Came(k) /\ InTurn(k)
    BY <1>1 DEF Arrived, Reached, Within, Waits, EventsInv
  <1>4. CASE fell' = "no user" /\ UNCHANGED readerVars
    <2>1. UNCHANGED <<hands, toldOf>>
      BY <1>4 DEF readerVars
    <2>2. EventsTypeOK' /\ Attended'
      BY <1>1, <1>4, <2>1 DEF EventsTypeOK, Attended, EventsInv
    <2>3. ASSUME NEW c \in Channel PROVE Placed(c)' /\ Came(c)' /\ InTurn(c)'
      <3>1. Waits("app", c)' = Waits("app", c) /\ \A f : Reached("app", f)' = Reached("app", f)
        BY <1>1 DEF Waits, Reached
      <3>2. Placed(c) /\ Came(c) /\ InTurn(c)
        BY DEF EventsInv
      <3> QED BY <1>1, <2>1, <3>1, <3>2, PlacesKept
    <2> QED BY <1>1, <2>2, <2>3, ReaderMoves
  <1>5. CASE /\ fell' = fell /\ hands' = [hands EXCEPT ![s][k] = Nobody]
             /\ toldOf' = [toldOf EXCEPT ![k] = Append(@, hands[s][k])]
    <2>1. PICK e \in Happenings : e = hands[s][k]
      BY <1>1
    <2>2. PICK q : q = Append(toldOf[k], e)
      OBVIOUS
    <2>3. /\ q \in Seq(Happenings) /\ Len(q) = Len(toldOf[k]) + 1 /\ Len(toldOf[k]) \in Nat
          /\ DOMAIN toldOf[k] = 1..Len(toldOf[k]) /\ DOMAIN q = 1..(Len(toldOf[k]) + 1)
          /\ q[Len(toldOf[k]) + 1] = e
          /\ \A i \in DOMAIN toldOf[k] : q[i] = toldOf[k][i]
          /\ Within(q) = Within(toldOf[k]) \cup {e}
      BY <1>2, <2>2, Appended
    <2>4. toldOf' = [toldOf EXCEPT ![k] = q] /\ HandGets(s, k, Nobody)
      BY <1>5, <2>1, <2>2 DEF HandGets
    <2>5. /\ toldOf' \in [Channel -> Seq(Happenings)]
          /\ toldOf'[k] = q /\ \A c \in Channel \ {k} : toldOf'[c] = toldOf[c]
      BY <1>1, <2>3, <2>4 DEF EventsTypeOK
    <2>6. /\ hands' \in [ReaderSets -> [Channel -> Happenings \cup {Nobody, "waits", "off"}]]
          /\ hands'[s][k] = Nobody
          /\ \A t \in ReaderSets, c \in Channel : t # s \/ c # k => hands'[t][c] = hands[t][c]
      BY <1>1, <2>4, HandIs
    <2>7. EventsTypeOK'
      <3>1. fell' = fell
        BY <1>5
      <3> QED BY <1>1, <2>5, <2>6, <3>1 DEF EventsTypeOK
    <2>8. Attended'
      <3>1. hands[s][k] \notin {"waits", "off"}
        BY <1>1, NobodyIs
      <3> QED BY <1>1, <2>4, <3>1, HandAttended
    <2>9. ASSUME NEW c \in Channel, c # k PROVE Placed(c)' /\ Came(c)' /\ InTurn(c)'
      <3>1. Waits("app", c)' = Waits("app", c) /\ \A f : Reached("app", f)' = Reached("app", f)
        BY <1>1 DEF Waits, Reached
      <3>2. Placed(c) /\ Came(c) /\ InTurn(c)
        BY DEF EventsInv
      <3>3. toldOf'[c] = toldOf[c] /\ \A t \in ReaderSets : hands'[t][c] = hands[t][c]
        BY <2>5, <2>6, <2>9
      <3> QED BY <1>1, <3>1, <3>2, <3>3, PlacesKept
    <2>10. /\ Taken(k)' = Taken(k) \ {s} /\ s \in Taken(k)
           /\ \A t \in Taken(k) \ {s} : hands'[t][k] = hands[t][k] /\ hands[t][k] # e
      <3>1. s \in Taken(k)
        BY <1>1 DEF Taken
      <3>2. Taken(k)' = Taken(k) \ {s} /\ \A t \in Taken(k) \ {s} : hands'[t][k] = hands[t][k]
        BY <1>1, <2>6, NobodyIs DEF Taken
      <3> QED BY <1>3, <2>1, <3>1, <3>2 DEF Placed
    <2>11. e \notin Within(toldOf[k]) /\ e \notin Within(chan[k])
      BY <1>3, <2>1, <2>10 DEF Placed
    <2>12. /\ Within(toldOf[k])' = Within(q) /\ Within(chan[k])' = Within(chan[k])
      BY <1>1, <2>5 DEF Within
    <2>13. Placed(k)'
      <3>1. \A i \in DOMAIN q : i \in DOMAIN toldOf[k] \/ i = Len(toldOf[k]) + 1
        BY <2>3
      <3>2. \A i \in DOMAIN toldOf[k] : toldOf[k][i] # e /\ q[i] = toldOf[k][i]
        BY <2>3, <2>11 DEF Within
      <3>3. \A i, j \in DOMAIN q : q[i] = q[j] => i = j
        BY <1>3, <2>3, <3>1, <3>2 DEF Placed
      <3>4. \A i \in DOMAIN q, j \in DOMAIN chan[k] : q[i] # chan[k][j]
        BY <1>3, <2>3, <2>11, <3>1, <3>2 DEF Placed, Within
      <3>5. \A t \in Taken(k)' :
                /\ hands'[t][k] \notin Within(toldOf[k])' \cup Within(chan[k])'
                /\ \A u \in Taken(k)' : hands'[t][k] = hands'[u][k] => t = u
        BY <1>3, <2>3, <2>10, <2>12 DEF Placed
      <3> QED BY <1>1, <1>3, <2>5, <3>3, <3>4, <3>5 DEF Placed
    <2>14. Came(k)'
      <3>1. {hands[t][k] : t \in Taken(k)} = {hands[t][k] : t \in Taken(k)}' \cup {e}
        BY <2>1, <2>10
      <3> QED BY <1>3, <2>3, <2>12, <3>1 DEF Came
    <2>15. InTurn(k)'
      <3>1. SUFFICES ASSUME lives < 2
                     PROVE  InTurn(k)'
        BY <1>1 DEF InTurn
      <3>2. Taken(k) = {s} /\ Taken(k)' = {}
        <4>1. ASSUME NEW t \in Taken(k) PROVE t = s
          BY <1>1, <3>1, <4>1, OneReader, NobodyIs DEF Taken
        <4> QED BY <2>10, <4>1
      <3>3. InHand(k) = 1 /\ InHand(k)' = 0
        BY <3>2 DEF InHand
      <3>4. PICK n \in Nat, b \in Nat, c \in Nat :
                n = Len(toldOf[k]) /\ b = Len(chan[k]) /\ c = Waits("app", k)
        <4>1. Len(toldOf[k]) \in Nat /\ Len(chan[k]) \in Nat /\ Waits("app", k) \in Nat
          BY <1>2 DEF Waits
        <4> QED BY <4>1
      <3>5. /\ Len(sentOn[k]) = n + 1 + b + c
            /\ \A i \in DOMAIN toldOf[k] : toldOf[k][i] = sentOn[k][i]
            /\ e = sentOn[k][n + 1]
            /\ \A i \in DOMAIN chan[k] : chan[k][i] = sentOn[k][n + 1 + i]
        BY <1>3, <2>1, <3>1, <3>2, <3>3, <3>4 DEF InTurn
      <3>6. Len(toldOf[k])' = n + 1
        BY <2>3, <2>5, <3>4
      <3>7. Len(sentOn[k]) = (n + 1) + 0 + b + c
        <4>1. n + 1 + b + c = (n + 1) + 0 + b + c
          BY <3>4
        <4> QED BY <3>5, <4>1
      <3>8. \A i \in DOMAIN q : q[i] = sentOn[k][i]
        <4>1. \A i \in DOMAIN q : i \in DOMAIN toldOf[k] \/ i = n + 1
          BY <2>3, <3>4
        <4> QED BY <2>3, <3>4, <3>5, <4>1
      <3>9. ASSUME NEW i \in DOMAIN chan[k] PROVE chan[k][i] = sentOn[k][(n + 1) + 0 + i]
        <4>1. i \in Nat
          BY <1>2
        <4>2. (n + 1) + 0 + i = n + 1 + i
          BY <4>1
        <4> QED BY <3>5, <4>2
      <3>10. (/\ Len(sentOn[k]) = Len(toldOf[k]) + InHand(k) + Len(chan[k]) + Waits("app", k)
              /\ \A i \in DOMAIN toldOf[k] : toldOf[k][i] = sentOn[k][i]
              /\ \A t \in Taken(k) : hands[t][k] = sentOn[k][Len(toldOf[k]) + 1]
              /\ \A i \in DOMAIN chan[k] : chan[k][i] = sentOn[k][Len(toldOf[k]) + InHand(k) + i])'
        BY <1>1, <1>3, <2>5, <3>2, <3>3, <3>4, <3>6, <3>7, <3>8, <3>9
      <3> QED BY <3>10 DEF InTurn
    <2>16. \A c \in Channel : Placed(c)' /\ Came(c)' /\ InTurn(c)'
      BY <2>9, <2>13, <2>14, <2>15
    <2> QED BY <1>1, <2>7, <2>8, <2>16, ReaderMoves
  <1> QED BY <1>4, <1>5 DEF Tell

\* One watcher has moved.
LEMMA WatcherMoves ==
    ASSUME EventsInv, NEW w \in Watchers, NEW b \in Listener, watch' = [watch EXCEPT ![w] = b],
           Len(b.queue) <= Room, w \in bcast.left => b.at \in {"open", "leaving"},
           UNCHANGED <<way, senderVars, readerVars, nodeLife, chan, noteVars, fell>>, Served(w)'
    PROVE  EventsInv'
  <1>1. /\ UNCHANGED <<way, writer, bcast, sentOn, nameless, hands, toldOf, life, lives, onlineNow,
                       listens, shut, chan, noteRows, pager, fell>>
        /\ EventsTypeOK
    BY DEF senderVars, readerVars, nodeLife, noteVars, EventsInv
  <1>2. /\ watch' \in [Watchers -> Listener] /\ \A v \in Watchers : Len(watch'[v].queue) <= Room
        /\ watch'[w] = b /\ \A v \in Watchers \ {w} : watch'[v] = watch[v]
    BY <1>1, WatchIs
  <1>3. EventsTypeOK'
    <2>1. watch' \in [Watchers -> Listener] /\ \A v \in Watchers : Len(watch'[v].queue) <= Room
      BY <1>2
    <2> QED BY <1>1, <2>1 DEF EventsTypeOK
  <1>4. Dispatched' /\ Paged'
    BY <1>1, DispatchedKept, PagedKept DEF EventsInv
  <1>5. Sending'
    <2>1. \A l \in bcast.left : l # "app" => watch'[l].at \in {"open", "leaving"}
      <3>1. ASSUME NEW l \in bcast.left, l # "app" PROVE watch'[l].at \in {"open", "leaving"}
        <4>1. l \in Watchers /\ watch[l].at \in {"open", "leaving"}
          BY <1>1, <3>1, EventsTypes DEF EventsInv, Sending
        <4> QED BY <1>2, <4>1
      <3> QED BY <3>1
    <2> QED BY <1>1, <2>1, SendingKept DEF EventsInv
  <1>6. Writing' /\ Attended'
    BY <1>1 DEF EventsInv, Writing, On, Attended
  <1>7. ASSUME NEW c \in Channel PROVE Placed(c)' /\ Came(c)' /\ InTurn(c)'
    <2>1. Waits("app", c)' = Waits("app", c) /\ \A f : Reached("app", f)' = Reached("app", f)
      BY <1>1 DEF Waits, Reached
    <2>2. Placed(c) /\ Came(c) /\ InTurn(c)
      BY DEF EventsInv
    <2> QED BY <1>1, <2>1, <2>2, PlacesKept
  <1>8. ASSUME NEW v \in Watchers, v # w PROVE Served(v)'
    <2>1. Waits(v, "feed")' = Waits(v, "feed") /\ Served(v) /\ watch'[v] = watch[v]
      BY <1>1, <1>2, <1>8 DEF Waits, EventsInv
    <2> QED BY <1>1, <2>1, ServedKept
  <1> QED BY <1>3, <1>4, <1>5, <1>6, <1>7, <1>8 DEF EventsInv

\* Who listens gets what is sent from here on.
LEMMA WatchKeeps ==
    ASSUME EventsInv, NEW w \in Watchers, Watch(w)
    PROVE  EventsInv'
  <1>1. /\ UNCHANGED <<way, senderVars, readerVars, nodeLife, chan, noteVars, fell>>
        /\ UNCHANGED <<bcast, sentOn>> /\ EventsTypeOK /\ bcast.left = {}
        /\ watch' = [watch EXCEPT ![w] = [at |-> "open", queue |-> <<>>, given |-> <<>>,
                                          from |-> Len(sentOn["feed"])]]
    BY DEF Watch, senderVars, EventsInv, NoSending
  <1>2. PICK n \in Nat : n = Len(sentOn["feed"])
    <2>1. sentOn["feed"] \in Seq(Happenings)
      BY <1>1, EventsTypes DEF Channel
    <2>2. Len(sentOn["feed"]) \in Nat
      BY <2>1
    <2> QED BY <2>2
  <1>3. PICK b : b = [at |-> "open", queue |-> <<>>, given |-> <<>>, from |-> n]
    OBVIOUS
  <1>4. /\ b.at = "open" /\ b.queue = <<>> /\ b.given = <<>> /\ b.from = n /\ b \in Listener
        /\ Len(b.queue) = 0
    BY <1>3 DEF Listener
  <1>5. watch' = [watch EXCEPT ![w] = b]
    BY <1>1, <1>2, <1>3
  <1>6. watch'[w] = b
    BY <1>1, <1>5 DEF EventsTypeOK
  <1>7. Seen(w)' = n
    <2>1. Waits(w, "feed")' = 0
      BY <1>1 DEF Waits
    <2>2. Seen(w)' = n - 0 - 0
      BY <1>1, <1>2, <1>4, <1>6, <2>1 DEF Seen
    <2> QED BY <2>2
  <1>8. Served(w)'
    <2>1. \A p \in (n + 1)..n : FALSE
      BY <1>2
    <2>2. (/\ watch[w].from <= Seen(w)
           /\ \A i \in DOMAIN watch[w].queue : watch[w].queue[i] = sentOn["feed"][Seen(w) + i])'
      BY <1>2, <1>4, <1>6, <1>7
    <2>3. (\A i \in DOMAIN watch[w].given :
              /\ AsksFor(w, watch[w].given[i])
              /\ \E p \in (watch[w].from + 1)..Seen(w) : sentOn["feed"][p] = watch[w].given[i])'
      BY <1>4, <1>6
    <2>4. (\A p \in (watch[w].from + 1)..Seen(w) : AsksFor(w, sentOn["feed"][p]) =>
              \E i \in DOMAIN watch[w].given : watch[w].given[i] = sentOn["feed"][p])'
      BY <1>4, <1>6, <1>7, <2>1
    <2>5. (\A i, j \in DOMAIN watch[w].given : i < j =>
              \E p, q \in 1..Seen(w) : /\ p < q /\ sentOn["feed"][p] = watch[w].given[i]
                                       /\ sentOn["feed"][q] = watch[w].given[j])'
      BY <1>4, <1>6
    <2> QED BY <2>2, <2>3, <2>4, <2>5 DEF Served
  <1>9. 0 <= Room
    BY NobodyIs
  <1> QED BY <1>1, <1>4, <1>5, <1>8, <1>9, WatcherMoves

\* A request that goes still has its listener, until nobody sends.
LEMMA StopWatchingKeeps ==
    ASSUME EventsInv, NEW w \in Watchers, StopWatching(w)
    PROVE  EventsInv'
  <1>1. /\ UNCHANGED <<way, senderVars, readerVars, nodeLife, chan, noteVars, fell>>
        /\ UNCHANGED <<bcast, sentOn>> /\ EventsTypeOK
    BY DEF StopWatching, senderVars, EventsInv
  <1>2. PICK a \in {"leaving", "closed"} :
            /\ watch' = [watch EXCEPT ![w] = [watch[w] EXCEPT !.at = a]]
            /\ \/ watch[w].at = "open" /\ a = "leaving"
               \/ watch[w].at = "leaving" /\ a = "closed" /\ bcast = NoSending
    BY DEF StopWatching
  <1>3. PICK b : b = [watch[w] EXCEPT !.at = a]
    OBVIOUS
  <1>4. /\ b \in Listener /\ b.at = a /\ b.queue = watch[w].queue /\ b.given = watch[w].given
        /\ b.from = watch[w].from /\ Len(b.queue) <= Room
    BY <1>1, <1>2, <1>3 DEF EventsTypeOK, Listener
  <1>5. watch' = [watch EXCEPT ![w] = b] /\ watch'[w] = b
    BY <1>1, <1>2, <1>3 DEF EventsTypeOK
  <1>6. w \in bcast.left => b.at \in {"open", "leaving"}
    BY <1>2, <1>4 DEF NoSending
  <1>7. Served(w)'
    <2>1. CASE a = "closed"
      BY <1>4, <1>5, <2>1 DEF Served
    <2>2. CASE a = "leaving"
      <3>1. Seen(w)' = Seen(w)
        BY <1>1, <1>4, <1>5 DEF Seen, Waits
      <3>2. Served(w) /\ watch[w].at = "open"
        BY <1>2, <2>2 DEF EventsInv
      <3>3. (\A i \in DOMAIN watch[w].queue : watch[w].queue[i] = sentOn["feed"][Seen(w) + i])'
        BY <1>1, <1>4, <1>5, <3>1, <3>2 DEF Served
      <3> QED BY <1>1, <1>4, <1>5, <3>1, <3>2, <3>3, ServedMore
    <2> QED BY <1>2, <2>1, <2>2
  <1> QED BY <1>1, <1>4, <1>5, <1>6, <1>7, WatcherMoves

\* A listener that has given more.
LEMMA Regiven ==
    ASSUME NEW r \in Listener, NEW g
    PROVE  [r EXCEPT !.given = g] = [at |-> r.at, queue |-> r.queue, given |-> g, from |-> r.from]
  BY DEF Listener

\* A request is given what it asked for of what its listener has.
LEMMA WatchTakeKeeps ==
    ASSUME EventsInv, NEW w \in Watchers, WatchTake(w)
    PROVE  EventsInv'
  <1>1. /\ UNCHANGED <<way, senderVars, readerVars, nodeLife, chan, noteVars, fell>>
        /\ UNCHANGED <<bcast, sentOn>> /\ EventsTypeOK
        /\ watch[w].at = "open" /\ watch[w].queue # <<>> /\ Served(w)
    BY DEF WatchTake, senderVars, EventsInv
  <1>2. /\ watch[w] \in Listener /\ watch[w].queue \in Seq(Happenings)
        /\ watch[w].given \in Seq(Happenings) /\ watch[w].from \in Nat
    BY <1>1, EventsTypes DEF EventsTypeOK
  <1>3. PICK e : e = Head(watch[w].queue)
    OBVIOUS
  <1>4. PICK q : q = Tail(watch[w].queue)
    OBVIOUS
  <1>5. PICK g : g = IF AsksFor(w, e) THEN Append(watch[w].given, e) ELSE watch[w].given
    OBVIOUS
  <1>6. /\ q \in Seq(Happenings) /\ Len(watch[w].queue) = Len(q) + 1 /\ Len(q) \in Nat
        /\ DOMAIN watch[w].queue = 1..Len(watch[w].queue) /\ DOMAIN q = 1..Len(q)
        /\ e = watch[w].queue[1] /\ e \in Happenings
        /\ \A i \in DOMAIN q : i + 1 \in DOMAIN watch[w].queue /\ q[i] = watch[w].queue[i + 1]
    BY <1>1, <1>2, <1>3, <1>4, Tailed
  <1>7. /\ Append(watch[w].given, e) \in Seq(Happenings) /\ Len(watch[w].given) \in Nat
        /\ DOMAIN watch[w].given = 1..Len(watch[w].given)
        /\ DOMAIN Append(watch[w].given, e) = 1..(Len(watch[w].given) + 1)
        /\ Append(watch[w].given, e)[Len(watch[w].given) + 1] = e
        /\ \A i \in DOMAIN watch[w].given : Append(watch[w].given, e)[i] = watch[w].given[i]
    <2>1. watch[w].given \in Seq(Happenings) /\ e \in Happenings
      BY <1>2, <1>6
    <2> QED BY <2>1, Appended
  <1>8. PICK b : b = [at |-> watch[w].at, queue |-> q, given |-> g, from |-> watch[w].from]
    OBVIOUS
  <1>9. /\ b.at = "open" /\ b.queue = q /\ b.given = g /\ b.from = watch[w].from
        /\ b \in Listener /\ Len(b.queue) <= Room
    <2>1. g \in Seq(Happenings)
      BY <1>2, <1>5, <1>7
    <2>2. Len(q) <= Room
      <3>1. Len(watch[w].queue) <= Room
        BY <1>1 DEF EventsTypeOK
      <3>2. Len(q) + 1 <= Room
        BY <1>6, <3>1
      <3> QED BY <1>6, <3>2, NobodyIs
    <2> QED BY <1>1, <1>2, <1>6, <1>8, <2>1, <2>2 DEF Listener
  <1>10. watch' = [watch EXCEPT ![w] = b] /\ watch'[w] = b
    <2>1. watch' = [watch EXCEPT ![w] = [[watch[w] EXCEPT !.queue = q] EXCEPT !.given = g]]
      BY <1>1, <1>2, <1>3, <1>4, <1>5 DEF WatchTake, EventsTypeOK
    <2>2. PICK c : c = [watch[w] EXCEPT !.queue = q]
      OBVIOUS
    <2>3. /\ c \in Listener /\ c.at = watch[w].at /\ c.queue = q
          /\ c.given = watch[w].given /\ c.from = watch[w].from
      BY <1>2, <1>6, <2>2 DEF Listener
    <2>4. [c EXCEPT !.given = g] = b
      BY <1>8, <2>3, Regiven
    <2>5. watch' = [watch EXCEPT ![w] = b]
      BY <2>1, <2>2, <2>4
    <2> QED BY <1>1, <2>5 DEF EventsTypeOK
  <1>11. PICK n \in Int : n = Seen(w)
    BY <1>1, SeenIs
  <1>12. Seen(w)' = n + 1
    <2>1. PICK a, c, d \in Nat : a = Len(sentOn["feed"]) /\ c = Waits(w, "feed") /\ d = Len(q)
      <3>1. Len(sentOn["feed"]) \in Nat /\ Waits(w, "feed") \in Nat
        BY <1>1, SeenIs
      <3> QED BY <1>6, <3>1
    <2>2. Waits(w, "feed")' = c
      BY <1>1, <2>1 DEF Waits
    <2>3. Seen(w) = a - c - (d + 1) /\ Seen(w)' = a - c - d
      BY <1>1, <1>6, <1>9, <1>10, <2>1, <2>2 DEF Seen
    <2>4. a - c - d = (a - c - (d + 1)) + 1
      BY <2>1, OneLess
    <2> QED BY <1>11, <2>3, <2>4
  <1> DEFINE from == watch[w].from
             out == sentOn["feed"]
             given == watch[w].given
  <1>13. /\ from <= n /\ from \in Nat /\ n \in Nat
         /\ \A i \in DOMAIN watch[w].queue : watch[w].queue[i] = out[n + i]
         /\ \A i \in DOMAIN given : AsksFor(w, given[i]) /\ \E p \in (from + 1)..n : out[p] = given[i]
         /\ \A p \in (from + 1)..n : AsksFor(w, out[p]) => \E i \in DOMAIN given : given[i] = out[p]
         /\ \A i, j \in DOMAIN given : i < j =>
                \E p, q2 \in 1..n : p < q2 /\ out[p] = given[i] /\ out[q2] = given[j]
    <2>1. from <= n
      BY <1>1, <1>11 DEF Served
    <2>2. n \in Nat
      BY <1>2, <1>11, <2>1
    <2> QED BY <1>1, <1>2, <1>11, <2>1, <2>2 DEF Served
  <1>14. out[n + 1] = e
    <2>1. 1 \in DOMAIN watch[w].queue
      BY <1>6
    <2> QED BY <1>6, <1>13, <2>1
  <1>15. /\ from <= n + 1 /\ n + 1 \in (from + 1)..(n + 1) /\ n + 1 \in 1..(n + 1)
         /\ \A p \in (from + 1)..n : p \in (from + 1)..(n + 1) /\ p \in 1..n
         /\ \A p \in (from + 1)..(n + 1) : p = n + 1 \/ p \in (from + 1)..n
         /\ \A p \in 1..n : p \in 1..(n + 1) /\ p < n + 1
    BY <1>13
  <1>16. ASSUME NEW i \in DOMAIN q PROVE q[i] = out[n + 1 + i]
    <2>1. i \in Nat
      BY <1>6
    <2>2. n + (i + 1) = n + 1 + i
      BY <1>13, <2>1
    <2>3. i + 1 \in DOMAIN watch[w].queue /\ q[i] = watch[w].queue[i + 1]
      BY <1>6
    <2> QED BY <1>13, <2>2, <2>3
  <1>17. /\ \A i \in DOMAIN g : AsksFor(w, g[i]) /\ \E p \in (from + 1)..(n + 1) : out[p] = g[i]
         /\ \A p \in (from + 1)..(n + 1) : AsksFor(w, out[p]) => \E i \in DOMAIN g : g[i] = out[p]
         /\ \A i, j \in DOMAIN g : i < j =>
                \E p, q2 \in 1..(n + 1) : p < q2 /\ out[p] = g[i] /\ out[q2] = g[j]
    <2>1. CASE ~AsksFor(w, e)
      <3>1. g = given
        BY <1>5, <2>1
      <3> QED BY <1>13, <1>14, <1>15, <2>1, <3>1
    <2>2. CASE AsksFor(w, e)
      <3>1. PICK m \in Nat : m = Len(given)
        BY <1>7
      <3>2. /\ DOMAIN given = 1..m /\ DOMAIN g = 1..(m + 1) /\ g[m + 1] = e
            /\ \A i \in DOMAIN given : g[i] = given[i]
        BY <1>5, <1>7, <2>2, <3>1
      <3>3. \A i \in DOMAIN g : i \in DOMAIN given \/ i = m + 1
        BY <3>2
      <3>4. \A i \in DOMAIN given : i \in DOMAIN g /\ m + 1 \in DOMAIN g
        BY <3>2
      <3>5. ASSUME NEW i \in DOMAIN g
            PROVE  AsksFor(w, g[i]) /\ \E p \in (from + 1)..(n + 1) : out[p] = g[i]
        <4>1. CASE i \in DOMAIN given
          <5>1. PICK p \in (from + 1)..n : out[p] = given[i]
            BY <1>13, <4>1
          <5>2. g[i] = given[i] /\ AsksFor(w, given[i]) /\ p \in (from + 1)..(n + 1)
            BY <1>13, <1>15, <3>2, <4>1
          <5> QED BY <5>1, <5>2
        <4>2. CASE i = m + 1
          <5>1. g[i] = e /\ out[n + 1] = g[i] /\ n + 1 \in (from + 1)..(n + 1)
            BY <1>14, <1>15, <3>2, <4>2
          <5> QED BY <2>2, <5>1
        <4> QED BY <3>3, <4>1, <4>2
      <3>6. ASSUME NEW p \in (from + 1)..(n + 1), AsksFor(w, out[p])
            PROVE  \E i \in DOMAIN g : g[i] = out[p]
        <4>1. CASE p = n + 1
          <5>1. m + 1 \in DOMAIN g
            BY <3>2
          <5> QED BY <1>14, <3>2, <4>1, <5>1
        <4>2. CASE p \in (from + 1)..n
          BY <1>13, <3>2, <3>4, <3>6, <4>2
        <4> QED BY <1>15, <4>1, <4>2
      <3>7. ASSUME NEW i \in DOMAIN g, NEW j \in DOMAIN g, i < j
            PROVE  \E p, q2 \in 1..(n + 1) : p < q2 /\ out[p] = g[i] /\ out[q2] = g[j]
        <4>1. i \in DOMAIN given
          BY <3>2, <3>7
        <4>2. CASE j \in DOMAIN given
          <5>1. PICK p \in 1..n, q2 \in 1..n : p < q2 /\ out[p] = given[i] /\ out[q2] = given[j]
            BY <1>13, <3>7, <4>1, <4>2
          <5>2. p \in 1..(n + 1) /\ q2 \in 1..(n + 1) /\ g[i] = given[i] /\ g[j] = given[j]
            BY <1>15, <3>2, <4>1, <4>2
          <5> QED BY <5>1, <5>2
        <4>3. CASE j = m + 1
          <5>1. PICK p \in (from + 1)..n : out[p] = given[i]
            BY <1>13, <4>1
          <5>2. p \in 1..(n + 1) /\ p < n + 1 /\ out[p] = g[i]
            BY <1>15, <3>2, <4>1, <5>1
          <5>3. n + 1 \in 1..(n + 1) /\ out[n + 1] = g[j]
            BY <1>14, <1>15, <3>2, <4>3
          <5> QED BY <5>2, <5>3
        <4> QED BY <3>3, <4>2, <4>3
      <3> QED BY <3>5, <3>6, <3>7
    <2> QED BY <2>1, <2>2
  <1>18. Served(w)'
    <2>0. /\ watch'[w].at = "open" /\ watch'[w].queue = q /\ watch'[w].given = g
          /\ watch'[w].from = from /\ sentOn'["feed"] = out
          /\ \A f : AsksFor(w, f)' <=> AsksFor(w, f)
      BY <1>1, <1>9, <1>10 DEF AsksFor
    <2> HIDE DEF from, out
    <2>1. (/\ watch[w].from <= Seen(w)
           /\ \A i \in DOMAIN watch[w].queue : watch[w].queue[i] = sentOn["feed"][Seen(w) + i])'
      BY <1>12, <1>15, <1>16, <2>0
    <2>2. (\A i \in DOMAIN watch[w].given :
              /\ AsksFor(w, watch[w].given[i])
              /\ \E p \in (watch[w].from + 1)..Seen(w) : sentOn["feed"][p] = watch[w].given[i])'
      BY <1>12, <1>17, <2>0
    <2>3. (\A p \in (watch[w].from + 1)..Seen(w) : AsksFor(w, sentOn["feed"][p]) =>
              \E i \in DOMAIN watch[w].given : watch[w].given[i] = sentOn["feed"][p])'
      BY <1>12, <1>17, <2>0
    <2>4. (\A i, j \in DOMAIN watch[w].given : i < j =>
              \E p, q2 \in 1..Seen(w) : /\ p < q2 /\ sentOn["feed"][p] = watch[w].given[i]
                                        /\ sentOn["feed"][q2] = watch[w].given[j])'
      BY <1>12, <1>17, <2>0
    <2> QED BY <2>1, <2>2, <2>3, <2>4 DEF Served
  <1> QED BY <1>1, <1>9, <1>10, <1>18, WatcherMoves

-----------------------------------------------------------------------------
(* The table of notifications                                                *)

\* The table or who reads it has changed, and no row was made.
LEMMA TableChanges ==
    ASSUME EventsInv, UNCHANGED RestOfTable, noteRows' \in NoteTable, pager' \in Pager, Paged',
           \A e \in Happenings : noteRows'[e] = "none" <=> noteRows[e] = "none"
    PROVE  EventsInv'
  <1>1. /\ UNCHANGED <<way, writer, bcast, sentOn, nameless, hands, toldOf, life, lives, onlineNow,
                       listens, shut, chan, watch, fell>>
        /\ EventsTypeOK
    BY DEF RestOfTable, senderVars, readerVars, nodeLife, EventsInv
  <1>2. EventsTypeOK'
    BY <1>1 DEF EventsTypeOK
  <1>3. Dispatched'
    <2>1. \A k \in Channel : \A e \in Within(sentOn[k]) : e \in Happenings
      BY <1>1, EventsTypes DEF Within
    <2> QED BY <1>1, <2>1, DispatchedKept DEF EventsInv
  <1>4. Sending' /\ Writing' /\ Attended'
    <2>1. Sending'
      BY <1>1, SendingKept DEF EventsInv, Sending
    <2> QED BY <1>1, <2>1 DEF EventsInv, Writing, On, Attended
  <1>5. ASSUME NEW c \in Channel PROVE Placed(c)' /\ Came(c)' /\ InTurn(c)'
    <2>1. Waits("app", c)' = Waits("app", c) /\ \A f : Reached("app", f)' = Reached("app", f)
      BY <1>1 DEF Waits, Reached
    <2>2. Placed(c) /\ Came(c) /\ InTurn(c)
      BY DEF EventsInv
    <2> QED BY <1>1, <2>1, <2>2, PlacesKept
  <1>6. \A w \in Watchers : Served(w)'
    BY <1>1, ServedKept DEF EventsInv, Waits
  <1> QED BY <1>2, <1>3, <1>4, <1>5, <1>6 DEF EventsInv

\* A row that is read is still there.
LEMMA ReadKeeps ==
    ASSUME EventsInv, UNCHANGED <<RestOfTable, pager>>, noteRows' \in NoteTable,
           \A e \in Happenings : noteRows'[e] = noteRows[e]
                                 \/ (noteRows[e] = "unread" /\ noteRows'[e] = "read")
    PROVE  EventsInv'
  <1>1. /\ UNCHANGED <<way, pager>> /\ EventsTypeOK /\ Paged
        /\ \A e \in Happenings : noteRows'[e] = "none" <=> noteRows[e] = "none"
    BY DEF RestOfTable, EventsInv
  <1>2. OfNotes' = OfNotes
    BY DEF OfNotes
  <1>3. DatesEqual' <=> DatesEqual
    BY <1>1 DEF DatesEqual, Date
  <1>4. pager.want \subseteq Happenings /\ pager.offset \in Happenings \cup {Nobody} /\ pager' \in Pager
    BY <1>1, EventsTypes DEF EventsTypeOK
  <1>5. \A e \in pager.want \cup {pager.offset} : e # Nobody => noteRows'[e] # "none"
    BY <1>1, <1>4 DEF Paged
  <1>6. Paged'
    BY <1>1, <1>2, <1>3, <1>5 DEF Paged, Date
  <1> QED BY <1>1, <1>4, <1>6, TableChanges

\* One notification is read, or all.
LEMMA ReadNotificationKeeps ==
    ASSUME EventsInv, NEW e \in Happenings, ReadNotification(e)
    PROVE  EventsInv'
  <1>1. /\ UNCHANGED <<RestOfTable, pager>> /\ noteRows \in NoteTable /\ noteRows[e] = "unread"
        /\ noteRows' = [noteRows EXCEPT ![e] = "read"]
    BY DEF ReadNotification, EventsInv, EventsTypeOK
  <1>2. /\ noteRows' \in NoteTable
        /\ \A f \in Happenings : noteRows'[f] = noteRows[f]
                                 \/ (noteRows[f] = "unread" /\ noteRows'[f] = "read")
    BY <1>1 DEF NoteTable
  <1> QED BY <1>1, <1>2, ReadKeeps

\* All of them.
LEMMA ReadAllNotificationsKeeps ==
    ASSUME EventsInv, ReadAllNotifications
    PROVE  EventsInv'
  <1>1. /\ UNCHANGED <<RestOfTable, pager>> /\ noteRows \in NoteTable
        /\ noteRows' = [e \in Happenings |-> IF e \in OfNotes THEN "read" ELSE noteRows[e]]
    BY DEF ReadAllNotifications, EventsInv, EventsTypeOK
  <1>2. /\ noteRows' \in NoteTable
        /\ \A f \in Happenings : noteRows'[f] = noteRows[f]
                                 \/ (noteRows[f] = "unread" /\ noteRows'[f] = "read")
    BY <1>1 DEF NoteTable, OfNotes
  <1> QED BY <1>1, <1>2, ReadKeeps

\* A row goes, and with it perhaps the one that a reader goes on from.
LEMMA DeleteNoteKeeps ==
    ASSUME EventsInv, NEW e \in Happenings, DeleteNote(e)
    PROVE  EventsInv'
  <1>1. /\ UNCHANGED <<RestOfTable, way>> /\ noteRows \in NoteTable /\ e \in OfNotes
        /\ noteRows' = [noteRows EXCEPT ![e] = "deleted"] /\ EventsTypeOK /\ pager \in Pager /\ Paged
    BY DEF DeleteNote, RestOfTable, EventsInv, EventsTypeOK
  <1>2. /\ noteRows' \in NoteTable /\ noteRows'[e] = "deleted"
        /\ \A f \in Happenings \ {e} : noteRows'[f] = noteRows[f]
    BY <1>1 DEF NoteTable
  <1>3. \A f \in Happenings : noteRows'[f] = "none" <=> noteRows[f] = "none"
    BY <1>1, <1>2 DEF OfNotes
  <1>4. OfNotes' = OfNotes \ {e}
    BY <1>2 DEF OfNotes
  <1>5. IsFiniteSet(OfNotes')
    BY <1>1, <1>4, FS_RemoveElement DEF Paged
  <1>6. DatesEqual' <=> DatesEqual
    BY <1>1, <1>3 DEF DatesEqual, Date
  <1>7. pager.want \subseteq Happenings /\ pager.offset \in Happenings \cup {Nobody}
    BY <1>1, EventsTypes
  <1>8. \A f \in pager.want \cup {pager.offset} : f # Nobody => noteRows'[f] # "none"
    BY <1>1, <1>3, <1>7 DEF Paged
  <1>9. CASE pager.at = "reading" /\ e = pager.offset
    <2>1. pager' = [pager EXCEPT !.torn = TRUE]
      BY <1>9 DEF DeleteNote
    <2>2. /\ pager' \in Pager /\ pager'.torn = TRUE /\ pager'.at = "reading"
          /\ pager'.offset = pager.offset /\ pager'.want = pager.want
      BY <1>1, <1>9, <2>1 DEF Pager
    <2>3. Paged'
      BY <1>1, <1>5, <1>8, <1>9, <2>2 DEF Paged
    <2> QED BY <1>1, <1>2, <1>3, <2>2, <2>3, TableChanges
  <1>10. CASE ~(pager.at = "reading" /\ e = pager.offset)
    <2>1. pager' = pager
      BY <1>10 DEF DeleteNote
    <2>2. Paged'
      BY <1>1, <1>4, <1>5, <1>6, <1>8, <1>10, <2>1 DEF Paged, Date
    <2> QED BY <1>1, <1>2, <1>3, <2>1, <2>2, TableChanges
  <1> QED BY <1>9, <1>10

\* A list without one twice.
Listed(s, n, S) == s \in [1..n -> S] /\ \A i, j \in 1..n : i < j => s[i] # s[j]

\* As many different ones as there are, are all.
LEMMA AllListed ==
    ASSUME NEW S, IsFiniteSet(S), NEW n \in Nat, n = Cardinality(S), NEW s, Listed(s, n, S)
    PROVE  \A x \in S : \E i \in 1..n : s[i] = x
  <1>1. IsFiniteSet(1..n) /\ Cardinality(1..n) = n
    BY FS_Interval
  <1>2. s \in [1..n -> S] /\ \A i, j \in 1..n : s[i] = s[j] => i = j
    BY DEF Listed
  <1>3. s \in Injection(1..n, S)
    BY <1>2 DEF Injection, IsInjective
  <1>4. s \in Surjection(1..n, S)
    BY <1>1, <1>3, FS_Injection
  <1> QED BY <1>4 DEF Surjection

\* What a page is taken from.
Older(offset) == {e \in OfNotes : offset # Nobody => offset \in OfNotes /\ Date(e) < Date(offset)}

\* A page begins after the one before: what is older and not in it is older than
\* its last row, and a page that is not full has all.
LEMMA PageIs ==
    ASSUME NEW offset, NEW limit \in Nat, limit > 0, NEW s \in ListNotes(offset, limit),
           IsFiniteSet(OfNotes), NEW older, older = Older(offset),
           \A e \in Happenings : Date(e) \in Nat
    PROVE  \E n \in Nat :
               /\ n = Len(s) /\ n <= limit /\ s \in [1..n -> older] /\ DOMAIN s = 1..n
               /\ n < limit => \A e \in older : e \in Within(s)
               /\ s # <<>> <=> n > 0
               /\ \A e \in older : e \in Within(s) \/ (n > 0 => Date(s[n]) >= Date(e))
  <1>1. IsFiniteSet(older)
    BY FS_Subset DEF Older
  <1>2. PICK c \in Nat : c = Cardinality(older)
    BY <1>1, FS_CardinalityType
  <1>3. PICK n \in Nat : n = (IF c < limit THEN c ELSE limit)
    BY <1>2
  <1>4. /\ s \in [1..n -> older]
        /\ \A i, j \in DOMAIN s : i < j => s[i] # s[j] /\ Date(s[i]) >= Date(s[j])
        /\ \A e \in older : (\A i \in DOMAIN s : s[i] # e) =>
                                \A i \in DOMAIN s : Date(s[i]) >= Date(e)
    BY <1>2, <1>3 DEF ListNotes, Older
  <1>5. DOMAIN s = 1..n /\ Len(s) = n
    <2>1. s \in Seq(older)
      BY <1>4
    <2> QED BY <1>4, <2>1
  <1>6. n < limit => \A e \in older : e \in Within(s)
    <2>1. SUFFICES ASSUME n < limit
                   PROVE  \A e \in older : e \in Within(s)
      OBVIOUS
    <2>2. n = Cardinality(older)
      BY <1>2, <1>3, <2>1
    <2>3. Listed(s, n, older)
      BY <1>4, <1>5 DEF Listed
    <2>4. \A e \in older : \E i \in 1..n : s[i] = e
      BY <1>1, <2>2, <2>3, AllListed
    <2> QED BY <1>5, <2>4 DEF Within
  <1>7. s # <<>> <=> n > 0
    <2>1. s \in Seq(older)
      BY <1>4
    <2> QED BY <1>5, <2>1
  <1>8. \A e \in older : e \in Within(s) \/ (n > 0 => Date(s[n]) >= Date(e))
    <2>1. SUFFICES ASSUME NEW e \in older, e \notin Within(s), n > 0
                   PROVE  Date(s[n]) >= Date(e)
      OBVIOUS
    <2>2. n \in DOMAIN s
      BY <1>5, <2>1
    <2> QED BY <1>4, <2>1, <2>2 DEF Within
  <1>9. n <= limit
    BY <1>2, <1>3
  <1> QED BY <1>4, <1>5, <1>6, <1>7, <1>8, <1>9

\* The next page has what is older than the one before.
LEMMA NextPageKeeps ==
    ASSUME EventsInv, NextPage
    PROVE  EventsInv'
  <1>1. /\ UNCHANGED <<RestOfTable, noteRows, way>> /\ EventsTypeOK /\ Paged
        /\ noteRows \in NoteTable /\ pager \in Pager /\ pager.at # "done"
        /\ way \in Way /\ way.page > 0
    BY EventsTypes DEF NextPage, Reading, RestOfTable, EventsInv, EventsTypeOK
  <1>2. PICK limit \in Nat : limit = way.page /\ limit > 0
    BY <1>1 DEF Way
  <1>3. PICK s \in ListNotes(pager.offset, limit) :
            pager' = [at |-> IF Len(s) < limit THEN "done" ELSE "reading",
                      offset |-> IF s = <<>> THEN pager.offset ELSE s[Len(s)],
                      got |-> pager.got \cup Within(s),
                      want |-> IF pager.at = "none" THEN OfNotes ELSE pager.want,
                      torn |-> pager.torn]
    BY <1>2 DEF NextPage
  <1>4. PICK offset \in Happenings \cup {Nobody} : offset = pager.offset
    BY <1>1 DEF Pager
  <1>5. PICK older \in SUBSET OfNotes : older = Older(offset)
    BY DEF Older
  <1>6. OfNotes \subseteq Happenings /\ \A e \in Happenings : Date(e) \in Nat
    <2>1. \A e \in Happenings : way.of[e].date \in Nat
      BY <1>1 DEF Way, Happening
    <2> QED BY <2>1 DEF OfNotes, Date
  <1>7. PICK n \in Nat :
            /\ n = Len(s) /\ n <= limit /\ s \in [1..n -> older] /\ DOMAIN s = 1..n
            /\ n < limit => \A e \in older : e \in Within(s)
            /\ s # <<>> <=> n > 0
            /\ \A e \in older : e \in Within(s) \/ (n > 0 => Date(s[n]) >= Date(e))
    <2>1. s \in ListNotes(offset, limit) /\ IsFiniteSet(OfNotes)
      BY <1>1, <1>3, <1>4 DEF Paged
    <2> QED BY <1>2, <1>5, <1>6, <2>1, PageIs
  <1>8. PICK at : at = IF n < limit THEN "done" ELSE "reading"
    OBVIOUS
  <1>9. PICK last : last = IF s = <<>> THEN offset ELSE s[n]
    OBVIOUS
  <1>10. PICK want : want = IF pager.at = "none" THEN OfNotes ELSE pager.want
    OBVIOUS
  <1>11. pager' = [at |-> at, offset |-> last, got |-> pager.got \cup Within(s), want |-> want,
                   torn |-> pager.torn]
    BY <1>3, <1>4, <1>7, <1>8, <1>9, <1>10
  <1>12. /\ at \in {"reading", "done"} /\ want \subseteq Happenings
         /\ Within(s) \subseteq Happenings
         /\ s # <<>> => s[n] \in older /\ n > 0
         /\ last \in Happenings \cup {Nobody}
    <2>1. at \in {"reading", "done"} /\ want \subseteq Happenings
      BY <1>1, <1>6, <1>8, <1>10, EventsTypes
    <2>2. \A i \in 1..n : s[i] \in older
      BY <1>7
    <2>3. Within(s) \subseteq Happenings
      BY <1>5, <1>6, <1>7, <2>2 DEF Within
    <2>4. s # <<>> => s[n] \in older /\ n > 0
      <3>1. n > 0 => n \in 1..n
        OBVIOUS
      <3> QED BY <1>7, <2>2, <3>1
    <2>5. last \in Happenings \cup {Nobody}
      BY <1>5, <1>6, <1>9, <2>4
    <2> QED BY <2>1, <2>3, <2>4, <2>5
  <1>13. /\ pager' \in Pager /\ pager'.at = at /\ pager'.offset = last /\ pager'.want = want
         /\ pager'.got = pager.got \cup Within(s) /\ pager'.torn = pager.torn
    <2>1. pager.got \subseteq Happenings /\ pager.torn \in BOOLEAN
      BY <1>1 DEF Pager
    <2> QED BY <1>11, <1>12, <2>1 DEF Pager
  <1>14. OfNotes' = OfNotes /\ (DatesEqual' <=> DatesEqual) /\ \A e : Date(e)' = Date(e)
    BY <1>1 DEF OfNotes, DatesEqual, Date
  <1>15. \A e \in want \cup {last} : e # Nobody => noteRows[e] # "none"
    <2>1. \A e \in OfNotes : noteRows[e] # "none"
      BY DEF OfNotes
    <2>2. \A e \in want : e # Nobody => noteRows[e] # "none"
      BY <1>1, <1>10, <2>1 DEF Paged
    <2>3. last # Nobody => noteRows[last] # "none"
      BY <1>1, <1>4, <1>5, <1>9, <1>12, <2>1 DEF Paged
    <2> QED BY <2>2, <2>3
  <1>16. at = "reading" => n = limit /\ last = s[n] /\ last \in older /\ last \in OfNotes
    BY <1>2, <1>7, <1>8, <1>9, <1>12
  <1>17. \/ pager.torn \/ DatesEqual
         \/ \A e \in want \cap OfNotes :
                e \in pager.got \cup Within(s) \/ (at = "reading" /\ Date(e) < Date(last))
    <2>1. SUFFICES ASSUME pager.torn = FALSE, ~DatesEqual, NEW e \in want, e \in OfNotes,
                          e \notin pager.got, e \notin Within(s)
                   PROVE  at = "reading" /\ Date(e) < Date(last)
      BY <1>1 DEF Pager
    <2>2. e \in older
      <3>1. CASE pager.at = "none"
        BY <1>1, <1>4, <1>5, <2>1, <3>1 DEF Paged, Older
      <3>2. CASE pager.at = "reading"
        <4>1. offset \in OfNotes /\ Date(e) < Date(offset)
          BY <1>1, <1>4, <1>10, <2>1, <3>2 DEF Paged
        <4> QED BY <1>5, <2>1, <4>1 DEF Older
      <3> QED BY <1>1, <3>1, <3>2 DEF Pager
    <2>3. ~(n < limit)
      BY <1>7, <2>1, <2>2
    <2>4. at = "reading" /\ n > 0
      BY <1>2, <1>7, <1>8, <2>3
    <2>5. Date(last) >= Date(e)
      BY <1>7, <1>16, <2>1, <2>2, <2>4
    <2>6. e # last
      <3>1. n \in DOMAIN s
        BY <1>7, <2>4
      <3> QED BY <1>16, <2>1, <2>4, <3>1 DEF Within
    <2>7. Date(last) # Date(e)
      BY <1>6, <1>15, <1>16, <2>1, <2>4, <2>6, NobodyIs DEF DatesEqual, OfNotes
    <2> QED BY <1>6, <1>16, <2>1, <2>4, <2>5, <2>7
  <1>18. Paged'
    <2>1. IsFiniteSet(OfNotes)'
          /\ (\A e \in pager.want \cup {pager.offset} : e # Nobody => noteRows[e] # "none")'
      BY <1>1, <1>13, <1>14, <1>15 DEF Paged
    <2>2. at # "none" /\ (at = "reading" => last # Nobody /\ last \in OfNotes)
      BY <1>6, <1>12, <1>16, NobodyIs
    <2>3. (\/ pager.torn \/ DatesEqual \/ pager.at = "none"
           \/ \A e \in pager.want \cap OfNotes :
                e \in pager.got \/ (pager.at = "reading" /\ Date(e) < Date(pager.offset)))'
      BY <1>1, <1>13, <1>14, <1>17 DEF Date
    <2> QED BY <1>13, <1>14, <2>1, <2>2, <2>3 DEF Paged
  <1> QED BY <1>1, <1>13, <1>18, TableChanges

-----------------------------------------------------------------------------
(* Together                                                                  *)

\* In the beginning nothing has happened.
LEMMA EventsInitially == EventsInit => EventsInv
  <1> SUFFICES ASSUME EventsInit
               PROVE  EventsInv
    OBVIOUS
  <1>1. /\ \A k \in Channel : chan[k] = <<>> /\ sentOn[k] = <<>> /\ toldOf[k] = <<>>
        /\ \A s \in ReaderSets, k \in Channel : hands[s][k] = "off"
        /\ \A e \in Happenings : writer[e] = "none" /\ noteRows[e] = "none"
        /\ \A w \in Watchers : watch[w].at = "none"
        /\ bcast.by = Nobody /\ bcast.left = {} /\ life = "off" /\ shut = {}
        /\ pager.at = "none" /\ pager.offset = Nobody /\ pager.want = {}
    BY DEF EventsInit, NoSending, NoWatch, NoPager
  <1>2. EventsTypeOK
    <2>1. <<>> \in Seq(Happenings) /\ Len(<<>>) = 0 /\ 0 <= Room
      BY NobodyIs
    <2>2. NoWatch \in Listener /\ Len(NoWatch.queue) <= Room
      BY <2>1 DEF NoWatch, Listener
    <2>3. NoPager \in Pager
          /\ NoSending \in [by : Happenings \cup {Nobody}, left : SUBSET (Watchers \cup {"app"})]
      BY DEF NoPager, Pager, NoSending
    <2>4. 0 \in 0..MaxLives
      BY NobodyIs
    <2>5. /\ chan \in [Channel -> Seq(Happenings)] /\ sentOn \in [Channel -> Seq(Happenings)]
          /\ toldOf \in [Channel -> Seq(Happenings)]
      BY <2>1 DEF EventsInit
    <2>6. \A k \in Channel : Len(chan[k]) <= Room
      BY <1>1, <2>1
    <2>7. /\ watch \in [Watchers -> Listener] /\ \A w \in Watchers : Len(watch[w].queue) <= Room
      BY <2>2 DEF EventsInit
    <2>8. /\ hands \in [ReaderSets -> [Channel -> Happenings \cup {Nobody, "waits", "off"}]]
          /\ writer \in [Happenings -> {"none", "row", "view", "send", "done"}]
          /\ noteRows \in NoteTable
      BY DEF EventsInit, NoteTable
    <2> QED BY <2>3, <2>4, <2>5, <2>6, <2>7, <2>8 DEF EventsInit, EventsTypeOK
  <1>3. \A k \in Channel : Within(sentOn[k]) = {} /\ Within(toldOf[k]) = {} /\ Within(chan[k]) = {}
    BY <1>1 DEF Within
  <1>4. \A k \in Channel : Taken(k) = {} /\ Waits("app", k) = 0
    BY <1>1, NobodyIs DEF Taken, Waits
  <1>5. Dispatched /\ Sending /\ Writing /\ Attended
    <2>1. \A k \in Channel : \A i \in DOMAIN sentOn[k] : FALSE
      BY <1>1
    <2>2. Dispatched
      BY <1>3, <2>1 DEF Dispatched
    <2>3. Sending
      BY <1>1 DEF Sending
    <2>4. Writing
      BY <1>1 DEF Writing
    <2>5. Attended
      <3>1. "note" \in Channel
        BY DEF Channel
      <3>2. \A s \in ReaderSets, k \in Channel : hands[s][k] = "off" /\ hands[s]["note"] = "off"
        BY <1>1, <3>1
      <3> QED BY <1>1, <3>2 DEF Attended
    <2> QED BY <2>2, <2>3, <2>4, <2>5
  <1>6. ASSUME NEW k \in Channel PROVE Placed(k) /\ Came(k) /\ InTurn(k)
    <2>1. Placed(k)
      BY <1>1, <1>4 DEF Placed
    <2>2. Came(k)
      BY <1>3, <1>4 DEF Came, Arrived
    <2>3. InTurn(k)
      <3>1. Len(toldOf[k]) = 0 /\ Len(chan[k]) = 0 /\ Len(sentOn[k]) = 0
        BY <1>1
      <3>2. InHand(k) = 0 /\ Waits("app", k) = 0
        BY <1>4 DEF InHand
      <3>3. Len(sentOn[k]) = Len(toldOf[k]) + InHand(k) + Len(chan[k]) + Waits("app", k)
        BY <3>1, <3>2
      <3>4. \A i \in DOMAIN toldOf[k] : FALSE
        BY <1>1
      <3>5. \A i \in DOMAIN chan[k] : FALSE
        BY <1>1
      <3> QED BY <1>4, <3>3, <3>4, <3>5 DEF InTurn
    <2> QED BY <2>1, <2>2, <2>3
  <1>7. \A w \in Watchers : Served(w)
    BY <1>1 DEF Served
  <1>8. Paged
    <2>1. OfNotes = {}
      BY <1>1 DEF OfNotes
    <2> QED BY <1>1, <2>1, FS_EmptySet DEF Paged
  <1> QED BY <1>2, <1>5, <1>6, <1>7, <1>8 DEF EventsInv

\* A step that changes nothing.
LEMMA EventsStutter ==
    ASSUME EventsInv, UNCHANGED eventVars
    PROVE  EventsInv'
  <1>1. UNCHANGED RestOfTable /\ UNCHANGED <<noteRows, pager>>
    BY DEF eventVars, RestOfTable, noteVars
  <1> QED BY <1>1, ReadKeeps DEF EventsInv, EventsTypeOK

\* Every step keeps the invariant.
LEMMA EventsNextKeeps == EventsInv /\ [EventsNext]_eventVars => EventsInv'
  <1> SUFFICES ASSUME EventsInv, [EventsNext]_eventVars
               PROVE  EventsInv'
    OBVIOUS
  <1>1. CASE NodeMoves
    BY <1>1, NodeMovesKeep
  <1>2. ASSUME NEW e \in Happenings,
               \/ Happen(e) \/ AddNote(e) \/ NotificationView(e) \/ SendOn(e)
               \/ SendBegins(e) \/ ReadNotification(e) \/ DeleteNote(e)
        PROVE  EventsInv'
    BY <1>2, HappenKeeps, AddNoteKeeps, NotificationViewKeeps, SendOnKeeps, SendBeginsKeeps,
       ReadNotificationKeeps, DeleteNoteKeeps
  <1>3. ASSUME NEW l \in Watchers \cup {"app"}, SendToNext(l) PROVE EventsInv'
    BY <1>3, SendToNextKeeps
  <1>4. CASE SendReturns \/ ReadAllNotifications \/ NextPage
    BY <1>4, SendReturnsKeeps, ReadAllNotificationsKeeps, NextPageKeeps
  <1>5. ASSUME NEW s \in ReaderSets, NEW k \in Channel, TakeEvent(s, k) \/ Tell(s, k)
        PROVE  EventsInv'
    BY <1>5, TakeEventKeeps, TellKeeps
  <1>6. ASSUME NEW w \in Watchers, Watch(w) \/ WatchTake(w) \/ StopWatching(w) PROVE EventsInv'
    BY <1>6, WatchKeeps, WatchTakeKeeps, StopWatchingKeeps
  <1>7. CASE UNCHANGED eventVars
    BY <1>7, EventsStutter
  <1> QED BY <1>1, <1>2, <1>3, <1>4, <1>5, <1>6, <1>7 DEF EventsNext

\* A sequence without one twice has as many as it is long.
LEMMA AsMany ==
    ASSUME NEW S, NEW s \in Seq(S), \A i, j \in DOMAIN s : s[i] = s[j] => i = j
    PROVE  IsFiniteSet(Within(s)) /\ Cardinality(Within(s)) = Len(s)
  <1>1. PICK n \in Nat : n = Len(s) /\ DOMAIN s = 1..n
    <2>1. Len(s) \in Nat /\ DOMAIN s = 1..Len(s)
      OBVIOUS
    <2> QED BY <2>1
  <1> DEFINE f == [i \in 1..n |-> s[i]]
  <1>2. f \in [1..n -> Within(s)] /\ \A i, j \in 1..n : f[i] = f[j] => i = j
    BY <1>1 DEF Within
  <1>3. \A x \in Within(s) : \E i \in 1..n : f[i] = x
    BY <1>1 DEF Within
  <1> HIDE DEF f
  <1>4. f \in Bijection(1..n, Within(s))
    BY <1>2, <1>3 DEF Bijection, Injection, Surjection, IsInjective
  <1>5. ExistsBijection(1..n, Within(s))
    BY <1>4 DEF ExistsBijection
  <1>6. IsFiniteSet(1..n) /\ Cardinality(1..n) = n
    BY FS_Interval
  <1> QED BY <1>1, <1>5, <1>6, FS_Bijection

\* So have the hands of the readers of a channel.
LEMMA AsManyHands ==
    ASSUME EventsInv, NEW k \in Channel, NEW taken, taken = {hands[s][k] : s \in Taken(k)}
    PROVE  IsFiniteSet(taken) /\ Cardinality(taken) = Cardinality(Taken(k))
  <1>1. IsFiniteSet(Taken(k))
    <2>1. IsFiniteSet(1..MaxLives)
      BY FS_Interval, NobodyIs
    <2>2. Taken(k) \subseteq 1..MaxLives
      BY DEF Taken, ReaderSets
    <2> QED BY <2>1, <2>2, FS_Subset
  <1> DEFINE f == [s \in Taken(k) |-> hands[s][k]]
  <1>2. f \in [Taken(k) -> taken] /\ \A s, t \in Taken(k) : f[s] = f[t] => s = t
    BY DEF EventsInv, Placed
  <1>3. \A x \in taken : \E s \in Taken(k) : f[s] = x
    OBVIOUS
  <1> HIDE DEF f
  <1>4. f \in Bijection(Taken(k), taken)
    BY <1>2, <1>3 DEF Bijection, Injection, Surjection, IsInjective
  <1>5. ExistsBijection(Taken(k), taken)
    BY <1>4 DEF ExistsBijection
  <1> QED BY <1>1, <1>5, FS_Bijection

\* None is lost, and none told twice.
LEMMA NothingLost ==
    ASSUME EventsInv
    PROVE  NoneLost
  <1>1. SUFFICES ASSUME NEW k \in Channel
                 PROVE  LET sent == {e \in Within(sentOn[k]) : k = "feed" => Reached("app", e)}
                            taken == {hands[s][k] : s \in Taken(k)}
                        IN  /\ sent = Within(toldOf[k]) \cup Within(chan[k]) \cup taken
                            /\ Cardinality(sent) = Len(toldOf[k]) + Len(chan[k]) + Cardinality(Taken(k))
    BY DEF NoneLost
  <1>2. PICK taken : taken = {hands[s][k] : s \in Taken(k)}
    OBVIOUS
  <1>3. PICK told : told = Within(toldOf[k])
    OBVIOUS
  <1>4. PICK queued : queued = Within(chan[k])
    OBVIOUS
  <1>5. Placed(k) /\ Came(k) /\ toldOf[k] \in Seq(Happenings) /\ chan[k] \in Seq(Happenings)
    BY EventsTypes DEF EventsInv
  <1>6. Arrived(k) = told \cup queued \cup taken
    BY <1>2, <1>3, <1>4, <1>5 DEF Came
  <1>7. /\ IsFiniteSet(told) /\ Cardinality(told) = Len(toldOf[k])
        /\ IsFiniteSet(queued) /\ Cardinality(queued) = Len(chan[k])
        /\ IsFiniteSet(taken) /\ Cardinality(taken) = Cardinality(Taken(k))
    <2>1. IsFiniteSet(told) /\ Cardinality(told) = Len(toldOf[k])
      BY <1>3, <1>5, AsMany DEF Placed
    <2>2. IsFiniteSet(queued) /\ Cardinality(queued) = Len(chan[k])
      BY <1>4, <1>5, AsMany DEF Placed
    <2>3. IsFiniteSet(taken) /\ Cardinality(taken) = Cardinality(Taken(k))
      BY <1>2, AsManyHands
    <2> QED BY <2>1, <2>2, <2>3
  <1>8. told \cap queued = {} /\ (told \cup queued) \cap taken = {}
    BY <1>2, <1>3, <1>4, <1>5 DEF Placed, Within
  <1>9. Cardinality({}) = 0
    BY FS_EmptySet
  <1>10. IsFiniteSet(told \cup queued)
         /\ Cardinality(told \cup queued) = Cardinality(told) + Cardinality(queued) - 0
    <2>1. /\ IsFiniteSet(told \cup queued)
          /\ Cardinality(told \cup queued)
                = Cardinality(told) + Cardinality(queued) - Cardinality(told \cap queued)
      BY <1>7, FS_Union
    <2>2. Cardinality(told \cap queued) = 0
      BY <1>8, <1>9
    <2> QED BY <2>1, <2>2
  <1>11. Cardinality((told \cup queued) \cup taken)
            = Cardinality(told \cup queued) + Cardinality(taken) - 0
    <2>1. PICK both : both = told \cup queued
      OBVIOUS
    <2>2. Cardinality(both \cup taken)
             = Cardinality(both) + Cardinality(taken) - Cardinality(both \cap taken)
      BY <1>7, <1>10, <2>1, FS_Union
    <2>3. Cardinality(both \cap taken) = 0
      BY <1>8, <1>9, <2>1
    <2> QED BY <2>1, <2>2, <2>3
  <1>12. PICK a, b, c \in Nat : a = Cardinality(told) /\ b = Cardinality(queued) /\ c = Cardinality(taken)
    BY <1>7, FS_CardinalityType
  <1>13. Cardinality(told \cup queued \cup taken) = a + b - 0 + c - 0
    BY <1>10, <1>11, <1>12
  <1>14. a + b - 0 + c - 0 = a + b + c
    BY <1>12
  <1>15. Cardinality(Arrived(k)) = Len(toldOf[k]) + Len(chan[k]) + Cardinality(Taken(k))
    BY <1>6, <1>7, <1>12, <1>13, <1>14
  <1> QED BY <1>2, <1>3, <1>4, <1>6, <1>15 DEF Arrived

\* What was told is a first part of what was sent, and notifications have rows.
LEMMA ToldInOrder ==
    ASSUME EventsInv
    PROVE  InOrder /\ RowFirst
  <1>1. ASSUME lives < 2, NEW k \in Channel
        PROVE  /\ Len(toldOf[k]) <= Len(sentOn[k])
               /\ \A i \in DOMAIN toldOf[k] : toldOf[k][i] = sentOn[k][i]
    <2>1. PICK n, b, c, d \in Nat : n = Len(toldOf[k]) /\ b = InHand(k) /\ c = Len(chan[k])
                                    /\ d = Waits("app", k)
      <3>1. toldOf[k] \in Seq(Happenings) /\ chan[k] \in Seq(Happenings)
        BY EventsTypes DEF EventsInv
      <3>2. Len(toldOf[k]) \in Nat /\ Len(chan[k]) \in Nat /\ InHand(k) \in Nat /\ Waits("app", k) \in Nat
        BY <3>1 DEF InHand, Waits
      <3> QED BY <3>2
    <2>2. Len(sentOn[k]) = n + b + c + d /\ \A i \in DOMAIN toldOf[k] : toldOf[k][i] = sentOn[k][i]
      BY <1>1, <2>1 DEF EventsInv, InTurn
    <2>3. n <= n + b + c + d
      BY <2>1
    <2> QED BY <2>1, <2>2, <2>3
  <1>2. InOrder
    BY <1>1 DEF InOrder
  <1>3. RowFirst
    <2>1. "note" \in Channel
      BY DEF Channel
    <2>2. Within(toldOf["note"]) \subseteq Within(sentOn["note"])
      BY <2>1, WasSent
    <2> QED BY <2>1, <2>2 DEF RowFirst, EventsInv, Dispatched
  <1> QED BY <1>2, <1>3

\* The places of a sequence followed by another.
LEMMA Followed ==
    ASSUME NEW S, NEW s \in Seq(S), NEW t \in Seq(S), NEW g \in Nat, NEW m \in Nat,
           g = Len(s), m = Len(t)
    PROVE  /\ DOMAIN (s \o t) = 1..(g + m)
           /\ \A i \in 1..g : (s \o t)[i] = s[i]
           /\ \A i \in 1..m : (s \o t)[g + i] = t[i]
           /\ \A i \in (g + 1)..(g + m) : i - g \in 1..m /\ (s \o t)[i] = t[i - g]
  <1>1. s \o t \in Seq(S) /\ Len(s \o t) = g + m
    OBVIOUS
  <1>2. DOMAIN (s \o t) = 1..(g + m)
    BY <1>1
  <1>3. \A i \in 1..g : (s \o t)[i] = s[i]
    OBVIOUS
  <1>4. \A i \in 1..m : (s \o t)[g + i] = t[i]
    OBVIOUS
  <1>5. \A i \in (g + 1)..(g + m) : i - g \in 1..m /\ g + (i - g) = i
    OBVIOUS
  <1> QED BY <1>2, <1>3, <1>4, <1>5

\* Of the n events of out, what follows the first from of them was given as far
\* as it is wanted up to seen, and waits in a queue of m up to the last x.
Hears(out, given, queue, from, seen, x, wanted, g, m, n) ==
    /\ g \in Nat /\ m \in Nat /\ n \in Nat /\ from \in Nat /\ seen \in Nat /\ x \in {0, 1}
    /\ given \in Seq(Happenings) /\ queue \in Seq(Happenings)
    /\ g = Len(given) /\ m = Len(queue) /\ n = seen + m + x /\ from <= seen
    /\ \A i \in 1..m : queue[i] = out[seen + i]
    /\ \A i \in 1..g : given[i] \in wanted /\ \E p \in (from + 1)..seen : out[p] = given[i]
    /\ \A p \in (from + 1)..seen : out[p] \in wanted => \E i \in 1..g : given[i] = out[p]
    /\ \A i, j \in 1..g : i < j =>
          \E p, q \in 1..seen : p < q /\ out[p] = given[i] /\ out[q] = given[j]
    /\ \A p, q \in 1..n : out[p] = out[q] => p = q

\* It has what was wanted of them but the last x, in their order.
Heeds(out, all, from, x, wanted, n) ==
    /\ \A e \in wanted : (\E i \in DOMAIN all : all[i] = e) <=>
          (\E p \in (from + 1)..n : out[p] = e /\ ~(x = 1 /\ e = out[n]))
    /\ \A i, j \in DOMAIN all : i < j =>
          \E p, q \in 1..n : p < q /\ out[p] = all[i] /\ out[q] = all[j]

\* Who hears so has what was wanted, in order.
LEMMA GivenAndQueued ==
    ASSUME NEW out, NEW given, NEW queue, NEW from, NEW seen, NEW x, NEW wanted,
           NEW g, NEW m, NEW n,
           Hears(out, given, queue, from, seen, x, wanted, g, m, n)
    PROVE  Heeds(out, given \o queue, from, x, wanted, n)
  <1> DEFINE all == given \o queue
  <1>types. /\ g \in Nat /\ m \in Nat /\ n \in Nat /\ from \in Nat /\ seen \in Nat /\ x \in {0, 1}
        /\ given \in Seq(Happenings) /\ queue \in Seq(Happenings)
        /\ g = Len(given) /\ m = Len(queue)
    BY DEF Hears
  <1>sum. n = seen + m + x /\ from <= seen
    BY DEF Hears
  <1>given. /\ \A i \in 1..m : queue[i] = out[seen + i]
        /\ \A i \in 1..g : given[i] \in wanted /\ \E p \in (from + 1)..seen : out[p] = given[i]
    BY DEF Hears
  <1>order. /\ \A p \in (from + 1)..seen : out[p] \in wanted => \E i \in 1..g : given[i] = out[p]
        /\ \A i, j \in 1..g : i < j =>
              \E p, q \in 1..seen : p < q /\ out[p] = given[i] /\ out[q] = given[j]
    BY DEF Hears
  <1>once. \A p, q \in 1..n : out[p] = out[q] => p = q
    BY DEF Hears
  <1>1. /\ DOMAIN all = 1..(g + m)
        /\ \A i \in 1..g : all[i] = given[i]
        /\ \A i \in 1..m : all[g + i] = queue[i]
        /\ \A i \in (g + 1)..(g + m) : i - g \in 1..m /\ all[i] = queue[i - g]
    BY <1>types, Followed
  <1>2. \A i \in (g + 1)..(g + m) : /\ seen + (i - g) \in (seen + 1)..(seen + m)
                                    /\ all[i] = out[seen + (i - g)]
    <2>1. \A i \in (g + 1)..(g + m) : i - g \in 1..m /\ all[i] = out[seen + (i - g)]
      BY <1>1, <1>given
    <2>2. \A i \in (g + 1)..(g + m) : seen + (i - g) \in (seen + 1)..(seen + m)
      BY <1>types
    <2> QED BY <2>1, <2>2
  <1>3. \A i \in 1..(g + m) : i \in 1..g \/ i \in (g + 1)..(g + m)
    BY <1>types
  <1>4. /\ \A p \in (from + 1)..seen : p \in 1..n /\ p \in (from + 1)..n /\ p <= seen
        /\ \A p \in (seen + 1)..(seen + m) : p \in 1..n /\ p \in (from + 1)..n /\ p <= seen + m
        /\ \A p \in 1..seen : p \in 1..n
    BY <1>types, <1>sum
  <1>5. x = 1 => n \in 1..n /\ n = seen + m + 1
    BY <1>types, <1>sum
  <1>6. \A p \in 1..n : x = 1 /\ p <= seen + m => out[p] # out[n]
    BY <1>5, <1>once, <1>types, <1>sum
  <1>7. ASSUME NEW e \in wanted, NEW i \in DOMAIN all, all[i] = e
        PROVE  \E p \in (from + 1)..n : out[p] = e /\ ~(x = 1 /\ e = out[n])
    <2>1. CASE i \in 1..g
      <3>1. given[i] = e
        BY <1>1, <1>7, <2>1
      <3>2. PICK p \in (from + 1)..seen : out[p] = e
        BY <1>given, <2>1, <3>1
      <3>3. p \in 1..n /\ p \in (from + 1)..n /\ p <= seen + m
        BY <1>4, <1>types, <3>2
      <3> QED BY <1>6, <3>2, <3>3
    <2>2. CASE i \in (g + 1)..(g + m)
      <3>1. PICK p \in (seen + 1)..(seen + m) : out[p] = e
        BY <1>2, <1>7, <2>2
      <3>2. p \in 1..n /\ p \in (from + 1)..n /\ p <= seen + m
        BY <1>4, <3>1
      <3> QED BY <1>6, <3>1, <3>2
    <2> QED BY <1>1, <1>3, <2>1, <2>2
  <1>8. ASSUME NEW e \in wanted, NEW p \in (from + 1)..n, out[p] = e, ~(x = 1 /\ e = out[n])
        PROVE  \E i \in DOMAIN all : all[i] = e
    <2>1. CASE p \in (from + 1)..seen
      <3>1. PICK i \in 1..g : given[i] = e
        BY <1>8, <1>order, <2>1
      <3>2. i \in 1..(g + m)
        BY <1>types
      <3> QED BY <1>1, <3>1, <3>2
    <2>2. CASE p \in (seen + 1)..(seen + m)
      <3>1. p - seen \in 1..m /\ seen + (p - seen) = p /\ g + (p - seen) \in 1..(g + m)
        BY <1>types, <2>2
      <3>2. queue[p - seen] = e
        BY <1>8, <1>given, <3>1
      <3> QED BY <1>1, <3>1, <3>2
    <2>3. CASE p > seen + m
      <3>1. x = 1 /\ p = n
        BY <1>types, <1>sum, <2>3
      <3> QED BY <1>8, <3>1
    <2> QED BY <1>types, <1>sum, <2>1, <2>2, <2>3
  <1>9. ASSUME NEW i \in DOMAIN all, NEW j \in DOMAIN all, i < j
        PROVE  \E p, q \in 1..n : p < q /\ out[p] = all[i] /\ out[q] = all[j]
    <2>1. i \in 1..(g + m) /\ j \in 1..(g + m)
      BY <1>1
    <2>2. CASE j \in 1..g
      <3>1. i \in 1..g
        BY <1>9, <1>types, <2>1, <2>2
      <3>2. PICK p, q \in 1..seen : p < q /\ out[p] = given[i] /\ out[q] = given[j]
        BY <1>9, <1>order, <2>2, <3>1
      <3> QED BY <1>1, <1>4, <2>2, <3>1, <3>2
    <2>3. CASE i \in 1..g /\ j \in (g + 1)..(g + m)
      <3>1. PICK p \in (from + 1)..seen : out[p] = given[i]
        BY <1>given, <2>3
      <3>2. PICK q \in (seen + 1)..(seen + m) : out[q] = all[j]
        BY <1>2, <2>3
      <3>3. p < q /\ p \in 1..n /\ q \in 1..n
        BY <1>4, <1>types, <3>1, <3>2
      <3> QED BY <1>1, <2>3, <3>1, <3>2, <3>3
    <2>4. CASE i \in (g + 1)..(g + m) /\ j \in (g + 1)..(g + m)
      <3>1. PICK p \in (seen + 1)..(seen + m) : p = seen + (i - g)
        BY <1>2, <2>4
      <3>2. PICK q \in (seen + 1)..(seen + m) : q = seen + (j - g)
        BY <1>2, <2>4
      <3>3. out[p] = all[i] /\ out[q] = all[j]
        BY <1>2, <2>4, <3>1, <3>2
      <3>4. p < q
        BY <1>9, <1>types, <2>4, <3>1, <3>2
      <3>5. p \in 1..n /\ q \in 1..n
        BY <1>4
      <3> QED BY <3>3, <3>4, <3>5
    <2> QED BY <1>3, <1>9, <2>1, <2>2, <2>3, <2>4
  <1>10. \A e \in wanted : (\E i \in DOMAIN all : all[i] = e) <=>
            (\E p \in (from + 1)..n : out[p] = e /\ ~(x = 1 /\ e = out[n]))
    BY <1>7, <1>8
  <1> QED BY <1>9, <1>10 DEF Heeds

\* What a watcher got and has in its queue is what it asked for of what was sent
\* since it listened.
WellServed(w, all, out, since) ==
    /\ {e \in Within(all) : AsksFor(w, e)} = {e \in since : AsksFor(w, e) /\ Reached(w, e)}
    /\ \A e \in Within(watch[w].given) : AsksFor(w, e)
    /\ \A i, j \in DOMAIN all : i < j =>
          \E p, q \in DOMAIN out : p < q /\ out[p] = all[i] /\ out[q] = all[j]

\* A watcher gets what it asked for, in order.
LEMMA EachServed ==
    ASSUME EventsInv
    PROVE  WatchersServed
  <1>1. SUFFICES ASSUME NEW w \in Watchers, watch[w].at \in {"open", "leaving"}
                 PROVE  WellServed(w, watch[w].given \o watch[w].queue, sentOn["feed"],
                                   {sentOn["feed"][i] :
                                       i \in (watch[w].from + 1)..Len(sentOn["feed"])})
    BY DEF WatchersServed, WellServed
  <1>2. PICK out \in Seq(Happenings) : out = sentOn["feed"]
    BY EventsTypes DEF EventsInv, Channel
  <1>3. PICK given \in Seq(Happenings) : given = watch[w].given
    BY EventsTypes DEF EventsInv
  <1>4. PICK queue \in Seq(Happenings) : queue = watch[w].queue
    BY EventsTypes DEF EventsInv
  <1>5. PICK from \in Nat : from = watch[w].from
    BY EventsTypes DEF EventsInv
  <1>6. PICK x \in {0, 1} : x = Waits(w, "feed") /\ (x = 1 <=> w \in bcast.left)
    BY DEF Waits
  <1>7. PICK wanted \in SUBSET Happenings : wanted = {e \in Happenings : AsksFor(w, e)}
    OBVIOUS
  <1>8. PICK g, m, n \in Nat : g = Len(given) /\ m = Len(queue) /\ n = Len(out)
    <2>1. Len(given) \in Nat /\ Len(queue) \in Nat /\ Len(out) \in Nat
      OBVIOUS
    <2> QED BY <2>1
  <1>9. PICK all : all = given \o queue
    OBVIOUS
  <1>10. Served(w) /\ Seen(w) = n - x - m
    BY <1>2, <1>4, <1>6, <1>8 DEF EventsInv, Seen
  <1>11. from <= n - x - m
    BY <1>1, <1>5, <1>10 DEF Served
  <1>12. PICK seen \in Nat : seen = n - x - m /\ n = seen + m + x /\ from <= seen
    <2>1. n - x - m \in Nat /\ n = (n - x - m) + m + x
      BY <1>11
    <2> QED BY <1>11, <2>1
  <1>13. DOMAIN given = 1..g /\ DOMAIN queue = 1..m /\ DOMAIN out = 1..n
    BY <1>2, <1>8
  <1>14. \A i \in 1..m : queue[i] = out[seen + i]
    BY <1>1, <1>2, <1>4, <1>10, <1>12, <1>13 DEF Served
  <1>15. \A i \in 1..g : given[i] \in wanted /\ \E p \in (from + 1)..seen : out[p] = given[i]
    <2>1. \A i \in 1..g : given[i] \in Happenings
      BY <1>13
    <2>2. \A i \in 1..g : AsksFor(w, given[i]) /\ \E p \in (from + 1)..seen : out[p] = given[i]
      BY <1>1, <1>2, <1>3, <1>5, <1>10, <1>12, <1>13 DEF Served
    <2> QED BY <1>7, <2>1, <2>2
  <1>16. \A p \in (from + 1)..seen : out[p] \in wanted => \E i \in 1..g : given[i] = out[p]
    BY <1>1, <1>2, <1>3, <1>5, <1>7, <1>10, <1>12, <1>13 DEF Served
  <1>17. \A i, j \in 1..g : i < j =>
            \E p, q \in 1..seen : p < q /\ out[p] = given[i] /\ out[q] = given[j]
    <2>1. \A i, j \in DOMAIN watch[w].given : i < j =>
             \E p, q \in 1..Seen(w) : p < q /\ sentOn["feed"][p] = watch[w].given[i]
                                           /\ sentOn["feed"][q] = watch[w].given[j]
      BY <1>1, <1>10 DEF Served
    <2>2. Seen(w) = seen
      BY <1>10, <1>12
    <2>3. SUFFICES ASSUME NEW i \in 1..g, NEW j \in 1..g, i < j
                   PROVE  \E p, q \in 1..seen : p < q /\ out[p] = given[i] /\ out[q] = given[j]
      OBVIOUS
    <2>4. i \in DOMAIN watch[w].given /\ j \in DOMAIN watch[w].given
      BY <1>3, <1>13
    <2>5. PICK p, q \in 1..Seen(w) : p < q /\ sentOn["feed"][p] = watch[w].given[i]
                                           /\ sentOn["feed"][q] = watch[w].given[j]
      BY <2>1, <2>3, <2>4
    <2>6. p \in 1..seen /\ q \in 1..seen
      BY <2>2, <2>5
    <2>7. p < q /\ out[p] = given[i] /\ out[q] = given[j]
      BY <1>2, <1>3, <2>5
    <2> QED BY <2>6, <2>7
  <1>18. \A p, q \in 1..n : out[p] = out[q] => p = q
    BY <1>2, <1>13 DEF EventsInv, Dispatched, Channel
  <1>19. /\ \A e \in wanted : (\E i \in DOMAIN all : all[i] = e) <=>
                (\E p \in (from + 1)..n : out[p] = e /\ ~(x = 1 /\ e = out[n]))
         /\ \A i, j \in DOMAIN all : i < j =>
                \E p, q \in 1..n : p < q /\ out[p] = all[i] /\ out[q] = all[j]
    <2>1. /\ g \in Nat /\ m \in Nat /\ n \in Nat /\ from \in Nat /\ seen \in Nat /\ x \in {0, 1}
          /\ given \in Seq(Happenings) /\ queue \in Seq(Happenings)
      OBVIOUS
    <2>2. g = Len(given) /\ m = Len(queue) /\ n = seen + m + x /\ from <= seen
      BY <1>8, <1>12
    <2>3. Hears(out, given, queue, from, seen, x, wanted, g, m, n)
      BY <1>14, <1>15, <1>16, <1>17, <1>18, <2>1, <2>2, Zenon DEF Hears
    <2>4. Heeds(out, given \o queue, from, x, wanted, n)
      BY <2>3, GivenAndQueued
    <2>5. Heeds(out, all, from, x, wanted, n)
      BY <1>9, <2>4
    <2> QED BY <2>5, Zenon DEF Heeds
  <1>20. \A e \in Happenings : Reached(w, e) <=> ~(x = 1 /\ e = out[n])
    <2>1. x = 1 => bcast.by = out[n]
      BY <1>2, <1>6, <1>8 DEF EventsInv, Sending
    <2> QED BY <1>6, <2>1 DEF Reached
  <1>21. all \in Seq(Happenings) /\ \A p \in (from + 1)..n : p \in 1..n /\ out[p] \in Happenings
    <2>1. all \in Seq(Happenings)
      BY <1>9
    <2>2. \A p \in (from + 1)..n : p \in 1..n
      OBVIOUS
    <2> QED BY <1>2, <1>13, <2>1, <2>2
  <1>22. \A e \in Within(all) : e \in Happenings
    BY <1>21 DEF Within
  <1>23. {e \in Within(all) : AsksFor(w, e)}
            = {e \in {out[i] : i \in (from + 1)..n} : AsksFor(w, e) /\ Reached(w, e)}
    <2>1. ASSUME NEW e, e \in Within(all), AsksFor(w, e)
          PROVE  e \in {out[i] : i \in (from + 1)..n} /\ Reached(w, e)
      <3>1. e \in wanted /\ e \in Happenings /\ \E i \in DOMAIN all : all[i] = e
        BY <1>7, <1>22, <2>1 DEF Within
      <3>2. PICK p \in (from + 1)..n : out[p] = e /\ ~(x = 1 /\ e = out[n])
        BY <1>19, <3>1
      <3> QED BY <1>20, <3>1, <3>2
    <2>2. ASSUME NEW e, e \in {out[i] : i \in (from + 1)..n}, AsksFor(w, e), Reached(w, e)
          PROVE  e \in Within(all)
      <3>1. PICK p \in (from + 1)..n : out[p] = e
        BY <2>2
      <3>2. e \in Happenings /\ e \in wanted
        BY <1>7, <1>21, <2>2, <3>1
      <3>3. ~(x = 1 /\ e = out[n])
        BY <1>20, <2>2, <3>2
      <3>4. \E i \in DOMAIN all : all[i] = e
        BY <1>19, <3>1, <3>2, <3>3
      <3> QED BY <3>4 DEF Within
    <2> QED BY <2>1, <2>2
  <1>24. \A e \in Within(given) : AsksFor(w, e)
    BY <1>7, <1>13, <1>15 DEF Within
  <1>25. PICK since : since = {out[i] : i \in (from + 1)..n}
    OBVIOUS
  <1>26. \A e \in Within(watch[w].given) : AsksFor(w, e)
    BY <1>3, <1>24
  <1>27. {e \in Within(all) : AsksFor(w, e)} = {e \in since : AsksFor(w, e) /\ Reached(w, e)}
    BY <1>23, <1>25
  <1>28. WellServed(w, all, out, since)
    <2>1. \A i, j \in DOMAIN all : i < j =>
             \E p, q \in DOMAIN out : p < q /\ out[p] = all[i] /\ out[q] = all[j]
      BY <1>13, <1>19
    <2> QED BY <1>26, <1>27, <2>1 DEF WellServed
  <1>29. watch[w].given \o watch[w].queue = all
    BY <1>3, <1>4, <1>9
  <1>30. {sentOn["feed"][i] : i \in (watch[w].from + 1)..Len(sentOn["feed"])} = since
    BY <1>2, <1>5, <1>8, <1>25
  <1> QED BY <1>2, <1>28, <1>29, <1>30

\* Who has read all pages has seen all that was there.
LEMMA AllPagesRead ==
    ASSUME EventsInv
    PROVE  PagesWhole
  <1>1. SUFFICES ASSUME pager.at = "done", ~pager.torn, ~DatesEqual,
                        NEW e \in pager.want \cap OfNotes
                 PROVE  e \in pager.got
    BY DEF PagesWhole
  <1>2. e \in pager.got \/ (pager.at = "reading" /\ Date(e) < Date(pager.offset))
    BY <1>1 DEF EventsInv, Paged
  <1> QED BY <1>1, <1>2

\* From the invariant.
LEMMA EventsInvSound == EventsInv => EventsSound /\ EventsTypeOK
  <1>1. EventsInv => NoneLost
    BY NothingLost
  <1>2. EventsInv => InOrder /\ RowFirst
    BY ToldInOrder
  <1>3. EventsInv => WatchersServed
    BY EachServed
  <1>4. EventsInv => PagesWhole
    BY AllPagesRead
  <1> QED BY <1>1, <1>2, <1>3, <1>4 DEF EventsSound, EventsInv

\* core/core.go sendUpdate, sendThreadUpdate and sendNotification: the
\* application hears of all that happens, each once and in order, and finds what
\* it heard of; a request that observes gets what it asked for; and who reads
\* page after page sees every notification that stays.
THEOREM EventsAlwaysSound == EventsSpec => []EventsSound
  <1>1. EventsSpec => []EventsInv
    BY EventsInitially, EventsNextKeeps, PTL DEF EventsSpec
  <1> QED BY <1>1, EventsInvSound, PTL

\* The variables of the channels, the broadcaster and the table keep their types,
\* and no channel holds more than its room.
THEOREM EventsTypeCorrect == EventsSpec => []EventsTypeOK
  <1>1. EventsSpec => []EventsInv
    BY EventsInitially, EventsNextKeeps, PTL DEF EventsSpec
  <1> QED BY <1>1, EventsInvSound, PTL
=============================================================================
