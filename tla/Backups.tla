------------------------------- MODULE Backups -------------------------------
(***************************************************************************)
(* The snapshots of threads that the devices of one account keep at their  *)
(* cafe, and the sync that restores threads from them: store, updateHead   *)
(* of core/thread.go, SnapshotThreads, SearchThreadSnapshots,              *)
(* AddOrUpdateThread of threads.go, account.go, the outbox and the cafe's  *)
(* side of cafe_service.go.                                                *)
(*                                                                         *)
(* A thread is the set of the blocks its heads reach; ThreadSync says how  *)
(* the heads come to that.  A snapshot is such a set, too.                 *)
(***************************************************************************)
EXTENDS Naturals, SequencesExt

CONSTANTS
    Devices,     \* the devices of the account; each is also its JOIN block
    Backed,      \* the threads
    Blocks,      \* blocks that devices post
    Backlogs,    \* what may happen in a behaviour: see Backlog
    GroupSize,   \* cafeOutFlushGroupSize
    Attempts,    \* maxRequestAttempts
    Mishaps,     \* bound: how often a request fails or a device dies
    NoThread     \* no row, no snapshot, or the name of no thread

\* has: threads of each device at first; session: devices that have one;
\* posts: what each may post and where; adds, removes: threads that each may
\* add and remove; asks: who may sync, once; online: who answers a search.
Backlog == [has : [Devices -> SUBSET Backed], session : SUBSET Devices,
            posts : SUBSET (Devices \X Backed \X Blocks), adds : SUBSET (Devices \X Backed),
            removes : SUBSET (Devices \X Backed), asks : SUBSET Devices,
            online : SUBSET Devices, snapshots : SUBSET Devices]

Content == SUBSET (Blocks \cup Devices)

ASSUME BackupsAssumption ==
    /\ Backlogs \subseteq Backlog /\ GroupSize \in Nat \ {0} /\ Attempts \in Nat \ {0}
    /\ Mishaps \in Nat /\ IsFiniteSet(Backed)
    /\ NoThread \notin Backed /\ \A blocks \in Content : blocks # NoThread

VARIABLES
    backlog,   \* what is left of the scenario
    stacks,    \* the threads table of each device
    loadedBy,  \* loadedThreads
    joinOf,    \* JOIN blocks of the device: "none", "queued" or "posted"
    edits,     \* heads that are being updated
    leaving,   \* the thread that is being removed, and how far
    walk,      \* the index of SnapshotThreads, and the length it ranges over
    queue,     \* the rows of the cafe_requests table
    dates,     \* the date of the latest request
    flush,     \* the batch a flush is at
    kept,      \* the cafe's cafe_client_threads
    answers,   \* results of a sync that are not applied yet
    restored,  \* results that were
    frayed,    \* snapshots that the code gives up, forgets or fights over
    mishaps    \* failures so far

bakVars == <<backlog, stacks, loadedBy, joinOf, edits, leaving, walk, queue, dates, flush,
             kept, answers, restored, frayed, mishaps>>

Asked == [date : Nat, type : {"store", "unstore"}, thread : Backed, attempts : 0..Attempts]
Still == [on |-> FALSE, todo |-> {}, type |-> "none", hand |-> NoThread, last |-> 0,
          good |-> {}, bad |-> {}]
Nowhere == [thread |-> NoThread, at |-> "none"]
NoWalk == [at |-> 0, len |-> 0]
Edit == [thread : Backed, news : Content, at : {"head", "store"}]
Flushing == [on : BOOLEAN, todo : SUBSET Asked, type : {"none", "store", "unstore"},
             hand : {NoThread} \cup Content, last : Nat, good : SUBSET Asked, bad : SUBSET Asked]
Result == [thread : Backed, blocks : Content]

BakTypeOK ==
    /\ backlog \in Backlog
    /\ stacks \in [Devices -> [Backed -> {NoThread} \cup Content]]
    /\ kept \in [Devices -> [Backed -> {NoThread} \cup Content]]
    /\ joinOf \in [Devices -> [Backed -> {"none", "queued", "posted"}]]
    /\ loadedBy \in [Devices -> Seq(Backed)]
    /\ edits \in [Devices -> SUBSET Edit]
    /\ leaving \in [Devices -> [thread : Backed, at : {"request", "row"}] \cup {Nowhere}]
    /\ walk \in [Devices -> [at : Nat, len : Nat]]
    /\ queue \in [Devices -> SUBSET Asked] /\ dates \in [Devices -> Nat]
    /\ flush \in [Devices -> Flushing]
    /\ answers \in [Devices -> SUBSET Result] /\ restored \in [Devices -> SUBSET Result]
    /\ frayed \subseteq Devices \X Backed /\ mishaps \in 0..Mishaps

BakInit ==
    /\ backlog \in Backlogs
    /\ stacks = [d \in Devices |-> [t \in Backed |-> IF t \in backlog.has[d] THEN {d} ELSE NoThread]]
    /\ loadedBy = [d \in Devices |-> SetToSeq(backlog.has[d])]
    /\ joinOf = [d \in Devices |-> [t \in Backed |-> IF t \in backlog.has[d] THEN "posted" ELSE "none"]]
    /\ edits = [d \in Devices |-> {}] /\ leaving = [d \in Devices |-> Nowhere]
    /\ walk = [d \in Devices |-> NoWalk]
    /\ queue = [d \in Devices |-> {}] /\ dates = [d \in Devices |-> 0]
    /\ flush = [d \in Devices |-> Still]
    /\ kept = [d \in Devices |-> IF d \in backlog.session THEN stacks[d]
                                 ELSE [t \in Backed |-> NoThread]]
    /\ answers = [d \in Devices |-> {}] /\ restored = [d \in Devices |-> {}]
    /\ frayed = {} /\ mishaps = 0

-----------------------------------------------------------------------------
\* What the parts of the state that go together are when a step leaves them.
threadVars == <<stacks, loadedBy, joinOf>>
workVars == <<edits, leaving, walk>>
queueVars == <<queue, dates>>
syncVars == <<answers, restored>>

Has(d, t) == t \in ToSet(loadedBy[d])
HasRequest(d, t, type) == \E r \in queue[d] : r.thread = t /\ r.type = type
NewRequest(d, t, type) == [date |-> dates[d] + 1, type |-> type, thread |-> t, attempts |-> 0]

\* Mutant: a thread that waits to be stored is not asked for again.
AddRequestOnce(d, t, type) ==
    IF d \in backlog.session /\ ~HasRequest(d, t, type)
    THEN /\ dates' = [dates EXCEPT ![d] = @ + 1]
         /\ queue' = [queue EXCEPT ![d] = @ \cup {NewRequest(d, t, type)}]
    ELSE UNCHANGED queueVars

\* CafeOutbox.Add: one request for each session, here for one or none.
AddRequest(d, t, type) ==
    IF d \in backlog.session
    THEN /\ dates' = [dates EXCEPT ![d] = @ + 1]
         /\ queue' = [queue EXCEPT ![d] = @ \cup {NewRequest(d, t, type)}]
    ELSE UNCHANGED queueVars

\* AddThread, with the row and the list as one step.  One whose removal has
\* still to reach the cafe may lose its snapshot to it.
AddBackedRow(d, t, blocks) ==
    /\ stacks' = [stacks EXCEPT ![d][t] = blocks]
    /\ loadedBy' = [loadedBy EXCEPT ![d] = Append(@, t)]
    /\ frayed' = frayed \cup IF HasRequest(d, t, "unstore") THEN {<<d, t>>} ELSE {}

\* AddThread of a user, who joins; the block is queued.
AddBacked(d, t) ==
    /\ <<d, t>> \in backlog.adds /\ ~Has(d, t) /\ leaving[d] = Nowhere
    /\ backlog' = [backlog EXCEPT !.adds = @ \ {<<d, t>>}]
    /\ AddBackedRow(d, t, {}) /\ joinOf' = [joinOf EXCEPT ![d][t] = "queued"]
    /\ UNCHANGED <<workVars, queueVars, flush, kept, syncVars, mishaps>>

\* FlushBlocks posts a block: its node is the new head.
PostUpdate(d, t, b) ==
    /\ <<d, t, b>> \in backlog.posts /\ Has(d, t)
    /\ backlog' = [backlog EXCEPT !.posts = @ \ {<<d, t, b>>}]
    /\ edits' = [edits EXCEPT ![d] = @ \cup {[thread |-> t, news |-> {b}, at |-> "head"]}]
    /\ UNCHANGED <<threadVars, leaving, walk, queueVars, flush, kept, syncVars, frayed, mishaps>>

PostJoin(d, t) ==
    /\ joinOf[d][t] = "queued" /\ Has(d, t)
    /\ joinOf' = [joinOf EXCEPT ![d][t] = "posted"]
    /\ edits' = [edits EXCEPT ![d] = @ \cup {[thread |-> t, news |-> {d}, at |-> "head"]}]
    /\ UNCHANGED <<backlog, stacks, loadedBy, leaving, walk, queueVars, flush, kept, syncVars,
                   frayed, mishaps>>

\* updateHead: the row, if there still is one, then the request to store it.
UpdateHead(d, e) ==
    /\ e \in edits[d] /\ e.at = "head"
    /\ edits' = [edits EXCEPT ![d] = (@ \ {e}) \cup {[e EXCEPT !.at = "store"]}]
    /\ stacks' = [stacks EXCEPT ![d][e.thread] = IF @ = NoThread THEN @ ELSE @ \cup e.news]
    /\ UNCHANGED <<backlog, loadedBy, joinOf, leaving, walk, queueVars, flush, kept, syncVars,
                   frayed, mishaps>>

Store(d, e) ==
    /\ e \in edits[d] /\ e.at = "store"
    /\ edits' = [edits EXCEPT ![d] = @ \ {e}]
    /\ AddRequest(d, e.thread, "store")
    /\ UNCHANGED <<backlog, threadVars, leaving, walk, flush, kept, syncVars, frayed, mishaps>>

\* RemoveThread: leave deletes the blocks, the JOIN with them; then come the
\* request and the row.
RemoveBacked(d, t) ==
    /\ <<d, t>> \in backlog.removes /\ Has(d, t) /\ leaving[d] = Nowhere
    /\ backlog' = [backlog EXCEPT !.removes = @ \ {<<d, t>>}]
    /\ leaving' = [leaving EXCEPT ![d] = [thread |-> t, at |-> "request"]]
    /\ joinOf' = [joinOf EXCEPT ![d][t] = "none"]
    /\ UNCHANGED <<stacks, loadedBy, edits, walk, queueVars, flush, kept, syncVars, frayed, mishaps>>

RequestUnstore(d) ==
    /\ leaving[d].at = "request"
    /\ leaving' = [leaving EXCEPT ![d].at = "row"]
    /\ AddRequest(d, leaving[d].thread, "unstore")
    /\ UNCHANGED <<backlog, threadVars, edits, walk, flush, kept, syncVars, frayed, mishaps>>

\* The row and the place in the list.  SnapshotThreads, which runs over the
\* same list, may miss one for it.
DeleteBackedRow(d) ==
    LET t == leaving[d].thread IN
    /\ leaving[d].at = "row" /\ leaving' = [leaving EXCEPT ![d] = Nowhere]
    /\ stacks' = [stacks EXCEPT ![d][t] = NoThread]
    /\ \E i \in DOMAIN loadedBy[d] :
           loadedBy[d][i] = t /\ loadedBy' = [loadedBy EXCEPT ![d] = RemoveAt(@, i)]
    /\ restored' = [restored EXCEPT ![d] = {r \in @ : r.thread # t}]
    /\ frayed' = frayed \cup IF walk[d] = NoWalk THEN {} ELSE {d} \X Backed
    /\ UNCHANGED <<backlog, joinOf, edits, walk, queueVars, flush, kept, answers, mishaps>>

\* RegisterCafe, once the session is stored, and SnapshotThreads by itself.
SnapshotThreads(d) ==
    /\ d \in backlog.snapshots /\ walk[d] = NoWalk
    /\ backlog' = [backlog EXCEPT !.snapshots = @ \ {d}, !.session = @ \cup {d}]
    /\ walk' = [walk EXCEPT ![d] = [at |-> 1, len |-> Len(loadedBy[d])]]
    /\ UNCHANGED <<threadVars, edits, leaving, queueVars, flush, kept, syncVars, frayed, mishaps>>

\* What a device loses when it dies: an edit without its request, a removal
\* without its end, the rest of a walk, and the results of a sync.
DeviceLoses(d) ==
    /\ edits' = [edits EXCEPT ![d] = {}] /\ leaving' = [leaving EXCEPT ![d] = Nowhere]
    /\ walk' = [walk EXCEPT ![d] = NoWalk] /\ flush' = [flush EXCEPT ![d] = Still]
    /\ answers' = [answers EXCEPT ![d] = {}]
    /\ restored' = [restored EXCEPT ![d] = {}]
    /\ LET cut == {e.thread : e \in edits[d]} \cup ({leaving[d].thread} \ {NoThread})
       IN  frayed' = frayed \cup ({d} \X IF walk[d] = NoWalk THEN cut ELSE Backed)

\* The list got shorter meanwhile: the last place holds nil, which is a panic.
SnapshotNext(d) ==
    LET i == walk[d].at IN
    /\ walk[d] # NoWalk
    /\ \/ i > walk[d].len /\ walk' = [walk EXCEPT ![d] = NoWalk]
          /\ UNCHANGED <<queueVars, edits, leaving, flush, syncVars, frayed>>
       \/ /\ i <= walk[d].len /\ i <= Len(loadedBy[d])
          /\ AddRequest(d, loadedBy[d][i], "store") /\ walk' = [walk EXCEPT ![d].at = i + 1]
          /\ UNCHANGED <<edits, leaving, flush, syncVars, frayed>>
       \/ i <= walk[d].len /\ i > Len(loadedBy[d]) /\ DeviceLoses(d) /\ UNCHANGED queueVars
    /\ UNCHANGED <<backlog, threadVars, kept, mishaps>>

-----------------------------------------------------------------------------
\* List: the oldest requests after a date.
Listed(d, date) ==
    LET later == {r \in queue[d] : r.date > date}
    IN  {r \in later : Cardinality({s \in later : s.date < r.date}) < GroupSize}

\* Flush and batchRequests: they begin with these, or are done.
NextBatch(d, date) ==
    LET list == Listed(d, date) IN
    \/ list = {} /\ flush' = [flush EXCEPT ![d] = Still]
    \/ \E last \in list :
        /\ \A r \in list : r.date <= last.date
        /\ flush' = [flush EXCEPT ![d] =
               [on |-> TRUE, todo |-> list, type |-> "none", hand |-> NoThread,
                last |-> last.date, good |-> {}, bad |-> {}]]

StartFlush(d) ==
    /\ ~flush[d].on /\ queue[d] # {}
    /\ NextBatch(d, 0)
    /\ UNCHANGED <<backlog, threadVars, workVars, queueVars, kept, syncVars, frayed, mishaps>>

\* The types of a batch in any order, the requests of each in theirs.
IsNext(d, r) ==
    /\ r \in flush[d].todo /\ flush[d].hand = NoThread
    /\ \A s \in flush[d].todo : /\ s.type = r.type => s.date >= r.date
                                /\ s.type = flush[d].type => r.type = s.type

Answered(d, r, ok) ==
    LET f == flush[d] IN
    flush' = [flush EXCEPT ![d] =
        [on |-> f.on, todo |-> f.todo \ {r}, type |-> r.type, hand |-> NoThread, last |-> f.last,
         good |-> IF ok THEN f.good \cup {r} ELSE f.good,
         bad |-> IF ok THEN f.bad ELSE f.bad \cup {r}]]

\* The row is read when the request is handled; a thread that is gone needs
\* no snapshot.  One that is being removed gets one that may stay.
ReadThread(d, r) ==
    /\ IsNext(d, r) /\ r.type = "store"
    /\ LET blocks == stacks[d][r.thread] IN
       IF blocks = NoThread THEN Answered(d, r, TRUE) /\ UNCHANGED frayed
       ELSE /\ flush' = [flush EXCEPT ![d] = [@ EXCEPT !.hand = blocks, !.type = "store"]]
            /\ frayed' = frayed \cup
                   IF leaving[d] = [thread |-> r.thread, at |-> "row"] THEN {<<d, r.thread>>} ELSE {}
    /\ UNCHANGED <<backlog, threadVars, workVars, queueVars, kept, syncVars, mishaps>>

\* The tables of the cafe.
HandleStoreThread(d, t, blocks) == kept' = [kept EXCEPT ![d][t] = blocks]
HandleUnstoreThread(d, t) == kept' = [kept EXCEPT ![d][t] = NoThread]

\* Whether the answer comes or not, the cafe may have the request.
Sent(ok, arrives) ==
    /\ ok => arrives
    /\ ok \/ mishaps < Mishaps
    /\ mishaps' = IF ok THEN mishaps ELSE mishaps + 1

StoreThread(d, r, ok, arrives) ==
    /\ flush[d].hand # NoThread /\ r \in flush[d].todo /\ r.type = "store"
    /\ \A s \in flush[d].todo : s.type = "store" => s.date >= r.date
    /\ Sent(ok, arrives) /\ Answered(d, r, ok)
    /\ IF arrives THEN HandleStoreThread(d, r.thread, flush[d].hand) ELSE UNCHANGED kept
    /\ UNCHANGED <<backlog, threadVars, workVars, queueVars, syncVars, frayed>>

UnstoreThread(d, r, ok, arrives) ==
    /\ IsNext(d, r) /\ r.type = "unstore"
    /\ Sent(ok, arrives) /\ Answered(d, r, ok)
    /\ IF arrives THEN HandleUnstoreThread(d, r.thread) ELSE UNCHANGED kept
    /\ UNCHANGED <<backlog, threadVars, workVars, queueVars, syncVars, frayed>>

\* The end of batchRequests: what was done goes, what failed waits for the
\* next flush or is given up, and this one goes on with what is younger.
EndBatch(d) ==
    LET f == flush[d]
        lost == {r \in f.bad : r.attempts + 1 >= Attempts}
        again(r) == IF r \in f.bad THEN [r EXCEPT !.attempts = @ + 1] ELSE r
    IN  /\ f.on /\ f.todo = {}
        /\ queue' = [queue EXCEPT ![d] = {again(r) : r \in @ \ (f.good \cup lost)}]
        /\ NextBatch(d, f.last)
        /\ frayed' = frayed \cup {<<d, r.thread>> : r \in lost}
        /\ UNCHANGED <<backlog, threadVars, workVars, dates, kept, syncVars, mishaps>>

-----------------------------------------------------------------------------
\* searchLocal of the cafe keeps one result for each thread, whichever of the
\* devices it is from.
SearchLocal(pick) == {[thread |-> t, blocks |-> kept[pick[t]][t]] : t \in DOMAIN pick}

\* Devices that are online answer for themselves.
OwnThreads(e) == {[thread |-> t, blocks |-> stacks[e][t]] :
                      t \in {t \in Backed : stacks[e][t] # NoThread}}

SearchThreadSnapshots(pick) == SearchLocal(pick) \cup UNION {OwnThreads(e) : e \in backlog.online}

SyncAccount(d) ==
    LET backed == {t \in Backed : \E e \in Devices : kept[e][t] # NoThread} IN
    /\ d \in backlog.asks /\ answers[d] = {}
    /\ backlog' = [backlog EXCEPT !.asks = @ \ {d}]
    /\ \E pick \in [backed -> Devices] :
        /\ \A t \in backed : kept[pick[t]][t] # NoThread
        /\ answers' = [answers EXCEPT ![d] = SearchThreadSnapshots(pick)]
    /\ UNCHANGED <<threadVars, workVars, queueVars, flush, kept, restored, frayed, mishaps>>

\* AddOrUpdateThread: a thread that is new gets the heads of the snapshot; in
\* another they are followed in the background and merged.  This device joins
\* unless it has.  A JOIN made while the thread is removed stays when it goes,
\* and with it the thread is not joined, nor stored, when it is restored again.
ApplySnapshot(d, r) ==
    LET t == r.thread
        new == stacks[d][t] = NoThread
    IN  /\ r \in answers[d] /\ answers' = [answers EXCEPT ![d] = @ \ {r}]
        /\ restored' = [restored EXCEPT ![d] = @ \cup {r}]
        /\ joinOf' = [joinOf EXCEPT ![d][t] = IF @ = "none" THEN "queued" ELSE @]
        /\ IF new THEN AddBackedRow(d, t, r.blocks) /\ UNCHANGED edits
           ELSE /\ edits' = IF stacks[d][t] = r.blocks THEN edits
                            ELSE [edits EXCEPT ![d] = @ \cup
                                     {[thread |-> t, news |-> r.blocks, at |-> "head"]}]
                /\ frayed' = frayed \cup IF leaving[d].thread = t THEN {<<d, t>>} ELSE {}
                /\ UNCHANGED <<stacks, loadedBy>>
        /\ UNCHANGED <<backlog, leaving, walk, queueVars, flush, kept, mishaps>>

DeviceDies(d) ==
    /\ mishaps < Mishaps /\ mishaps' = mishaps + 1 /\ DeviceLoses(d)
    /\ UNCHANGED <<backlog, threadVars, queueVars, kept>>

BakNext ==
    \E d \in Devices :
        \/ \E t \in Backed : AddBacked(d, t) \/ PostJoin(d, t) \/ RemoveBacked(d, t)
        \/ \E t \in Backed, b \in Blocks : PostUpdate(d, t, b)
        \/ \E e \in edits[d] : UpdateHead(d, e) \/ Store(d, e)
        \/ RequestUnstore(d) \/ DeleteBackedRow(d) \/ SnapshotThreads(d) \/ SnapshotNext(d)
        \/ StartFlush(d) \/ EndBatch(d) \/ SyncAccount(d) \/ DeviceDies(d)
        \/ \E r \in flush[d].todo :
            \/ ReadThread(d, r)
            \/ \E ok, arrives \in BOOLEAN :
                StoreThread(d, r, ok, arrives) \/ UnstoreThread(d, r, ok, arrives)
        \/ \E r \in answers[d] : ApplySnapshot(d, r)

BakSpec == BakInit /\ [][BakNext]_bakVars

-----------------------------------------------------------------------------
Pending(d, t) ==
    \/ HasRequest(d, t, "store") \/ HasRequest(d, t, "unstore") \/ joinOf[d][t] = "queued"
    \/ \E e \in edits[d] : e.thread = t
    \/ leaving[d].thread = t \/ walk[d] # NoWalk

\* What the cafe keeps for a device is what the device has, each thread with
\* all its blocks and no thread that it removed, as soon as no request is
\* waiting, whatever was posted, restored or removed while requests were sent,
\* repeated, or read their thread.
SnapshotsMatch ==
    \A d \in backlog.session, t \in Backed :
        Pending(d, t) \/ <<d, t>> \in frayed \/ kept[d][t] = stacks[d][t]

\* What a sync has found and applied stays in the threads of the device.
RestoredKept ==
    \A d \in Devices : \A r \in restored[d] :
        \/ \E e \in edits[d] : e.thread = r.thread
        \/ leaving[d].thread = r.thread
        \/ stacks[d][r.thread] # NoThread /\ r.blocks \subseteq stacks[d][r.thread]

BackupsSound == SnapshotsMatch /\ RestoredKept
=============================================================================
