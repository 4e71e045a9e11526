----------------------------- MODULE Lifecycle -----------------------------
(***************************************************************************)
(* Starting and stopping a node: core/core.go (Start, Stop, runJobs,       *)
(* flushQueues, FlushCafes) and core/account.go (maybeSyncAccount).        *)
(*                                                                         *)
(* Three mutexes order shutdown after the work in progress.  Start takes   *)
(* the main lock and hands it to the goroutine that bootstraps the ipfs    *)
(* node; Stop takes the main, the flush and the stop lock.  Every Start    *)
(* that gets past its first check makes new channels online and done, so   *)
(* the number of the Start is the name of its channels, of its bootstrap   *)
(* goroutine and of its job loop.                                          *)
(*                                                                         *)
(* Several flushes that wait for the main lock are one flush here.  The    *)
(* lock of the cafe outbox is left out: who holds it waits for none of     *)
(* the three locks.                                                        *)
(***************************************************************************)
EXTENDS Naturals, FiniteSets

CONSTANTS
    Callers,        \* threads of the application that call Start and Stop
    Tails,          \* goroutines that follow parents under the stop lock
    MaxStarts,      \* bound: how often Start gets past its first check
    MaxTicks,       \* bound: how often a ticker fires, in behaviours without trouble
    Troubles        \* subset of BOOLEAN: whether failures and overlapping
                    \* calls of Start and Stop are allowed (TRUE) or not

Starts == 1..MaxStarts

ASSUME LifecycleAssumption ==
    /\ MaxStarts \in Nat /\ MaxTicks \in Nat /\ Troubles \subseteq BOOLEAN

VARIABLES
    trouble,    \* chosen once: see Troubles
    mainLock, flushLock, stopLock,
    started,    \* Textile.started
    nodeUp,     \* the ipfs node runs and holds the lock of its repo
    dbOpen,     \* the datastore is open
    cancelSync, \* whether Textile.cancelSync is set
    syncer,     \* the goroutines of SyncAccount, taken as one
    gen,        \* the current channels: t.online and t.done
    onlineClosed, doneClosed,   \* the channels that were closed
    callPc,     \* where a caller is
    boot,       \* bootstrap goroutines
    loop,       \* job loops
    loopDone,   \* the done channel a job loop waits for
    flusher,    \* goroutines that run flushQueues
    ticks,      \* how often the ticker fired
    tail,       \* the workers
    api,        \* one mobile call, such as RegisterCafe
    handler     \* the external request handler

lifeLocks == <<mainLock, flushLock, stopLock>>
lifeNode  == <<started, nodeUp, dbOpen, cancelSync, syncer, gen, onlineClosed, doneClosed>>
lifeJobs  == <<boot, loop, loopDone, flusher, ticks>>
lifeWork  == <<tail, api, handler>>
lifeVars  == <<trouble, lifeLocks, lifeNode, callPc, lifeJobs, lifeWork>>

Free == <<"free", 0>>
Leaked == <<"leaked", 0>>   \* its holder returned without unlocking
Holder ==
    {Free, Leaked, <<"api", 0>>, <<"cafes", 0>>, <<"handler", 0>>}
    \cup ({"call"} \X Callers) \cup ({"boot"} \X Starts)
    \cup ({"tail"} \X Tails)
CallPc == {"idle", "create", "threads", "stop", "flush", "drain", "close"}

LifeTypeOK ==
    /\ trouble \in BOOLEAN
    /\ mainLock \in Holder /\ flushLock \in Holder /\ stopLock \in Holder
    /\ started \in BOOLEAN /\ nodeUp \in BOOLEAN /\ dbOpen \in BOOLEAN
    /\ cancelSync \in BOOLEAN /\ syncer \in {"off", "on", "apply"}
    /\ gen \in 0..MaxStarts
    /\ onlineClosed \subseteq Starts /\ doneClosed \subseteq Starts
    /\ callPc \in [Callers -> CallPc]
    /\ boot \in [Starts -> {"none", "run", "done"}]
    /\ loop \in [Starts -> {"none", "sync", "select", "ended"}]
    /\ loopDone \in [Starts -> 0..MaxStarts]
    /\ flusher \in [Starts -> {"none", "wait"}]
    /\ tail \in [Tails -> {"idle", "wait", "run", "late", "done"}]
    /\ api \in {"idle", "run", "flushing", "done"}
    /\ handler \in {"idle", "flush", "stop", "done"}
    /\ ticks \in 0..MaxTicks

LifeInit ==
    /\ trouble \in Troubles
    /\ mainLock = Free /\ flushLock = Free /\ stopLock = Free
    /\ started = FALSE /\ nodeUp = FALSE
    /\ dbOpen = TRUE            \* NewTextile opens it
    /\ cancelSync = FALSE /\ syncer = "off"
    /\ gen = 0 /\ onlineClosed = {} /\ doneClosed = {}
    /\ callPc = [p \in Callers |-> "idle"]
    /\ boot = [g \in Starts |-> "none"]
    /\ loop = [g \in Starts |-> "none"] /\ loopDone = [g \in Starts |-> 0]
    /\ flusher = [g \in Starts |-> "none"]
    /\ tail = [w \in Tails |-> "idle"]
    /\ api = "idle" /\ handler = "idle"
    /\ ticks = IF trouble THEN MaxTicks ELSE 0

CallerAt(p, pc) == callPc' = [callPc EXCEPT ![p] = pc]

\* Without trouble the application makes one call at a time.
MayCall(p) ==
    /\ callPc[p] = "idle"
    /\ trouble \/ \A q \in Callers : callPc[q] = "idle"

-----------------------------------------------------------------------------
(* Start                                                                     *)

\* A started node returns ErrStarted; otherwise new channels replace the old.
StartLock(p) ==
    /\ MayCall(p) /\ mainLock = Free
    /\ ~started /\ gen < MaxStarts
    /\ mainLock' = <<"call", p>>
    /\ gen' = gen + 1
    /\ CallerAt(p, "create")
    /\ UNCHANGED <<trouble, flushLock, stopLock, started, nodeUp, dbOpen, cancelSync,
                   syncer, onlineClosed, doneClosed, lifeJobs, lifeWork>>

\* Plugins, profile, datastore and ipfs node; createNode fails when another
\* node holds the lock of the repo.  The bootstrap goroutine gets the lock.
StartCreate(p) ==
    /\ callPc[p] = "create" /\ ~nodeUp
    /\ dbOpen' = TRUE /\ nodeUp' = TRUE
    /\ boot' = [boot EXCEPT ![gen] = "run"]
    /\ mainLock' = <<"boot", gen>>
    /\ CallerAt(p, "threads")
    /\ UNCHANGED <<trouble, flushLock, stopLock, started, cancelSync, syncer, gen,
                   onlineClosed, doneClosed, loop, loopDone, flusher, ticks, lifeWork>>

\* Every error return up to createNode leaves the main lock locked.
StartCreateFail(p) ==
    /\ callPc[p] = "create"
    /\ nodeUp \/ trouble
    /\ mainLock' = Leaked
    /\ dbOpen' \in {dbOpen, TRUE}
    /\ CallerAt(p, "idle")
    /\ UNCHANGED <<trouble, flushLock, stopLock, started, nodeUp, cancelSync, syncer,
                   gen, onlineClosed, doneClosed, lifeJobs, lifeWork>>

\* The threads are loaded beside the bootstrap; a thread that does not load
\* ends Start before it sets started.
StartThreads(p) ==
    /\ callPc[p] = "threads"
    /\ \/ started' = TRUE
       \/ trouble /\ UNCHANGED started
    /\ CallerAt(p, "idle")
    /\ UNCHANGED <<trouble, lifeLocks, nodeUp, dbOpen, cancelSync, syncer, gen,
                   onlineClosed, doneClosed, lifeJobs, lifeWork>>

\* Bootstrap, also when it fails: close(online), unlock, and runJobs, which
\* starts a flush and waits for the lock to sync the account.
BootDone(g) ==
    /\ boot[g] = "run"
    /\ boot' = [boot EXCEPT ![g] = "done"]
    /\ onlineClosed' = onlineClosed \cup {gen}
    /\ mainLock' = Free
    /\ loop' = [loop EXCEPT ![g] = "sync"]
    /\ flusher' = [flusher EXCEPT ![g] = "wait"]
    /\ UNCHANGED <<trouble, flushLock, stopLock, started, nodeUp, dbOpen, cancelSync,
                   syncer, gen, doneClosed, callPc, loopDone, ticks, lifeWork>>

-----------------------------------------------------------------------------
(* Stop                                                                      *)

StopCall(p) ==
    /\ MayCall(p)
    /\ gen > 0
    /\ CallerAt(p, "stop")
    /\ UNCHANGED <<trouble, lifeLocks, lifeNode, lifeJobs, lifeWork>>

StopLockMain(p) ==
    /\ callPc[p] = "stop" /\ mainLock = Free
    /\ mainLock' = <<"call", p>>
    /\ CallerAt(p, "flush")
    /\ UNCHANGED <<trouble, flushLock, stopLock, lifeNode, lifeJobs, lifeWork>>

StopLockFlush(p) ==
    /\ callPc[p] = "flush" /\ flushLock = Free
    /\ flushLock' = <<"call", p>>
    /\ CallerAt(p, "drain")
    /\ UNCHANGED <<trouble, mainLock, stopLock, lifeNode, lifeJobs, lifeWork>>

\* Mutant: Stop does not wait for the workers.
StopLockStopSkipped(p) ==
    /\ callPc[p] = "drain"
    /\ stopLock' = <<"call", p>>
    /\ CallerAt(p, "close")
    /\ UNCHANGED <<trouble, mainLock, flushLock, lifeNode, lifeJobs, lifeWork>>

StopLockStop(p) ==
    /\ callPc[p] = "drain" /\ stopLock = Free
    /\ stopLock' = <<"call", p>>
    /\ CallerAt(p, "close")
    /\ UNCHANGED <<trouble, mainLock, flushLock, lifeNode, lifeJobs, lifeWork>>

\* The search of an account sync is cancelled, but nobody waits for the
\* goroutine that applies its results.  Then the cafe api, the node and the
\* datastore are closed; an error of the first two ends Stop.  The deferred
\* calls reset started, close done and unlock in every case.
StopClose(p) ==
    /\ callPc[p] = "close"
    /\ \/ /\ ~started
          /\ UNCHANGED <<started, nodeUp, dbOpen, cancelSync, doneClosed>>
       \/ /\ started
          /\ started' = FALSE /\ cancelSync' = FALSE
          /\ doneClosed' = doneClosed \cup {gen}
          /\ \/ nodeUp' = FALSE /\ dbOpen' = FALSE
             \/ trouble /\ UNCHANGED <<nodeUp, dbOpen>>
    /\ mainLock' = Free /\ flushLock' = Free /\ stopLock' = Free
    /\ CallerAt(p, "idle")
    /\ UNCHANGED <<trouble, syncer, gen, onlineClosed, lifeJobs, lifeWork>>

-----------------------------------------------------------------------------
(* Jobs                                                                      *)

\* maybeSyncAccount: the search of a sync in progress is cancelled, and a new
\* one begins when it is due; a closed datastore is an error.  Then runJobs
\* waits for the channel that is current now.
LoopSync(g) ==
    /\ loop[g] = "sync" /\ mainLock = Free
    /\ cancelSync' \in IF dbOpen THEN BOOLEAN ELSE {FALSE}
    /\ syncer' = IF cancelSync' /\ syncer = "off" THEN "on" ELSE syncer
    /\ loop' = [loop EXCEPT ![g] = "select"]
    /\ loopDone' = [loopDone EXCEPT ![g] = gen]
    /\ UNCHANGED <<trouble, lifeLocks, started, nodeUp, dbOpen, gen, onlineClosed,
                   doneClosed, callPc, boot, flusher, ticks, lifeWork>>

LoopTick(g) ==
    /\ loop[g] = "select" /\ ticks < MaxTicks
    /\ ticks' = ticks + 1
    /\ loop' = [loop EXCEPT ![g] = "sync"]
    /\ flusher' = [flusher EXCEPT ![g] = IF @ = "none" THEN "wait" ELSE @]
    /\ UNCHANGED <<trouble, lifeLocks, lifeNode, callPc, boot, loopDone, lifeWork>>

\* Mutant: a loop ends only when the channel of its own Start is closed.
LoopEndOwn(g) ==
    /\ loop[g] = "select" /\ loopDone[g] = g /\ g \in doneClosed
    /\ loop' = [loop EXCEPT ![g] = "ended"]
    /\ UNCHANGED <<trouble, lifeLocks, lifeNode, callPc, boot, loopDone, flusher, ticks, lifeWork>>

LoopEnd(g) ==
    /\ loop[g] = "select" /\ loopDone[g] \in doneClosed
    /\ loop' = [loop EXCEPT ![g] = "ended"]
    /\ UNCHANGED <<trouble, lifeLocks, lifeNode, callPc, boot, loopDone, flusher, ticks, lifeWork>>

\* A result of the search comes in: SyncAccount's goroutine applies it, and the
\* next ones, whether or not the search was cancelled or the node stopped.
ApplyBegin ==
    /\ syncer = "on"
    /\ syncer' = "apply"
    /\ UNCHANGED <<trouble, lifeLocks, started, nodeUp, dbOpen, cancelSync, gen,
                   onlineClosed, doneClosed, callPc, lifeJobs, lifeWork>>

\* The results are applied; over a closed datastore that is an error.
ApplyEnd ==
    /\ syncer = "apply"
    /\ syncer' = "off"
    /\ UNCHANGED <<trouble, lifeLocks, started, nodeUp, dbOpen, cancelSync, gen,
                   onlineClosed, doneClosed, callPc, lifeJobs, lifeWork>>

\* flushQueues works under the main lock, also after the node was stopped; it
\* takes none of the other two, so it is one step.
FlushQueues(g) ==
    /\ flusher[g] = "wait" /\ mainLock = Free
    /\ flusher' = [flusher EXCEPT ![g] = "none"]
    /\ UNCHANGED <<trouble, lifeLocks, lifeNode, callPc, boot, loop, loopDone,
                   ticks, lifeWork>>

-----------------------------------------------------------------------------
(* Workers                                                                   *)

\* Handle, handleThreadAdd and AddOrUpdateThread lock stopLock before they
\* start the goroutine that unlocks it.  The last one is called for a snapshot
\* and takes no lock before, so it may come on a closed node.
TailCall(w) ==
    /\ tail[w] = "idle" /\ (nodeUp \/ syncer = "apply")
    /\ tail' = [tail EXCEPT ![w] = "wait"]
    /\ UNCHANGED <<trouble, lifeLocks, lifeNode, callPc, lifeJobs, api, handler>>

\* A worker that waited while Stop held the lock runs on a closed node.
TailBegin(w) ==
    /\ tail[w] = "wait" /\ stopLock = Free
    /\ stopLock' = <<"tail", w>>
    /\ tail' = [tail EXCEPT ![w] = IF nodeUp /\ dbOpen THEN "run" ELSE "late"]
    /\ UNCHANGED <<trouble, mainLock, flushLock, lifeNode, callPc, lifeJobs, api, handler>>

TailEnd(w) ==
    /\ tail[w] \in {"run", "late"}
    /\ stopLock' = Free
    /\ tail' = [tail EXCEPT ![w] = "done"]
    /\ UNCHANGED <<trouble, mainLock, flushLock, lifeNode, callPc, lifeJobs, api, handler>>

\* A mobile call locks the main lock, works when the node is online and ends
\* with FlushCafes, which takes the stop lock before the main lock is free.
ApiLock ==
    /\ api = "idle" /\ mainLock = Free
    /\ mainLock' = <<"api", 0>>
    /\ api' = "run"
    /\ UNCHANGED <<trouble, flushLock, stopLock, lifeNode, callPc, lifeJobs, tail, handler>>

\* ErrOffline, or an error of the call.
ApiFail ==
    /\ api = "run"
    /\ ~(started /\ nodeUp) \/ trouble
    /\ mainLock' = Free
    /\ api' = "done"
    /\ UNCHANGED <<trouble, flushLock, stopLock, lifeNode, callPc, lifeJobs, tail, handler>>

ApiFlushCafes ==
    /\ api = "run" /\ started /\ nodeUp
    /\ stopLock = Free
    /\ stopLock' = <<"cafes", 0>> /\ mainLock' = Free
    /\ api' = "flushing"
    /\ UNCHANGED <<trouble, flushLock, lifeNode, callPc, lifeJobs, tail, handler>>

ApiFlushed ==
    /\ api = "flushing"
    /\ stopLock' = Free
    /\ api' = "done"
    /\ UNCHANGED <<trouble, mainLock, flushLock, lifeNode, callPc, lifeJobs, tail, handler>>

\* External: a handler locks flushLock while it works on requests, which may
\* need the stop lock.
HandlerLock ==
    /\ handler = "idle" /\ nodeUp /\ flushLock = Free
    /\ flushLock' = <<"handler", 0>>
    /\ handler' = "flush"
    /\ UNCHANGED <<trouble, mainLock, stopLock, lifeNode, callPc, lifeJobs, tail, api>>

HandlerStopLock ==
    /\ handler = "flush" /\ stopLock = Free
    /\ stopLock' = <<"handler", 0>>
    /\ handler' = "stop"
    /\ UNCHANGED <<trouble, mainLock, flushLock, lifeNode, callPc, lifeJobs, tail, api>>

HandlerUnlock ==
    /\ handler = "stop"
    /\ flushLock' = Free /\ stopLock' = Free
    /\ handler' = "done"
    /\ UNCHANGED <<trouble, mainLock, lifeNode, callPc, lifeJobs, tail, api>>

-----------------------------------------------------------------------------
StartStep(p) == StartCreate(p) \/ StartCreateFail(p) \/ StartThreads(p)
StopStep(p) == StopLockMain(p) \/ StopLockFlush(p) \/ StopLockStop(p) \/ StopClose(p)

LifeEnvironment ==
    \/ \E p \in Callers : StartLock(p) \/ StopCall(p)
    \/ \E g \in Starts : LoopTick(g)
    \/ \E w \in Tails : TailCall(w)
    \/ ApiLock \/ HandlerLock \/ ApplyBegin

LifeProgress ==
    \/ \E p \in Callers : StartStep(p) \/ StopStep(p)
    \/ \E g \in Starts :
        BootDone(g) \/ LoopSync(g) \/ LoopEnd(g) \/ FlushQueues(g)
    \/ \E w \in Tails : TailBegin(w) \/ TailEnd(w)
    \/ ApiFail \/ ApiFlushCafes \/ ApiFlushed
    \/ HandlerStopLock \/ HandlerUnlock \/ ApplyEnd

LifeNext == LifeEnvironment \/ LifeProgress

\* What a job loop does next, which depends on a lock or a channel that others
\* may take or replace again.
LoopStep == \E g \in Starts : LoopSync(g) \/ LoopEnd(g)

\* Some goroutine that can go on does, and a job loop gets its turn at the
\* main lock (Go's mutexes hand over to the oldest waiter) and at a closed
\* channel; nobody has to make a call.
LifeFairness == WF_lifeVars(LifeProgress) /\ SF_lifeVars(LoopStep)

LifeSpec == LifeInit /\ [][LifeNext]_lifeVars /\ LifeFairness

-----------------------------------------------------------------------------
\* Shutdown waits for the work that took a lock before it: neither node nor
\* datastore is closed under a tail that found them open, under a flush of the
\* cafe outbox that a mobile call began, or under an external handler.  An
\* account sync takes no lock and is not waited for: it may apply a snapshot
\* over a closed datastore, and only its tail finds out under the stop lock.
ShutdownWaits ==
    \/ nodeUp /\ dbOpen
    \/ /\ \A w \in Tails : tail[w] # "run"
       /\ api # "flushing"
       /\ handler \notin {"flush", "stop"}

\* Channels and locks are used once: the online channel that a bootstrap will
\* close is its own and still open and it holds the main lock; the done
\* channel that Stop closes is open.  Otherwise Go panics.
NoPanic ==
    /\ \A g \in Starts : boot[g] = "run" =>
        gen = g /\ g \notin onlineClosed /\ mainLock = <<"boot", g>>
    /\ started => gen \notin doneClosed /\ nodeUp

\* A call of Stop returns when calls do not overlap and Start does not fail:
\* main, flush and stop lock are taken in an order nobody contradicts.
StopReturns ==
    \A p \in Callers : (~trouble /\ callPc[p] = "stop") ~> callPc[p] = "idle"

\* The job loops end when the node stays stopped, also those that missed the
\* closing of their own channel because a new Start replaced it.
JobsEnd ==
    <>[](~trouble /\ ~started) => <>[](\A g \in Starts : loop[g] \in {"none", "ended"})

\* Stop neither pulls the node from under work that holds a lock nor panics, however
\* calls of Start and Stop overlap, fail and meet the job loops.
ShutdownSafe == ShutdownWaits /\ NoPanic

\* What Stop has to wait for, and what waits for Stop, comes to an end.
ShutdownEnds == StopReturns /\ JobsEnd
=============================================================================
