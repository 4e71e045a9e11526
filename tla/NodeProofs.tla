----------------------------- MODULE NodeProofs -----------------------------
(***************************************************************************)
(* Four components of one node, for any values of their constants.        *)
(*                                                                         *)
(* Lifecycle, for any set of callers and workers and any number of starts: *)
(* the locks exclude each other, and ShutdownSafe follows from who holds   *)
(* which of them (LifeInv).                                                *)
(*                                                                         *)
(* MobileRequests, for any requests of a phone: SyncGroupEnds follows from *)
(* what a report knows at each of its places (RqInv), above all that when  *)
(* all reports of a sync group have read its status, one of them saw that  *)
(* nothing was left or that a request had failed (SomeoneTells).           *)
(*                                                                         *)
(* Setup, for any requests to change the configuration and any number of   *)
(* failures: SetupSound follows from how far InitRepo is (Progress), what  *)
(* a running node relies on (Places) and what no harm was done to          *)
(* (Unharmed, Ready).                                                      *)
(*                                                                         *)
(* FileIndex, for any goroutines, files, links of a schema and rows that   *)
(* come from others: FilesRight follows from how the links get their order *)
(* (Ordered, Counted), what a goroutine knows at each step (Working), that *)
(* each row is what its mill made of its source (FilesMade), and that      *)
(* nobody touches the rows of a file which nobody else works on            *)
(* (Undisturbed).                                                          *)
(***************************************************************************)
EXTENDS Lifecycle, MobileRequests, Setup, FileIndex, FiniteSetTheorems, FunctionTheorems,
        SequenceTheorems, WellFoundedInduction, NaturalsInduction, TLAPS

-----------------------------------------------------------------------------
(* The life cycle                                                            *)

\* The main lock is held by the Start that makes the node, then by its
\* bootstrap, or by a Stop under way, or by a mobile call.
MainHeld ==
    /\ \A p \in Callers :
           callPc[p] \in {"create", "flush", "drain", "close"} => mainLock = <<"call", p>>
    /\ \A g \in Starts : boot[g] = "run" => mainLock = <<"boot", g>>
    /\ api = "run" => mainLock = <<"api", 0>>

\* The flush lock is held by Stop or by the external handler.
FlushHeld ==
    /\ \A p \in Callers : callPc[p] \in {"drain", "close"} => flushLock = <<"call", p>>
    /\ handler \in {"flush", "stop"} => flushLock = <<"handler", 0>>

\* The stop lock is held by Stop while it closes, or by work it waits for.
StopHeld ==
    /\ \A p \in Callers : callPc[p] = "close" => stopLock = <<"call", p>>
    /\ \A w \in Tails : tail[w] \in {"run", "late"} => stopLock = <<"tail", w>>
    /\ api = "flushing" => stopLock = <<"cafes", 0>>
    /\ handler = "stop" => stopLock = <<"handler", 0>>

\* Nothing has happened yet with the channels and the bootstrap of a Start
\* that is not made, and the Start that makes the node has fresh ones.
FreshStart ==
    /\ \A g \in Starts : g \in onlineClosed => boot[g] = "done"
    /\ \A g \in Starts : boot[g] # "none" => g <= gen
    /\ \A g \in Starts : boot[g] = "run" => g = gen
    /\ \A g \in doneClosed : g <= gen
    /\ \A p \in Callers : callPc[p] = "create" =>
           gen > 0 /\ boot[gen] = "none" /\ gen \notin doneClosed

\* A node that is started, or about to be, runs on an open datastore, and its
\* done channel is open.
NodeRuns ==
    /\ nodeUp => dbOpen
    /\ started => nodeUp /\ gen \notin doneClosed /\ gen > 0
    /\ \A p \in Callers : callPc[p] = "threads" =>
           nodeUp /\ ~started /\ gen \notin doneClosed /\ gen > 0
    /\ \A p, q \in Callers : callPc[p] = "threads" /\ callPc[q] = "threads" => p = q

LifeInv ==
    /\ LifeTypeOK /\ ShutdownSafe
    /\ MainHeld /\ FlushHeld /\ StopHeld /\ FreshStart /\ NodeRuns

-----------------------------------------------------------------------------
\* The invariant holds of a process that has called nothing.
LEMMA LifeInitOK == LifeInit => LifeInv
  <1> USE LifecycleAssumption DEF LifeInv, LifeTypeOK, ShutdownSafe, ShutdownWaits,
    NoPanic,
            MainHeld, FlushHeld, StopHeld, FreshStart, NodeRuns, lifeLocks, lifeNode,
            lifeJobs, lifeWork, CallerAt, Starts, Free, Leaked, Holder, CallPc
  <1> SUFFICES ASSUME LifeInit PROVE LifeInv
    OBVIOUS
  <1> USE DEF LifeInit
  <1>1. LifeTypeOK
    <2>1. /\ trouble \in BOOLEAN /\ started \in BOOLEAN /\ nodeUp \in BOOLEAN
          /\ dbOpen \in BOOLEAN /\ cancelSync \in BOOLEAN
          /\ syncer \in {"off", "on", "apply"}
      OBVIOUS
    <2>2. mainLock \in Holder /\ flushLock \in Holder /\ stopLock \in Holder
      OBVIOUS
    <2>3. gen \in 0..MaxStarts /\ onlineClosed \subseteq Starts /\ doneClosed \subseteq Starts
      OBVIOUS
    <2>4. /\ callPc \in [Callers -> CallPc]
                /\ boot \in [Starts -> {"none", "run", "done"}]
          /\ loop \in [Starts -> {"none", "sync", "select", "ended"}]
          /\ loopDone \in [Starts -> 0..MaxStarts]
          /\ flusher \in [Starts -> {"none", "wait"}]
          /\ tail \in [Tails -> {"idle", "wait", "run", "late", "done"}]
      OBVIOUS
    <2>5. ticks \in 0..MaxTicks
      OBVIOUS
    <2> QED BY <2>1, <2>2, <2>3, <2>4, <2>5
  <1>2. ShutdownSafe /\ MainHeld /\ FlushHeld /\ StopHeld
    OBVIOUS
  <1>3. FreshStart /\ NodeRuns
    OBVIOUS
  <1> QED BY <1>1, <1>2, <1>3

\* Start, up to the goroutine that bootstraps the node.
LEMMA LifeStart ==
    ASSUME LifeInv, NEW p \in Callers,
           StartLock(p) \/ StartCreate(p) \/ StartCreateFail(p) \/ StartThreads(p)
    PROVE  LifeInv'
  <1> USE LifecycleAssumption DEF LifeInv, LifeTypeOK, ShutdownSafe, ShutdownWaits,
    NoPanic,
            MainHeld, FlushHeld, StopHeld, FreshStart, NodeRuns, lifeLocks, lifeNode,
            lifeJobs, lifeWork, CallerAt, Starts, Free, Leaked, Holder, CallPc
  <1>1. CASE StartLock(p)
    BY <1>1 DEF StartLock
  <1>2. CASE StartCreate(p)
    <2> USE <1>2 DEF StartCreate
    <2>1. LifeTypeOK'
      OBVIOUS
    <2>2. ShutdownWaits' /\ NoPanic'
      OBVIOUS
    <2>3. MainHeld'
      OBVIOUS
    <2>4. FlushHeld' /\ StopHeld'
      OBVIOUS
    <2>5. FreshStart'
      OBVIOUS
    <2>6. NodeRuns'
      OBVIOUS
    <2> QED BY <2>1, <2>2, <2>3, <2>4, <2>5, <2>6
  <1>3. CASE StartCreateFail(p)
    <2>1. dbOpen' \in BOOLEAN /\ (dbOpen => dbOpen')
      <3>1. CASE dbOpen' = dbOpen
        BY <3>1
      <3>2. CASE dbOpen' = TRUE
        BY <3>2
      <3> QED BY <1>3, <3>1, <3>2 DEF StartCreateFail
    <2>2. /\ callPc[p] = "create" /\ callPc' = [callPc EXCEPT ![p] = "idle"]
          /\ mainLock' = Leaked
          /\ UNCHANGED <<trouble, flushLock, stopLock, started, nodeUp, cancelSync,
                         syncer, gen, onlineClosed, doneClosed, lifeJobs, lifeWork>>
      BY <1>3 DEF StartCreateFail
    <2>3. LifeTypeOK'
      BY <2>1, <2>2
    <2>4. ShutdownWaits' /\ NoPanic'
      BY <2>1, <2>2
    <2>5. MainHeld'
      BY <2>1, <2>2
    <2>6. FlushHeld' /\ StopHeld'
      BY <2>1, <2>2
    <2>7. FreshStart'
      BY <2>1, <2>2
    <2>8. NodeRuns'
      BY <2>1, <2>2
    <2> QED BY <2>3, <2>4, <2>5, <2>6, <2>7, <2>8
  <1>4. CASE StartThreads(p)
    <2>1. started' \in BOOLEAN /\ (started => started')
      BY <1>4 DEF StartThreads
    <2>2. /\ callPc[p] = "threads" /\ callPc' = [callPc EXCEPT ![p] = "idle"]
          /\ UNCHANGED <<trouble, lifeLocks, nodeUp, dbOpen, cancelSync, syncer, gen,
                         onlineClosed, doneClosed, lifeJobs, lifeWork>>
      BY <1>4 DEF StartThreads
    <2>3. LifeTypeOK'
      BY <2>1, <2>2
    <2>4. ShutdownWaits' /\ NoPanic'
      BY <2>1, <2>2
    <2>5. MainHeld'
      BY <2>1, <2>2
    <2>6. FlushHeld' /\ StopHeld'
      BY <2>1, <2>2
    <2>7. FreshStart'
      BY <2>1, <2>2
    <2>8. NodeRuns'
      BY <2>1, <2>2
    <2> QED BY <2>3, <2>4, <2>5, <2>6, <2>7, <2>8
  <1> QED BY <1>1, <1>2, <1>3, <1>4

\* The bootstrap goroutine.
LEMMA LifeBoot ==
    ASSUME LifeInv, NEW g \in Starts,
           BootDone(g)
    PROVE  LifeInv'
  <1> USE LifecycleAssumption DEF LifeInv, LifeTypeOK, ShutdownSafe, ShutdownWaits,
    NoPanic,
            MainHeld, FlushHeld, StopHeld, FreshStart, NodeRuns, lifeLocks, lifeNode,
            lifeJobs, lifeWork, CallerAt, Starts, Free, Leaked, Holder, CallPc
  <1>1. CASE BootDone(g)
    BY <1>1, SMTT(30) DEF BootDone
  <1> QED BY <1>1

\* Stop.
LEMMA LifeStop ==
    ASSUME LifeInv, NEW p \in Callers,
           StopCall(p) \/ StopLockMain(p) \/ StopLockFlush(p) \/ StopLockStop(p) \/ StopClose(p)
    PROVE  LifeInv'
  <1> USE LifecycleAssumption DEF LifeInv, LifeTypeOK, ShutdownSafe, ShutdownWaits,
    NoPanic,
            MainHeld, FlushHeld, StopHeld, FreshStart, NodeRuns, lifeLocks, lifeNode,
            lifeJobs, lifeWork, CallerAt, Starts, Free, Leaked, Holder, CallPc
  <1>1. CASE StopCall(p)
    BY <1>1 DEF StopCall
  <1>2. CASE StopLockMain(p)
    BY <1>2 DEF StopLockMain
  <1>3. CASE StopLockFlush(p)
    BY <1>3 DEF StopLockFlush
  <1>4. CASE StopLockStop(p)
    <2> USE <1>4 DEF StopLockStop
    <2>1. LifeTypeOK'
      OBVIOUS
    <2>2. ShutdownWaits' /\ NoPanic'
      OBVIOUS
    <2>3. MainHeld'
      OBVIOUS
    <2>4. FlushHeld' /\ StopHeld'
      OBVIOUS
    <2>5. FreshStart'
      OBVIOUS
    <2>6. NodeRuns'
      OBVIOUS
    <2> QED BY <2>1, <2>2, <2>3, <2>4, <2>5, <2>6
  <1>5. CASE StopClose(p)
    <2>1. /\ started' \in BOOLEAN /\ nodeUp' \in BOOLEAN
          /\ dbOpen' \in BOOLEAN /\ cancelSync' \in BOOLEAN
      BY <1>5 DEF StopClose
    <2>2. /\ ~started' /\ (nodeUp' => nodeUp) /\ (nodeUp => (nodeUp' <=> dbOpen'))
          /\ ~started => UNCHANGED <<nodeUp, dbOpen, cancelSync, doneClosed>>
      BY <1>5 DEF StopClose
    <2>3. nodeUp' => dbOpen'
      BY <1>5 DEF StopClose
    <2>4. doneClosed' \subseteq doneClosed \cup {gen}
      BY <1>5 DEF StopClose
    <2>5. /\ callPc[p] = "close" /\ callPc' = [callPc EXCEPT ![p] = "idle"]
          /\ mainLock' = Free /\ flushLock' = Free /\ stopLock' = Free
          /\ UNCHANGED <<trouble, syncer, gen, onlineClosed, lifeJobs, lifeWork>>
      BY <1>5 DEF StopClose
    <2>6. LifeTypeOK'
      BY <2>1, <2>2, <2>3, <2>4, <2>5
    <2>7. ShutdownWaits' /\ NoPanic'
      BY <2>1, <2>2, <2>3, <2>4, <2>5
    <2>8. MainHeld'
      BY <2>1, <2>2, <2>3, <2>4, <2>5
    <2>9. FlushHeld' /\ StopHeld'
      BY <2>1, <2>2, <2>3, <2>4, <2>5
    <2>10. FreshStart'
      BY <2>1, <2>2, <2>3, <2>4, <2>5
    <2>11. NodeRuns'
      BY <2>1, <2>2, <2>3, <2>4, <2>5
    <2> QED BY <2>6, <2>7, <2>8, <2>9, <2>10, <2>11
  <1> QED BY <1>1, <1>2, <1>3, <1>4, <1>5

\* The job loops, their flushes and the account syncs they begin.
LEMMA LifeJobs ==
    ASSUME LifeInv, NEW g \in Starts,
           \/ LoopSync(g) \/ LoopTick(g) \/ LoopEnd(g) \/ FlushQueues(g)
    PROVE  LifeInv'
  <1> USE LifecycleAssumption DEF LifeInv, LifeTypeOK, ShutdownSafe, ShutdownWaits,
    NoPanic,
            MainHeld, FlushHeld, StopHeld, FreshStart, NodeRuns, lifeLocks, lifeNode,
            lifeJobs, lifeWork, CallerAt, Starts, Free, Leaked, Holder, CallPc
  <1>1. CASE LoopSync(g)
    <2>1. cancelSync' \in BOOLEAN /\ syncer' \in {"off", "on", "apply"}
      BY <1>1 DEF LoopSync
    <2>2. /\ loop' = [loop EXCEPT ![g] = "select"] /\ loopDone' = [loopDone EXCEPT ![g] = gen]
          /\ UNCHANGED <<trouble, lifeLocks, started, nodeUp, dbOpen, gen, onlineClosed,
                         doneClosed, callPc, boot, flusher, ticks, lifeWork>>
      BY <1>1 DEF LoopSync
    <2>3. LifeTypeOK'
      BY <2>1, <2>2
    <2>4. ShutdownWaits' /\ NoPanic'
      BY <2>1, <2>2
    <2>5. MainHeld'
      BY <2>1, <2>2
    <2>6. FlushHeld' /\ StopHeld'
      BY <2>1, <2>2
    <2>7. FreshStart'
      BY <2>1, <2>2
    <2>8. NodeRuns'
      BY <2>1, <2>2
    <2> QED BY <2>3, <2>4, <2>5, <2>6, <2>7, <2>8
  <1>2. CASE LoopTick(g)
    BY <1>2, SMTT(60) DEF LoopTick
  <1>3. CASE LoopEnd(g)
    BY <1>3, SMTT(60) DEF LoopEnd
  <1>4. CASE FlushQueues(g)
    BY <1>4 DEF FlushQueues
  <1> QED BY <1>1, <1>2, <1>3, <1>4

\* The workers under the stop lock.
LEMMA LifeTails ==
    ASSUME LifeInv, NEW w \in Tails,
           TailCall(w) \/ TailBegin(w) \/ TailEnd(w)
    PROVE  LifeInv'
  <1> USE LifecycleAssumption DEF LifeInv, LifeTypeOK, ShutdownSafe, ShutdownWaits,
    NoPanic,
            MainHeld, FlushHeld, StopHeld, FreshStart, NodeRuns, lifeLocks, lifeNode,
            lifeJobs, lifeWork, CallerAt, Starts, Free, Leaked, Holder, CallPc
  <1>1. CASE TailCall(w)
    BY <1>1 DEF TailCall
  <1>2. CASE TailBegin(w)
    BY <1>2 DEF TailBegin
  <1>3. CASE TailEnd(w)
    BY <1>3 DEF TailEnd
  <1> QED BY <1>1, <1>2, <1>3

\* A mobile call and the external request handler.
LEMMA LifeCalls ==
    ASSUME LifeInv,
           \/ ApiLock \/ ApiFail \/ ApiFlushCafes \/ ApiFlushed
           \/ HandlerLock \/ HandlerStopLock \/ HandlerUnlock
    PROVE  LifeInv'
  <1> USE LifecycleAssumption DEF LifeInv, LifeTypeOK, ShutdownSafe, ShutdownWaits,
    NoPanic,
            MainHeld, FlushHeld, StopHeld, FreshStart, NodeRuns, lifeLocks, lifeNode,
            lifeJobs, lifeWork, CallerAt, Starts, Free, Leaked, Holder, CallPc
  <1>1. CASE ApiLock
    BY <1>1 DEF ApiLock
  <1>2. CASE ApiFail
    BY <1>2 DEF ApiFail
  <1>3. CASE ApiFlushCafes
    BY <1>3 DEF ApiFlushCafes
  <1>4. CASE ApiFlushed
    BY <1>4 DEF ApiFlushed
  <1>5. CASE HandlerLock
    BY <1>5 DEF HandlerLock
  <1>6. CASE HandlerStopLock
    BY <1>6 DEF HandlerStopLock
  <1>7. CASE HandlerUnlock
    BY <1>7 DEF HandlerUnlock
  <1> QED BY <1>1, <1>2, <1>3, <1>4, <1>5, <1>6, <1>7

\* The goroutine that applies what an account sync found.
LEMMA LifeApply ==
    ASSUME LifeInv, ApplyBegin \/ ApplyEnd
    PROVE  LifeInv'
  <1>1. /\ syncer' \in {"off", "on", "apply"}
        /\ UNCHANGED <<trouble, lifeLocks, started, nodeUp, dbOpen, cancelSync, gen,
                       onlineClosed, doneClosed, callPc, lifeJobs, lifeWork>>
    BY DEF ApplyBegin, ApplyEnd
  <1> QED
    BY <1>1 DEF LifeInv, LifeTypeOK, ShutdownSafe, ShutdownWaits, NoPanic, MainHeld,
       FlushHeld, StopHeld, FreshStart, NodeRuns, lifeLocks, lifeJobs, lifeWork

\* Start and Stop, however their calls overlap, fail and meet the job loops,
\* keep the locks, the channels and the node together (core.go).
THEOREM LifecycleSafe == LifeSpec => []LifeInv
  <1>1. LifeInv /\ [LifeNext]_lifeVars => LifeInv'
    <2> SUFFICES ASSUME LifeInv, [LifeNext]_lifeVars PROVE LifeInv'
      OBVIOUS
    <2>1. CASE LifeEnvironment
      BY <2>1, LifeStart, LifeStop, LifeJobs, LifeTails, LifeCalls, LifeApply
      DEF LifeEnvironment
    <2>2. CASE LifeProgress
      BY <2>2, LifeStart, LifeBoot, LifeStop, LifeJobs, LifeTails, LifeCalls,
         LifeApply
      DEF LifeProgress, StartStep, StopStep
    <2>3. CASE UNCHANGED lifeVars
      BY <2>3 DEF lifeVars, lifeLocks, lifeNode, lifeJobs, lifeWork, LifeInv, LifeTypeOK,
         ShutdownSafe, ShutdownWaits, NoPanic, MainHeld, FlushHeld, StopHeld, FreshStart,
         NodeRuns
    <2> QED BY <2>1, <2>2, <2>3 DEF LifeNext
  <1> QED BY LifeInitOK, <1>1, PTL DEF LifeSpec

\* Stop never pulls the node from under a tail, a flush of the cafe outbox or an
\* external handler, and no channel is closed twice (core.go Stop, Start and
\* runJobs).  Nothing is said of the account sync, for which Stop does not wait.
THEOREM ShutdownAlwaysSafe == LifeSpec => []ShutdownSafe
  <1>1. LifeInv => ShutdownSafe BY DEF LifeInv
  <1> QED BY <1>1, LifecycleSafe, PTL

-----------------------------------------------------------------------------
(* The requests of a phone                                                   *)

\* What a report has done by the place it is at.
ReportPlace ==
    \A g \in ReqGroup :
        /\ report[g].at # "no" => upload[g] \in {"complete", "fail"}
        /\ report[g].at = "updated" => rstatus[g] \notin Open
        /\ report[g].at \in {"read", "notified"} =>
               /\ report[g].id \in {SyncOf[g], ""}
               /\ report[g].kind \in {"complete", "fail"}
               /\ report[g].kind = "complete" => rstatus[g] \notin Open
               /\ report[g].kind = "fail" => g \in gaveUp
        /\ report[g].at = "notified" => rstatus[g] \notin Open
        /\ upload[g] = "over" => rstatus[g] \notin Open

\* The application knows that a sync group is complete, or that it failed.
Told(s) ==
    \/ "complete" \in events[s] \cup events[""]
    \/ \E g \in Of(s) : g \in gaveUp /\ "failed" \in events[s] \cup events[""]

\* When the reports of all groups of a sync group have read the status, the
\* application knows, or is about to be told by one of them.
StatusRead(g) == report[g].at \in {"read", "notified"} \/ upload[g] = "over"
AboutToTell(g) == report[g].at = "read" /\ (report[g].kind = "fail" \/ report[g].last)
SomeoneTells ==
    \A s \in SyncGroup :
        (\A g \in Of(s) : StatusRead(g)) => Told(s) \/ \E g \in Of(s) : AboutToTell(g)

RqInv ==
    /\ RqTypeOK /\ ReportPlace /\ SomeoneTells
    /\ BlockHeldBack /\ NotStranded /\ BodiesGone

-----------------------------------------------------------------------------
\* The constants of the requests, unfolded.
LEMMA RqConstants ==
    /\ Envelope \subseteq ReqGroup /\ SyncOf \in [ReqGroup -> SyncGroup] /\ MaxSetbacks \in Nat
  BY MobileRequestsAssumption

\* The invariant holds of requests nobody took.
LEMMA RqInitOK == RqInit => RqInv
  <1> SUFFICES ASSUME RqInit PROVE RqInv
    OBVIOUS
  <1> USE RqConstants DEF RqInit, NoReport, Open
  <1>1. RqTypeOK
    <2>1. NoReport \in Report
      BY DEF Report
    <2>2. report \in [ReqGroup -> Report]
      <3>1. report = [g \in ReqGroup |-> NoReport]
        OBVIOUS
      <3> QED BY ONLY <2>1, <3>1
    <2>4. setbacks \in 0..MaxSetbacks
      <3>1. setbacks = 0 /\ MaxSetbacks \in Nat
        OBVIOUS
      <3> QED BY ONLY <3>1
    <2>3. /\ rstatus \in [ReqGroup -> Open \cup {"none", "complete"}]
          /\ upload \in [ReqGroup -> {"idle", "written", "sending", "complete", "fail", "over"}]
          /\ events \in [SyncGroup \cup {""} -> SUBSET {"update", "complete", "failed"}]
          /\ payload \in [Envelope -> {"pinned", "loose", "collected"}]
      OBVIOUS
    <2> QED BY <2>2, <2>3, <2>4 DEF RqTypeOK
  <1>2. ReportPlace /\ BlockHeldBack /\ BodiesGone
    BY DEF ReportPlace, BlockHeldBack, BodiesGone
  <1>3. SomeoneTells /\ NotStranded
    BY MobileRequestsAssumption DEF SomeoneTells, StatusRead, NotStranded, Finished, Of,
       BlockSync
  <1> QED BY <1>1, <1>2, <1>3 DEF RqInv

\* A flush touches no open request: it posts the blocks that are done.
LEMMA FlushEffect ==
    ASSUME RqTypeOK, NEW blocks \in SUBSET SyncGroup, NEW cleaned \in SUBSET SyncGroup,
           \A s \in cleaned : SyncGroupDone(s), FlushBlocks(blocks, cleaned)
    PROVE  /\ rstatus' \in [ReqGroup -> Open \cup {"none", "complete"}]
           /\ \A g \in ReqGroup : rstatus'[g] = rstatus[g] \/ rstatus'[g] = "none"
           /\ \A g \in ReqGroup : rstatus[g] \in Open => rstatus'[g] = rstatus[g]
           /\ blockSent \subseteq blockSent' /\ blockSent' \subseteq SyncGroup
           /\ early' = early
           /\ \A s \in blocks : SyncGroupDone(s) => s \in blockSent'
  <1> USE DEF RqTypeOK, FlushBlocks
  <1>1. \A g \in ReqGroup : rstatus'[g] = rstatus[g] \/ rstatus'[g] = "none"
    OBVIOUS
  <1>2. rstatus' \in [ReqGroup -> Open \cup {"none", "complete"}]
    OBVIOUS
  <1>3. \A g \in ReqGroup : rstatus[g] \in Open => rstatus'[g] = rstatus[g]
    BY DEF SyncGroupDone, Of
  <1>4. early' = early
    BY DEF SyncGroupDone, Of
  <1> QED BY <1>1, <1>2, <1>3, <1>4

\* What a step can do to a group of requests.
Same(g) ==
    report'[g] = report[g] /\ upload'[g] = upload[g] /\ (g \in body' => g \in body)
Settled(g) == rstatus'[g] = rstatus[g] \/ rstatus'[g] = "none"
GroupMove(g) ==
    \/ Same(g) /\ Settled(g)
    \/ upload[g] = "idle" /\ upload'[g] = "written" /\ report' = report /\ rstatus' = rstatus
    \/ /\ upload[g] \in {"written", "sending"} /\ upload'[g] \in {"idle", "sending"}
       /\ report' = report
    \/ /\ upload[g] = "sending" /\ upload'[g] \in {"complete", "fail"}
       /\ report' = report /\ rstatus' = rstatus
    \/ /\ upload[g] = "complete" /\ upload'[g] = upload[g] /\ report'[g].at = "updated"
       /\ rstatus'[g] \in {"none", "complete"}
    \/ /\ report[g].at = "updated" /\ rstatus' = rstatus /\ upload'[g] = upload[g]
       /\ report'[g].at = "read" /\ report'[g].kind = "complete"
       /\ report'[g].id = SyncGroupStatus(g).id /\ report'[g].last = SyncGroupStatus(g).last
    \/ /\ upload[g] = "fail" /\ rstatus' = rstatus /\ upload'[g] = upload[g]
       /\ report'[g].at = "read" /\ report'[g].kind = "fail" /\ g \in gaveUp'
       /\ report'[g].id = SyncGroupStatus(g).id
    \/ /\ report[g].at = "read" /\ report'[g].at = "notified" /\ upload'[g] = upload[g]
       /\ report'[g].kind = report[g].kind /\ report'[g].id = report[g].id
       /\ Event(g) \in events'[report[g].id]
       /\ rstatus'[g] = IF report[g].kind = "fail" THEN "none" ELSE rstatus[g]
    \/ /\ report[g].at = "notified" /\ report'[g] = NoReport /\ upload'[g] = "over"
       /\ g \notin body' /\ Settled(g)
    \/ upload'[g] = upload[g] /\ report'[g] = NoReport /\ rstatus' = rstatus /\ body' = body

\* What a step of a report changes in its group.
LEMMA GroupMoves ==
    ASSUME RqTypeOK, [RqNext]_rqVars, NEW g \in ReqGroup
    PROVE  GroupMove(g)
  <1> USE DEF RqTypeOK, GroupMove, Same, Settled
  <1>1. ASSUME NEW h \in ReqGroup, WriteCafeRequest(h) PROVE GroupMove(g)
    BY <1>1 DEF WriteCafeRequest
  <1>2. ASSUME NEW h \in ReqGroup, WriteBodyFails(h) PROVE GroupMove(g)
    BY <1>2 DEF WriteBodyFails
  <1>3. ASSUME NEW h \in ReqGroup, CafeRequestPending(h) \/ CafeRequestNotPending(h)
        PROVE  GroupMove(g)
    BY <1>3 DEF CafeRequestPending, CafeRequestNotPending
  <1>4. ASSUME NEW h \in ReqGroup, NEW k \in {"complete", "fail"}, UploadEnds(h, k)
        PROVE  GroupMove(g)
    BY <1>4 DEF UploadEnds
  <1>5. ASSUME NEW h \in ReqGroup, CompleteCafeRequest(h) PROVE GroupMove(g)
    BY <1>5 DEF CompleteCafeRequest, Report
  <1>6. ASSUME NEW h \in ReqGroup, CompleteStatus(h) PROVE GroupMove(g)
    BY <1>6 DEF CompleteStatus, ReadStatus
  <1>7. ASSUME NEW h \in ReqGroup, FailCafeRequest(h) PROVE GroupMove(g)
    BY <1>7 DEF FailCafeRequest, ReadStatus
  <1>8. ASSUME NEW h \in ReqGroup, NotifyDone(h) PROVE GroupMove(g)
    BY <1>8 DEF NotifyDone, Report
  <1>9. ASSUME NEW h \in ReqGroup, ReportReturns(h) PROVE GroupMove(g)
    <2>1. BlockSync \subseteq SyncGroup
      BY DEF BlockSync
    <2>2. \A x \in ReqGroup : rstatus'[x] = rstatus[x] \/ rstatus'[x] = "none"
      BY <1>9, <2>1, FlushEffect DEF ReportReturns
    <2> QED BY <1>9, <2>2 DEF ReportReturns
  <1>10. ASSUME NEW skip \in BOOLEAN, FlushOutbox(skip) PROVE GroupMove(g)
    <2>1. BlockSync \subseteq SyncGroup
      BY DEF BlockSync
    <2>2. \A x \in ReqGroup : rstatus'[x] = rstatus[x] \/ rstatus'[x] = "none"
      BY <1>10, <2>1, FlushEffect DEF FlushOutbox
    <2> QED BY <1>10, <2>2 DEF FlushOutbox
  <1>11. ASSUME NEW h \in Envelope, CollectGarbage(h) PROVE GroupMove(g)
    BY <1>11 DEF CollectGarbage
  <1>12. CASE Kill
    BY <1>12 DEF Kill
  <1>13. CASE UNCHANGED rqVars
    BY <1>13 DEF rqVars
  <1> QED BY <1>1, <1>2, <1>3, <1>4, <1>5, <1>6, <1>7, <1>8, <1>9, <1>10, <1>11, <1>12,
    <1>13
          DEF RqNext

\* What is posted, given up and told stays so; nothing is posted early.
LEMMA Grows ==
    ASSUME RqTypeOK, [RqNext]_rqVars
    PROVE  /\ blockSent \subseteq blockSent' /\ blockSent' \subseteq SyncGroup
           /\ early' = early
           /\ gaveUp \subseteq gaveUp' /\ gaveUp' \subseteq ReqGroup
           /\ events' \in [SyncGroup \cup {""} -> SUBSET {"update", "complete", "failed"}]
           /\ \A s \in SyncGroup \cup {""} : events[s] \subseteq events'[s]
  <1> DEFINE P == /\ blockSent \subseteq blockSent' /\ blockSent' \subseteq SyncGroup
                  /\ early' = early
             Q == /\ gaveUp \subseteq gaveUp' /\ gaveUp' \subseteq ReqGroup
                  /\ events' \in [SyncGroup \cup {""} -> SUBSET {"update", "complete", "failed"}]
                  /\ \A s \in SyncGroup \cup {""} : events[s] \subseteq events'[s]
  <1>0. /\ blockSent \subseteq SyncGroup /\ gaveUp \subseteq ReqGroup
        /\ events \in [SyncGroup \cup {""} -> SUBSET {"update", "complete", "failed"}]
    BY DEF RqTypeOK
  <1>1. ASSUME UNCHANGED <<blockSent, early>> PROVE P
    BY <1>0, <1>1
  <1>2. ASSUME UNCHANGED <<gaveUp, events>> PROVE Q
    BY <1>0, <1>2
  <1>3. BlockSync \subseteq SyncGroup
    BY DEF BlockSync
  <1>4. ASSUME NEW h \in ReqGroup, ReportReturns(h) PROVE P /\ Q
    <2>1. P
      BY <1>3, <1>4, FlushEffect DEF ReportReturns
    <2> QED BY <1>2, <1>4, <2>1 DEF ReportReturns
  <1>5. ASSUME NEW skip \in BOOLEAN, FlushOutbox(skip) PROVE P /\ Q
    <2>1. P
      BY <1>3, <1>5, FlushEffect DEF FlushOutbox
    <2> QED BY <1>2, <1>5, <2>1 DEF FlushOutbox
  <1>6. ASSUME NEW h \in ReqGroup, FailCafeRequest(h) PROVE P /\ Q
    BY <1>0, <1>6 DEF FailCafeRequest
  <1>7. ASSUME NEW h \in ReqGroup, NotifyDone(h) PROVE P /\ Q
    <2>1. Event(h) \in {"update", "complete", "failed"}
      BY DEF Event
    <2> QED BY <1>0, <1>7, <2>1 DEF NotifyDone
  <1> HIDE DEF P, Q
  <1>8. P /\ Q
    BY <1>1, <1>2, <1>4, <1>5, <1>6, <1>7 DEF RqNext, WriteCafeRequest, WriteBodyFails,
       CafeRequestPending, CafeRequestNotPending, UploadEnds, CompleteCafeRequest,
       CompleteStatus, CollectGarbage, Kill, rqVars
  <1> QED BY <1>8 DEF P, Q

\* The setbacks of an upload stay within their bound.
LEMMA SetbacksBound ==
    ASSUME setbacks \in 0..MaxSetbacks
    PROVE  /\ setbacks < MaxSetbacks /\ setbacks' = setbacks + 1 => setbacks' \in 0..MaxSetbacks
           /\ setbacks' = setbacks => setbacks' \in 0..MaxSetbacks
  <1>1. MaxSetbacks \in Nat
    BY RqConstants
  <1> QED BY <1>1

\* The variables keep their types.
LEMMA RqTypes ==
    ASSUME RqTypeOK, [RqNext]_rqVars
    PROVE  RqTypeOK'
  <1> DEFINE P == /\ rstatus' \in [ReqGroup -> Open \cup {"none", "complete"}]
                  /\ body' \subseteq ReqGroup
                  /\ payload' \in [Envelope -> {"pinned", "loose", "collected"}]
                  /\ upload' \in [ReqGroup -> {"idle", "written", "sending", "complete",
                                               "fail", "over"}]
                  /\ report' \in [ReqGroup -> Report]
                  /\ setbacks' \in 0..MaxSetbacks
  <1>0. NoReport \in Report
    BY DEF Report, NoReport
  <1>1. ASSUME NEW h \in ReqGroup,
               \/ WriteCafeRequest(h) \/ WriteBodyFails(h)
               \/ CafeRequestPending(h) \/ CafeRequestNotPending(h)
        PROVE  P
    <2>1. CASE WriteCafeRequest(h)
      BY <2>1 DEF RqTypeOK, WriteCafeRequest
    <2>2. CASE WriteBodyFails(h)
      BY <2>2, SetbacksBound DEF RqTypeOK, WriteBodyFails
    <2>3. CASE CafeRequestPending(h)
      BY <2>3 DEF RqTypeOK, CafeRequestPending, Open
    <2>4. CASE CafeRequestNotPending(h)
      BY <2>4, SetbacksBound DEF RqTypeOK, CafeRequestNotPending, Open
    <2> QED BY <1>1, <2>1, <2>2, <2>3, <2>4
  <1>2. ASSUME NEW h \in ReqGroup, NEW k \in {"complete", "fail"}, UploadEnds(h, k) PROVE P
    BY <1>2 DEF RqTypeOK, UploadEnds
  <1>3. ASSUME NEW h \in ReqGroup, CompleteCafeRequest(h) PROVE P
    <2>1. report' \in [ReqGroup -> Report]
      <3>1. /\ report \in [ReqGroup -> Report]
            /\ report' = [report EXCEPT ![h] = [report[h] EXCEPT !.at = "updated"]]
        BY <1>3 DEF RqTypeOK, CompleteCafeRequest
      <3>2. [report[h] EXCEPT !.at = "updated"] \in Report
        BY <3>1 DEF Report
      <3> QED BY ONLY <3>1, <3>2, h \in ReqGroup
    <2>2. rstatus' \in [ReqGroup -> Open \cup {"none", "complete"}]
      BY <1>3 DEF RqTypeOK, CompleteCafeRequest
    <2> QED BY <1>3, <2>1, <2>2 DEF RqTypeOK, CompleteCafeRequest
  <1>4. ASSUME NEW h \in ReqGroup, NEW k \in {"complete", "fail"}, ReadStatus(h, k)
        PROVE  report' \in [ReqGroup -> Report]
    <2>1. SyncOf[h] \in SyncGroup
      BY RqConstants
    <2>2. SyncGroupStatus(h).id \in SyncGroup \cup {""}
      BY <2>1 DEF SyncGroupStatus
    <2>3. SyncGroupStatus(h).last \in BOOLEAN
      <3>1. CASE rstatus[h] = "none"
        BY <3>1 DEF SyncGroupStatus
      <3>2. CASE rstatus[h] # "none"
        BY <3>2 DEF SyncGroupStatus
      <3> QED BY <3>1, <3>2
    <2>4. [at |-> "read", kind |-> k, id |-> SyncGroupStatus(h).id,
           last |-> SyncGroupStatus(h).last] \in Report
      BY <2>2, <2>3 DEF Report
    <2>5. report \in [ReqGroup -> Report]
      BY DEF RqTypeOK
    <2> QED BY <1>4, <2>4, <2>5 DEF ReadStatus
  <1>5. ASSUME NEW h \in ReqGroup, CompleteStatus(h) PROVE P
    BY <1>4, <1>5 DEF RqTypeOK, CompleteStatus
  <1>6. ASSUME NEW h \in ReqGroup, FailCafeRequest(h) PROVE P
    BY <1>4, <1>6 DEF RqTypeOK, FailCafeRequest
  <1>7. ASSUME NEW h \in ReqGroup, NotifyDone(h) PROVE P
    <2>1. report' \in [ReqGroup -> Report]
      <3>1. /\ report \in [ReqGroup -> Report]
            /\ report' = [report EXCEPT ![h] = [report[h] EXCEPT !.at = "notified"]]
        BY <1>7 DEF RqTypeOK, NotifyDone
      <3>2. [report[h] EXCEPT !.at = "notified"] \in Report
        BY <3>1 DEF Report
      <3> QED BY ONLY <3>1, <3>2, h \in ReqGroup
    <2>2. rstatus' \in [ReqGroup -> Open \cup {"none", "complete"}]
      BY <1>7 DEF RqTypeOK, NotifyDone
    <2> QED BY <1>7, <2>1, <2>2 DEF RqTypeOK, NotifyDone
  <1>8. BlockSync \subseteq SyncGroup
    BY DEF BlockSync
  <1>9. ASSUME NEW h \in ReqGroup, ReportReturns(h) PROVE P
    <2>1. rstatus' \in [ReqGroup -> Open \cup {"none", "complete"}]
      BY <1>8, <1>9, FlushEffect DEF ReportReturns
    <2> QED BY <1>0, <1>9, <2>1 DEF RqTypeOK, ReportReturns
  <1>10. ASSUME NEW skip \in BOOLEAN, FlushOutbox(skip) PROVE P
    <2>1. rstatus' \in [ReqGroup -> Open \cup {"none", "complete"}]
      BY <1>8, <1>10, FlushEffect DEF FlushOutbox
    <2> QED BY <1>10, <2>1 DEF RqTypeOK, FlushOutbox
  <1>11. ASSUME NEW h \in Envelope, CollectGarbage(h) PROVE P
    BY <1>11 DEF RqTypeOK, CollectGarbage
  <1>12. ASSUME Kill PROVE P
    <2>1. report' \in [ReqGroup -> Report]
      <3>1. report' = [g \in ReqGroup |-> NoReport]
        BY <1>12 DEF Kill
      <3> QED BY ONLY <1>0, <3>1
    <2> QED BY <1>12, <2>1, SetbacksBound DEF RqTypeOK, Kill
  <1>13. ASSUME UNCHANGED rqVars PROVE P
    BY <1>13 DEF RqTypeOK, rqVars
  <1> HIDE DEF P
  <1>14. P
    <2>1. CASE \E h \in ReqGroup :
                  \/ WriteCafeRequest(h) \/ WriteBodyFails(h)
                  \/ CafeRequestPending(h) \/ CafeRequestNotPending(h)
      BY <1>1, <2>1
    <2>2. CASE \E h \in ReqGroup :
                  \/ \E k \in {"complete", "fail"} : UploadEnds(h, k)
                  \/ CompleteCafeRequest(h) \/ CompleteStatus(h) \/ FailCafeRequest(h)
                  \/ NotifyDone(h) \/ ReportReturns(h)
      BY <1>2, <1>3, <1>5, <1>6, <1>7, <1>9, <2>2
    <2>3. CASE \E skip \in BOOLEAN : FlushOutbox(skip)
      BY <1>10, <2>3
    <2>4. CASE \E h \in Envelope : CollectGarbage(h)
      BY <1>11, <2>4
    <2>5. CASE RqNext
      BY <1>12, <2>1, <2>2, <2>3, <2>4, <2>5 DEF RqNext
    <2> QED BY <1>13, <2>5
  <1>15. early' \subseteq blockSent'
    BY Grows DEF RqTypeOK
  <1> QED BY <1>14, <1>15, Grows DEF P, RqTypeOK

\* What a report knows at its place survives the steps of others.
LEMMA ReportPlaceKept ==
    ASSUME RqInv, [RqNext]_rqVars
    PROVE  ReportPlace'
  <1> SUFFICES ASSUME NEW g \in ReqGroup
               PROVE  /\ report'[g].at # "no" => upload'[g] \in {"complete", "fail"}
                      /\ report'[g].at = "updated" => rstatus'[g] \notin Open
                      /\ report'[g].at \in {"read", "notified"} =>
                             /\ report'[g].id \in {SyncOf[g], ""}
                             /\ report'[g].kind \in {"complete", "fail"}
                             /\ report'[g].kind = "complete" => rstatus'[g] \notin Open
                             /\ report'[g].kind = "fail" => g \in gaveUp'
                      /\ report'[g].at = "notified" => rstatus'[g] \notin Open
                      /\ upload'[g] = "over" => rstatus'[g] \notin Open
    BY DEF ReportPlace
  <1>1. SyncGroupStatus(g).id \in {SyncOf[g], ""}
    BY DEF SyncGroupStatus
  <1>2. gaveUp \subseteq gaveUp'
    BY Grows DEF RqInv
  <1>3. CASE Same(g) /\ Settled(g)
    BY <1>2, <1>3 DEF RqInv, ReportPlace, Same, Settled, Open
  <1>4. CASE report' = report /\ upload'[g] # "over"
    <2>1. CASE report[g].at = "no"
      BY <1>4, <2>1
    <2>2. CASE report[g].at # "no"
      BY <1>2, <1>4, <2>2, GroupMoves
         DEF RqInv, ReportPlace, GroupMove, Same, Settled, NoReport, Open
    <2> QED BY <2>1, <2>2
  <1>5. CASE report'[g].at = "updated" /\ upload'[g] = "complete" /\ rstatus'[g] \notin Open
    BY <1>5
  <1>6. CASE /\ rstatus' = rstatus /\ upload'[g] = upload[g] /\ report'[g].at = "read"
             /\ report[g].at = "updated" /\ report'[g].kind = "complete"
             /\ report'[g].id = SyncGroupStatus(g).id
    BY <1>1, <1>6 DEF RqInv, ReportPlace
  <1>7. CASE /\ rstatus' = rstatus /\ upload'[g] = "fail" /\ report'[g].at = "read"
             /\ report'[g].kind = "fail" /\ report'[g].id = SyncGroupStatus(g).id
             /\ g \in gaveUp'
    BY <1>1, <1>7
  <1>8. CASE /\ report[g].at = "read" /\ report'[g].at = "notified" /\ upload'[g] = upload[g]
             /\ report'[g].kind = report[g].kind /\ report'[g].id = report[g].id
             /\ rstatus'[g] = IF report[g].kind = "fail" THEN "none" ELSE rstatus[g]
    BY <1>2, <1>8 DEF RqInv, ReportPlace, Open
  <1>9. CASE /\ report'[g] = NoReport /\ upload'[g] = "over" /\ report[g].at = "notified"
             /\ Settled(g)
    <2>1. report'[g].at = "no"
      <3>1. NoReport.at = "no"
        BY DEF NoReport
      <3> QED BY <1>9, <3>1
    <2>2. rstatus[g] \notin Open
      BY <1>9 DEF RqInv, ReportPlace
    <2>3. rstatus'[g] \notin Open
      BY <1>9, <2>2 DEF Settled, Open
    <2> QED BY <2>1, <2>3
  <1>10. CASE upload'[g] = upload[g] /\ report'[g] = NoReport /\ rstatus' = rstatus
    <2>1. report'[g].at = "no"
      <3>1. NoReport.at = "no"
        BY DEF NoReport
      <3> QED BY <1>10, <3>1
    <2> QED BY <1>10, <2>1 DEF RqInv, ReportPlace
  <1>11. GroupMove(g)
    BY GroupMoves DEF RqInv
  <1>12. {"none", "complete"} \cap Open = {}
    BY DEF Open
  <1> QED BY <1>3, <1>4, <1>5, <1>6, <1>7, <1>8, <1>9, <1>10, <1>11, <1>12, ZenonT(60) DEF GroupMove

\* A group whose end was told stays told.
LEMMA ToldStays ==
    ASSUME RqTypeOK, [RqNext]_rqVars, NEW s \in SyncGroup, Told(s)
    PROVE  Told(s)'
  <1>1. /\ gaveUp \subseteq gaveUp' /\ events[s] \subseteq events'[s]
        /\ events[""] \subseteq events'[""]
    BY Grows
  <1> QED BY <1>1 DEF Told, Of

\* A report that is about to tell does so, or goes on; the report that is the
\* last to read the status is one of these.
LEMMA SomeoneTellsKept ==
    ASSUME RqInv, [RqNext]_rqVars
    PROVE  SomeoneTells'
  <1> SUFFICES ASSUME NEW s \in SyncGroup, \A g \in Of(s) : StatusRead(g)'
               PROVE  Told(s)' \/ \E g \in Of(s) : AboutToTell(g)'
    BY DEF SomeoneTells, Of
  <1>0. ASSUME NEW g \in Of(s) PROVE g \in ReqGroup /\ SyncOf[g] = s
    BY DEF Of
  <1>1. ASSUME NEW g \in Of(s) PROVE GroupMove(g)
    BY <1>0, <1>1, GroupMoves DEF RqInv
  <1>2. RqTypeOK /\ ReportPlace
    BY DEF RqInv
  <1>3. CASE \A g \in Of(s) : StatusRead(g)
    <2>1. CASE Told(s)
      BY <1>2, <2>1, ToldStays
    <2>2. ASSUME NEW w \in Of(s), AboutToTell(w) PROVE Told(s)' \/ AboutToTell(w)'
      <3>1. /\ report[w].at = "read" /\ upload[w] \in {"complete", "fail"}
            /\ report[w].id \in {s, ""} /\ report[w].kind \in {"complete", "fail"}
            /\ report[w].kind = "fail" => w \in gaveUp
            /\ report[w].kind = "fail" \/ report[w].last
        BY <1>0, <1>2, <2>2 DEF ReportPlace, AboutToTell
      <3>2. StatusRead(w)'
        BY <2>2
      <3>3. NoReport.at = "no"
        BY DEF NoReport
      <3>4. CASE report'[w] = report[w]
        BY <2>2, <3>4 DEF AboutToTell
      <3>5. CASE report'[w].at = "read" /\ report'[w].kind = "fail"
        BY <3>5 DEF AboutToTell
      <3>6. CASE Event(w) \in events'[report[w].id]
        <4>1. w \in gaveUp => w \in gaveUp'
          BY <1>2, Grows
        <4>2. CASE report[w].kind = "fail"
          <5>1. "failed" \in events'[s] \cup events'[""]
            BY <3>1, <3>6, <4>2 DEF Event
          <5> QED BY <2>2, <3>1, <4>1, <4>2, <5>1 DEF Told, Of
        <4>3. CASE report[w].kind = "complete"
          <5>1. "complete" \in events'[s] \cup events'[""]
            BY <3>1, <3>6, <4>3 DEF Event
          <5> QED BY <5>1 DEF Told
        <4> QED BY <3>1, <4>2, <4>3
      <3> QED BY <1>1, <2>2, <3>1, <3>2, <3>3, <3>4, <3>5, <3>6
              DEF GroupMove, Same, StatusRead
    <2> QED BY <1>2, <1>3, <2>1, <2>2 DEF RqInv, SomeoneTells
  <1>4. ASSUME NEW h \in Of(s), ~StatusRead(h) PROVE \E g \in Of(s) : AboutToTell(g)'
    <2>1. StatusRead(h)' /\ GroupMove(h)
      BY <1>1, <1>4
    <2>2. NoReport.at = "no"
      BY DEF NoReport
    <2>3. CASE report'[h].at = "read" /\ report'[h].kind = "fail"
      BY <1>4, <2>3 DEF AboutToTell
    <2>4. CASE /\ report[h].at = "updated" /\ rstatus' = rstatus /\ report'[h].at = "read"
               /\ report'[h].last = SyncGroupStatus(h).last
      <3>1. CASE \E g \in Of(s) : report'[g].at = "read" /\ report'[g].kind = "fail"
        BY <3>1 DEF AboutToTell
      <3>2. CASE \A g \in Of(s) : report'[g].at = "read" => report'[g].kind # "fail"
        <4>1. ASSUME NEW g \in Of(s) PROVE rstatus'[g] \notin Open
          <5>1. StatusRead(g)'
            BY <4>1
          <5> QED BY <1>0, <3>2, <4>1, <5>1, ReportPlaceKept DEF ReportPlace, StatusRead
        <4>2. \A g \in Of(SyncOf[h]) : rstatus[g] \notin Open
          BY <1>0, <1>4, <2>4, <4>1
        <4>3. SyncGroupStatus(h).last
          BY <4>2 DEF SyncGroupStatus
        <4> QED BY <1>4, <2>4, <4>3 DEF AboutToTell
      <3> QED BY <3>1, <3>2
    <2> QED BY <1>0, <1>2, <1>4, <2>1, <2>2, <2>3, <2>4
            DEF GroupMove, Same, StatusRead, ReportPlace
  <1> QED BY <1>3, <1>4

\* Only the return of its last report ends a group.
LEMMA OnlyReturnEnds ==
    ASSUME RqTypeOK, [RqNext]_rqVars, NEW g \in ReqGroup, upload[g] # "over",
           upload'[g] = "over"
    PROVE  ReportReturns(g)
  <1> USE DEF RqTypeOK
  <1>1. \A h \in ReqGroup : ~WriteCafeRequest(h) /\ ~WriteBodyFails(h)
    BY DEF WriteCafeRequest, WriteBodyFails
  <1>2. \A h \in ReqGroup : ~CafeRequestPending(h) /\ ~CafeRequestNotPending(h)
    BY DEF CafeRequestPending, CafeRequestNotPending
  <1>3. \A h \in ReqGroup, k \in {"complete", "fail"} : ~UploadEnds(h, k)
    BY DEF UploadEnds
  <1>4. \A h \in ReqGroup : ~CompleteCafeRequest(h) /\ ~CompleteStatus(h)
    BY DEF CompleteCafeRequest, CompleteStatus
  <1>5. \A h \in ReqGroup : ~FailCafeRequest(h) /\ ~NotifyDone(h)
    BY DEF FailCafeRequest, NotifyDone
  <1>6. \A h \in ReqGroup : ReportReturns(h) => h = g
    BY DEF ReportReturns
  <1>7. \A skip \in BOOLEAN : ~FlushOutbox(skip)
    BY DEF FlushOutbox
  <1>8. \A h \in Envelope : ~CollectGarbage(h)
    BY DEF CollectGarbage
  <1>9. ~Kill /\ ~UNCHANGED rqVars
    BY DEF Kill, rqVars
  <1> QED BY <1>1, <1>2, <1>3, <1>4, <1>5, <1>6, <1>7, <1>8, <1>9 DEF RqNext

\* The flush of that report finds every request of the block settled.
LEMMA NotStrandedKept ==
    ASSUME RqInv, [RqNext]_rqVars
    PROVE  NotStranded'
  <1> SUFFICES ASSUME NEW s \in BlockSync, \A g \in Of(s) : upload'[g] = "over"
               PROVE  s \in blockSent'
    BY DEF NotStranded, Finished, BlockSync, Of
  <1>1. s \in SyncGroup /\ BlockSync \subseteq SyncGroup
    BY DEF BlockSync
  <1>2. CASE \A g \in Of(s) : upload[g] = "over"
    BY <1>2, Grows DEF RqInv, NotStranded, Finished
  <1>3. ASSUME NEW h \in Of(s), upload[h] # "over" PROVE s \in blockSent'
    <2>1. h \in ReqGroup /\ Of(s) \subseteq ReqGroup
      BY <1>3 DEF Of
    <2>2. ReportReturns(h)
      BY <1>3, <2>1, OnlyReturnEnds DEF RqInv
    <2>3. \A g \in Of(s) : g = h \/ upload[g] = "over"
      BY <2>1, <2>2 DEF RqInv, RqTypeOK, ReportReturns
    <2>4. SyncGroupDone(s)
      BY <2>1, <2>2, <2>3 DEF RqInv, ReportPlace, ReportReturns, SyncGroupDone
    <2>5. FlushBlocks(BlockSync, {})
      BY <2>2 DEF ReportReturns
    <2>6. RqTypeOK
      BY DEF RqInv
    <2> QED BY ONLY <1>1, <2>4, <2>5, <2>6, s \in BlockSync, FlushEffect
  <1> QED BY <1>2, <1>3

\* The body of an upload that is over stays deleted.
LEMMA BodiesGoneKept ==
    ASSUME RqInv, [RqNext]_rqVars
    PROVE  BodiesGone'
  <1> SUFFICES ASSUME NEW g \in ReqGroup, upload'[g] = "over" PROVE g \notin body'
    BY DEF BodiesGone
  <1>1. GroupMove(g)
    BY GroupMoves DEF RqInv
  <1>2. upload[g] = "over" => g \notin body /\ report[g].at = "no"
    BY DEF RqInv, BodiesGone, ReportPlace
  <1>3. CASE upload[g] # "over"
    BY <1>3, OnlyReturnEnds DEF RqInv, ReportReturns
  <1>4. CASE upload[g] = "over"
    <2>1. NoReport.at = "no"
      BY DEF NoReport
    <2> QED BY <1>1, <1>2, <1>4, <2>1 DEF GroupMove, Same
  <1> QED BY <1>3, <1>4

-----------------------------------------------------------------------------
\* The invariant of the requests holds of every behaviour.
THEOREM RqInvariant == RqSpec => []RqInv
  <1>1. RqInv /\ [RqNext]_rqVars => RqInv'
    BY RqTypes, ReportPlaceKept, SomeoneTellsKept, NotStrandedKept, BodiesGoneKept, Grows
       DEF RqInv, BlockHeldBack
  <1> QED BY RqInitOK, <1>1, PTL DEF RqSpec

\* A sync group ends once, as a whole.
THEOREM SyncGroupAlwaysEnds == RqSpec => []SyncGroupEnds
  <1>1. RqInv => SyncGroupEnds
    <2> SUFFICES ASSUME RqInv PROVE EndReported
      BY DEF RqInv, SyncGroupEnds
    <2> SUFFICES ASSUME NEW s \in SyncGroup, \A g \in Of(s) : upload[g] = "over"
                 PROVE  Told(s)
      BY DEF EndReported, Finished, Told
    <2>1. \A g \in Of(s) : StatusRead(g) /\ ~AboutToTell(g)
      BY DEF RqInv, ReportPlace, StatusRead, AboutToTell, Of
    <2> QED BY <2>1 DEF RqInv, SomeoneTells
  <1> QED BY <1>1, RqInvariant, PTL

-----------------------------------------------------------------------------
(* The repository made and the node started                                  *)

\* The configuration of IPFS is that of some profile, with the ports.
IpfsMade ==
    \E mobile, server \in BOOLEAN :
        ipfs = [InitIpfs(mobile, server) EXCEPT !.swarm = SwarmPorts(outline.ports)]

\* How far InitRepo is.
Progress ==
    /\ node.at = "ipfs" => ipfs = Absent
    /\ node.at \in {"ipfs", "create", "write", "version", "number", "ports", "tables"} =>
        base.tables = 0
    /\ node.at \in {"create", "write", "version", "number", "ports"} =>
        ipfs = InitIpfs(outline.options.mobile, outline.options.server)
    /\ node.at \in {"tables", "rest", "seed", "self", "options", "recreate", "rewrite"} => IpfsMade
    /\ node.at \in {"version", "number", "ports", "tables", "rest", "seed", "self", "options"} =>
        textile \in Config
    /\ node.at \in {"ports", "tables", "rest", "seed", "self", "options", "recreate", "rewrite"} =>
        versionFile = "16"
    /\ node.at \in {"seed", "self", "options", "recreate", "rewrite"} => base.tables = 2
    /\ node.at \in {"self", "options", "recreate", "rewrite"} => base.seed
    /\ node.at \in {"options", "recreate", "rewrite"} => base.self
    /\ node.at \in {"recreate", "rewrite"} => node.conf.owner

\* Requests change the configuration of a node that runs; a repository with
\* tables has its ports; and the account thread, step by step.
Places ==
    /\ node.at # "up" => \A v \in Visitors : visits[v].at \in {"ask", "done"}
    /\ base.tables > 0 => IpfsMade
    /\ node.at \in {"new", "profile"} => IpfsMade
    /\ node.at \in {"join", "tell"} => row \in Rows /\ row.id = "own" /\ row.schema
    /\ node.at = "tell" => row.joined

\* What a repository is that was made and not damaged since, and a node that
\* was started from it.
Unharmed ==
    scars \subseteq {"thread"} =>
        /\ ~stuck
        /\ node.at \notin Initial /\ ipfs # Absent =>
            /\ versionFile = "16" /\ base = [tables |-> 2, seed |-> TRUE, self |-> TRUE]
            /\ textile = Torn \/ (textile \in Config /\ textile.owner)
            /\ textile \in Config \/ \E v \in Visitors : visits[v].at = "write"
        /\ node.at \in {"new", "up"} \cup Starting => ipfs # Absent /\ node.seed /\ node.conf.owner
        /\ node.at = "add" => row = Absent

Ready ==
    scars = {} =>
        /\ node.at \notin {"join", "tell"} /\ row \in Rows /\ row.id = "own" =>
                row.joined /\ row.told = Friends
        /\ node.at = "up" => row \in Rows /\ row.id = "own" /\ row.schema

SetInv == SetupTypeOK /\ Progress /\ Places /\ Unharmed /\ Ready /\ ProfileFits

\* What the process does, and nothing else of it.
LEMMA StepFacts ==
    ASSUME SetupTypeOK, NEW from, NEW to \in {"off", "new", "up"} \cup Initial \cup Starting,
           Step(from, to)
    PROVE  /\ node.at = from /\ node'.at = to /\ node'.conf = node.conf /\ node'.seed = node.seed
           /\ node' \in [at : {"off", "new", "up"} \cup Initial \cup Starting, conf : Config,
                         seed : BOOLEAN]
  BY DEF SetupTypeOK, Step

\* What a behaviour is about has its type.
LEMMA OutlineFits ==
    ASSUME SetupTypeOK
    PROVE  /\ outline \in Outline /\ outline.options \in Config
           /\ outline.asks \in [Visitors -> {Absent} \cup Ask]
           /\ outline.options.mobile \in BOOLEAN /\ outline.options.server \in BOOLEAN
  <1>1. outline \in Outline
    BY SetupAssumption DEF SetupTypeOK, SetupAssumption
  <1>2. outline.options \in Config /\ outline.asks \in [Visitors -> {Absent} \cup Ask]
    BY <1>1 DEF Outline
  <1> QED BY <1>1, <1>2 DEF Config

\* A configuration with options is one, and names its owner.
LEMMA OptionsFit ==
    ASSUME NEW conf \in Config, NEW options \in Config
    PROVE  WithOptions(conf, options) \in Config /\ WithOptions(conf, options).owner
  BY DEF WithOptions, Config

\* The default configuration is a configuration.
LEMMA DefaultFits == Default \in Config
  BY DEF Default, Config

\* The configuration of IPFS for a profile, with these ports.
Profiled(mobile, server, ports) ==
    [noAnnounce |-> server, addrFilters |-> server, mdns |-> ~server,
     routing |-> IF server THEN "dht" ELSE "dhtclient",
     reprovider |-> IF server THEN 12 ELSE 0,
     lowWater |-> IF mobile THEN 200 ELSE 600, highWater |-> IF mobile THEN 500 ELSE 900,
     disableMetrics |-> mobile, disableNat |-> server, relayHop |-> server,
     autoRelay |-> ~server, autoNat |-> server, swarm |-> ports]

\* What InitIpfs wrote, as a record.
LEMMA InitProfiled ==
    ASSUME NEW mobile, NEW server, NEW ports
    PROVE  /\ [InitIpfs(mobile, server) EXCEPT !.swarm = ports] = Profiled(mobile, server, ports)
           /\ Profiled(mobile, server, ports).swarm = ports
  BY DEF InitIpfs, Profiled

\* What ensureProfile makes of the configuration of any profile.
LEMMA EnsureFits ==
    ASSUME NEW old, NEW ports, old.swarm = ports, NEW conf \in Config
    PROVE  EnsureProfile(Profile(conf), old) =
               [InitIpfs(conf.mobile, conf.server /\ ~conf.mobile) EXCEPT !.swarm = ports]
  <1> DEFINE p == Profile(conf)
             server == conf.server /\ ~conf.mobile
  <1>1. conf.mobile \in BOOLEAN /\ conf.server \in BOOLEAN
    BY DEF Config
  <1>2. (p = "mobile") = conf.mobile /\ (p = "server") = server
    BY <1>1 DEF Profile
  <1>3. EnsureProfile(p, old) = Profiled(p = "mobile", p = "server", ports)
    <2> HIDE DEF p
    <2> QED BY DEF EnsureProfile, Profiled
  <1>4. Profiled(p = "mobile", p = "server", ports) = Profiled(conf.mobile, server, ports)
    <2> HIDE DEF p, server
    <2> QED BY <1>2, Zenon
  <1> QED BY <1>3, <1>4, InitProfiled

\* A repository with its configuration of IPFS is not absent.
LEMMA MadeIsThere ==
    ASSUME IpfsMade
    PROVE  ipfs # Absent
  <1>1. PICK mobile, server \in BOOLEAN :
            ipfs = [InitIpfs(mobile, server) EXCEPT !.swarm = SwarmPorts(outline.ports)]
    BY DEF IpfsMade
  <1>2. ipfs = Profiled(mobile, server, SwarmPorts(outline.ports))
    BY <1>1, InitProfiled
  <1>4. "swarm" \in DOMAIN ipfs
    BY <1>2 DEF Profiled
  <1>3. "swarm" \notin DOMAIN Absent
    BY DEF Absent
  <1> QED BY <1>3, <1>4

\* A missing row is no row.
LEMMA NoRowIsNone == Absent \notin Rows
  <1>1. ASSUME NEW r \in Rows
        PROVE  r # Absent
    <2>1. "told" \in DOMAIN r /\ "told" \notin DOMAIN Absent
      BY DEF Rows, Absent
    <2> QED BY <2>1
  <1> QED BY <1>1

NodeStates == [at : {"off", "new", "up"} \cup Initial \cup Starting, conf : Config, seed : BOOLEAN]

\* A step within InitRepo that keeps count of where it is.
LEMMA InitialStep ==
    ASSUME SetInv, UNCHANGED <<row, outline, visits, stuck, scars, outages>>,
           node.at \in Initial \/ (node.at = "off" /\ ipfs = Absent),
           node' \in NodeStates, node'.at \in Initial,
           textile' \in Config \cup {Torn, Absent}, versionFile' \in {"none", "empty", "16"},
           base' \in [tables : 0..2, seed : BOOLEAN, self : BOOLEAN],
           Progress', base'.tables > 0 => IpfsMade'
    PROVE  SetInv'
  <1> USE DEF SetInv
  <1>1. SetupTypeOK'
    BY DEF SetupTypeOK, NodeStates
  <1>2. node'.at \notin {"off", "new", "up"} \cup Starting
    BY DEF Initial, Starting
  <1>3. node.at \notin {"up", "join", "tell"}
    BY DEF Initial
  <1>4. Places'
    <2>1. \A v \in Visitors : visits'[v].at \in {"ask", "done"}
      BY <1>3 DEF Places
    <2> QED BY <1>2, <2>1 DEF Places, Starting
  <1>5. Unharmed'
    BY <1>2 DEF Unharmed, Starting
  <1>6. Ready' /\ ProfileFits'
    BY <1>2, <1>3 DEF Ready, ProfileFits, Starting
  <1> QED BY <1>1, <1>4, <1>5, <1>6

\* The steps of InitRepo, and what Progress says of each place.
LEMMA InitSteps ==
    ASSUME SetInv,
           \/ BeginInit \/ InitIpfsRepo \/ CreateConfig \/ WriteVersion \/ ApplySwarmPorts
           \/ InitTables \/ ConfigureBase \/ AddSelf \/ ApplyOptions
           \/ WriteConfig /\ node.at # "rewrite"
    PROVE  SetInv'
  <1> USE DEF SetInv
  <1>0. UNCHANGED <<row, outline, visits, stuck, scars, outages>>
    BY DEF BeginInit, InitIpfsRepo, CreateConfig, WriteVersion, ApplySwarmPorts, InitTables,
           ConfigureBase, AddSelf, ApplyOptions, WriteConfig, fileVars, setupRest
  <1>1. node \in NodeStates /\ base \in [tables : 0..2, seed : BOOLEAN, self : BOOLEAN]
        /\ textile \in Config \cup {Torn, Absent} /\ versionFile \in {"none", "empty", "16"}
    BY DEF SetupTypeOK, NodeStates
  <1> DEFINE Goal(from, to) == /\ node.at = from /\ node'.at = to /\ node' \in NodeStates
                               /\ node.at \in Initial /\ node'.at \in Initial
  <1>2. CASE BeginInit
    <2>1. Step("off", "ipfs") /\ ipfs = Absent /\ UNCHANGED <<textile, ipfs, versionFile, base>>
      BY <1>2 DEF BeginInit, fileVars
    <2>2. node.at = "off" /\ node'.at = "ipfs" /\ node' \in NodeStates /\ node'.at \in Initial
      BY <2>1, StepFacts DEF Initial, NodeStates
    <2>3. base.tables = 0
      BY <2>1, MadeIsThere DEF Places, SetupTypeOK
    <2>4. Progress'
      BY <2>1, <2>2, <2>3 DEF Progress
    <2> QED BY <1>0, <1>1, <2>1, <2>2, <2>3, <2>4, InitialStep
  <1>3. CASE InitIpfsRepo
    <2>1. /\ Step("ipfs", "create") /\ UNCHANGED <<textile, versionFile, base>>
          /\ ipfs' = InitIpfs(outline.options.mobile, outline.options.server)
      BY <1>3 DEF InitIpfsRepo
    <2>2. Goal("ipfs", "create")
      BY <2>1, StepFacts DEF Initial, NodeStates
    <2>3. base.tables = 0
      BY <2>2 DEF Progress
    <2>4. Progress'
      BY <1>0, <2>1, <2>2, <2>3 DEF Progress
    <2> QED BY <1>0, <1>1, <2>1, <2>2, <2>3, <2>4, InitialStep
  <1>4. CASE CreateConfig
    <2>1. /\ Step("create", "write") \/ Step("recreate", "rewrite")
          /\ textile' = Torn /\ UNCHANGED <<ipfs, versionFile, base>>
      BY <1>4 DEF CreateConfig
    <2>2. (Goal("create", "write") \/ Goal("recreate", "rewrite")) /\ node'.conf = node.conf
      BY <2>1, StepFacts DEF Initial, NodeStates
    <2>3. (base.tables > 0 => IpfsMade) /\ (IpfsMade => IpfsMade')
      BY <1>0, <2>1 DEF Places, IpfsMade
    <2>4. Progress'
      BY <1>0, <2>1, <2>2, <2>3 DEF Progress
    <2> QED BY <1>0, <1>1, <2>1, <2>2, <2>3, <2>4, InitialStep
  <1>5. CASE WriteConfig /\ node.at # "rewrite"
    <2>1. /\ Step("write", "version") /\ textile' = Default /\ UNCHANGED <<ipfs, versionFile, base>>
      BY <1>5 DEF WriteConfig, Step
    <2>2. Goal("write", "version")
      BY <2>1, StepFacts DEF Initial, NodeStates
    <2>3. base.tables = 0
      BY <2>2 DEF Progress
    <2>4. Progress'
      BY <1>0, <2>1, <2>2, <2>3, DefaultFits DEF Progress
    <2> QED BY <1>0, <1>1, <2>1, <2>2, <2>3, <2>4, DefaultFits, InitialStep
  <1>6. CASE WriteVersion
    <2>1. /\ \/ Step("version", "number") /\ versionFile' = "empty"
             \/ Step("number", "ports") /\ versionFile' = "16"
          /\ UNCHANGED <<textile, ipfs, base>>
      BY <1>6 DEF WriteVersion
    <2>2. \/ Goal("version", "number") /\ versionFile' = "empty"
          \/ Goal("number", "ports") /\ versionFile' = "16"
      BY <2>1, StepFacts DEF Initial, NodeStates
    <2>3. base.tables = 0
      BY <2>2 DEF Progress
    <2>4. Progress'
      BY <1>0, <2>1, <2>2, <2>3 DEF Progress
    <2> QED BY <1>0, <1>1, <2>1, <2>2, <2>3, <2>4, InitialStep
  <1>7. CASE ApplySwarmPorts
    <2>1. /\ Step("ports", "tables") /\ ipfs' = [ipfs EXCEPT !.swarm = SwarmPorts(outline.ports)]
          /\ UNCHANGED <<textile, versionFile, base>>
      BY <1>7 DEF ApplySwarmPorts
    <2>2. Goal("ports", "tables")
      BY <2>1, StepFacts DEF Initial, NodeStates
    <2>3. base.tables = 0 /\ ipfs = InitIpfs(outline.options.mobile, outline.options.server)
      BY <2>2 DEF Progress
    <2>4. IpfsMade'
      BY <1>0, <2>1, <2>3, OutlineFits DEF IpfsMade
    <2>5. Progress'
      BY <1>0, <2>1, <2>2, <2>3, <2>4 DEF Progress
    <2> QED BY <1>0, <1>1, <2>1, <2>2, <2>3, <2>5, InitialStep
  <1>8. CASE InitTables
    <2>1. /\ \/ Step("tables", "rest") /\ base' = [base EXCEPT !.tables = 1]
             \/ Step("rest", "seed") /\ base' = [base EXCEPT !.tables = 2]
          /\ UNCHANGED <<textile, ipfs, versionFile>>
      BY <1>8 DEF InitTables
    <2>2. \/ Goal("tables", "rest") /\ base' = [base EXCEPT !.tables = 1]
          \/ Goal("rest", "seed") /\ base' = [base EXCEPT !.tables = 2]
      BY <2>1, StepFacts DEF Initial, NodeStates
    <2>3. IpfsMade /\ IpfsMade'
      BY <1>0, <2>1, <2>2 DEF Progress, IpfsMade
    <2>4. Progress' /\ base' \in [tables : 0..2, seed : BOOLEAN, self : BOOLEAN]
      BY <1>0, <1>1, <2>1, <2>2, <2>3 DEF Progress
    <2> QED BY <1>0, <1>1, <2>1, <2>2, <2>3, <2>4, InitialStep
  <1>9. CASE ConfigureBase \/ AddSelf
    <2>1. /\ \/ Step("seed", "self") /\ base' = [base EXCEPT !.seed = TRUE]
             \/ Step("self", "options") /\ base' = [base EXCEPT !.self = TRUE]
          /\ UNCHANGED <<textile, ipfs, versionFile>>
      BY <1>9 DEF ConfigureBase, AddSelf
    <2>2. \/ Goal("seed", "self") /\ base' = [base EXCEPT !.seed = TRUE]
          \/ Goal("self", "options") /\ base' = [base EXCEPT !.self = TRUE]
      BY <2>1, StepFacts DEF Initial, NodeStates
    <2>3. IpfsMade /\ IpfsMade'
      BY <1>0, <2>1, <2>2 DEF Progress, IpfsMade
    <2>4. Progress' /\ base' \in [tables : 0..2, seed : BOOLEAN, self : BOOLEAN]
      BY <1>0, <1>1, <2>1, <2>2, <2>3 DEF Progress
    <2> QED BY <1>0, <1>1, <2>1, <2>2, <2>3, <2>4, InitialStep
  <1>10. CASE ApplyOptions
    <2>1. /\ node.at = "options" /\ UNCHANGED <<textile, ipfs, versionFile, base>>
          /\ node' = [node EXCEPT !.at = "recreate", !.conf = WithOptions(textile, outline.options)]
      BY <1>10 DEF ApplyOptions, fileVars
    <2>2. WithOptions(textile, outline.options) \in Config
          /\ WithOptions(textile, outline.options).owner
      BY <2>1, OutlineFits, OptionsFit DEF Progress
    <2>3. /\ node' \in NodeStates /\ node'.at = "recreate" /\ node'.conf.owner
          /\ node.at \in Initial /\ node'.at \in Initial
      BY <1>1, <2>1, <2>2 DEF NodeStates, Initial
    <2>4. IpfsMade /\ IpfsMade'
      BY <1>0, <2>1 DEF Progress, IpfsMade
    <2>5. Progress'
      BY <1>0, <2>1, <2>3, <2>4 DEF Progress
    <2> QED BY <1>0, <1>1, <2>1, <2>3, <2>4, <2>5, InitialStep
  <1> QED BY <1>2, <1>3, <1>4, <1>5, <1>6, <1>7, <1>8, <1>9, <1>10

\* The end of InitRepo: the repository is made.
LEMMA InitEnds ==
    ASSUME SetInv, WriteConfig, node.at = "rewrite"
    PROVE  SetInv'
  <1> USE DEF SetInv
  <1>0. /\ UNCHANGED <<ipfs, versionFile, base, row, outline, visits, stuck, scars, outages>>
        /\ Step("rewrite", "off") /\ textile' = node.conf
    BY DEF WriteConfig, setupRest, Step
  <1>1. node'.at = "off" /\ node' \in NodeStates
    BY <1>0, StepFacts DEF NodeStates
  <1>2. node.conf \in Config /\ node.conf.owner /\ node.at \in Initial
    BY DEF SetupTypeOK, Progress, Initial
  <1>3. SetupTypeOK'
    BY <1>0, <1>1, <1>2 DEF SetupTypeOK, NodeStates
  <1>4. Progress' /\ Places'
    <2>1. \A v \in Visitors : visits'[v].at \in {"ask", "done"}
      BY <1>0 DEF Places
    <2>2. base'.tables > 0 => IpfsMade'
      BY <1>0 DEF Places, IpfsMade
    <2> QED BY <1>1, <2>1, <2>2 DEF Progress, Places
  <1>5. base = [tables |-> 2, seed |-> TRUE, self |-> TRUE] /\ versionFile = "16"
    <2>1. base.tables = 2 /\ base.seed /\ base.self /\ versionFile = "16"
      BY DEF Progress
    <2> QED BY <2>1 DEF SetupTypeOK
  <1>6. Unharmed'
    BY <1>0, <1>1, <1>2, <1>5 DEF Unharmed, Starting
  <1>7. Ready' /\ ProfileFits'
    BY <1>0, <1>1, <1>2 DEF Ready, ProfileFits, Initial
  <1> QED BY <1>3, <1>4, <1>6, <1>7

\* A truncated file is no configuration.
LEMMA TornIsNone == Torn \notin Config
  <1>1. ASSUME NEW conf \in Config
        PROVE  conf # Torn
    <2>1. "api" \in DOMAIN conf /\ "api" \notin DOMAIN Torn
      BY DEF Config, Torn
    <2> QED BY <2>1
  <1> QED BY <1>1

\* A node reads what is there, and starts.
LEMMA NewSteps ==
    ASSUME SetInv, NewTextile \/ Start \/ StartProfile \/ LoadThreads
    PROVE  SetInv'
  <1> USE DEF SetInv
  <1>0. UNCHANGED <<textile, versionFile, base, row, outline, visits, scars, outages>>
    BY DEF NewTextile, Start, StartProfile, LoadThreads, fileVars, setupRest
  <1>1. node \in NodeStates /\ NoNode \in NodeStates /\ base \in [tables : 0..2, seed : BOOLEAN, self : BOOLEAN]
    BY DefaultFits DEF SetupTypeOK, NodeStates, NoNode
  <1>2. CASE NewTextile
    <2>1. /\ node.at = "off" /\ ipfs # Absent /\ ipfs' = ipfs
          /\ \/ /\ versionFile = "16" /\ textile \in Config /\ base.tables > 0
                /\ node' = [at |-> "new", conf |-> textile, seed |-> base.seed] /\ stuck' = stuck
             \/ /\ ~(versionFile = "16" /\ textile \in Config /\ base.tables > 0)
                /\ node' = NoNode /\ stuck' = TRUE
      BY <1>2 DEF NewTextile, StartFails, GetAccount, fileVars
    <2>2. node' \in NodeStates /\ node'.at \in {"off", "new"} /\ (node'.at = "off" => node' = NoNode)
      <3>1. NoNode.at = "off"
        BY DEF NoNode
      <3>2. base.seed \in BOOLEAN
        BY <1>1
      <3>3. textile \in Config =>
                /\ [at |-> "new", conf |-> textile, seed |-> base.seed] \in NodeStates
                /\ [at |-> "new", conf |-> textile, seed |-> base.seed].at = "new"
        BY <3>2 DEF NodeStates
      <3> QED BY <1>1, <2>1, <3>1, <3>3
    <2>3. SetupTypeOK'
      BY <1>0, <2>1, <2>2 DEF SetupTypeOK, NodeStates
    <2>4. IpfsMade => IpfsMade'
      BY <1>0, <2>1 DEF IpfsMade
    <2>5. node.at \notin Initial /\ node.at \notin {"join", "tell", "up"}
      BY <2>1 DEF Initial
    <2>6. Progress'
      BY <2>2 DEF Progress
    <2>7. Places'
      <3>1. node'.at = "new" => base.tables > 0
        BY <2>1, <2>2 DEF NoNode
      <3> QED BY <1>0, <2>2, <2>4, <2>5, <3>1 DEF Places
    <2>8. ASSUME scars \subseteq {"thread"}
          PROVE  /\ versionFile = "16" /\ base = [tables |-> 2, seed |-> TRUE, self |-> TRUE]
                 /\ textile \in Config /\ textile.owner /\ node'.at = "new"
      <3>1. /\ versionFile = "16" /\ base = [tables |-> 2, seed |-> TRUE, self |-> TRUE]
            /\ textile = Torn \/ (textile \in Config /\ textile.owner)
            /\ textile \in Config \/ \E v \in Visitors : visits[v].at = "write"
        BY <2>1, <2>5, <2>8 DEF Unharmed
      <3>2. textile \in Config
        BY <2>5, <3>1 DEF Places
      <3>3. textile.owner
        BY <3>1, <3>2, TornIsNone
      <3> QED BY <2>1, <3>1, <3>2, <3>3
    <2>9. Unharmed'
      BY <1>0, <2>1, <2>2, <2>8 DEF Unharmed, Starting, NoNode
    <2>10. Ready' /\ ProfileFits'
      BY <1>0, <2>2, <2>5 DEF Ready, ProfileFits
    <2> QED BY <2>3, <2>6, <2>7, <2>9, <2>10
  <1>3. CASE Start
    <2>1. Step("new", "profile") /\ UNCHANGED <<ipfs, stuck>>
      BY <1>3 DEF Start, fileVars, setupRest
    <2>2. /\ node.at = "new" /\ node'.at = "profile" /\ node' \in NodeStates
          /\ node'.conf = node.conf /\ node'.seed = node.seed
      BY <2>1, StepFacts DEF Starting, NodeStates
    <2>3. SetupTypeOK'
      BY <1>0, <2>1, <2>2 DEF SetupTypeOK, NodeStates
    <2>4. IpfsMade => IpfsMade'
      BY <1>0, <2>1 DEF IpfsMade
    <2>5. Progress' /\ Places' /\ Unharmed' /\ Ready' /\ ProfileFits'
      BY <1>0, <2>1, <2>2, <2>4 DEF Progress, Places, Unharmed, Ready, ProfileFits, Initial, Starting
    <2> QED BY <2>3, <2>5
  <1>4. CASE StartProfile
    <2>1. Step("profile", "load") /\ UNCHANGED stuck /\ ipfs' = EnsureProfile(Profile(node.conf), ipfs)
      BY <1>4 DEF StartProfile, setupRest
    <2>2. /\ node.at = "profile" /\ node'.at = "load" /\ node' \in NodeStates
          /\ node'.conf = node.conf /\ node'.seed = node.seed /\ node.conf \in Config
      BY <1>1, <2>1, StepFacts DEF Starting, NodeStates
    <2>3. SetupTypeOK'
      BY <1>0, <2>1, <2>2 DEF SetupTypeOK, NodeStates
    <2>4. PICK mobile, server \in BOOLEAN :
              ipfs = [InitIpfs(mobile, server) EXCEPT !.swarm = SwarmPorts(outline.ports)]
      BY <2>2 DEF Places, IpfsMade
    <2>5. ipfs.swarm = SwarmPorts(outline.ports)
      BY <2>4, InitProfiled
    <2>6. ipfs' = [InitIpfs(node.conf.mobile, node.conf.server /\ ~node.conf.mobile)
                       EXCEPT !.swarm = SwarmPorts(outline.ports)]
      <3>1. PICK conf \in Config : conf = node.conf
        BY <2>2
      <3>2. EnsureProfile(Profile(conf), ipfs) =
              [InitIpfs(conf.mobile, conf.server /\ ~conf.mobile) EXCEPT !.swarm = SwarmPorts(outline.ports)]
        BY <2>5, EnsureFits
      <3> QED BY <2>1, <3>1, <3>2
    <2>7. IpfsMade'
      <3>1. node.conf.mobile \in BOOLEAN /\ (node.conf.server /\ ~node.conf.mobile) \in BOOLEAN
        BY <2>2 DEF Config
      <3> QED BY <1>0, <2>6, <3>1 DEF IpfsMade
    <2>8. ipfs' # Absent
      <3>1. (IpfsMade => ipfs # Absent)'
        BY MadeIsThere, PTL
      <3> QED BY <2>7, <3>1
    <2>9. ProfileFits'
      BY <1>0, <2>2, <2>6 DEF ProfileFits
    <2>10. Progress' /\ Places' /\ Unharmed' /\ Ready'
      BY <1>0, <2>1, <2>2, <2>7, <2>8 DEF Progress, Places, Unharmed, Ready, Initial, Starting
    <2> QED BY <2>3, <2>9, <2>10
  <1>5. CASE LoadThreads
    <2>1. /\ node.at = "load" /\ ipfs' = ipfs
          /\ \/ node.seed /\ Step("load", "thread") /\ stuck' = stuck
             \/ ~node.seed /\ node' = NoNode /\ stuck' = TRUE
      BY <1>5 DEF LoadThreads, StartFails, fileVars
    <2>2. IpfsMade => IpfsMade'
      BY <1>0, <2>1 DEF IpfsMade
    <2>3. CASE node.seed /\ Step("load", "thread") /\ stuck' = stuck
      <3>1. /\ node'.at = "thread" /\ node' \in NodeStates /\ node'.conf = node.conf
            /\ node'.seed = node.seed
        BY <2>3, StepFacts DEF Starting, NodeStates
      <3>2. SetupTypeOK'
        BY <1>0, <2>3, <3>1 DEF SetupTypeOK, NodeStates
      <3>3. Progress' /\ Places' /\ Unharmed' /\ Ready' /\ ProfileFits'
        BY <1>0, <2>1, <2>2, <2>3, <3>1
        DEF Progress, Places, Unharmed, Ready, ProfileFits, Initial, Starting
      <3> QED BY <3>2, <3>3
    <2>4. CASE ~node.seed /\ node' = NoNode /\ stuck' = TRUE
      <3>1. node'.at = "off" /\ node' \in NodeStates
        BY <1>1, <2>4 DEF NoNode
      <3>2. SetupTypeOK'
        BY <1>0, <2>4, <3>1 DEF SetupTypeOK, NodeStates
      <3>3. ~(scars \subseteq {"thread"})
        BY <2>1, <2>4 DEF Unharmed, Starting
      <3>4. Progress' /\ Places' /\ Unharmed' /\ Ready' /\ ProfileFits'
        BY <1>0, <2>1, <2>2, <3>1, <3>3 DEF Progress, Places, Unharmed, Ready, ProfileFits
      <3> QED BY <3>2, <3>4
    <2> QED BY <2>1, <2>3, <2>4
  <1> QED BY <1>2, <1>3, <1>4, <1>5

\* The account thread is found, removed, or made.
LEMMA ThreadSteps ==
    ASSUME SetInv,
           \/ \E found \in BOOLEAN : KeepAccountThread(found)
           \/ RemoveMalformed \/ NoAccountThread \/ AddAccountThread \/ JoinAccountThread
           \/ AnnounceContacts
    PROVE  SetInv'
  <1> USE DEF SetInv
  <1>0. UNCHANGED <<textile, ipfs, versionFile, base, outline, visits, scars, outages>>
    BY DEF KeepAccountThread, RemoveMalformed, NoAccountThread, AddAccountThread,
           JoinAccountThread, AnnounceContacts, fileVars, setupRest
  <1>1. node \in NodeStates /\ NoNode \in NodeStates /\ row \in Rows \cup {Absent} /\ Absent \notin Rows
    BY DefaultFits, NoRowIsNone DEF SetupTypeOK, NodeStates, NoNode
  <1>2. /\ (base.tables > 0 => IpfsMade) => (base'.tables > 0 => IpfsMade')
        /\ node.at # "up" => \A v \in Visitors : visits'[v].at \in {"ask", "done"}
    BY <1>0 DEF IpfsMade, Places
  <1>3. ASSUME NEW to \in {"add", "join", "tell", "up"}, node.at \in {"thread", "add", "join", "tell"},
               node'.at = to, node' \in NodeStates, node'.conf = node.conf, node'.seed = node.seed,
               stuck' = stuck, row' \in Rows \cup {Absent},
               to \in {"join", "tell"} => row' \in Rows /\ row'.id = "own" /\ row'.schema,
               to = "tell" => row'.joined,
               to = "add" /\ scars \subseteq {"thread"} => row' = Absent,
               scars = {} /\ to \notin {"join", "tell"} /\ row' \in Rows /\ row'.id = "own" =>
                   row'.joined /\ row'.told = Friends,
               scars = {} /\ to = "up" => row' \in Rows /\ row'.id = "own" /\ row'.schema
        PROVE  SetInv'
    <2>1. SetupTypeOK'
      BY <1>0, <1>3 DEF SetupTypeOK, NodeStates
    <2>2. Progress' /\ Places'
      BY <1>0, <1>2, <1>3 DEF Progress, Places
    <2>3. Unharmed'
      BY <1>0, <1>3 DEF Unharmed, Initial, Starting
    <2>4. Ready' /\ ProfileFits'
      BY <1>0, <1>3 DEF Ready, ProfileFits
    <2> QED BY <2>1, <2>2, <2>3, <2>4
  <1>4. CASE \E found \in BOOLEAN : KeepAccountThread(found)
    <2>1. PICK found \in BOOLEAN : KeepAccountThread(found)
      BY <1>4
    <2>2. /\ row # Absent /\ row.id = "own" /\ Step("thread", "up") /\ stuck' = stuck
          /\ row' = IF found THEN row ELSE [row EXCEPT !.schema = TRUE]
          /\ found => row.schema
      BY <2>1 DEF KeepAccountThread, AccountThread, setupRest
    <2>3. node.at = "thread" /\ node'.at = "up" /\ node' \in NodeStates
          /\ node'.conf = node.conf /\ node'.seed = node.seed
      BY <2>2, StepFacts DEF NodeStates
    <2>4. row' \in Rows /\ row'.id = "own" /\ row'.schema /\ row'.joined = row.joined
          /\ row'.told = row.told
      BY <1>1, <2>2 DEF Rows
    <2>5. scars = {} => row.joined /\ row.told = Friends
      BY <1>1, <2>2, <2>3 DEF Ready
    <2> QED BY <1>3, <2>2, <2>3, <2>4, <2>5
  <1>5. CASE RemoveMalformed
    <2>1. Step("thread", "add") /\ row' = Absent /\ stuck' = stuck
      BY <1>5 DEF RemoveMalformed, setupRest
    <2>2. node.at = "thread" /\ node'.at = "add" /\ node' \in NodeStates
          /\ node'.conf = node.conf /\ node'.seed = node.seed
      BY <2>1, StepFacts DEF Starting, NodeStates
    <2> QED BY <1>1, <1>3, <2>1, <2>2
  <1>6. CASE NoAccountThread
    <2>1. Step("thread", "add") /\ row' = row /\ stuck' = stuck /\ ~(node.conf.owner /\ row # Absent)
      BY <1>6 DEF NoAccountThread, AccountThread, fileVars, setupRest
    <2>2. node.at = "thread" /\ node'.at = "add" /\ node' \in NodeStates
          /\ node'.conf = node.conf /\ node'.seed = node.seed
      BY <2>1, StepFacts DEF Starting, NodeStates
    <2>3. scars \subseteq {"thread"} => row = Absent
      BY <2>1, <2>2 DEF Unharmed, Starting
    <2>4. scars = {} /\ row \in Rows /\ row.id = "own" => row.joined /\ row.told = Friends
      BY <2>2 DEF Ready
    <2> QED BY <1>1, <1>3, <2>1, <2>2, <2>3, <2>4
  <1>7. CASE AddAccountThread
    <2>1. /\ node.at = "add"
          /\ \/ Step("add", "join") /\ row' = OwnRow /\ stuck' = stuck
             \/ row # Absent /\ node' = NoNode /\ stuck' = TRUE /\ row' = row
      BY <1>7 DEF AddAccountThread, StartFails
    <2>2. CASE Step("add", "join") /\ row' = OwnRow /\ stuck' = stuck
      <3>1. node'.at = "join" /\ node' \in NodeStates /\ node'.conf = node.conf /\ node'.seed = node.seed
        BY <2>2, StepFacts DEF Starting, NodeStates
      <3>2. OwnRow \in Rows /\ OwnRow.id = "own" /\ OwnRow.schema
        BY DEF OwnRow, Rows
      <3> QED BY <1>1, <1>3, <2>1, <2>2, <3>1, <3>2
    <2>3. CASE row # Absent /\ node' = NoNode /\ stuck' = TRUE /\ row' = row
      <3>1. ~(scars \subseteq {"thread"})
        BY <2>1, <2>3 DEF Unharmed
      <3>2. node'.at = "off" /\ node' \in NodeStates
        BY <1>1, <2>3 DEF NoNode
      <3>3. SetupTypeOK'
        BY <1>0, <2>3, <3>2 DEF SetupTypeOK, NodeStates
      <3>4. Progress' /\ Places' /\ Unharmed' /\ ProfileFits'
        BY <1>0, <1>2, <2>1, <3>1, <3>2 DEF Progress, Places, Unharmed, ProfileFits
      <3>5. Ready'
        BY <1>0, <3>1 DEF Ready
      <3> QED BY <3>3, <3>4, <3>5
    <2> QED BY <2>1, <2>2, <2>3
  <1>8. CASE JoinAccountThread
    <2>1. Step("join", "tell") /\ row' = [row EXCEPT !.joined = TRUE] /\ stuck' = stuck
      BY <1>8 DEF JoinAccountThread, setupRest
    <2>2. node.at = "join" /\ node'.at = "tell" /\ node' \in NodeStates
          /\ node'.conf = node.conf /\ node'.seed = node.seed
      BY <2>1, StepFacts DEF Starting, NodeStates
    <2>3. row' \in Rows /\ row'.id = "own" /\ row'.schema /\ row'.joined
      <3>1. row \in Rows /\ row.id = "own" /\ row.schema
        BY <2>2 DEF Places
      <3> QED BY <2>1, <3>1 DEF Rows
    <2> QED BY <1>3, <2>1, <2>2, <2>3
  <1>9. CASE AnnounceContacts
    <2>0. row \in Rows /\ row.id = "own" /\ row.schema /\ row.joined /\ node.at = "tell"
      BY <1>9 DEF Places, AnnounceContacts
    <2>1. CASE \E c \in Friends \ row.told : row' = [row EXCEPT !.told = @ \cup {c}] /\ UNCHANGED node
      <3>1. row' \in Rows /\ row'.id = "own" /\ row'.schema /\ row'.joined
        BY <2>0, <2>1 DEF Rows
      <3>2. stuck' = stuck
        BY <1>9 DEF AnnounceContacts, setupRest
      <3> QED BY <1>1, <1>3, <2>0, <2>1, <3>1, <3>2
    <2>2. CASE row.told = Friends /\ Step("tell", "up") /\ UNCHANGED row
      <3>1. node'.at = "up" /\ node' \in NodeStates /\ node'.conf = node.conf /\ node'.seed = node.seed
        BY <2>2, StepFacts DEF Starting, NodeStates
      <3>2. stuck' = stuck
        BY <1>9 DEF AnnounceContacts, setupRest
      <3> QED BY <1>1, <1>3, <2>0, <2>2, <3>1, <3>2
    <2> QED BY <1>9, <2>1, <2>2 DEF AnnounceContacts
  <1> QED BY <1>4, <1>5, <1>6, <1>7, <1>8, <1>9

\* The node stops, or the process ends.
LEMMA StopSteps ==
    ASSUME SetInv, StopNode \/ ProcessEnds
    PROVE  SetInv'
  <1> USE DEF SetInv
  <1>0. UNCHANGED <<textile, ipfs, versionFile, base, row, outline, stuck>>
    BY DEF StopNode, ProcessEnds, fileVars, setupRest
  <1>1. node \in NodeStates /\ NoNode \in NodeStates /\ NoNode.at = "off"
    BY DefaultFits DEF SetupTypeOK, NodeStates, NoNode
  <1>2. IpfsMade => IpfsMade'
    BY <1>0 DEF IpfsMade
  <1>3. CASE StopNode
    <2>1. /\ node.at = "up" /\ \A v \in Visitors : visits[v].at \in {"ask", "done"}
          /\ UNCHANGED <<visits, scars, outages>>
          /\ node' = IF node.conf.mobile THEN [node EXCEPT !.at = "new"] ELSE NoNode
      BY <1>3 DEF StopNode, setupRest
    <2>2. /\ node' \in NodeStates /\ node'.at \in {"new", "off"}
          /\ node'.at = "new" => node'.conf = node.conf /\ node'.seed = node.seed
      BY <1>1, <2>1 DEF NodeStates
    <2>3. SetupTypeOK'
      BY <1>0, <2>1, <2>2 DEF SetupTypeOK, NodeStates
    <2>4. IpfsMade
      <3>1. ipfs = [InitIpfs(node.conf.mobile, node.conf.server /\ ~node.conf.mobile)
                        EXCEPT !.swarm = SwarmPorts(outline.ports)]
        BY <2>1 DEF ProfileFits
      <3>2. node.conf.mobile \in BOOLEAN /\ (node.conf.server /\ ~node.conf.mobile) \in BOOLEAN
        BY <1>1 DEF NodeStates, Config
      <3> QED BY <3>1, <3>2 DEF IpfsMade
    <2>5. Progress' /\ Places' /\ ProfileFits'
      BY <1>0, <1>2, <2>1, <2>2, <2>4 DEF Progress, Places, ProfileFits
    <2>6. Unharmed' /\ Ready'
      BY <1>0, <2>1, <2>2 DEF Unharmed, Ready, Initial, Starting
    <2> QED BY <2>3, <2>5, <2>6
  <1>4. CASE ProcessEnds
    <2>1. /\ node.at # "off" /\ node' = NoNode /\ outages < Outages /\ outages' = outages + 1
          /\ visits' = [v \in Visitors |-> IF visits[v].at = "ask" THEN visits[v]
                                           ELSE [visits[v] EXCEPT !.at = "done"]]
          /\ scars' = scars \cup (IF node.at \in Initial THEN {"init"} ELSE {})
                            \cup (IF node.at \in {"join", "tell"} THEN {"thread"} ELSE {})
                            \cup (IF textile = Torn /\ (\E v \in Visitors : visits[v].at = "write")
                                  THEN {"torn"} ELSE {})
      BY <1>4 DEF ProcessEnds
    <2>2. /\ visits' \in [Visitors -> [at : {"ask", "truncate", "write", "done"}, conf : Config]]
          /\ \A v \in Visitors : visits'[v].at \in {"ask", "done"}
      BY <2>1 DEF SetupTypeOK
    <2>3. outages' \in 0..Outages
      BY <2>1, SetupAssumption DEF SetupTypeOK, SetupAssumption
    <2>4. scars' \subseteq {"init", "torn", "mixed", "owner", "thread"} /\ scars \subseteq scars'
      BY <2>1 DEF SetupTypeOK
    <2>5. SetupTypeOK'
      BY <1>0, <1>1, <2>1, <2>2, <2>3, <2>4 DEF SetupTypeOK, NodeStates
    <2>6. Progress' /\ Places' /\ ProfileFits'
      BY <1>0, <1>1, <1>2, <2>1, <2>2 DEF Progress, Places, ProfileFits
    <2>7. Unharmed'
      <3> SUFFICES ASSUME scars' \subseteq {"thread"}
                   PROVE  /\ ~stuck
                          /\ ipfs # Absent =>
                                /\ versionFile = "16"
                                /\ base = [tables |-> 2, seed |-> TRUE, self |-> TRUE]
                                /\ textile = Torn \/ (textile \in Config /\ textile.owner)
                                /\ textile \in Config
        BY <1>0, <1>1, <2>1 DEF Unharmed, Starting
      <3>1. scars \subseteq {"thread"} /\ node.at \notin Initial
            /\ ~(textile = Torn /\ (\E v \in Visitors : visits[v].at = "write"))
        BY <2>1
      <3> QED BY <3>1 DEF Unharmed
    <2>8. Ready'
      <3> SUFFICES ASSUME scars' = {}
                   PROVE  row \in Rows /\ row.id = "own" => row.joined /\ row.told = Friends
        BY <1>0, <1>1, <2>1 DEF Ready
      <3>1. scars = {} /\ node.at \notin {"join", "tell"}
        BY <2>1
      <3> QED BY <3>1 DEF Ready
    <2> QED BY <2>5, <2>6, <2>7, <2>8
  <1> QED BY <1>3, <1>4

\* A field of one configuration put into another.
LEMMA PatchFits ==
    ASSUME NEW old \in Config, NEW conf \in Config,
           NEW field \in {"owner", "mobile", "server", "api"}
    PROVE  [old EXCEPT ![field] = conf[field]] \in Config
  <1>1. CASE field = "owner"
    BY <1>1 DEF Config
  <1>2. CASE field = "mobile"
    BY <1>2 DEF Config
  <1>3. CASE field = "server"
    BY <1>3 DEF Config
  <1>4. CASE field = "api"
    BY <1>4 DEF Config
  <1> QED BY <1>1, <1>2, <1>3, <1>4

\* Requests that write the configuration.
LEMMA VisitSteps ==
    ASSUME SetInv, NEW v \in Visitors, PatchConfig(v) \/ SetConfig(v) \/ Truncate(v) \/ WriteFile(v)
    PROVE  SetInv'
  <1> USE DEF SetInv
  <1>0. UNCHANGED <<ipfs, versionFile, base, row, outline, node, stuck, outages>>
    BY DEF PatchConfig, SetConfig, Truncate, WriteFile, fileVars
  <1>1. node.at = "up" /\ visits[v].conf \in Config
    BY DEF PatchConfig, SetConfig, Truncate, WriteFile, Places, SetupTypeOK
  <1>2. ASSUME NEW to \in {"truncate", "write", "done"}, NEW conf \in Config, Visited(v, to, conf),
               textile' \in Config \cup {Torn, Absent}, scars \subseteq scars',
               scars' \subseteq {"init", "torn", "mixed", "owner", "thread"},
               scars' \subseteq {"thread"} /\ scars \subseteq {"thread"} =>
                   /\ textile' = Torn \/ (textile' \in Config /\ textile'.owner)
                   /\ textile' \in Config \/ \E w \in Visitors : visits'[w].at = "write"
        PROVE  SetInv'
    <2>1. visits' \in [Visitors -> [at : {"ask", "truncate", "write", "done"}, conf : Config]]
      BY <1>2 DEF Visited, SetupTypeOK
    <2>2. SetupTypeOK'
      BY <1>0, <1>2, <2>1 DEF SetupTypeOK
    <2>3. IpfsMade => IpfsMade'
      BY <1>0 DEF IpfsMade
    <2>4. Progress' /\ Places' /\ ProfileFits'
      BY <1>0, <1>1, <2>3 DEF Progress, Places, ProfileFits
    <2>5. Unharmed'
      BY <1>0, <1>1, <1>2 DEF Unharmed, Initial, Starting
    <2>6. Ready'
      BY <1>0, <1>1, <1>2 DEF Ready
    <2> QED BY <2>2, <2>4, <2>5, <2>6
  <1>3. textile \in Config \cup {Torn, Absent} /\ scars \subseteq {"init", "torn", "mixed", "owner", "thread"}
        /\ visits \in [Visitors -> [at : {"ask", "truncate", "write", "done"}, conf : Config]]
    BY DEF SetupTypeOK
  <1>4. scars \subseteq {"thread"} =>
            /\ textile = Torn \/ (textile \in Config /\ textile.owner)
            /\ textile \in Config \/ \E w \in Visitors : visits[w].at = "write"
    BY <1>1 DEF Unharmed, Initial, Starting
  <1>5. CASE PatchConfig(v) \/ SetConfig(v)
    <2>1. PICK to \in {"truncate", "done"}, conf \in Config : Visited(v, to, conf)
      <3>1. CASE PatchConfig(v)
        <4>1. outline.asks[v] \in Ask
          BY <3>1, OutlineFits DEF PatchConfig
        <4>2. /\ outline.asks[v].field \in {"owner", "mobile", "server", "api"}
              /\ outline.asks[v].conf \in Config
          BY <4>1 DEF Ask
        <4>3. \/ textile \in Config /\ Visited(v, "truncate",
                    [textile EXCEPT ![outline.asks[v].field] = outline.asks[v].conf[outline.asks[v].field]])
              \/ Visited(v, "done", Default)
          BY <3>1 DEF PatchConfig
        <4> QED BY <4>2, <4>3, PatchFits, DefaultFits
      <3>2. CASE SetConfig(v)
        <4>1. outline.asks[v] \in Ask
          BY <3>2, OutlineFits DEF SetConfig
        <4>2. outline.asks[v].conf \in Config
          BY <4>1 DEF Ask
        <4> QED BY <3>2, <4>2 DEF SetConfig
      <3> QED BY <1>5, <3>1, <3>2
    <2>2. textile' = textile /\ scars' = scars /\ visits[v].at = "ask"
      BY <1>5 DEF PatchConfig, SetConfig, fileVars
    <2>3. \A w \in Visitors : visits[w].at = "write" => visits'[w].at = "write"
      BY <1>3, <2>1, <2>2 DEF Visited
    <2> QED BY <1>2, <1>3, <1>4, <2>1, <2>2, <2>3
  <1>6. CASE Truncate(v)
    <2>1. Visited(v, "write", visits[v].conf) /\ textile' = Torn /\ scars' = scars
      BY <1>6 DEF Truncate
    <2>2. visits'[v].at = "write"
      BY <1>3, <2>1 DEF Visited
    <2> QED BY <1>1, <1>2, <1>3, <2>1, <2>2
  <1>7. CASE WriteFile(v)
    <2> DEFINE conf == visits[v].conf
               mixed == textile \in Config /\ Size(textile) > Size(conf)
    <2>1. /\ Visited(v, "done", conf) /\ textile' = IF mixed THEN Torn ELSE conf
          /\ scars' = scars \cup (IF mixed THEN {"mixed"} ELSE {})
                            \cup (IF conf.owner THEN {} ELSE {"owner"})
      BY <1>7 DEF WriteFile
    <2> HIDE DEF mixed
    <2>2. scars' \subseteq {"thread"} => textile' = conf /\ conf.owner
      BY <2>1
    <2>3. textile' \in {Torn, conf} /\ scars \subseteq scars'
          /\ scars' \subseteq {"init", "torn", "mixed", "owner", "thread"}
      BY <1>3, <2>1
    <2> QED BY <1>1, <1>2, <2>1, <2>2, <2>3
  <1> QED BY <1>5, <1>6, <1>7

\* The invariant holds of every machine before the repository is made.
LEMMA SetInvInit ==
    ASSUME SetupInit
    PROVE  SetInv
  <1> DEFINE fresh == outline.from = "new"
  <1>1. outline \in Outline /\ outline.options \in Config
        /\ outline.from \in {"new", "made", "malformed", "schemaless"}
        /\ outline.options.mobile \in BOOLEAN /\ outline.options.server \in BOOLEAN
    <2>1. outline \in Outline
      BY SetupAssumption DEF SetupInit, SetupAssumption
    <2> QED BY <2>1 DEF Outline, Config
  <1>2. /\ node = NoNode /\ visits = [v \in Visitors |-> [at |-> "ask", conf |-> Default]]
        /\ stuck = FALSE /\ scars = {} /\ outages = 0 /\ outline \in Outlines
    BY DEF SetupInit
  <1>3. node \in NodeStates /\ node.at = "off"
    BY <1>2, DefaultFits DEF NodeStates, NoNode
  <1>4. WithOptions(Default, outline.options) \in Config /\ WithOptions(Default, outline.options).owner
    BY <1>1, DefaultFits, OptionsFit
  <1>5. fresh => /\ textile = Absent /\ ipfs = Absent /\ versionFile = "none"
                 /\ base = [tables |-> 0, seed |-> FALSE, self |-> FALSE]
    BY DEF SetupInit
  <1>6. ~fresh => /\ textile = WithOptions(Default, outline.options) /\ versionFile = "16"
                  /\ ipfs = [InitIpfs(outline.options.mobile, outline.options.server)
                                 EXCEPT !.swarm = SwarmPorts(outline.ports)]
                  /\ base = [tables |-> 2, seed |-> TRUE, self |-> TRUE]
    BY DEF SetupInit
  <1>7. row \in Rows \cup {Absent} /\ (row \in Rows /\ row.id = "own" => row.joined /\ row.told = Friends)
    <2>1. CASE outline.from = "malformed"
      <3>1. row = [OwnRow EXCEPT !.id = "other", !.joined = TRUE]
        BY <2>1 DEF SetupInit
      <3> QED BY <3>1 DEF OwnRow, Rows
    <2>2. CASE outline.from = "schemaless"
      <3>1. row = [OwnRow EXCEPT !.schema = FALSE, !.joined = TRUE, !.told = Friends]
        BY <2>2 DEF SetupInit
      <3> QED BY <3>1 DEF OwnRow, Rows
    <2>3. CASE outline.from \notin {"malformed", "schemaless"}
      <3>1. row = Absent
        BY <2>3 DEF SetupInit
      <3> QED BY <3>1, NoRowIsNone
    <2> QED BY <2>1, <2>2, <2>3
  <1> HIDE DEF fresh
  <1>8. base \in [tables : 0..2, seed : BOOLEAN, self : BOOLEAN]
    <2>1. /\ [tables |-> 0, seed |-> FALSE, self |-> FALSE] \in
                 [tables : 0..2, seed : BOOLEAN, self : BOOLEAN]
          /\ [tables |-> 2, seed |-> TRUE, self |-> TRUE] \in
                 [tables : 0..2, seed : BOOLEAN, self : BOOLEAN]
      OBVIOUS
    <2> QED BY <1>5, <1>6, <2>1, Zenon
  <1>9. SetupTypeOK
    <2>1. visits \in [Visitors -> [at : {"ask", "truncate", "write", "done"}, conf : Config]]
      BY <1>2, DefaultFits
    <2>2. outages \in 0..Outages
      BY <1>2, SetupAssumption DEF SetupAssumption
    <2> QED BY <1>2, <1>3, <1>4, <1>5, <1>6, <1>7, <1>8, <2>1, <2>2 DEF SetupTypeOK, NodeStates
  <1>10. base.tables > 0 => IpfsMade
    BY <1>1, <1>5, <1>6 DEF IpfsMade
  <1>11. Progress /\ Places
    BY <1>2, <1>3, <1>10 DEF Progress, Places
  <1>12. Unharmed
    BY <1>2, <1>3, <1>4, <1>5, <1>6 DEF Unharmed, Starting
  <1>13. Ready /\ ProfileFits
    BY <1>3, <1>7 DEF Ready, ProfileFits
  <1> QED BY <1>9, <1>11, <1>12, <1>13 DEF SetInv

\* Every step keeps the invariant.
LEMMA SetInvStep ==
    ASSUME SetInv, [SetupNext]_setupVars
    PROVE  SetInv'
  <1>1. CASE SetupNext
    <2>1. ASSUME NEW v \in Visitors, PatchConfig(v) \/ SetConfig(v) \/ Truncate(v) \/ WriteFile(v)
          PROVE  SetInv'
      BY <2>1, VisitSteps
    <2> QED BY <1>1, <2>1, InitSteps, InitEnds, NewSteps, ThreadSteps, StopSteps DEF SetupNext
  <1>2. CASE UNCHANGED setupVars
    <2>1. UNCHANGED <<outline, textile, ipfs, versionFile, base, row, node, visits, stuck, scars,
                      outages>>
      BY <1>2 DEF setupVars
    <2>2. IpfsMade' = IpfsMade
      BY <2>1 DEF IpfsMade
    <2>3. SetupTypeOK' /\ Unharmed' /\ Ready' /\ ProfileFits'
      BY <2>1 DEF SetInv, SetupTypeOK, Unharmed, Ready, ProfileFits
    <2>4. Progress' /\ Places'
      BY <2>1, <2>2 DEF SetInv, Progress, Places
    <2> QED BY <2>3, <2>4 DEF SetInv
  <1> QED BY <1>1, <1>2

\* The files, the process and the requests have their types.
THEOREM SetupTypeCorrect == SetupSpec => []SetupTypeOK
  <1>1. SetInv => SetupTypeOK
    BY DEF SetInv
  <1> QED BY <1>1, SetInvInit, SetInvStep, PTL DEF SetupSpec

\* A node starts from its repository again, however its starts were cut short,
\* unless InitRepo was, or a request damaged the configuration; its IPFS node
\* has the profile that it was started with; and once it runs, it has an
\* account thread that is complete.
THEOREM SetupAlwaysSound == SetupSpec => []SetupSound
  <1>1. SetInv => SetupSound
    <2> USE DEF SetInv
    <2>1. ASSUME SetInv
          PROVE  BootsAgain
      <3>1. scars \ {"thread"} = {} => scars \subseteq {"thread"}
        OBVIOUS
      <3> QED BY <2>1, <3>1 DEF BootsAgain, Unharmed
    <2>2. ASSUME SetInv
          PROVE  AccountReady
      <3>1. SUFFICES ASSUME node.at = "up", scars = {}
                     PROVE  /\ row # Absent /\ row.id = "own" /\ row.schema /\ row.joined
                            /\ row.told = Friends /\ node.conf.owner
                            /\ base = [tables |-> 2, seed |-> TRUE, self |-> TRUE]
        BY DEF AccountReady
      <3>2. row \in Rows /\ row.id = "own" /\ row.schema /\ row.joined /\ row.told = Friends
        BY <2>2, <3>1 DEF Ready
      <3>3. node.conf.owner /\ base = [tables |-> 2, seed |-> TRUE, self |-> TRUE]
        BY <2>2, <3>1 DEF Unharmed, Initial, Starting
      <3> QED BY <3>2, <3>3, NoRowIsNone
    <2> QED BY <2>1, <2>2 DEF SetupSound
  <1> QED BY <1>1, SetInvInit, SetInvStep, PTL DEF SetupSpec

-----------------------------------------------------------------------------
(* Files                                                                     *)

AllLinks == DOMAIN parcel.links
Use(l) == parcel.links[l].use

\* The links that are not in order yet, and the ones that can be.
Unplaced(j) == adder[j].run \cup adder[j].unused
Placeable(j, l) == Use(l) = FileTag \/ InSteps(j, Use(l))

\* The steps have each link once, after the one that it uses; in the end all.
Ordered(j) ==
    LET steps == adder[j].steps IN
    /\ \A i, k \in DOMAIN steps : steps[i] = steps[k] => i = k
    /\ \A i \in DOMAIN steps :
        Use(steps[i]) = FileTag \/ \E k \in 1..(i - 1) : steps[k] = Use(steps[i])
    /\ adder[j].at = "idle" => steps = <<>>
    /\ adder[j].at \in {"idle", "order"} => adder[j].done = 0
    /\ adder[j].at = "order" =>
        /\ SingleFileTag \notin AllLinks /\ adder[j].run \cap adder[j].unused = {}
        /\ \A l \in AllLinks : InSteps(j, l) <=> l \notin Unplaced(j)
    /\ adder[j].at \notin {"idle", "order", "error"} => \A l \in AllLinks : InSteps(j, l)

\* If the links can be put in order, each round has placed one, or will.
Counted(j) ==
    adder[j].at = "order" /\ Solvable =>
        LET most == Cardinality(AllLinks) - adder[j].round IN
        \/ Cardinality(Unplaced(j)) < most
        \/ Cardinality(Unplaced(j)) <= most /\ \E l \in adder[j].run : Placeable(j, l)

\* What the next step has to mill, and whether a file is what it asks for.
Wanted(j) ==
    IF Link(j).use = FileTag \/ parcel.via = "data" THEN Raw(parcel.input[j])
    ELSE adder[j].dir[Link(j).use].hash.content
Fits(j, f) ==
    /\ f.hash.content = Milled(Link(j), Wanted(j)) /\ f.hash.content.of = parcel.input[j]
    /\ f.hash.key = 0 <=> Link(j).plain

\* What a job knows at each step.
Working(j) ==
    /\ adder[j].at \in {"configure", "lookup", "mill", "insert", "fetch"} =>
        adder[j].done < Len(adder[j].steps)
    /\ adder[j].at \in {"lookup", "mill", "insert", "fetch"} =>
        /\ adder[j].conf \in FileConf /\ adder[j].conf.input = Wanted(j)
        /\ adder[j].conf.input.of = parcel.input[j]
        /\ adder[j].conf.source[1] = adder[j].conf.input
    /\ adder[j].at \in {"insert", "fetch"} =>
        /\ adder[j].new \in FileRow /\ Made(adder[j].new) /\ Fits(j, adder[j].new)
        /\ adder[j].new.source = adder[j].conf.source
    /\ adder[j].at \in {"post", "done"} => NoFile \notin FilesOf(j)

\* DirectoryRight, for one job; and all of it comes from its input.
DirRight(j) ==
    \A n \in DOMAIN adder[j].dir :
        LET f == adder[j].dir[n]
            l == parcel.links[n]
            c == IF l.use = FileTag \/ parcel.via = "data" THEN Raw(parcel.input[j])
                 ELSE adder[j].dir[l.use].hash.content
        IN  f # NoFile => /\ f.hash.content = Milled(l, c)
                          /\ f.hash.content.of = parcel.input[j]
                          /\ f.hash.key = 0 <=> l.plain

Refused(j) ==
    /\ adder[j].steps # <<>> /\ adder[j].done < Len(adder[j].steps) /\ adder[j].conf # NoConf
    /\ Milled(Link(j), adder[j].conf.input) = Rejected

\* Nobody touches the rows of a file that nobody else works on, until it has
\* its block.
Undisturbed(j) ==
    ~Crowded(j) =>
        /\ adder[j].at # "panic"
        /\ adder[j].at = "error" => ~Solvable \/ Refused(j)
        /\ adder[j].at \notin {"done", "error"} =>
            /\ \A h \in used : h.content.of # parcel.input[j]
            /\ \A n \in DOMAIN adder[j].dir : adder[j].dir[n] \in files
            /\ adder[j].at = "mill" =>
                GetBySource(Link(j).mill, adder[j].conf.source, Options(Link(j))) = {}
            /\ adder[j].at = "insert" => ~Conflict(adder[j].new)
            /\ adder[j].at = "fetch" => adder[j].new \in files

JobInv(j) == Ordered(j) /\ Counted(j) /\ Working(j) /\ DirRight(j) /\ Undisturbed(j)
FilesMade == \A f \in files \cup parcel.remote : Made(f)

FiInv == FiTypeOK /\ FilesMade /\ \A j \in Jobs : JobInv(j)

-----------------------------------------------------------------------------
(* Mills                                                                     *)

\* What a parcel is.
LEMMA ParcelIs ==
    ASSUME FiTypeOK
    PROVE  IsParcel(parcel)
  BY FileIndexAssumption DEF FiTypeOK

\* A mill makes a content of its input from it, or none.
LEMMA MilledIs ==
    ASSUME NEW l, l.mill \in Mills, l.width \in Nat, NEW c \in Encoded
    PROVE  /\ Milled(l, c) \in Encoded \cup {Rejected} /\ Rejected \notin Encoded
           /\ Milled(l, c) # Rejected => Milled(l, c).of = c.of
  BY DEF Milled, Resize, Exif, Json, Encoded, Mills, Rejected

\* Its options tell all that it needs of a link.
LEMMA MilledByOptions ==
    ASSUME NEW l, l.mill \in Mills, NEW c
    PROVE  Milled([mill |-> l.mill, width |-> Options(l)[1]], c) = Milled(l, c)
  BY DEF Milled, Options, Mills

\* Rows and conditions are not the values that stand for none.
LEMMA NoneIs ==
    /\ NoFile \notin FileRow /\ NoConf \notin FileConf
    /\ \A f \in FileRow : /\ f.mill \in Mills /\ f.hash \in FileHash /\ f.hash.content \in Encoded
                          /\ f.hash.key \in Int /\ f.opts \in Nat \X BOOLEAN
                          /\ f.check \in Encoded \X BOOLEAN /\ f.source \in Encoded \X BOOLEAN
    /\ \A c \in FileConf : c.input \in Encoded /\ c.source \in Encoded \X BOOLEAN
  BY DEF NoFile, FileRow, NoConf, FileConf, Mills, FileHash

\* What is made from an input of a file is of the same file.
LEMMA MadeIs ==
    ASSUME NEW f \in FileRow, Made(f)
    PROVE  /\ f.check[1] = f.hash.content /\ f.check[2] = f.opts[2]
           /\ f.source[1].of = f.hash.content.of
  <1> DEFINE l == [mill |-> f.mill, width |-> f.opts[1]]
  <1>1. l.mill \in Mills /\ l.width \in Nat /\ f.source[1] \in Encoded /\ f.hash.content \in Encoded
    BY NoneIs
  <1>2. f.hash.content # Rejected
    BY <1>1, MilledIs
  <1>3. f.hash.content = Milled(l, f.source[1])
    BY DEF Made
  <1>4. Milled(l, f.source[1]).of = f.source[1].of
    BY <1>1, <1>2, <1>3, MilledIs
  <1> QED BY <1>3, <1>4 DEF Made, checksum

\* Of links that can be put in order and are not yet, one uses what is in place.
LEMMA SomePlaceable ==
    ASSUME FiTypeOK, NEW j \in Jobs, Solvable, SingleFileTag \notin AllLinks,
           NEW W, W \subseteq AllLinks, W # {}, \A l \in AllLinks \ W : InSteps(j, l)
    PROVE  \E l \in W : Placeable(j, l)
  <1>1. PICK at \in [AllLinks -> 1..Cardinality(AllLinks)] :
            \A l \in AllLinks : Use(l) = FileTag \/ (Use(l) \in AllLinks /\ at[Use(l)] < at[l])
    BY DEF Solvable, AllLinks, Use
  <1> DEFINE ranks == {at[l] : l \in W}
  <1>2. ranks \subseteq Nat /\ ranks # {}
    BY <1>1
  <1>3. PICK r \in ranks : \A q \in ranks : ~(<<q, r>> \in OpToRel(<, Nat))
    BY <1>2, NatLessThanWellFounded, WFMin
  <1>4. \A q \in ranks : ~(q < r)
    BY <1>2, <1>3 DEF OpToRel
  <1>5. PICK l \in W : at[l] = r
    BY <1>3
  <1>6. CASE Use(l) = FileTag
    BY <1>6 DEF Placeable
  <1>7. CASE Use(l) \in AllLinks /\ at[Use(l)] < at[l]
    <2>1. Use(l) \notin W
      BY <1>4, <1>5, <1>7
    <2> QED BY <1>7, <2>1 DEF Placeable
  <1> QED BY <1>1, <1>5, <1>6, <1>7

\* All links are in order: so they can be.
LEMMA OrderSolves ==
    ASSUME FiTypeOK, NEW j \in Jobs, Ordered(j), \A l \in AllLinks : InSteps(j, l)
    PROVE  Solvable
  <1> DEFINE steps == adder[j].steps
             at == [l \in AllLinks |-> CHOOSE i \in DOMAIN steps : steps[i] = l]
  <1>1. steps \in Seq(AllLinks) /\ IsFiniteSet(AllLinks) /\ DOMAIN steps = 1..Len(steps)
    BY ParcelIs DEF FiTypeOK, IsAdder, AllLinks, IsParcel
  <1>2. ASSUME NEW l \in AllLinks PROVE at[l] \in DOMAIN steps /\ steps[at[l]] = l
    BY <1>2 DEF InSteps
  <1>3. \A i \in DOMAIN steps : steps[i] \in AllLinks /\ at[steps[i]] = i
    <2> SUFFICES ASSUME NEW i \in DOMAIN steps PROVE steps[i] \in AllLinks /\ at[steps[i]] = i
      OBVIOUS
    <2>1. steps[i] \in AllLinks
      BY <1>1
    <2> QED BY <1>2, <2>1 DEF Ordered
  <1>4. Len(steps) <= Cardinality(AllLinks)
    <2>1. \A i \in DOMAIN steps : steps[i] \in AllLinks
      BY <1>3
    <2>2. steps \in Injection(1..Len(steps), AllLinks)
      <3>1. \A i, k \in DOMAIN steps : steps[i] = steps[k] => i = k
        BY DEF Ordered
      <3>2. steps \in [1..Len(steps) -> AllLinks]
        BY <1>1
      <3> QED BY <1>1, <3>1, <3>2 DEF Injection, IsInjective
    <2>3. Cardinality(1..Len(steps)) = Len(steps) /\ IsFiniteSet(1..Len(steps))
      <3>1. PICK n \in Nat : n = Len(steps)
        BY <1>1
      <3>2. IsFiniteSet(1..n) /\ Cardinality(1..n) = IF 1 > n THEN 0 ELSE n - 1 + 1
        BY FS_Interval
      <3>3. Cardinality(1..n) = n
        BY <3>2
      <3> QED BY <3>1, <3>2, <3>3
    <2>4. Cardinality(1..Len(steps)) <= Cardinality(AllLinks)
      BY <1>1, <2>2, <2>3, FS_Injection
    <2> QED BY <2>3, <2>4
  <1>5. Cardinality(AllLinks) \in Nat
    BY <1>1, FS_CardinalityType
  <1>6. at \in [AllLinks -> 1..Cardinality(AllLinks)]
    <2>1. \A l \in AllLinks : at[l] \in 1..Len(steps)
      BY <1>1, <1>2
    <2>2. \A i \in 1..Len(steps) : i \in 1..Cardinality(AllLinks)
      BY <1>1, <1>4, <1>5
    <2> QED BY <2>1, <2>2
  <1>7. ASSUME NEW l \in AllLinks
        PROVE  Use(l) = FileTag \/ (Use(l) \in AllLinks /\ at[Use(l)] < at[l])
    <2>1. PICK i \in DOMAIN steps : steps[i] = l /\ at[l] = i
      BY <1>2
    <2>2. CASE \E k \in 1..(i - 1) : steps[k] = Use(l)
      <3>1. PICK k \in 1..(i - 1) : steps[k] = Use(l)
        BY <2>2
      <3>2. k \in DOMAIN steps
        BY <1>1, <2>1, <3>1
      <3>3. k < i
        BY <1>1, <2>1, <3>1
      <3>4. Use(l) \in AllLinks /\ at[Use(l)] = k
        BY <1>3, <3>1, <3>2
      <3> QED BY <2>1, <3>3, <3>4
    <2> QED BY <2>1, <2>2 DEF Ordered
  <1> HIDE DEF at
  <1> QED BY <1>6, <1>7 DEF Solvable, AllLinks, Use

-----------------------------------------------------------------------------
(* Steps of a job                                                            *)

\* A step changes its job only.
LEMMA ToIs ==
    ASSUME FiTypeOK, NEW j \in Jobs, NEW r, To(j, r)
    PROVE  /\ DOMAIN adder' = Jobs /\ adder'[j] = r
           /\ \A k \in Jobs \ {j} : adder'[k] = adder[k]
  BY DEF FiTypeOK, To

\* The rows and targets that come and go are of other files than the job's.
Apart(j) ==
    ~Crowded(j) /\ adder[j].at \notin {"done", "error"} =>
        /\ \A f \in files' \ files : f.hash.content.of # parcel.input[j]
        /\ \A f \in files \ files' : f.hash.content.of # parcel.input[j]
        /\ \A h \in used' \ used : h.content.of # parcel.input[j]

\* A job is as it was when others do something.
LEMMA OthersKeep ==
    ASSUME FiTypeOK, FilesMade, FiTypeOK', FilesMade', UNCHANGED parcel,
           NEW j \in Jobs, JobInv(j), adder'[j] = adder[j], Apart(j)
    PROVE  JobInv(j)'
  <1>1. /\ Link(j)' = Link(j) /\ Name(j)' = Name(j) /\ Wanted(j)' = Wanted(j) /\ Crowded(j)' = Crowded(j)
        /\ AllLinks' = AllLinks /\ Unplaced(j)' = Unplaced(j) /\ Solvable' = Solvable
        /\ FilesOf(j)' = FilesOf(j)
    BY DEF Link, Name, Wanted, Crowded, AllLinks, Unplaced, Solvable, FilesOf
  <1>2. Ordered(j)'
    BY <1>1 DEF JobInv, Ordered, Use, InSteps
  <1>3. Counted(j)'
    BY <1>1 DEF JobInv, Counted, Use, InSteps, Placeable
  <1>4. Working(j)'
    BY <1>1 DEF JobInv, Working, Fits, Made
  <1>5. DirRight(j)'
    BY DEF JobInv, DirRight
  <1>6. Undisturbed(j)'
    <2> SUFFICES ASSUME ~Crowded(j) PROVE Undisturbed(j)'
      BY <1>1 DEF Undisturbed
    <2>1. /\ adder[j].at # "panic"
          /\ adder[j].at = "error" => ~Solvable \/ Refused(j)
          /\ Refused(j)' = Refused(j)
      BY <1>1 DEF JobInv, Undisturbed, Refused
    <2>2. ASSUME adder[j].at \notin {"done", "error"}
          PROVE  /\ \A h \in used' : h.content.of # parcel.input[j]
                 /\ \A n \in DOMAIN adder[j].dir : adder[j].dir[n] \in files'
      <3>1. \A h \in used' : h.content.of # parcel.input[j]
        BY <2>2 DEF JobInv, Undisturbed, Apart
      <3>2. ASSUME NEW n \in DOMAIN adder[j].dir PROVE adder[j].dir[n] \in files'
        <4>1. adder[j].dir[n] \in files /\ adder[j].dir[n] # NoFile
          BY <2>2, NoneIs DEF JobInv, Undisturbed, FiTypeOK
        <4>2. adder[j].dir[n].hash.content.of = parcel.input[j]
          BY <4>1 DEF JobInv, DirRight
        <4> QED BY <2>2, <4>1, <4>2 DEF Apart
      <3> QED BY <3>1, <3>2
    <2>3. ASSUME adder[j].at \notin {"done", "error"}, NEW f \in files' \ files
          PROVE  f.check[1].of # parcel.input[j] /\ f.source[1].of # parcel.input[j]
      <3>1. f \in FileRow /\ Made(f)
        BY DEF FiTypeOK, FilesMade
      <3> QED BY <2>3, <3>1, MadeIs DEF Apart
    <2>4. ASSUME adder[j].at = "mill"
          PROVE  GetBySource(Link(j).mill, adder[j].conf.source, Options(Link(j)))' = {}
      <3>1. adder[j].conf.source[1].of = parcel.input[j]
        BY <2>4 DEF JobInv, Working
      <3>2. GetBySource(Link(j).mill, adder[j].conf.source, Options(Link(j))) = {}
        BY <2>4 DEF JobInv, Undisturbed
      <3> QED BY <1>1, <2>3, <2>4, <3>1, <3>2 DEF GetBySource
    <2>5. ASSUME adder[j].at = "insert" PROVE ~Conflict(adder[j].new)'
      <3>1. /\ adder[j].new \in FileRow /\ Made(adder[j].new)
            /\ adder[j].new.hash.content.of = parcel.input[j]
        BY <2>5 DEF JobInv, Working, Fits
      <3>2. /\ adder[j].new.check[1].of = parcel.input[j]
            /\ adder[j].new.source[1].of = parcel.input[j]
        BY <3>1, MadeIs
      <3>3. ~Conflict(adder[j].new)
        BY <2>5 DEF JobInv, Undisturbed
      <3> QED BY <2>3, <2>5, <3>2, <3>3 DEF Conflict, GetBySource, GetByPrimary
    <2>6. ASSUME adder[j].at = "fetch" PROVE adder[j].new \in files'
      <3>1. adder[j].new.hash.content.of = parcel.input[j] /\ adder[j].new \in files
        BY <2>6 DEF JobInv, Working, Fits, Undisturbed
      <3> QED BY <2>6, <3>1 DEF Apart
    <2>7. ASSUME adder[j].at \notin {"done", "error"}
          PROVE  /\ \A h \in used' : h.content.of # parcel.input[j]
                 /\ \A n \in DOMAIN adder[j].dir : adder[j].dir[n] \in files'
                 /\ adder[j].at = "mill" =>
                     GetBySource(Link(j).mill, adder[j].conf.source, Options(Link(j)))' = {}
                 /\ adder[j].at = "insert" => ~Conflict(adder[j].new)'
                 /\ adder[j].at = "fetch" => adder[j].new \in files'
      BY <2>2, <2>4, <2>5, <2>6, <2>7
    <2> QED BY <1>1, <2>1, <2>7 DEF Undisturbed
  <1> QED BY <1>2, <1>3, <1>4, <1>5, <1>6 DEF JobInv

\* The link of a step, and that what it uses was done before.
LEMMA LinkIs ==
    ASSUME FiTypeOK, NEW j \in Jobs, Ordered(j), adder[j].done < Len(adder[j].steps)
    PROVE  /\ Name(j) \in AllLinks /\ Link(j) = parcel.links[Name(j)]
           /\ Link(j).mill \in Mills /\ Link(j).width \in Nat /\ Link(j).plain \in BOOLEAN
           /\ Name(j) \notin DOMAIN adder[j].dir
           /\ Link(j).use = FileTag \/ Link(j).use \in DOMAIN adder[j].dir
  <1>1. /\ adder[j].done + 1 \in DOMAIN adder[j].steps /\ adder[j].done \in Nat
        /\ \A i \in 1..adder[j].done : i \in DOMAIN adder[j].steps /\ i # adder[j].done + 1
        /\ adder[j].steps \in Seq(AllLinks)
    BY DEF FiTypeOK, IsAdder, AllLinks
  <1>2. Name(j) \in AllLinks /\ Link(j) = parcel.links[Name(j)]
    BY <1>1 DEF Name, Link
  <1>3. Name(j) \notin DOMAIN adder[j].dir
    BY <1>1 DEF Name, Ordered, FiTypeOK, IsAdder
  <1>4. CASE Link(j).use # FileTag
    <2>1. PICK i \in DOMAIN adder[j].steps : i = adder[j].done + 1
      BY <1>1
    <2>2. Use(adder[j].steps[i]) = Link(j).use
      BY <2>1 DEF Link, Name, Use
    <2>3. PICK k \in 1..(i - 1) : adder[j].steps[k] = Link(j).use
      BY <1>4, <2>2 DEF Ordered
    <2>4. k \in 1..adder[j].done
      BY <1>1, <2>1, <2>3
    <2>5. DOMAIN adder[j].dir = {adder[j].steps[m] : m \in 1..adder[j].done}
      BY DEF FiTypeOK, IsAdder
    <2>6. Link(j).use \in DOMAIN adder[j].dir
      BY <2>3, <2>4, <2>5
    <2> QED BY <1>2, <1>3, <2>6, ParcelIs DEF IsParcel, AllLinks
  <1> QED BY <1>2, <1>3, <1>4, ParcelIs DEF IsParcel, AllLinks

\* A file of a link uses one of a link before.
LEMMA UsesBefore ==
    ASSUME FiTypeOK, NEW j \in Jobs, Ordered(j), NEW n \in DOMAIN adder[j].dir
    PROVE  Use(n) = FileTag \/ Use(n) \in DOMAIN adder[j].dir
  <1>1. PICK i \in 1..adder[j].done : adder[j].steps[i] = n
    BY DEF FiTypeOK, IsAdder
  <1>2. i \in DOMAIN adder[j].steps
    BY <1>1 DEF FiTypeOK, IsAdder
  <1>3. CASE Use(n) # FileTag
    <2>1. PICK k \in 1..(i - 1) : adder[j].steps[k] = Use(n)
      BY <1>1, <1>2, <1>3 DEF Ordered
    <2>2. k \in 1..adder[j].done
      BY <1>1, <2>1 DEF FiTypeOK, IsAdder
    <2> QED BY <2>1, <2>2 DEF FiTypeOK, IsAdder
  <1> QED BY <1>3

\* Steps that are found stay in order.
LEMMA OrderedStays ==
    ASSUME NEW j \in Jobs, Ordered(j), UNCHANGED parcel, adder'[j].steps = adder[j].steps,
           adder[j].at \notin {"idle", "order", "error"}, adder'[j].at \notin {"idle", "order"}
    PROVE  Ordered(j)'
  <1>1. /\ AllLinks' = AllLinks /\ \A l : Use(l)' = Use(l)
        /\ \A l : InSteps(j, l)' <=> InSteps(j, l)
    BY DEF AllLinks, Use, InSteps
  <1>2. PICK steps : steps = adder[j].steps /\ steps = adder'[j].steps
    OBVIOUS
  <1>3. /\ \A i, k \in DOMAIN steps : steps[i] = steps[k] => i = k
        /\ \A i \in DOMAIN steps :
            Use(steps[i]) = FileTag \/ \E k \in 1..(i - 1) : steps[k] = Use(steps[i])
        /\ \A l \in AllLinks : InSteps(j, l)
    BY <1>2 DEF Ordered
  <1> QED BY <1>1, <1>2, <1>3 DEF Ordered

LEMMA DirStays ==
    ASSUME NEW j \in Jobs, DirRight(j), parcel' = parcel, adder'[j].dir = adder[j].dir
    PROVE  DirRight(j)'
  BY DEF DirRight

\* A job gets the file of a step.
LEMMA FileGiven ==
    ASSUME FiTypeOK, NEW j \in Jobs, JobInv(j), TableKept,
           adder[j].at \in {"lookup", "mill", "fetch"},
           NEW f \in FileRow \cup {NoFile}, To(j, WithFile(j, f)),
           f # NoFile => Fits(j, f), ~Crowded(j) => f \in files
    PROVE  IsAdder(adder[j])' /\ JobInv(j)'
  <1> DEFINE a == adder[j]
             b == adder'[j]
  <1>0. a.done < Len(a.steps) /\ Ordered(j)
    BY DEF JobInv, Working
  <1>1. /\ DOMAIN b = DOMAIN a /\ b.steps = a.steps /\ b.run = a.run /\ b.unused = a.unused
        /\ b.round = a.round /\ b.done = a.done + 1 /\ b.conf = NoConf /\ b.new = NoFile
        /\ b.at = IF a.done + 1 = Len(a.steps) THEN "node" ELSE "configure"
        /\ b.dir = [n \in DOMAIN a.dir \cup {Name(j)} |-> IF n = Name(j) THEN f ELSE a.dir[n]]
    <2>1. b = WithFile(j, f) /\ IsAdder(a)
      BY ToIs DEF FiTypeOK
    <2> QED BY <2>1 DEF WithFile, IsAdder
  <1>2. UNCHANGED <<parcel, files, used, keys, incoming>>
    BY DEF TableKept
  <1>3. DOMAIN b.dir = {b.steps[i] : i \in 1..b.done}
    <2>1. DOMAIN b.dir = {a.steps[i] : i \in 1..a.done} \cup {a.steps[a.done + 1]}
      BY <1>1 DEF FiTypeOK, IsAdder, Name
    <2>2. a.done \in Nat
      BY DEF FiTypeOK, IsAdder
    <2>3. 1..(a.done + 1) = (1..a.done) \cup {a.done + 1}
      BY <2>2
    <2>4. DOMAIN b.dir = {a.steps[i] : i \in (1..a.done) \cup {a.done + 1}}
      BY <2>1
    <2>5. DOMAIN b.dir = {a.steps[i] : i \in 1..(a.done + 1)}
      BY <2>3, <2>4
    <2>6. b.steps = a.steps /\ b.done = a.done + 1
      BY <1>1
    <2> QED BY <2>5, <2>6
  <1>4. IsAdder(adder[j])'
    <2>1. /\ b.at \in Place /\ b.done \in 0..Len(b.steps)
          /\ \A n \in DOMAIN b.dir : b.dir[n] \in {NoFile} \cup FileRow
      BY <1>0, <1>1 DEF FiTypeOK, IsAdder, Place
    <2>2. IsAdder(a)
      BY DEF FiTypeOK
    <2>3. b.conf \in {NoConf} \cup FileConf /\ b.new \in {NoFile} \cup FileRow
      BY <1>1
    <2> QED BY <1>1, <1>2, <1>3, <2>1, <2>2, <2>3 DEF IsAdder
  <1>5. Ordered(j)'
    BY <1>0, <1>1, <1>2, OrderedStays
  <1>6. Counted(j)'
    BY <1>1 DEF Counted
  <1>7. Working(j)'
    <2>1. b.at = "configure" => b.done < Len(b.steps)
      BY <1>0, <1>1 DEF FiTypeOK, IsAdder
    <2> QED BY <1>1, <2>1 DEF Working
  <1>8. DirRight(j)'
    <2> SUFFICES ASSUME NEW n \in DOMAIN b.dir, b.dir[n] # NoFile
                 PROVE  LET g == b.dir[n]
                            l == parcel.links[n]
                            c == IF l.use = FileTag \/ parcel.via = "data" THEN Raw(parcel.input[j])
                                 ELSE b.dir[l.use].hash.content
                        IN  /\ g.hash.content = Milled(l, c)
                            /\ g.hash.content.of = parcel.input[j]
                            /\ g.hash.key = 0 <=> l.plain
      BY <1>2 DEF DirRight
    <2>1. CASE n = Name(j)
      <3>1. b.dir[n] = f /\ Fits(j, f) /\ Link(j) = parcel.links[n]
        BY <1>0, <1>1, <2>1, LinkIs
      <3>2. Link(j).use = FileTag \/ b.dir[Link(j).use] = a.dir[Link(j).use]
        BY <1>0, <1>1, LinkIs
      <3> QED BY <3>1, <3>2 DEF Fits, Wanted
    <2>2. CASE n # Name(j)
      <3>1. n \in DOMAIN a.dir /\ b.dir[n] = a.dir[n]
        BY <1>1, <2>2
      <3>2. Use(n) = FileTag \/ (Use(n) \in DOMAIN a.dir /\ b.dir[Use(n)] = a.dir[Use(n)])
        BY <1>0, <1>1, <3>1, LinkIs, UsesBefore
      <3> QED BY <3>1, <3>2 DEF JobInv, DirRight, Use
    <2> QED BY <2>1, <2>2
  <1>9. Undisturbed(j)'
    <2>1. Crowded(j)' = Crowded(j)
      BY <1>2 DEF Crowded
    <2>2. ~Crowded(j) => \A n \in DOMAIN b.dir : b.dir[n] \in files
      BY <1>1 DEF JobInv, Undisturbed
    <2>3. ~Crowded(j) => \A h \in used : h.content.of # parcel.input[j]
      BY DEF JobInv, Undisturbed
    <2> QED BY <1>1, <1>2, <2>1, <2>2, <2>3 DEF Undisturbed
  <1> QED BY <1>4, <1>5, <1>6, <1>7, <1>8, <1>9 DEF JobInv

\* A job begins: its only step, or the links in any order.
LEMMA BeginKeeps ==
    ASSUME FiTypeOK, NEW j \in Jobs, JobInv(j), BeginFile(j)
    PROVE  IsAdder(adder[j])' /\ JobInv(j)'
  <1> DEFINE a == adder[j]
             b == adder'[j]
  <1>0. /\ UNCHANGED <<parcel, files, used, keys, incoming>> /\ IsParcel(parcel)
        /\ Cardinality(AllLinks) \in Nat
    BY ParcelIs, FS_CardinalityType DEF BeginFile, TableKept, IsParcel, AllLinks
  <1>1. CASE SingleFileTag \in AllLinks
    <2>1. b = [NoJob EXCEPT !.at = "configure", !.steps = <<SingleFileTag>>]
      BY <1>1, ToIs DEF BeginFile, AllLinks
    <2>2. /\ DOMAIN b = DOMAIN NoJob /\ b.at = "configure" /\ b.steps = <<SingleFileTag>>
          /\ b.run = {} /\ b.unused = {} /\ b.round = 0 /\ b.done = 0 /\ b.conf = NoConf
          /\ b.new = NoFile /\ b.dir = [n \in {} |-> NoFile]
      BY <2>1 DEF NoJob
    <2>3. /\ DOMAIN b.steps = {1} /\ b.steps[1] = SingleFileTag /\ Len(b.steps) = 1
          /\ b.steps \in Seq(AllLinks) /\ AllLinks = {SingleFileTag} /\ Use(SingleFileTag) = FileTag
      BY <1>0, <1>1, <2>2 DEF IsParcel, AllLinks, Use
    <2>4. IsAdder(adder[j])'
      BY <1>0, <2>2, <2>3 DEF IsAdder, NoJob, Place, AllLinks
    <2>5. Ordered(j)'
      BY <1>0, <2>2, <2>3 DEF Ordered, Use, InSteps, AllLinks
    <2>6. Counted(j)' /\ Working(j)' /\ DirRight(j)'
      BY <1>0, <2>2, <2>3 DEF Counted, Working, DirRight
    <2>7. Undisturbed(j)'
      BY <1>0, <2>2 DEF Undisturbed, JobInv, BeginFile, Crowded
    <2> QED BY <2>4, <2>5, <2>6, <2>7 DEF JobInv
  <1>2. CASE SingleFileTag \notin AllLinks
    <2>1. b = [NoJob EXCEPT !.at = "order", !.run = AllLinks]
      BY <1>2, ToIs DEF BeginFile, AllLinks
    <2>2. /\ DOMAIN b = DOMAIN NoJob /\ b.at = "order" /\ b.steps = <<>>
          /\ b.run = AllLinks /\ b.unused = {} /\ b.round = 0 /\ b.done = 0 /\ b.conf = NoConf
          /\ b.new = NoFile /\ b.dir = [n \in {} |-> NoFile]
      BY <2>1 DEF NoJob
    <2>3. DOMAIN b.steps = {} /\ Len(b.steps) = 0 /\ b.steps \in Seq(AllLinks)
      BY <2>2
    <2>4. IsAdder(adder[j])'
      BY <1>0, <2>2, <2>3 DEF IsAdder, NoJob, Place, AllLinks
    <2>5. Ordered(j)'
      BY <1>0, <1>2, <2>2, <2>3 DEF Ordered, Use, InSteps, AllLinks, Unplaced
    <2>6. Working(j)' /\ DirRight(j)'
      BY <1>0, <2>2, <2>3 DEF Working, DirRight
    <2>7. Undisturbed(j)'
      BY <1>0, <2>2 DEF Undisturbed, JobInv, BeginFile, Crowded
    <2>8. Counted(j)'
      <3> SUFFICES ASSUME Solvable PROVE Counted(j)'
        BY <1>0 DEF Counted, Solvable
      <3>1. AllLinks # {} /\ \A l \in AllLinks \ AllLinks : InSteps(j, l)
        BY <1>0 DEF IsParcel, AllLinks
      <3>2. PICK l \in AllLinks : Placeable(j, l)
        BY <1>2, <3>1, SomePlaceable
      <3>4. Use(l) = FileTag
        BY <3>2 DEF Placeable, InSteps, JobInv, Ordered, BeginFile
      <3>3. Unplaced(j)' = AllLinks
        BY <2>2 DEF Unplaced
      <3>5. (\E m \in adder[j].run : Placeable(j, m))'
        BY <1>0, <2>2, <3>4 DEF Placeable, Use, AllLinks
      <3> QED BY <1>0, <2>2, <3>3, <3>5 DEF Counted, AllLinks
    <2> QED BY <2>4, <2>5, <2>6, <2>7, <2>8 DEF JobInv
  <1> QED BY <1>1, <1>2

\* A link gets its place, or is left for the next round.
LEMMA OrderKeeps ==
    ASSUME FiTypeOK, NEW j \in Jobs, JobInv(j), NEW l \in AllLinks, OrderLink(j, l)
    PROVE  IsAdder(adder[j])' /\ JobInv(j)'
  <1> DEFINE a == adder[j]
             b == adder'[j]
             first == Use(l) = FileTag
             last == ~first /\ InSteps(j, Use(l))
  <1>0. /\ UNCHANGED <<parcel, files, used, keys, incoming>> /\ IsParcel(parcel) /\ IsAdder(a)
        /\ a.at = "order" /\ l \in a.run /\ Ordered(j) /\ a.steps \in Seq(AllLinks)
    BY ParcelIs DEF OrderLink, TableKept, JobInv, FiTypeOK, IsAdder, AllLinks
  <1>1. /\ DOMAIN b = DOMAIN a /\ b.at = "order" /\ b.run = a.run \ {l} /\ b.round = a.round
        /\ b.done = a.done /\ b.conf = a.conf /\ b.new = a.new /\ b.dir = a.dir
        /\ b.steps = IF first THEN <<l>> \o a.steps ELSE IF last THEN Append(a.steps, l) ELSE a.steps
        /\ b.unused = IF first \/ last THEN a.unused ELSE a.unused \cup {l}
    <2>1. b = [a EXCEPT
                !.run = @ \ {l},
                !.steps = IF first THEN <<l>> \o @
                          ELSE IF InSteps(j, Use(l)) THEN Append(@, l) ELSE @,
                !.unused = IF first \/ InSteps(j, Use(l)) THEN @ ELSE @ \cup {l}]
      BY ToIs DEF OrderLink, Use
    <2> QED BY <1>0, <2>1 DEF IsAdder
  <1>2. a.done = 0 /\ DOMAIN a.dir = {}
    BY <1>0 DEF Ordered, IsAdder
  <1>3. b.steps \in Seq(AllLinks) /\ DOMAIN b.steps = 1..Len(b.steps)
    BY <1>0, <1>1
  <1>4. IsAdder(adder[j])'
    <2>1. /\ b.run \cup b.unused \subseteq AllLinks /\ b.done \in 0..Len(b.steps)
          /\ b.round \in 0..Cardinality(AllLinks)
      BY <1>0, <1>1, <1>2, <1>3 DEF IsAdder, AllLinks
    <2>2. DOMAIN b.dir = {b.steps[i] : i \in 1..b.done}
      BY <1>1, <1>2
    <2> QED BY <1>0, <1>1, <1>2, <1>3, <2>1, <2>2 DEF IsAdder, AllLinks
  <1>5. Working(j)' /\ DirRight(j)'
    BY <1>0, <1>1, <1>2 DEF Working, DirRight
  <1>6. Undisturbed(j)'
    BY <1>0, <1>1, <1>2 DEF Undisturbed, JobInv, Crowded
  <1>7. ~InSteps(j, l) /\ l \notin a.unused /\ DOMAIN a.steps = 1..Len(a.steps) /\ Len(a.steps) \in Nat
        /\ \A i \in DOMAIN a.steps : a.steps[i] # l
    BY <1>0 DEF Ordered, Unplaced, InSteps
  <1> DEFINE Once == \A i, k \in DOMAIN b.steps : b.steps[i] = b.steps[k] => i = k
             After == \A i \in DOMAIN b.steps :
                        Use(b.steps[i]) = FileTag \/ \E k \in 1..(i - 1) : b.steps[k] = Use(b.steps[i])
             In(m) == \E i \in DOMAIN b.steps : b.steps[i] = m
  <1>8. ASSUME first PROVE Once /\ After /\ \A m : In(m) <=> InSteps(j, m) \/ m = l
    <2>1. /\ Len(b.steps) = Len(a.steps) + 1 /\ b.steps[1] = l
          /\ \A i \in DOMAIN a.steps : i + 1 \in DOMAIN b.steps /\ b.steps[i + 1] = a.steps[i]
          /\ \A i \in DOMAIN b.steps : i # 1 => i - 1 \in DOMAIN a.steps /\ b.steps[i] = a.steps[i - 1]
      BY <1>0, <1>1, <1>8
    <2>2. Once
      <3> SUFFICES ASSUME NEW i \in DOMAIN b.steps, NEW k \in DOMAIN b.steps, b.steps[i] = b.steps[k]
                   PROVE  i = k
        OBVIOUS
      <3>1. CASE i # 1 /\ k # 1
        <4>1. \A m, n \in DOMAIN a.steps : a.steps[m] = a.steps[n] => m = n
          BY <1>0 DEF Ordered
        <4>2. /\ i - 1 \in DOMAIN a.steps /\ b.steps[i] = a.steps[i - 1]
              /\ k - 1 \in DOMAIN a.steps /\ b.steps[k] = a.steps[k - 1]
          BY <2>1, <3>1
        <4>3. i - 1 = k - 1
          BY <4>1, <4>2
        <4> QED BY <1>3, <4>3
      <3>2. CASE i = 1 /\ k # 1
        <4>1. b.steps[k] # l
          BY <1>7, <2>1, <3>2
        <4> QED BY <2>1, <3>2, <4>1
      <3>3. CASE i # 1 /\ k = 1
        <4>1. b.steps[i] # l
          BY <1>7, <2>1, <3>3
        <4> QED BY <2>1, <3>3, <4>1
      <3> QED BY <3>1, <3>2, <3>3
    <2>3. After
      <3> SUFFICES ASSUME NEW i \in DOMAIN b.steps, Use(b.steps[i]) # FileTag
                   PROVE  \E k \in 1..(i - 1) : b.steps[k] = Use(b.steps[i])
        OBVIOUS
      <3>1. i # 1 /\ i - 1 \in DOMAIN a.steps /\ b.steps[i] = a.steps[i - 1]
        BY <1>8, <2>1
      <3>2. PICK k \in 1..(i - 1 - 1) : a.steps[k] = Use(b.steps[i])
        BY <1>0, <3>1 DEF Ordered
      <3>3. k \in DOMAIN a.steps /\ k + 1 \in 1..(i - 1)
        BY <1>3, <1>7, <3>1, <3>2
      <3> QED BY <2>1, <3>2, <3>3
    <2>4. \A m : In(m) <=> InSteps(j, m) \/ m = l
      <3>1. 1 \in DOMAIN b.steps
        BY <1>3, <1>7, <2>1
      <3> QED BY <2>1, <3>1 DEF InSteps
    <2> QED BY <2>2, <2>3, <2>4
  <1>9. ASSUME last PROVE Once /\ After /\ \A m : In(m) <=> InSteps(j, m) \/ m = l
    <2>1. /\ Len(b.steps) = Len(a.steps) + 1 /\ b.steps[Len(a.steps) + 1] = l
          /\ \A i \in DOMAIN a.steps : i \in DOMAIN b.steps /\ b.steps[i] = a.steps[i]
          /\ \A i \in DOMAIN b.steps : i = Len(a.steps) + 1 \/ i \in DOMAIN a.steps
          /\ Len(a.steps) + 1 \in DOMAIN b.steps
      BY <1>0, <1>1, <1>9
    <2>2. Once
      <3>1. \A i, k \in DOMAIN a.steps : a.steps[i] = a.steps[k] => i = k
        BY <1>0 DEF Ordered
      <3>2. \A i \in DOMAIN a.steps : b.steps[i] # b.steps[Len(a.steps) + 1]
        BY <1>7, <2>1
      <3>3. ASSUME NEW i \in DOMAIN b.steps, NEW k \in DOMAIN b.steps, b.steps[i] = b.steps[k]
            PROVE  i = k
        <4>1. CASE i \in DOMAIN a.steps /\ k \in DOMAIN a.steps
          BY <2>1, <3>1, <3>3, <4>1
        <4>2. CASE i = Len(a.steps) + 1 \/ k = Len(a.steps) + 1
          BY <2>1, <3>2, <3>3, <4>2
        <4> QED BY <2>1, <4>1, <4>2
      <3> QED BY <3>3
    <2>3. After
      <3> SUFFICES ASSUME NEW i \in DOMAIN b.steps, Use(b.steps[i]) # FileTag
                   PROVE  \E k \in 1..(i - 1) : b.steps[k] = Use(b.steps[i])
        OBVIOUS
      <3>1. CASE i \in DOMAIN a.steps
        <4>1. PICK k \in 1..(i - 1) : a.steps[k] = Use(a.steps[i])
          BY <1>0, <2>1, <3>1 DEF Ordered
        <4>2. k \in DOMAIN a.steps
          BY <1>7, <3>1, <4>1
        <4> QED BY <2>1, <3>1, <4>1, <4>2
      <3>2. CASE i = Len(a.steps) + 1
        <4>1. PICK k \in DOMAIN a.steps : a.steps[k] = Use(l)
          BY <1>9 DEF InSteps
        <4>2. k \in 1..(i - 1)
          BY <1>7, <3>2, <4>1
        <4> QED BY <2>1, <3>2, <4>1, <4>2
      <3> QED BY <2>1, <3>1, <3>2
    <2>4. \A m : In(m) <=> InSteps(j, m) \/ m = l
      BY <2>1 DEF InSteps
    <2> QED BY <2>2, <2>3, <2>4
  <1>10. ASSUME ~first, ~last PROVE Once /\ After /\ \A m : In(m) <=> InSteps(j, m)
    <2>1. b.steps = a.steps
      BY <1>1, <1>10
    <2> QED BY <1>0, <2>1 DEF Ordered, InSteps
  <1>11. /\ Once /\ After
         /\ first \/ last => \A m : In(m) <=> InSteps(j, m) \/ m = l
         /\ ~(first \/ last) => \A m : In(m) <=> InSteps(j, m)
    BY <1>8, <1>9, <1>10
  <1>12. \A m : InSteps(j, m)' <=> In(m)
    BY DEF InSteps
  <1>13. Ordered(j)'
    <2>1. SingleFileTag \notin AllLinks /\ b.run \cap b.unused = {}
      BY <1>0, <1>1, <1>7 DEF Ordered
    <2>2. \A m \in AllLinks : In(m) <=> m \notin b.run \cup b.unused
      <3>1. \A m \in AllLinks : InSteps(j, m) <=> m \notin a.run \cup a.unused
        BY <1>0 DEF Ordered, Unplaced
      <3> HIDE DEF In
      <3>2. CASE first \/ last
        BY <1>0, <1>1, <1>7, <1>11, <3>1, <3>2
      <3>3. CASE ~(first \/ last)
        BY <1>0, <1>1, <1>11, <3>1, <3>3
      <3> QED BY <3>2, <3>3
    <2>3. (\A m \in AllLinks : InSteps(j, m) <=> m \notin Unplaced(j))'
      BY <1>0, <1>12, <2>2 DEF Unplaced, AllLinks
    <2> HIDE DEF In
    <2> QED BY <1>0, <1>1, <1>2, <1>11, <2>1, <2>3 DEF Ordered, Use, AllLinks
  <1>14. Counted(j)'
    <2> SUFFICES ASSUME Solvable PROVE Counted(j)'
      BY <1>0 DEF Counted, Solvable
    <2>1. /\ IsFiniteSet(Unplaced(j)) /\ Cardinality(Unplaced(j)) \in Nat /\ Cardinality(AllLinks) \in Nat
          /\ a.round \in Nat
      <3>1. Unplaced(j) \subseteq AllLinks /\ IsFiniteSet(AllLinks)
        BY <1>0 DEF IsAdder, Unplaced, AllLinks, IsParcel
      <3>2. Cardinality(AllLinks) \in Nat /\ IsFiniteSet(Unplaced(j))
        BY <3>1, FS_CardinalityType, FS_Subset
      <3> QED BY <1>0, <3>2, FS_CardinalityType DEF IsAdder, AllLinks
    <2> DEFINE most == Cardinality(AllLinks) - a.round
    <2>2. \/ Cardinality(Unplaced(j)) < most
          \/ Cardinality(Unplaced(j)) <= most /\ \E m \in a.run : Placeable(j, m)
      BY <1>0 DEF JobInv, Counted
    <2>3. CASE first \/ last
      <3>1. Unplaced(j)' = Unplaced(j) \ {l} /\ l \in Unplaced(j)
        BY <1>0, <1>1, <1>7, <2>3 DEF Unplaced
      <3>2. Cardinality(Unplaced(j) \ {l}) = Cardinality(Unplaced(j)) - 1
        BY <2>1, <3>1, FS_RemoveElement
      <3>3. Cardinality(Unplaced(j)') < most
        BY <2>1, <2>2, <3>1, <3>2
      <3> QED BY <1>0, <1>1, <3>3 DEF Counted, AllLinks
    <2>4. CASE ~(first \/ last)
      <3>1. Unplaced(j)' = Unplaced(j)
        BY <1>0, <1>1, <2>4 DEF Unplaced
      <3>2. ASSUME NEW m \in a.run, Placeable(j, m) PROVE m \in b.run /\ Placeable(j, m)'
        <4>1. m # l
          BY <2>4, <3>2 DEF Placeable
        <4>2. InSteps(j, Use(m))' <=> InSteps(j, Use(m))
          BY <1>0, <1>11, <1>12, <2>4 DEF Use, InSteps
        <4> QED BY <1>0, <1>1, <3>2, <4>1, <4>2 DEF Placeable, Use
      <3> QED BY <1>0, <1>1, <2>2, <3>1, <3>2 DEF Counted, AllLinks
    <2> QED BY <2>3, <2>4
  <1> QED BY <1>4, <1>5, <1>6, <1>13, <1>14 DEF JobInv

\* The next round, the end of them, or a directory without an order.
LEMMA RoundKeeps ==
    ASSUME FiTypeOK, NEW j \in Jobs, JobInv(j), NextRound(j)
    PROVE  IsAdder(adder[j])' /\ JobInv(j)'
  <1> DEFINE a == adder[j]
             b == adder'[j]
             N == Cardinality(AllLinks)
  <1>0. /\ UNCHANGED <<parcel, files, used, keys, incoming>> /\ IsParcel(parcel) /\ IsAdder(a)
        /\ a.at = "order" /\ a.run = {} /\ Ordered(j) /\ Counted(j)
        /\ a.done = 0 /\ DOMAIN a.dir = {} /\ Unplaced(j) = a.unused /\ a.unused \subseteq AllLinks
    <2>1. IsParcel(parcel) /\ IsAdder(a) /\ Ordered(j) /\ Counted(j)
      BY ParcelIs DEF JobInv, FiTypeOK
    <2>2. a.at = "order" /\ a.run = {} /\ UNCHANGED <<parcel, files, used, keys, incoming>>
      BY DEF NextRound, TableKept
    <2>3. a.done = 0
      BY <2>1, <2>2 DEF Ordered
    <2> QED BY <2>1, <2>2, <2>3 DEF IsAdder, Unplaced, AllLinks
  <1>1. IsFiniteSet(a.unused) /\ Cardinality(a.unused) \in Nat /\ N \in Nat /\ a.round \in 0..N
    <2>1. IsFiniteSet(AllLinks) /\ IsFiniteSet(a.unused)
      BY <1>0, FS_Subset DEF IsParcel, AllLinks
    <2> QED BY <1>0, <2>1, FS_CardinalityType DEF IsAdder, AllLinks
  <1>2. Solvable => Cardinality(a.unused) < N - a.round
    BY <1>0 DEF Counted
  <1>3. DOMAIN a.steps = 1..Len(a.steps) /\ Len(a.steps) \in Nat
    BY <1>0 DEF IsAdder
  <1>4. b = IF a.unused = {} THEN [a EXCEPT !.at = "configure"]
            ELSE IF a.round = N THEN [a EXCEPT !.at = "error"]
            ELSE [a EXCEPT !.run = a.unused, !.unused = {}, !.round = @ + 1]
    BY ToIs DEF NextRound, AllLinks
  <1>5. CASE a.unused = {}
    <2>1. /\ DOMAIN b = DOMAIN a /\ b.at = "configure" /\ b.steps = a.steps /\ b.done = a.done
          /\ b.run = a.run /\ b.unused = a.unused /\ b.round = a.round /\ b.conf = a.conf
          /\ b.new = a.new /\ b.dir = a.dir
      BY <1>0, <1>4, <1>5 DEF IsAdder
    <2>2. IsAdder(adder[j])'
      BY <1>0, <2>1 DEF IsAdder, Place
    <2>3. \A l \in AllLinks : InSteps(j, l)
      BY <1>0, <1>5 DEF Ordered
    <2>4. Ordered(j)'
      BY <1>0, <2>1, <2>3 DEF Ordered, Use, InSteps, AllLinks
    <2>5. 0 < Len(a.steps)
      <3>1. PICK l \in AllLinks : InSteps(j, l)
        BY <1>0, <2>3 DEF IsParcel, AllLinks
      <3> QED BY <1>3, <3>1 DEF InSteps
    <2>6. Counted(j)' /\ Working(j)' /\ DirRight(j)'
      BY <1>0, <2>1, <2>5 DEF Counted, Working, DirRight
    <2>7. Undisturbed(j)'
      BY <1>0, <2>1 DEF Undisturbed, JobInv, Crowded
    <2> QED BY <2>2, <2>4, <2>6, <2>7 DEF JobInv
  <1>6. CASE a.unused # {} /\ a.round = N
    <2>1. /\ DOMAIN b = DOMAIN a /\ b.at = "error" /\ b.steps = a.steps /\ b.done = a.done
          /\ b.run = a.run /\ b.unused = a.unused /\ b.round = a.round /\ b.conf = a.conf
          /\ b.new = a.new /\ b.dir = a.dir
      BY <1>0, <1>4, <1>6 DEF IsAdder
    <2>2. IsAdder(adder[j])'
      BY <1>0, <2>1 DEF IsAdder, Place
    <2>3. ~Solvable
      BY <1>1, <1>2, <1>6
    <2>4. Ordered(j)'
      BY <1>0, <2>1 DEF Ordered, Use, InSteps, AllLinks
    <2>5. Counted(j)' /\ Working(j)' /\ DirRight(j)'
      BY <1>0, <2>1 DEF Counted, Working, DirRight
    <2>6. Undisturbed(j)'
      BY <1>0, <2>1, <2>3 DEF Undisturbed, Solvable
    <2> QED BY <2>2, <2>4, <2>5, <2>6 DEF JobInv
  <1>7. CASE a.unused # {} /\ a.round # N
    <2>1. /\ DOMAIN b = DOMAIN a /\ b.at = "order" /\ b.steps = a.steps /\ b.done = a.done
          /\ b.run = a.unused /\ b.unused = {} /\ b.round = a.round + 1 /\ b.conf = a.conf
          /\ b.new = a.new /\ b.dir = a.dir
      BY <1>0, <1>4, <1>7 DEF IsAdder
    <2>2. IsAdder(adder[j])'
      <3>1. b.round \in 0..N
        BY <1>1, <1>7, <2>1
      <3> QED BY <1>0, <2>1, <3>1 DEF IsAdder, AllLinks
    <2>3. Unplaced(j)' = a.unused
      BY <2>1 DEF Unplaced
    <2>4. Ordered(j)'
      <3>1. SingleFileTag \notin AllLinks /\ \A l \in AllLinks : InSteps(j, l) <=> l \notin a.unused
        BY <1>0 DEF Ordered
      <3>2. (\A l \in AllLinks : InSteps(j, l) <=> l \notin Unplaced(j))'
        BY <1>0, <2>1, <2>3, <3>1 DEF InSteps, AllLinks
      <3> QED BY <1>0, <2>1, <3>1, <3>2 DEF Ordered, Use, AllLinks
    <2>5. Working(j)' /\ DirRight(j)'
      BY <1>0, <2>1 DEF Working, DirRight
    <2>6. Undisturbed(j)'
      BY <1>0, <2>1 DEF Undisturbed, JobInv, Crowded
    <2>7. Counted(j)'
      <3> SUFFICES ASSUME Solvable PROVE Counted(j)'
        BY <1>0 DEF Counted, Solvable
      <3>1. /\ SingleFileTag \notin AllLinks
            /\ \A l \in AllLinks \ a.unused : InSteps(j, l)
        BY <1>0 DEF Ordered
      <3>2. PICK l \in a.unused : Placeable(j, l)
        BY <1>0, <1>7, <3>1, SomePlaceable
      <3>3. l \in b.run /\ Placeable(j, l)'
        BY <1>0, <2>1, <3>2 DEF Placeable, InSteps, Use
      <3>4. Cardinality(Unplaced(j)') <= N - b.round
        BY <1>1, <1>2, <2>1, <2>3
      <3> QED BY <1>0, <2>1, <3>3, <3>4 DEF Counted, AllLinks
    <2> QED BY <2>2, <2>4, <2>5, <2>6, <2>7 DEF JobInv
  <1> QED BY <1>5, <1>6, <1>7

Goes(j, at, conf, new) == To(j, [adder[j] EXCEPT !.at = at, !.conf = conf, !.new = new])

\* A step of AddFileIndex between its beginning and its file.
LEMMA StepIs ==
    ASSUME FiTypeOK, NEW j \in Jobs, JobInv(j), UNCHANGED parcel,
           adder[j].at \notin {"idle", "order", "error"},
           NEW at \in Place \ {"idle", "order"}, NEW conf \in {NoConf} \cup FileConf,
           NEW new \in {NoFile} \cup FileRow,
           Goes(j, at, conf, new)
    PROVE  /\ IsAdder(adder[j])' /\ Ordered(j)' /\ Counted(j)' /\ DirRight(j)'
           /\ adder'[j].at = at /\ adder'[j].conf = conf /\ adder'[j].new = new
           /\ adder'[j].steps = adder[j].steps /\ adder'[j].done = adder[j].done
           /\ adder'[j].dir = adder[j].dir
           /\ Link(j)' = Link(j) /\ Wanted(j)' = Wanted(j) /\ Crowded(j)' = Crowded(j)
           /\ FilesOf(j)' = FilesOf(j)
  <1> DEFINE a == adder[j]
             b == adder'[j]
  <1>0. IsAdder(a) /\ Ordered(j) /\ DirRight(j) /\ b = [a EXCEPT !.at = at, !.conf = conf, !.new = new]
    BY ToIs DEF FiTypeOK, JobInv, Goes
  <1>1. /\ DOMAIN b = DOMAIN a /\ b.at = at /\ b.steps = a.steps /\ b.done = a.done
        /\ b.run = a.run /\ b.unused = a.unused /\ b.round = a.round /\ b.conf = conf
        /\ b.new = new /\ b.dir = a.dir
    BY <1>0 DEF IsAdder
  <1>2. IsAdder(adder[j])'
    BY <1>0, <1>1 DEF IsAdder
  <1>3. Ordered(j)'
    BY <1>0, <1>1, OrderedStays
  <1>4. Counted(j)' /\ DirRight(j)'
    <2>1. Counted(j)'
      BY <1>1 DEF Counted
    <2>2. parcel' = parcel /\ adder'[j].dir = adder[j].dir /\ DirRight(j)
      BY <1>0, <1>1
    <2> QED BY <2>1, <2>2, DirStays
  <1>5. Link(j)' = Link(j) /\ Crowded(j)' = Crowded(j) /\ FilesOf(j)' = FilesOf(j)
    BY <1>1 DEF Link, Name, Crowded, FilesOf
  <1>6. Wanted(j)' = Wanted(j)
    BY <1>1, <1>5 DEF Wanted
  <1> QED BY <1>1, <1>2, <1>3, <1>4, <1>5, <1>6

\* The same of a step that only goes on.
LEMMA GoesOn ==
    ASSUME FiTypeOK, NEW j \in Jobs, JobInv(j), UNCHANGED parcel,
           adder[j].at \notin {"idle", "order", "error"},
           NEW at \in Place \ {"idle", "order"},
           To(j, [adder[j] EXCEPT !.at = at])
    PROVE  /\ IsAdder(adder[j])' /\ Ordered(j)' /\ Counted(j)' /\ DirRight(j)'
           /\ adder'[j].at = at /\ adder'[j].conf = adder[j].conf /\ adder'[j].new = adder[j].new
           /\ adder'[j].steps = adder[j].steps /\ adder'[j].done = adder[j].done
           /\ adder'[j].dir = adder[j].dir
           /\ Link(j)' = Link(j) /\ Wanted(j)' = Wanted(j) /\ Crowded(j)' = Crowded(j)
           /\ FilesOf(j)' = FilesOf(j)
  <1> DEFINE a == adder[j]
  <1>1. IsAdder(a) /\ a.conf \in {NoConf} \cup FileConf /\ a.new \in {NoFile} \cup FileRow
    BY DEF FiTypeOK, IsAdder
  <1>2. [a EXCEPT !.at = at] = [a EXCEPT !.at = at, !.conf = a.conf, !.new = a.new]
    BY <1>1 DEF IsAdder
  <1>3. Goes(j, at, a.conf, a.new)
    BY <1>2 DEF Goes
  <1> QED BY <1>1, <1>3, StepIs

\* The file that a link uses, of which nobody else has one, is in the table.
LEMMA UsedIs ==
    ASSUME FiTypeOK, NEW j \in Jobs, JobInv(j), adder[j].at = "configure", Link(j).use # FileTag
    PROVE  /\ Link(j).use \in DOMAIN adder[j].dir /\ UsedFile(j) = adder[j].dir[Link(j).use]
           /\ UsedFile(j) \in {NoFile} \cup FileRow
           /\ UsedFile(j) # NoFile => UsedFile(j).hash.content.of = parcel.input[j]
           /\ ~Crowded(j) => UsedFile(j) \in files /\ UsedFile(j) # NoFile
  <1>1. Link(j).use \in DOMAIN adder[j].dir
    BY LinkIs DEF JobInv, Working
  <1>2. UsedFile(j) = adder[j].dir[Link(j).use]
    BY <1>1 DEF UsedFile
  <1>3. UsedFile(j) \in {NoFile} \cup FileRow
    BY <1>1, <1>2 DEF FiTypeOK, IsAdder
  <1>4. UsedFile(j) # NoFile => UsedFile(j).hash.content.of = parcel.input[j]
    BY <1>1, <1>2 DEF JobInv, DirRight
  <1>5. ~Crowded(j) => UsedFile(j) \in files /\ UsedFile(j) # NoFile
    BY <1>1, <1>2, NoneIs DEF JobInv, Undisturbed, FiTypeOK
  <1> QED BY <1>1, <1>2, <1>3, <1>4, <1>5

\* getFileConfig.
LEMMA ConfigureKeeps ==
    ASSUME FiTypeOK, FilesMade, NEW j \in Jobs, JobInv(j), Configure(j)
    PROVE  IsAdder(adder[j])' /\ JobInv(j)'
  <1> DEFINE a == adder[j]
             u == UsedFile(j)
             direct == Link(j).use = FileTag \/ (parcel.via = "data" /\ u # NoFile)
             found == {f \in files : u # NoFile /\ f.hash = u.hash}
             raw == Raw(parcel.input[j])
  <1>0. /\ UNCHANGED <<parcel, files, used, keys, incoming>> /\ a.at = "configure"
        /\ a.done < Len(a.steps) /\ Ordered(j) /\ IsParcel(parcel)
    BY ParcelIs DEF Configure, TableKept, JobInv, Working
  <1>1. ASSUME NEW c \in FileConf, To(j, [a EXCEPT !.at = "lookup", !.conf = c]),
               c.input = Wanted(j), c.input.of = parcel.input[j], c.source[1] = c.input
        PROVE  IsAdder(adder[j])' /\ JobInv(j)'
    <2>1. IsAdder(a) /\ a.new \in {NoFile} \cup FileRow
      BY DEF FiTypeOK, IsAdder
    <2>2. [a EXCEPT !.at = "lookup", !.conf = c]
            = [a EXCEPT !.at = "lookup", !.conf = c, !.new = a.new]
      BY <2>1 DEF IsAdder
    <2>3. Goes(j, "lookup", c, a.new)
      BY <1>1, <2>2 DEF Goes
    <2>4. "lookup" \in Place \ {"idle", "order"}
      BY DEF Place
    <2>5. /\ IsAdder(adder[j])' /\ Ordered(j)' /\ Counted(j)' /\ DirRight(j)'
          /\ adder'[j].at = "lookup" /\ adder'[j].conf = c
          /\ adder'[j].steps = a.steps /\ adder'[j].done = a.done /\ adder'[j].dir = a.dir
          /\ Wanted(j)' = Wanted(j) /\ Crowded(j)' = Crowded(j)
      <3>1. UNCHANGED parcel /\ a.at \notin {"idle", "order", "error"} /\ c \in {NoConf} \cup FileConf
        BY <1>0, <1>1
      <3> QED BY <2>1, <2>3, <2>4, <3>1, StepIs
    <2>6. Working(j)'
      BY <1>0, <1>1, <2>5 DEF Working
    <2>7. Undisturbed(j)'
      BY <1>0, <2>5 DEF JobInv, Undisturbed
    <2> QED BY <2>5, <2>6, <2>7 DEF JobInv
  <1>2. Link(j).plain \in BOOLEAN
    BY <1>0, LinkIs
  <1>3. CASE direct /\ To(j, [a EXCEPT !.at = "lookup",
                        !.conf = [input |-> raw, source |-> checksum(raw, Link(j).plain)]])
    <2> DEFINE c == [input |-> raw, source |-> checksum(raw, Link(j).plain)]
    <2>1. raw \in Encoded /\ raw.of = parcel.input[j]
      BY <1>0 DEF Raw, Encoded, IsParcel
    <2>2. c \in FileConf /\ c.input = raw /\ c.source[1] = raw
      BY <1>2, <2>1 DEF FileConf, checksum
    <2>3. Wanted(j) = raw
      BY <1>3 DEF Wanted
    <2> HIDE DEF c
    <2> QED BY <1>1, <1>3, <2>1, <2>2, <2>3 DEF c
  <1>4. CASE ~direct /\ \E f \in found :
             To(j, [a EXCEPT !.at = "lookup",
                        !.conf = [input |-> f.hash.content, source |-> f.check]])
    <2>1. PICK f \in found : To(j, [a EXCEPT !.at = "lookup",
                        !.conf = [input |-> f.hash.content, source |-> f.check]])
      BY <1>4
    <2> DEFINE c == [input |-> f.hash.content, source |-> f.check]
    <2>2. f \in FileRow /\ Made(f) /\ u # NoFile /\ f.hash = u.hash
      BY <2>1 DEF FiTypeOK, FilesMade
    <2>3. c \in FileConf /\ c.input = f.hash.content /\ c.source[1] = f.hash.content
      BY <2>2, NoneIs, MadeIs DEF FileConf
    <2>4. Link(j).use # FileTag /\ parcel.via # "data"
      BY <1>4, <2>2
    <2>5. Wanted(j) = f.hash.content /\ f.hash.content.of = parcel.input[j]
      BY <1>0, <2>2, <2>4, UsedIs DEF Wanted
    <2> HIDE DEF c
    <2> QED BY <1>1, <2>1, <2>3, <2>5 DEF c
  <1>5. CASE ~direct /\ found = {} /\ To(j, [a EXCEPT !.at = "error"])
    <2>1. Crowded(j)
      BY <1>0, <1>5, UsedIs
    <2>2. "error" \in Place \ {"idle", "order"}
      BY DEF Place
    <2>3. /\ IsAdder(adder[j])' /\ Ordered(j)' /\ Counted(j)' /\ DirRight(j)'
          /\ adder'[j].at = "error" /\ Crowded(j)' = Crowded(j)
      BY <1>0, <1>5, <2>2, GoesOn
    <2>4. Working(j)' /\ Undisturbed(j)'
      BY <2>1, <2>3 DEF Working, Undisturbed
    <2> QED BY <2>3, <2>4 DEF JobInv
  <1> QED BY <1>3, <1>4, <1>5 DEF Configure

\* A file of the mill and options of the link and of what it needs is right.
LEMMA FitsIs ==
    ASSUME FiTypeOK, NEW j \in Jobs, Ordered(j), Working(j),
           adder[j].at \in {"lookup", "mill", "insert", "fetch"},
           NEW f \in FileRow, f.hash.content = Milled(Link(j), adder[j].conf.input),
           f.hash.key = 0 <=> Link(j).plain
    PROVE  Fits(j, f)
  <1>1. /\ adder[j].conf.input = Wanted(j) /\ adder[j].conf.input \in Encoded
        /\ adder[j].conf.input.of = parcel.input[j] /\ adder[j].done < Len(adder[j].steps)
    BY NoneIs DEF Working
  <1>2. Link(j).mill \in Mills /\ Link(j).width \in Nat
    BY <1>1, LinkIs
  <1>3. f.hash.content # Rejected
    BY <1>1, <1>2, MilledIs, NoneIs
  <1>4. Milled(Link(j), adder[j].conf.input).of = parcel.input[j]
    BY <1>1, <1>2, <1>3, MilledIs
  <1> QED BY <1>1, <1>4 DEF Fits

\* The file is known by its source.
LEMMA LookupKeeps ==
    ASSUME FiTypeOK, FilesMade, NEW j \in Jobs, JobInv(j), Lookup(j)
    PROVE  IsAdder(adder[j])' /\ JobInv(j)'
  <1> DEFINE a == adder[j]
             found == GetBySource(Link(j).mill, a.conf.source, Options(Link(j)))
  <1>0. /\ UNCHANGED <<parcel, files, used, keys, incoming>> /\ TableKept /\ a.at = "lookup"
        /\ a.done < Len(a.steps) /\ Ordered(j) /\ Working(j)
        /\ a.conf.source[1] = a.conf.input
    BY DEF Lookup, TableKept, JobInv, Working
  <1>1. CASE found = {} /\ To(j, [a EXCEPT !.at = "mill"])
    <2>1. "mill" \in Place \ {"idle", "order"}
      BY DEF Place
    <2>2. /\ IsAdder(adder[j])' /\ Ordered(j)' /\ Counted(j)' /\ DirRight(j)'
          /\ adder'[j].at = "mill" /\ adder'[j].conf = a.conf
          /\ adder'[j].steps = a.steps /\ adder'[j].done = a.done /\ adder'[j].dir = a.dir
          /\ Link(j)' = Link(j) /\ Wanted(j)' = Wanted(j) /\ Crowded(j)' = Crowded(j)
      BY <1>0, <1>1, <2>1, GoesOn
    <2>3. Working(j)'
      BY <1>0, <2>2 DEF Working
    <2>4. GetBySource(Link(j).mill, a.conf.source, Options(Link(j)))' = found
      BY <1>0, <2>2 DEF GetBySource
    <2>5. Undisturbed(j)'
      BY <1>0, <1>1, <2>2, <2>4 DEF JobInv, Undisturbed
    <2> QED BY <2>2, <2>3, <2>5 DEF JobInv
  <1>2. ASSUME NEW f \in found, To(j, WithFile(j, f)) PROVE IsAdder(adder[j])' /\ JobInv(j)'
    <2>1. /\ f \in files /\ f \in FileRow /\ Made(f) /\ f.mill = Link(j).mill
          /\ f.source = a.conf.source /\ f.opts = Options(Link(j))
      BY DEF GetBySource, FiTypeOK, FilesMade
    <2>2. f.hash.content = Milled(Link(j), a.conf.input)
      <3>1. Link(j).mill \in Mills
        BY <1>0, LinkIs
      <3> QED BY <1>0, <2>1, <3>1, MilledByOptions DEF Made
    <2>3. f.hash.key = 0 <=> Link(j).plain
      BY <2>1 DEF Made, Options
    <2>4. Fits(j, f)
      BY <1>0, <2>1, <2>2, <2>3, FitsIs
    <2> QED BY <1>0, <1>2, <2>1, <2>4, FileGiven
  <1> QED BY <1>1, <1>2 DEF Lookup

\* The output, which may be known by its checksum.
LEMMA MillKeeps ==
    ASSUME FiTypeOK, FilesMade, NEW j \in Jobs, JobInv(j), MillFile(j)
    PROVE  IsAdder(adder[j])' /\ JobInv(j)' /\ keys' \in Nat
  <1> DEFINE a == adder[j]
             out == Milled(Link(j), a.conf.input)
             check == checksum(out, Link(j).plain)
             found == GetByPrimary(Link(j).mill, check)
             new == [mill |-> Link(j).mill, check |-> check, source |-> a.conf.source,
                     opts |-> Options(Link(j)),
                     hash |-> [content |-> out, key |-> IF Link(j).plain THEN 0 ELSE keys']]
  <1>0. /\ UNCHANGED <<parcel, files, used, incoming>> /\ a.at = "mill"
        /\ a.done < Len(a.steps) /\ Ordered(j) /\ Working(j) /\ keys \in Nat
        /\ a.conf.source[1] = a.conf.input /\ a.conf \in FileConf
    BY DEF MillFile, JobInv, Working, FiTypeOK
  <1>1. /\ Link(j).mill \in Mills /\ Link(j).width \in Nat /\ Link(j).plain \in BOOLEAN
        /\ a.conf.input \in Encoded /\ a.conf.source \in Encoded \X BOOLEAN
    BY <1>0, LinkIs, NoneIs
  <1>2. CASE out = Rejected /\ To(j, [a EXCEPT !.at = "error"]) /\ keys' = keys
    <2>1. "error" \in Place \ {"idle", "order"}
      BY DEF Place
    <2>2. /\ IsAdder(adder[j])' /\ Ordered(j)' /\ Counted(j)' /\ DirRight(j)'
          /\ adder'[j].at = "error" /\ adder'[j].conf = a.conf
          /\ adder'[j].steps = a.steps /\ adder'[j].done = a.done /\ Link(j)' = Link(j)
      BY <1>0, <1>2, <2>1, GoesOn
    <2>3. Refused(j)'
      <3>1. a.steps # <<>> /\ a.conf # NoConf
        BY <1>0, NoneIs DEF FiTypeOK, IsAdder
      <3> QED BY <1>0, <1>2, <2>2, <3>1 DEF Refused
    <2>4. Working(j)' /\ Undisturbed(j)'
      BY <2>2, <2>3 DEF Working, Undisturbed
    <2> QED BY <1>0, <1>2, <2>2, <2>4 DEF JobInv
  <1>3. ASSUME keys' = keys, NEW f \in found, To(j, WithFile(j, f))
        PROVE  IsAdder(adder[j])' /\ JobInv(j)' /\ keys' \in Nat
    <2>1. f \in files /\ f \in FileRow /\ Made(f) /\ f.mill = Link(j).mill /\ f.check = check
      BY DEF GetByPrimary, FiTypeOK, FilesMade
    <2>2. f.hash.content = out /\ (f.hash.key = 0 <=> Link(j).plain)
      BY <2>1, MadeIs DEF Made, checksum
    <2>3. Fits(j, f)
      BY <1>0, <2>1, <2>2, FitsIs
    <2>4. TableKept
      BY <1>0, <1>3 DEF TableKept
    <2> QED BY <1>0, <1>3, <2>1, <2>3, <2>4, FileGiven
  <1>4. CASE /\ out # Rejected /\ found = {}
             /\ keys' = IF Link(j).plain THEN keys ELSE keys + 1
             /\ To(j, [a EXCEPT !.at = "insert", !.new = new])
    <2>1. out \in Encoded /\ keys' \in Nat /\ (~Link(j).plain => keys' # 0)
      BY <1>0, <1>1, <1>4, MilledIs
    <2>2. Options(Link(j)) \in Nat \X BOOLEAN
      BY <1>1 DEF Options
    <2>3. new.hash \in FileHash /\ new.hash.content = out /\ (new.hash.key = 0 <=> Link(j).plain)
      BY <2>1 DEF FileHash
    <2>4. check \in Encoded \X BOOLEAN
      BY <1>1, <2>1 DEF checksum
    <2>5. /\ new \in FileRow /\ new.mill = Link(j).mill /\ new.check = check
          /\ new.source = a.conf.source /\ new.opts = Options(Link(j))
      BY <1>1, <2>2, <2>3, <2>4 DEF FileRow
    <2> HIDE DEF new
    <2>6. Fits(j, new)
      BY <1>0, <2>3, <2>5, FitsIs
    <2>7. Made(new)
      <3>1. Milled([mill |-> new.mill, width |-> new.opts[1]], new.source[1]) = out
        BY <1>0, <1>1, <2>5, MilledByOptions
      <3>2. new.opts[2] = Link(j).plain
        BY <2>5 DEF Options
      <3> QED BY <2>3, <2>5, <3>1, <3>2 DEF Made
    <2>8. Goes(j, "insert", a.conf, new)
      <3>1. IsAdder(a)
        BY DEF FiTypeOK
      <3>2. [a EXCEPT !.at = "insert", !.new = new]
              = [a EXCEPT !.at = "insert", !.conf = a.conf, !.new = new]
        BY <3>1 DEF IsAdder
      <3> QED BY <1>4, <3>2 DEF Goes
    <2>9. "insert" \in Place \ {"idle", "order"} /\ a.conf \in {NoConf} \cup FileConf
      BY <1>0 DEF Place
    <2>10. /\ IsAdder(adder[j])' /\ Ordered(j)' /\ Counted(j)' /\ DirRight(j)'
           /\ adder'[j].at = "insert" /\ adder'[j].conf = a.conf /\ adder'[j].new = new
           /\ adder'[j].steps = a.steps /\ adder'[j].done = a.done /\ adder'[j].dir = a.dir
           /\ Link(j)' = Link(j) /\ Wanted(j)' = Wanted(j) /\ Crowded(j)' = Crowded(j)
      <3>1. /\ UNCHANGED parcel /\ a.at \notin {"idle", "order", "error"}
            /\ new \in {NoFile} \cup FileRow
        BY <1>0, <2>5
      <3> QED BY <2>8, <2>9, <3>1, StepIs
    <2>11. Working(j)'
      <3>1. Fits(j, adder[j].new)' /\ Made(adder[j].new)'
        BY <1>0, <2>6, <2>7, <2>10 DEF Fits, Made
      <3> QED BY <1>0, <2>5, <2>10, <3>1 DEF Working
    <2>12. Undisturbed(j)'
      <3> SUFFICES ASSUME ~Crowded(j) PROVE Undisturbed(j)'
        BY <2>10 DEF Undisturbed
      <3>1. /\ \A h \in used : h.content.of # parcel.input[j]
            /\ \A n \in DOMAIN a.dir : a.dir[n] \in files
            /\ GetBySource(Link(j).mill, a.conf.source, Options(Link(j))) = {}
        BY <1>0 DEF JobInv, Undisturbed
      <3>2. ~Conflict(new)
        BY <1>4, <2>5, <3>1 DEF Conflict
      <3>3. ~Conflict(adder[j].new)'
        BY <1>0, <2>10, <3>2 DEF Conflict, GetByPrimary, GetBySource
      <3> QED BY <1>0, <2>10, <3>1, <3>3 DEF Undisturbed
    <2> QED BY <2>1, <2>10, <2>11, <2>12 DEF JobInv
  <1> QED BY <1>0, <1>2, <1>3, <1>4 DEF MillFile

\* The row, unless another one is in its place.
LEMMA InsertKeeps ==
    ASSUME FiTypeOK, FilesMade, NEW j \in Jobs, JobInv(j), Insert(j)
    PROVE  IsAdder(adder[j])' /\ JobInv(j)'
  <1> DEFINE a == adder[j]
  <1>0. /\ UNCHANGED <<parcel, used, keys, incoming>> /\ a.at = "insert" /\ Working(j)
        /\ files' = (IF Conflict(a.new) THEN files ELSE files \cup {a.new})
        /\ "fetch" \in Place \ {"idle", "order"} /\ To(j, [a EXCEPT !.at = "fetch"])
    BY DEF Insert, JobInv, Place
  <1>1. /\ IsAdder(adder[j])' /\ Ordered(j)' /\ Counted(j)' /\ DirRight(j)'
        /\ adder'[j].at = "fetch" /\ adder'[j].conf = a.conf /\ adder'[j].new = a.new
        /\ adder'[j].steps = a.steps /\ adder'[j].done = a.done /\ adder'[j].dir = a.dir
        /\ Link(j)' = Link(j) /\ Wanted(j)' = Wanted(j) /\ Crowded(j)' = Crowded(j)
    BY <1>0, GoesOn
  <1>2. Working(j)'
    <2>1. Fits(j, adder[j].new)' /\ Made(adder[j].new)'
      BY <1>0, <1>1 DEF Fits, Made, Working
    <2> QED BY <1>0, <1>1, <2>1 DEF Working
  <1>3. Undisturbed(j)'
    BY <1>0, <1>1 DEF JobInv, Undisturbed
  <1> QED BY <1>1, <1>2, <1>3 DEF JobInv

\* The row, by its hash, or none.
LEMMA FetchKeeps ==
    ASSUME FiTypeOK, FilesMade, NEW j \in Jobs, JobInv(j), Fetch(j)
    PROVE  IsAdder(adder[j])' /\ JobInv(j)'
  <1> DEFINE a == adder[j]
             found == Get(a.new.hash)
  <1>0. /\ UNCHANGED <<parcel, files, used, keys, incoming>> /\ TableKept /\ a.at = "fetch"
        /\ a.new \in FileRow /\ Fits(j, a.new)
        /\ ~Crowded(j) => a.new \in files
    BY DEF Fetch, TableKept, JobInv, Working, Undisturbed
  <1>1. ASSUME NEW f \in found, To(j, WithFile(j, f)) PROVE IsAdder(adder[j])' /\ JobInv(j)'
    <2>1. f \in files /\ f \in FileRow /\ f.hash = a.new.hash
      BY DEF Get, FiTypeOK
    <2>2. Fits(j, f)
      BY <1>0, <2>1 DEF Fits
    <2> QED BY <1>0, <1>1, <2>1, <2>2, FileGiven
  <1>2. CASE /\ found = {}
             /\ To(j, IF parcel.via = "http" THEN [a EXCEPT !.at = "error"] ELSE WithFile(j, NoFile))
    <2>1. Crowded(j)
      BY <1>0, <1>2 DEF Get
    <2>2. CASE parcel.via = "http"
      <3>1. "error" \in Place \ {"idle", "order"} /\ To(j, [a EXCEPT !.at = "error"])
        BY <1>2, <2>2 DEF Place
      <3>2. /\ IsAdder(adder[j])' /\ Ordered(j)' /\ Counted(j)' /\ DirRight(j)'
            /\ adder'[j].at = "error" /\ Crowded(j)' = Crowded(j)
        BY <1>0, <3>1, GoesOn
      <3> QED BY <2>1, <3>2 DEF JobInv, Working, Undisturbed
    <2>3. CASE parcel.via # "http"
      <3>1. To(j, WithFile(j, NoFile)) /\ NoFile \in FileRow \cup {NoFile}
        BY <1>2, <2>3
      <3> QED BY <1>0, <2>1, <3>1, FileGiven
    <2> QED BY <2>2, <2>3
  <1> QED BY <1>1, <1>2 DEF Fetch

\* A job that nobody disturbs has its rows when it makes its node and its block.
LEMMA RowsThere ==
    ASSUME FiTypeOK, NEW j \in Jobs, JobInv(j), ~Crowded(j), adder[j].at \in {"node", "post"}
    PROVE  HaveRows(j) /\ NoFile \notin FilesOf(j)
  <1>1. \A f \in FilesOf(j) : f \in files /\ f # NoFile
    BY NoneIs DEF JobInv, Undisturbed, FilesOf, FiTypeOK
  <1>2. \A f \in FilesOf(j) : Get(f.hash) # {}
    BY <1>1 DEF Get
  <1> QED BY <1>1, <1>2 DEF HaveRows, HashesOf

\* The node.
LEMMA NodeKeeps ==
    ASSUME FiTypeOK, NEW j \in Jobs, JobInv(j), AddNode(j)
    PROVE  IsAdder(adder[j])' /\ JobInv(j)'
  <1> DEFINE a == adder[j]
             at == IF NoFile \in FilesOf(j) THEN "panic" ELSE IF HaveRows(j) THEN "post" ELSE "error"
  <1>0. /\ UNCHANGED <<parcel, files, used, keys, incoming>> /\ a.at = "node"
        /\ at \in Place \ {"idle", "order"} /\ To(j, [a EXCEPT !.at = at])
    BY DEF AddNode, TableKept, Place
  <1>1. /\ at \in {"panic", "post", "error"} /\ (at = "post" => NoFile \notin FilesOf(j))
        /\ ~Crowded(j) => at = "post"
    BY <1>0, RowsThere
  <1> HIDE DEF at
  <1>2. /\ IsAdder(adder[j])' /\ Ordered(j)' /\ Counted(j)' /\ DirRight(j)'
        /\ adder'[j].at = at /\ adder'[j].dir = a.dir
        /\ Crowded(j)' = Crowded(j) /\ FilesOf(j)' = FilesOf(j)
    BY <1>0, GoesOn
  <1>3. Working(j)'
    BY <1>1, <1>2 DEF Working
  <1>4. Undisturbed(j)'
    BY <1>0, <1>1, <1>2 DEF JobInv, Undisturbed
  <1> QED BY <1>2, <1>3, <1>4 DEF JobInv

\* The block.
LEMMA PostKeeps ==
    ASSUME FiTypeOK, NEW j \in Jobs, JobInv(j), Post(j)
    PROVE  IsAdder(adder[j])' /\ JobInv(j)'
  <1> DEFINE a == adder[j]
             at == IF HaveRows(j) THEN "done" ELSE "error"
  <1>0. /\ UNCHANGED <<parcel, files, keys, incoming>> /\ a.at = "post"
        /\ at \in Place \ {"idle", "order"} /\ To(j, [a EXCEPT !.at = at])
    BY DEF Post, Place
  <1>1. /\ at \in {"done", "error"} /\ NoFile \notin FilesOf(j)
        /\ ~Crowded(j) => at = "done"
    BY <1>0, RowsThere DEF JobInv, Working
  <1> HIDE DEF at
  <1>2. /\ IsAdder(adder[j])' /\ Ordered(j)' /\ Counted(j)' /\ DirRight(j)'
        /\ adder'[j].at = at /\ adder'[j].dir = a.dir
        /\ Crowded(j)' = Crowded(j) /\ FilesOf(j)' = FilesOf(j)
    BY <1>0, GoesOn
  <1>3. Working(j)'
    BY <1>1, <1>2 DEF Working
  <1>4. Undisturbed(j)'
    BY <1>0, <1>1, <1>2 DEF JobInv, Undisturbed
  <1> QED BY <1>2, <1>3, <1>4 DEF JobInv

\* The files table.
TableOK ==
    /\ parcel \in Parcels
    /\ files \subseteq FileRow /\ used \subseteq FileHash
    /\ \A f, g \in files : Twins(f, g) => f = g
    /\ keys \in Nat /\ incoming \subseteq parcel.remote

\* One job did something: the others are right if what it did is apart from them.
LEMMA AllKeep ==
    ASSUME FiInv, NEW j \in Jobs, UNCHANGED parcel, TableOK', FilesMade', DOMAIN adder' = Jobs,
           IsAdder(adder[j])', JobInv(j)',
           \A k \in Jobs \ {j} : adder'[k] = adder[k] /\ Apart(k)
    PROVE  FiInv'
  <1>1. ASSUME NEW k \in Jobs \ {j} PROVE IsAdder(adder[k])'
    <2>1. IsAdder(adder[k]) /\ adder'[k] = adder[k]
      BY DEF FiInv, FiTypeOK
    <2> QED BY <2>1 DEF IsAdder
  <1>2. FiTypeOK'
    BY <1>1 DEF FiTypeOK, TableOK
  <1>3. ASSUME NEW k \in Jobs \ {j} PROVE JobInv(k)'
    BY <1>2, OthersKeep DEF FiInv
  <1> QED BY <1>2, <1>3 DEF FiInv

\* A conflict is the row of another file.
LEMMA NoTwin ==
    ASSUME TableOK, NEW f \in FileRow
    PROVE  LET rows == IF Conflict(f) THEN files ELSE files \cup {f} IN
           /\ rows \subseteq FileRow
           /\ \A g, h \in rows : Twins(g, h) => g = h
  <1>1. ~Conflict(f) => \A g \in files : ~Twins(f, g) /\ ~Twins(g, f)
    BY DEF Conflict, GetByPrimary, GetBySource, Twins
  <1> QED BY <1>1 DEF TableOK

\* A step of a job that leaves the table as it is.
LEMMA TableAsIs ==
    ASSUME FiInv, NEW j \in Jobs, UNCHANGED <<parcel, files, used, incoming>>, keys' \in Nat,
           NEW r, To(j, r), IsAdder(adder[j])', JobInv(j)'
    PROVE  FiInv'
  <1>1. TableOK' /\ FilesMade'
    BY DEF FiInv, FiTypeOK, TableOK, FilesMade, Made
  <1>2. DOMAIN adder' = Jobs /\ \A k \in Jobs \ {j} : adder'[k] = adder[k] /\ Apart(k)
    BY ToIs DEF FiInv, Apart
  <1> QED BY <1>1, <1>2, AllKeep

\* Every step keeps the files right.
LEMMA FiNextKeeps ==
    ASSUME FiInv, [FiNext]_fiVars
    PROVE  FiInv'
  <1>0. FiTypeOK /\ FilesMade /\ TableOK /\ keys \in Nat /\ \A j \in Jobs : JobInv(j)
    BY DEF FiInv, FiTypeOK, TableOK
  <1>1. ASSUME NEW j \in Jobs, BeginFile(j) PROVE FiInv'
    <2>1. IsAdder(adder[j])' /\ JobInv(j)'
      BY <1>0, <1>1, BeginKeeps
    <2>2. PICK r : To(j, r) /\ TableKept
      BY <1>1 DEF BeginFile
    <2> QED BY <1>0, <2>1, <2>2, TableAsIs DEF TableKept
  <1>2. ASSUME NEW j \in Jobs, NEW l \in DOMAIN parcel.links, OrderLink(j, l) PROVE FiInv'
    <2>1. IsAdder(adder[j])' /\ JobInv(j)'
      BY <1>0, <1>2, OrderKeeps DEF AllLinks
    <2>2. PICK r : To(j, r) /\ TableKept
      BY <1>2 DEF OrderLink
    <2> QED BY <1>0, <2>1, <2>2, TableAsIs DEF TableKept
  <1>3. ASSUME NEW j \in Jobs, NextRound(j) PROVE FiInv'
    <2>1. IsAdder(adder[j])' /\ JobInv(j)'
      BY <1>0, <1>3, RoundKeeps
    <2>2. PICK r : To(j, r) /\ TableKept
      BY <1>3 DEF NextRound
    <2> QED BY <1>0, <2>1, <2>2, TableAsIs DEF TableKept
  <1>4. ASSUME NEW j \in Jobs, Configure(j) PROVE FiInv'
    <2>1. IsAdder(adder[j])' /\ JobInv(j)'
      BY <1>0, <1>4, ConfigureKeeps
    <2>2. PICK r : To(j, r) /\ TableKept
      BY <1>4 DEF Configure
    <2> QED BY <1>0, <2>1, <2>2, TableAsIs DEF TableKept
  <1>5. ASSUME NEW j \in Jobs, Lookup(j) PROVE FiInv'
    <2>1. IsAdder(adder[j])' /\ JobInv(j)'
      BY <1>0, <1>5, LookupKeeps
    <2>2. PICK r : To(j, r) /\ TableKept
      BY <1>5 DEF Lookup
    <2> QED BY <1>0, <2>1, <2>2, TableAsIs DEF TableKept
  <1>6. ASSUME NEW j \in Jobs, MillFile(j) PROVE FiInv'
    <2>1. IsAdder(adder[j])' /\ JobInv(j)' /\ keys' \in Nat
      BY <1>0, <1>6, MillKeeps
    <2>2. PICK r : To(j, r)
      BY <1>6 DEF MillFile
    <2>3. UNCHANGED <<parcel, files, used, incoming>>
      BY <1>6 DEF MillFile
    <2> QED BY <1>0, <2>1, <2>2, <2>3, TableAsIs
  <1>7. ASSUME NEW j \in Jobs, Insert(j) PROVE FiInv'
    <2>1. IsAdder(adder[j])' /\ JobInv(j)'
      BY <1>0, <1>7, InsertKeeps
    <2>2. /\ UNCHANGED <<parcel, used, keys, incoming>> /\ adder[j].at = "insert"
          /\ files' = (IF Conflict(adder[j].new) THEN files ELSE files \cup {adder[j].new})
          /\ To(j, [adder[j] EXCEPT !.at = "fetch"])
      BY <1>7 DEF Insert
    <2>3. /\ adder[j].new \in FileRow /\ Made(adder[j].new)
          /\ adder[j].new.hash.content.of = parcel.input[j]
      BY <1>0, <2>2 DEF JobInv, Working, Fits
    <2>4. TableOK'
      <3>1. /\ files' \subseteq FileRow
            /\ \A g, h \in files' : Twins(g, h) => g = h
        BY <1>0, <2>2, <2>3, NoTwin
      <3> QED BY <1>0, <2>2, <3>1 DEF TableOK
    <2>5. FilesMade'
      BY <1>0, <2>2, <2>3 DEF FilesMade, Made
    <2>6. ASSUME NEW k \in Jobs \ {j} PROVE adder'[k] = adder[k] /\ Apart(k)
      <3>1. adder'[k] = adder[k]
        BY <1>0, <2>2, ToIs
      <3>2. ~Crowded(k) => parcel.input[j] # parcel.input[k]
        BY DEF Crowded
      <3> QED BY <2>2, <2>3, <3>1, <3>2 DEF Apart
    <2>7. DOMAIN adder' = Jobs
      BY <1>0, <2>2, ToIs
    <2> QED BY <2>1, <2>2, <2>4, <2>5, <2>6, <2>7, AllKeep
  <1>8. ASSUME NEW j \in Jobs, Fetch(j) PROVE FiInv'
    <2>1. IsAdder(adder[j])' /\ JobInv(j)'
      BY <1>0, <1>8, FetchKeeps
    <2>2. PICK r : To(j, r) /\ TableKept
      BY <1>8 DEF Fetch
    <2> QED BY <1>0, <2>1, <2>2, TableAsIs DEF TableKept
  <1>9. ASSUME NEW j \in Jobs, AddNode(j) PROVE FiInv'
    <2>1. IsAdder(adder[j])' /\ JobInv(j)'
      BY <1>0, <1>9, NodeKeeps
    <2>2. PICK r : To(j, r) /\ TableKept
      BY <1>9 DEF AddNode
    <2> QED BY <1>0, <2>1, <2>2, TableAsIs DEF TableKept
  <1>10. ASSUME NEW j \in Jobs, Post(j) PROVE FiInv'
    <2>1. IsAdder(adder[j])' /\ JobInv(j)'
      BY <1>0, <1>10, PostKeeps
    <2>2. /\ UNCHANGED <<parcel, files, keys, incoming>> /\ adder[j].at = "post"
          /\ used' = used \cup {h \in HashesOf(j) : Get(h) # {}}
          /\ To(j, [adder[j] EXCEPT !.at = IF HaveRows(j) THEN "done" ELSE "error"])
      BY <1>10 DEF Post
    <2>3. ASSUME NEW h \in HashesOf(j) PROVE h \in FileHash /\ h.content.of = parcel.input[j]
      <3>1. PICK n \in DOMAIN adder[j].dir : h = adder[j].dir[n].hash /\ adder[j].dir[n] # NoFile
        BY <1>0, <2>2 DEF HashesOf, FilesOf, JobInv, Working
      <3>2. adder[j].dir[n] \in FileRow
        BY <1>0, <3>1 DEF FiTypeOK, IsAdder
      <3>3. h.content.of = parcel.input[j]
        BY <1>0, <3>1 DEF JobInv, DirRight
      <3> QED BY <3>1, <3>2, <3>3, NoneIs
    <2>4. TableOK'
      BY <1>0, <2>2, <2>3 DEF TableOK
    <2>5. FilesMade'
      BY <1>0, <2>2 DEF FilesMade, Made
    <2>6. ASSUME NEW k \in Jobs \ {j} PROVE adder'[k] = adder[k] /\ Apart(k)
      <3>1. adder'[k] = adder[k]
        BY <1>0, <2>2, ToIs
      <3>2. ~Crowded(k) => parcel.input[j] # parcel.input[k]
        BY DEF Crowded
      <3> QED BY <2>2, <2>3, <3>1, <3>2 DEF Apart
    <2>7. DOMAIN adder' = Jobs
      BY <1>0, <2>2, ToIs
    <2> QED BY <2>1, <2>2, <2>4, <2>5, <2>6, <2>7, AllKeep
  <1>11. ASSUME UNCHANGED <<parcel, adder>>, TableOK', FilesMade', \A j \in Jobs : Apart(j) PROVE FiInv'
    <2>1. FiTypeOK'
      <3>1. ASSUME NEW j \in Jobs PROVE IsAdder(adder[j])'
        BY <1>0, <1>11 DEF FiTypeOK, IsAdder
      <3> QED BY <1>0, <1>11, <3>1 DEF FiTypeOK, TableOK
    <2>2. ASSUME NEW j \in Jobs PROVE JobInv(j)'
      BY <1>0, <1>11, <2>1, OthersKeep
    <2> QED BY <1>11, <2>1, <2>2 DEF FiInv
  <1>12. ASSUME NEW f \in incoming, Receive(f) PROVE FiInv'
    <2>1. f \in FileRow /\ Made(f) /\ f \in parcel.remote
      BY <1>0, ParcelIs DEF TableOK, FilesMade, IsParcel
    <2>2. /\ UNCHANGED <<parcel, keys, adder>> /\ incoming' = incoming \ {f}
          /\ files' = (IF Conflict(f) THEN files ELSE files \cup {f})
          /\ used' = (IF Conflict(f) THEN used ELSE used \cup {f.hash})
      BY <1>12 DEF Receive
    <2>3. TableOK'
      <3>1. /\ files' \subseteq FileRow
            /\ \A g, h \in files' : Twins(g, h) => g = h
        BY <1>0, <2>1, <2>2, NoTwin
      <3> QED BY <1>0, <2>1, <2>2, <3>1, NoneIs DEF TableOK
    <2>4. FilesMade'
      BY <1>0, <2>1, <2>2 DEF FilesMade, Made
    <2>5. ASSUME NEW j \in Jobs PROVE Apart(j)
      BY <2>1, <2>2 DEF Apart, Crowded
    <2> QED BY <1>11, <2>2, <2>3, <2>4, <2>5
  <1>13. ASSUME NEW h \in used, RemoveFiles(h) PROVE FiInv'
    <2>1. UNCHANGED <<parcel, keys, incoming, adder>> /\ files' = files \ Get(h) /\ used' = used \ {h}
      BY <1>13 DEF RemoveFiles
    <2>2. TableOK'
      BY <1>0, <2>1 DEF TableOK
    <2>3. FilesMade'
      BY <1>0, <2>1 DEF FilesMade, Made
    <2>4. ASSUME NEW j \in Jobs PROVE Apart(j)
      <3>1. ~Crowded(j) /\ adder[j].at \notin {"done", "error"} => h.content.of # parcel.input[j]
        BY <1>0 DEF JobInv, Undisturbed
      <3> QED BY <2>1, <3>1 DEF Apart, Get
    <2> QED BY <1>11, <2>1, <2>2, <2>3, <2>4
  <1>14. CASE UNCHANGED fiVars
    <2>1. UNCHANGED <<parcel, files, used, keys, incoming, adder>>
      BY <1>14 DEF fiVars
    <2>2. TableOK' /\ FilesMade'
      BY <1>0, <2>1 DEF TableOK, FilesMade, Made
    <2>3. \A j \in Jobs : Apart(j)
      BY <2>1 DEF Apart
    <2> QED BY <1>11, <2>1, <2>2, <2>3
  <1> QED BY <1>1, <1>2, <1>3, <1>4, <1>5, <1>6, <1>7, <1>8, <1>9, <1>10, <1>12, <1>13, <1>14 DEF FiNext

\* In the beginning there is nothing.
LEMMA FiInitRight ==
    ASSUME FiInit
    PROVE  FiInv
  <1>1. /\ parcel \in Parcels /\ IsParcel(parcel) /\ files = {} /\ used = {} /\ keys = 0
        /\ incoming = parcel.remote /\ DOMAIN adder = Jobs
        /\ \A j \in Jobs : adder[j] = NoJob
    BY FileIndexAssumption DEF FiInit
  <1>2. Cardinality(AllLinks) \in Nat
    BY <1>1, FS_CardinalityType DEF IsParcel, AllLinks
  <1>3. ASSUME NEW j \in Jobs PROVE IsAdder(adder[j]) /\ JobInv(j)
    <2>1. /\ adder[j].at = "idle" /\ adder[j].steps = <<>> /\ adder[j].done = 0 /\ adder[j].round = 0
          /\ adder[j].run = {} /\ adder[j].unused = {} /\ adder[j].conf = NoConf
          /\ adder[j].new = NoFile /\ adder[j].dir = [n \in {} |-> NoFile]
          /\ DOMAIN adder[j] = {"at", "run", "unused", "round", "steps", "done", "conf", "new", "dir"}
      BY <1>1 DEF NoJob
    <2>2. Len(adder[j].steps) = 0 /\ DOMAIN adder[j].steps = {} /\ DOMAIN adder[j].dir = {}
      BY <2>1
    <2>3. IsAdder(adder[j])
      <3>1. adder[j].steps \in Seq(DOMAIN parcel.links) /\ adder[j].at \in Place
        BY <2>1 DEF Place
      <3> QED BY <1>2, <2>1, <2>2, <3>1 DEF IsAdder, AllLinks
    <2>4. Ordered(j)
      BY <2>1, <2>2 DEF Ordered
    <2>5. Counted(j) /\ Working(j) /\ DirRight(j) /\ Undisturbed(j)
      BY <1>1, <2>1, <2>2 DEF Counted, Working, DirRight, Undisturbed
    <2> QED BY <2>3, <2>4, <2>5 DEF JobInv
  <1>4. FilesMade
    BY <1>1 DEF FilesMade, IsParcel
  <1>5. FiTypeOK
    BY <1>1, <1>3 DEF FiTypeOK
  <1> QED BY <1>3, <1>4, <1>5 DEF FiInv

\* The invariant is more than what it is for.
LEMMA FiInvRight ==
    ASSUME FiInv
    PROVE  FilesRight
  <1>1. DirectoryRight
    BY DEF FiInv, JobInv, DirRight, DirectoryRight
  <1>2. ASSUME NEW j \in Jobs
        PROVE  /\ adder[j].at = "panic" => Crowded(j)
               /\ adder[j].at = "error" =>
                   \/ ~Solvable
                   \/ /\ adder[j].steps # <<>> /\ adder[j].done < Len(adder[j].steps)
                      /\ adder[j].conf # NoConf
                      /\ Milled(Link(j), adder[j].conf.input) = Rejected
                   \/ Crowded(j)
               /\ adder[j].at \in {"configure", "done"} => Solvable
    <2>1. Ordered(j) /\ Undisturbed(j) /\ FiTypeOK
      BY DEF FiInv, JobInv
    <2>2. adder[j].at \in {"configure", "done"} => Solvable
      BY <2>1, OrderSolves DEF Ordered
    <2> QED BY <2>1, <2>2 DEF Undisturbed, Refused
  <1> QED BY <1>1, <1>2 DEF FilesRight, FailsForReason

\* Types: what the table, the goroutines and their files are, and that no two
\* rows have the same checksum, or the same source and options, for one mill.
THEOREM FilesTypeCorrect == FiSpec => []FiTypeOK
  <1>1. FiInit => FiInv
    BY FiInitRight
  <1>2. FiInv /\ [FiNext]_fiVars => FiInv'
    BY FiNextKeeps
  <1>3. FiInv => FiTypeOK
    BY DEF FiInv
  <1> QED BY <1>1, <1>2, <1>3, PTL DEF FiSpec

\* A directory has the files its schema asks for, or an error of its own,
\* however many goroutines add, receive and remove files.
THEOREM FilesAlwaysRight == FiSpec => []FilesRight
  <1>1. FiInit => FiInv
    BY FiInitRight
  <1>2. FiInv /\ [FiNext]_fiVars => FiInv'
    BY FiNextKeeps
  <1>3. FiInv => FilesRight
    BY FiInvRight
  <1> QED BY <1>1, <1>2, <1>3, PTL DEF FiSpec
=============================================================================
