------------------------------- MODULE Invites -------------------------------
(***************************************************************************)
(* What a node does with the messages that reach it: invites, which the    *)
(* user accepts or ignores, blocks of threads it is in, the notifications  *)
(* of both, and the threads that come and go with them.  core/invites.go,  *)
(* notifications.go, AddThread and RemoveThread of threads.go, loadThread  *)
(* and sendNotification of core.go, Handle and handleAdd of                *)
(* threads_service.go.                                                     *)
(*                                                                         *)
(* A handler, or a call of the user, is a task; its database statements    *)
(* are its steps, and tasks interleave.  Nothing guards the list of loaded *)
(* threads, which a removal reads once and shifts later.                   *)
(***************************************************************************)
EXTENDS Naturals, FiniteSets, SequencesExt

CONSTANTS
    Threads,    \* the threads
    Adds,       \* ADD blocks that arrive from others
    Updates,    \* blocks of the threads that arrive from others
    Tasks,      \* handlers and calls that run at the same time
    Occasions,  \* what may happen in a behaviour: see Occasion
    MaxBreaks   \* bound: how often a statement fails or the process dies

\* of: the thread of each block; actor: its author; own: ADD and LEAVE blocks
\* of the account's other peers; leaves: the LEAVE blocks; copies: how often
\* each block is delivered; start: the threads at first; removes: those that
\* the user may remove; creates: those that the user may add.
Occasion == [of : [Adds \cup Updates -> Threads], actor : [Adds \cup Updates -> STRING],
             own : SUBSET (Adds \cup Updates), leaves : SUBSET Updates,
             copies : [Adds \cup Updates -> Nat], start : SUBSET Threads,
             removes : SUBSET Threads, creates : SUBSET Threads]

ASSUME InvitesAssumption ==
    /\ Occasions \subseteq Occasion /\ MaxBreaks \in Nat
    /\ IsFiniteSet(Threads)
    /\ Adds \cap Updates = {} /\ Threads \cap (Adds \cup Updates) = {}

VARIABLES
    occasion,   \* chosen once: see Occasions
    rows,       \* the threads table, in the order of its rows
    roster,     \* loadedThreads
    joined,     \* threads with a JOIN of this node in the blocks table
    stored,     \* updates in the blocks table
    waiting,    \* the invites table
    notes,      \* the number of notifications of each block
    copies,     \* deliveries to come
    tasks,      \* what each task does: see Task
    acked,      \* ADDs whose senders got an answer
    refused,    \* invites that were ignored
    entered,    \* threads that once had a row
    blurred,    \* blocks and threads that tasks fought over, or one left half done
    torn,       \* two removals overlapped, or a load failed
    breaks      \* failures so far

invVars == <<occasion, rows, roster, joined, stored, waiting, notes, copies, tasks, acked,
             refused, entered, blurred, torn, breaks>>

Message == Adds \cup Updates
NoTask == [op |-> "none", what |-> "none", at |-> "none", index |-> 0]
Steps == {"none", "look", "store", "head", "note", "find", "leave", "delete", "drop", "get",
          "row", "load", "join", "forget", "unnote"}
Task == [op : {"none", "handle", "accept", "ignore", "remove", "add"},
         what : Message \cup Threads \cup {"none"}, at : Steps, index : Nat]
TaskAt(op, what, at) == [op |-> op, what |-> what, at |-> at, index |-> 0]

InvTypeOK ==
    /\ occasion \in Occasions
    /\ rows \in Seq(Threads) /\ roster \in Seq(Threads)
    /\ joined \subseteq Threads /\ stored \subseteq Updates
    /\ waiting \subseteq Adds /\ notes \in [Message -> Nat] /\ copies \in [Message -> Nat]
    /\ tasks \in [Tasks -> Task]
    /\ acked \subseteq Adds /\ refused \subseteq Adds /\ entered \subseteq Threads
    /\ blurred \subseteq Message \cup Threads /\ torn \in BOOLEAN /\ breaks \in 0..MaxBreaks

InvInit ==
    /\ occasion \in Occasions
    /\ rows = SetToSeq(occasion.start) /\ roster = rows
    /\ joined = occasion.start /\ stored = {} /\ waiting = {}
    /\ notes = [m \in Message |-> 0] /\ copies = occasion.copies
    /\ tasks = [k \in Tasks |-> NoTask]
    /\ acked = {} /\ refused = {} /\ entered = occasion.start
    /\ blurred = {} /\ torn = FALSE /\ breaks = 0

ThreadOf(x) == IF x \in Threads THEN x ELSE occasion.of[x]
BlocksIn(t) == {m \in Message : occasion.of[m] = t}
Loaded(t) == t \in ToSet(roster)
HasRow(t) == t \in ToSet(rows)
Position(s, t) == CHOOSE i \in DOMAIN s : s[i] = t

\* Every table but those that a step names.
deskVars == <<occasion, copies, acked, refused, entered, blurred, torn, breaks>>

Goto(k, at) == tasks' = [tasks EXCEPT ![k].at = at]
Done(k) == tasks' = [tasks EXCEPT ![k] = NoTask]

\* What is in the way of a task: a removal of its thread, and for an invite
\* a second delivery while the user decides.
Removal(t) == t.op = "remove" \/ t.what \in occasion.own \cap occasion.leaves
Whole(t) == {t} \cup BlocksIn(t)
Shared(a, b) ==
    IF ThreadOf(a.what) = ThreadOf(b.what) /\ (Removal(a) \/ Removal(b))
    THEN Whole(ThreadOf(a.what))
    ELSE IF a.what = b.what /\ a.op # b.op THEN {a.what} ELSE {}

\* A task begins; what it shares with one that has not ended is marked.
Enter(k, task) ==
    /\ tasks[k] = NoTask
    /\ tasks' = [tasks EXCEPT ![k] = task]
    /\ blurred' = blurred \cup UNION {Shared(task, tasks[j]) :
                                      j \in {j \in Tasks : tasks[j] # NoTask}}

-----------------------------------------------------------------------------
\* A message comes, by a stream or from an inbox.
HandleMessage(k, m) ==
    /\ copies[m] > 0 /\ copies' = [copies EXCEPT ![m] = @ - 1]
    /\ Enter(k, TaskAt("handle", m, "look"))
    /\ UNCHANGED <<occasion, rows, roster, joined, stored, waiting, notes, acked, refused,
                   entered, torn, breaks>>

\* Handle: an ADD to a thread that is loaded cannot be decrypted with the
\* key of the thread, and is refused; one of an account peer is accepted at
\* once.  Any block of a thread that is not loaded is answered and dropped;
\* one that is stored is answered.
HandleStart(k) ==
    LET m == tasks[k].what IN
    /\ tasks[k].at = "look" /\ tasks[k].op = "handle"
    /\ \/ m \in Adds /\ Loaded(ThreadOf(m)) /\ Done(k)
       \/ m \in Adds /\ ~Loaded(ThreadOf(m))
          /\ Goto(k, IF m \in occasion.own THEN "get" ELSE "store")
       \/ m \in Updates /\ Loaded(ThreadOf(m)) /\ m \notin stored /\ Goto(k, "head")
       \/ m \in Updates /\ (~Loaded(ThreadOf(m)) \/ m \in stored) /\ Done(k)
    /\ UNCHANGED <<rows, roster, joined, stored, waiting, notes>> /\ UNCHANGED deskVars

\* handleAdd: an invite that is stored already is answered.
StoreInvite(k) ==
    LET m == tasks[k].what IN
    /\ tasks[k].at = "store"
    /\ IF m \in waiting THEN Done(k) /\ acked' = acked \cup {m} /\ UNCHANGED waiting
       ELSE Goto(k, "note") /\ waiting' = waiting \cup {m} /\ UNCHANGED acked
    /\ UNCHANGED <<rows, roster, joined, stored, notes, occasion, copies, refused, entered,
                   blurred, torn, breaks>>

\* Mutant: a block that is indexed already is handled once more.
HandleUpdateAgain(k) ==
    /\ tasks[k].at = "head" /\ HasRow(ThreadOf(tasks[k].what))
    /\ stored' = stored \cup {tasks[k].what} /\ Goto(k, "note")
    /\ UNCHANGED <<rows, roster, joined, waiting, notes>> /\ UNCHANGED deskVars

\* thread.handle and addHead: the block is indexed; a LEAVE deletes all
\* notifications of its author, those of other threads and of invites too.
\* The head can only be added to a thread that has a row; without one the
\* block stays and the message is refused, as is one that another handler
\* has indexed.
HandleUpdate(k) ==
    LET m == tasks[k].what
        gone == IF m \in occasion.leaves
                THEN {n \in Message : occasion.actor[n] = occasion.actor[m]} ELSE {}
    IN
    /\ tasks[k].at = "head"
    /\ stored' = stored \cup {m}
    /\ notes' = [n \in Message |-> IF n \in gone THEN 0 ELSE notes[n]]
    /\ blurred' = blurred \cup gone \cup IF HasRow(ThreadOf(m)) THEN {} ELSE {m}
    /\ IF HasRow(ThreadOf(m)) /\ m \notin stored THEN Goto(k, "note") ELSE Done(k)
    /\ UNCHANGED <<rows, roster, joined, waiting, occasion, copies, acked, refused, entered,
                   torn, breaks>>

\* sendNotification, and the removal that follows a LEAVE of an account peer.
SendNotification(k) ==
    LET m == tasks[k].what IN
    /\ tasks[k].at = "note"
    /\ notes' = [notes EXCEPT ![m] = @ + 1]
    /\ acked' = acked \cup ({m} \cap Adds)
    /\ IF m \in occasion.leaves \cap occasion.own THEN Goto(k, "find") ELSE Done(k)
    /\ UNCHANGED <<rows, roster, joined, stored, waiting, occasion, copies, refused, entered,
                   blurred, torn, breaks>>

-----------------------------------------------------------------------------
\* AcceptInvite and AcceptInviteViaNotification; an invite that is gone is
\* not found.
AcceptInvite(k, i) ==
    /\ i \in waiting /\ Enter(k, TaskAt("accept", i, "get"))
    /\ UNCHANGED <<occasion, rows, roster, joined, stored, waiting, notes, copies, acked,
                   refused, entered, torn, breaks>>

\* handleThreadAdd: a thread that is loaded is left as it is, and the invite
\* counts as accepted.
CheckThread(k) ==
    LET t == ThreadOf(tasks[k].what) IN
    /\ tasks[k].at = "get"
    /\ IF ~Loaded(t) THEN Goto(k, "row")
       ELSE IF tasks[k].op = "accept" THEN Goto(k, "forget") ELSE Done(k)
    /\ UNCHANGED <<rows, roster, joined, stored, waiting, notes>> /\ UNCHANGED deskVars

\* AddThread of a user: there is an id for it alone.
AddThread(k, t) ==
    /\ t \in occasion.creates \ entered /\ Enter(k, TaskAt("add", t, "row"))
    /\ UNCHANGED <<occasion, rows, roster, joined, stored, waiting, notes, copies, acked,
                   refused, entered, torn, breaks>>

\* AddThread: the id is unique, and the second to add it fails.
AddRow(k) ==
    LET t == ThreadOf(tasks[k].what) IN
    /\ tasks[k].at = "row"
    /\ IF HasRow(t) THEN Done(k) /\ UNCHANGED <<rows, entered>>
       ELSE Goto(k, "load") /\ rows' = Append(rows, t) /\ entered' = entered \cup {t}
    /\ UNCHANGED <<roster, joined, stored, waiting, notes, occasion, copies, acked, refused,
                   blurred, torn, breaks>>

\* loadThread: a thread whose row was deleted may still be in the list.  The
\* load fails and the new row stays.
LoadThread(k) ==
    LET t == ThreadOf(tasks[k].what) IN
    /\ tasks[k].at = "load"
    /\ IF Loaded(t) THEN Done(k) /\ UNCHANGED roster
       ELSE Goto(k, "join") /\ roster' = Append(roster, t)
    /\ torn' = (torn \/ Loaded(t))
    /\ UNCHANGED <<rows, joined, stored, waiting, notes, occasion, copies, acked, refused,
                   entered, blurred, breaks>>

\* The inviter's peer, the head and join.
JoinThread(k) ==
    /\ tasks[k].at = "join"
    /\ joined' = joined \cup {ThreadOf(tasks[k].what)}
    /\ IF tasks[k].op = "accept" THEN Goto(k, "forget") ELSE Done(k)
    /\ UNCHANGED <<rows, roster, stored, waiting, notes>> /\ UNCHANGED deskVars

\* IgnoreInvite, by itself and at the end of AcceptInvite.
IgnoreInvite(k, i) ==
    /\ i \in waiting \/ notes[i] > 0
    /\ Enter(k, TaskAt("ignore", i, "forget"))
    /\ refused' = refused \cup {i}
    /\ UNCHANGED <<occasion, rows, roster, joined, stored, waiting, notes, copies, acked,
                   entered, torn, breaks>>

ForgetInvite(k) ==
    /\ tasks[k].at = "forget"
    /\ waiting' = waiting \ {tasks[k].what} /\ Goto(k, "unnote")
    /\ UNCHANGED <<rows, roster, joined, stored, notes>> /\ UNCHANGED deskVars

ForgetNote(k) ==
    /\ tasks[k].at = "unnote"
    /\ notes' = [notes EXCEPT ![tasks[k].what] = 0] /\ Done(k)
    /\ UNCHANGED <<rows, roster, joined, stored, waiting>> /\ UNCHANGED deskVars

-----------------------------------------------------------------------------
RemoveThread(k, t) ==
    /\ t \in occasion.removes /\ Loaded(t)
    /\ Enter(k, TaskAt("remove", t, "find"))
    /\ UNCHANGED <<occasion, rows, roster, joined, stored, waiting, notes, copies, acked,
                   refused, entered, torn, breaks>>

Removing(j) == tasks[j].at \in {"leave", "delete", "drop"}

\* The position is read here and used when the row is deleted.
FindLoaded(k) ==
    LET t == ThreadOf(tasks[k].what) IN
    /\ tasks[k].at = "find"
    /\ IF Loaded(t)
       THEN /\ tasks' = [tasks EXCEPT ![k].at = "leave",
                                      ![k].index = Position(roster, t)]
            /\ torn' = (torn \/ \E j \in Tasks \ {k} : Removing(j))
       ELSE Done(k) /\ UNCHANGED torn
    /\ UNCHANGED <<rows, roster, joined, stored, waiting, notes, occasion, copies, acked,
                   refused, entered, blurred, breaks>>

\* leave: the blocks of the thread go, and the notifications about it, those
\* of invites that wait too.
ThreadLeave(k) ==
    LET t == ThreadOf(tasks[k].what) IN
    /\ tasks[k].at = "leave" /\ Goto(k, "delete")
    /\ joined' = joined \ {t} /\ stored' = {u \in stored : ThreadOf(u) # t}
    /\ notes' = [m \in Message |-> IF ThreadOf(m) = t THEN 0 ELSE notes[m]]
    /\ blurred' = blurred \cup (BlocksIn(t) \cap waiting)
    /\ UNCHANGED <<rows, roster, waiting, occasion, copies, acked, refused, entered, torn,
                   breaks>>

DeleteRow(k) ==
    LET t == ThreadOf(tasks[k].what) IN
    /\ tasks[k].at = "delete" /\ Goto(k, "drop")
    /\ rows' = IF HasRow(t) THEN RemoveAt(rows, Position(rows, t)) ELSE rows
    /\ UNCHANGED <<roster, joined, stored, waiting, notes>> /\ UNCHANGED deskVars

\* The memory of the process is gone, and what its tasks had not finished.
Restart(k) ==
    /\ tasks' = [j \in Tasks |-> NoTask] /\ roster' = rows' /\ torn' = FALSE
    /\ LET cut == {tasks[j].what : j \in {j \in Tasks : tasks[j] # NoTask}}
       IN  blurred' = blurred \cup UNION {Whole(ThreadOf(x)) : x \in cut}

\* The list is shifted at the position that was read; one that is past its
\* end is a panic.
DropLoaded(k) ==
    /\ tasks[k].at = "drop"
    /\ \/ /\ tasks[k].index <= Len(roster)
          /\ roster' = RemoveAt(roster, tasks[k].index) /\ Done(k)
          /\ UNCHANGED <<rows, blurred, torn>>
       \/ tasks[k].index > Len(roster) /\ UNCHANGED rows /\ Restart(k)
    /\ UNCHANGED <<occasion, joined, stored, waiting, notes, copies, acked, refused, entered,
                   breaks>>

-----------------------------------------------------------------------------
\* A statement returns an error, and with it the task; RemoveThread goes on
\* after an error of leave.
TaskFails(k) ==
    LET x == tasks[k].what IN
    /\ breaks < MaxBreaks /\ breaks' = breaks + 1
    /\ tasks[k].at \notin {"none", "look", "get", "find", "drop"}
    /\ IF tasks[k].at = "leave" THEN Goto(k, "delete") ELSE Done(k)
    /\ torn' = (torn \/ tasks[k].at = "load")
    /\ blurred' = blurred \cup Whole(ThreadOf(x))
    /\ UNCHANGED <<occasion, rows, roster, joined, stored, waiting, notes, copies, acked,
                   refused, entered>>

\* The process dies and the node is started again: Start loads every row.
ProcessDies ==
    /\ breaks < MaxBreaks /\ breaks' = breaks + 1
    /\ UNCHANGED rows /\ \E k \in Tasks : tasks[k] # NoTask /\ Restart(k)
    /\ UNCHANGED <<occasion, joined, stored, waiting, notes, copies, acked, refused, entered>>

InvNext ==
    \/ \E k \in Tasks, m \in Message : HandleMessage(k, m)
    \/ \E k \in Tasks, i \in Adds : AcceptInvite(k, i) \/ IgnoreInvite(k, i)
    \/ \E k \in Tasks, t \in Threads : AddThread(k, t) \/ RemoveThread(k, t)
    \/ \E k \in Tasks :
        \/ HandleStart(k) \/ StoreInvite(k) \/ HandleUpdate(k) \/ SendNotification(k)
        \/ CheckThread(k) \/ AddRow(k) \/ LoadThread(k) \/ JoinThread(k)
        \/ ForgetInvite(k) \/ ForgetNote(k)
        \/ FindLoaded(k) \/ ThreadLeave(k) \/ DeleteRow(k) \/ DropLoaded(k) \/ TaskFails(k)
    \/ ProcessDies

InvSpec == InvInit /\ [][InvNext]_invVars

-----------------------------------------------------------------------------
AllDone == \A k \in Tasks : tasks[k] = NoTask

\* An invite whose sender was answered is not lost: it waits, or the user
\* ignored it, or its thread was added, however often it is delivered and
\* whoever handles it at the same time.
InviteKept == \A i \in acked : i \in waiting \cup refused \/ ThreadOf(i) \in entered

\* The list of loaded threads is that of the threads table, unless two
\* removals were under way at once, and it has no thread twice.
RosterMatches ==
    /\ IsInjective(rows) /\ IsInjective(roster)
    /\ AllDone /\ ~torn => ToSet(roster) = ToSet(rows)

\* What a removal or a decision of the user did not meet half way, and no
\* task left half done, is as it should be, however often the blocks are
\* delivered at once: an invite that waits has one notification and the
\* others have none, a block in the table belongs to a thread that is there
\* and has one, and this node has joined every thread it has.
LeftTidy ==
    AllDone =>
        /\ \A i \in Adds \ blurred : notes[i] = IF i \in waiting THEN 1 ELSE 0
        /\ \A u \in Updates \ blurred : /\ u \in stored => HasRow(ThreadOf(u))
                                        /\ notes[u] = IF u \in stored THEN 1 ELSE 0
        /\ \A t \in ToSet(rows) \ blurred : t \in joined

InvitesSound == InviteKept /\ RosterMatches /\ LeftTidy
=============================================================================
