----------------------------- MODULE ThreadSync -----------------------------
(***************************************************************************)
(* The update log of one thread as one node keeps it (core/thread.go,      *)
(* core/threads_service.go, core/threads.go, core/invites.go).             *)
(*                                                                         *)
(* A thread is a DAG of blocks.  Each block is wrapped in an IPLD node     *)
(* whose links name its parents; the node keeps an index of the blocks it  *)
(* knows and the set of HEADs, the nodes the next block will link to.      *)
(* Heads are read and written by separate datastore calls, and nothing     *)
(* orders those calls between the goroutines that make them: the posts of  *)
(* one FlushBlocks, the inbound handlers, the one background tail that     *)
(* holds stopLock, the block downloads.  Each step below is one datastore  *)
(* call, or several of which only one touches what others touch.           *)
(*                                                                         *)
(* A block and its wrapping node share one name here: on a node whose      *)
(* flushes all pass through the cafe outbox lock a block is wrapped once.  *)
(***************************************************************************)
EXTENDS Naturals, FiniteSets

CONSTANTS
    Local,      \* blocks this node authors
    Remote,     \* blocks other members author
    Joins,      \* the JOIN blocks among Local
    Adds,       \* the ADD (invite) blocks among Local
    Workers,    \* goroutines that handle inbound messages, invites, snapshots
    MaxDl,      \* bound: download goroutines in flight per block
    Entries,    \* how the node may get the thread: see EntryKinds
    Snapshots,  \* the entries after which account snapshots keep arriving
    Faults      \* the failures the environment injects, see FaultKinds

Node == Local \cup Remote

FaultKinds == {"crash", "fetch", "reject", "post", "notify", "download", "map"}

EntryKinds == {"create", "invite", "restore"}

ASSUME ThreadSyncAssumption ==
    /\ Local \cap Remote = {}
    /\ Joins \subseteq Local /\ Adds \subseteq Local /\ Joins \cap Adds = {}
    /\ MaxDl \in Nat \ {0}
    /\ Entries \subseteq EntryKinds /\ Snapshots \subseteq EntryKinds
    /\ Faults \subseteq FaultKinds

VARIABLES
    loaded,     \* how the thread got into the datastore, or "no"
    status,     \* the block index: see Status
    parents,    \* the parent links of each wrapped block
    heads,      \* the thread's heads in the datastore
    published,  \* wrapped blocks the other members hold
    ppc,        \* where the post of a local block is
    psnap,      \* the heads that post read
    dl,         \* download goroutines in flight
    wpc,        \* where a worker is
    kind,       \* what it is handling
    inbound,    \* the heads it brings
    frontier,   \* the parents it has still to follow
    leaves,     \* the existing parents it reached
    snap,       \* the heads it read
    lost        \* history: blocks let go by a failure path

index == <<loaded, status, parents, heads>>
posts == <<ppc, psnap>>
works == <<wpc, kind, inbound, frontier, leaves, snap>>
vars  == <<index, published, posts, dl, works, lost>>

\* "new": never seen; "deleted": its row was removed again.
Status == {"new", "queued", "pending", "ready", "deleted"}
PostPc == {"idle", "listed", "build", "indexed", "headed"}
WorkPc == {"idle", "checked", "indexed", "adding", "tail", "follow", "merge",
           "welcome", "accept", "accepted", "restore", "compare"}
Kinds  == {"inbound", "invite", "snapshot"}

TypeOK ==
    /\ loaded \in EntryKinds \cup {"no"}
    /\ status \in [Node -> Status]
    /\ parents \in [Node -> SUBSET Node]
    /\ heads \in SUBSET Node
    /\ published \in SUBSET Node
    /\ ppc \in [Local -> PostPc]
    /\ psnap \in [Local -> SUBSET Node]
    /\ dl \in [Node -> 0 .. MaxDl]
    /\ wpc \in [Workers -> WorkPc]
    /\ kind \in [Workers -> Kinds]
    /\ inbound \in [Workers -> SUBSET Node]
    /\ frontier \in [Workers -> SUBSET Node]
    /\ leaves \in [Workers -> SUBSET Node]
    /\ snap \in [Workers -> SUBSET Node]
    /\ lost \in SUBSET Node

Indexed(n) == status[n] \in {"pending", "ready"}
HasRow(n)  == status[n] \in {"queued", "pending", "ready"}
ToFollow   == {n \in Node : \E w \in Workers : n \in frontier[w]}

\* Only one background tail runs: it holds stopLock from start to end.
StopLockFree == \A w \in Workers : wpc[w] \notin {"follow", "merge", "welcome"}

\* A thread that this node creates starts with its JOIN queued by AddThread.
Init ==
    /\ \/ /\ "create" \in Entries /\ loaded = "create"
          /\ \E j \in Joins : status = [n \in Node |-> IF n = j THEN "queued" ELSE "new"]
       \/ /\ Entries # {"create"} /\ loaded = "no"
          /\ status = [n \in Node |-> "new"]
    /\ parents = [n \in Node |-> {}]
    /\ heads = {} /\ published = {} /\ lost = {}
    /\ ppc = [b \in Local |-> "idle"]
    /\ psnap = [b \in Local |-> {}]
    /\ dl = [n \in Node |-> 0]
    /\ wpc = [w \in Workers |-> "idle"]
    /\ kind = [w \in Workers |-> "inbound"]
    /\ inbound = [w \in Workers |-> {}]
    /\ frontier = [w \in Workers |-> {}]
    /\ leaves = [w \in Workers |-> {}]
    /\ snap = [w \in Workers |-> {}]

-----------------------------------------------------------------------------
(* Other members. *)

\* Another member wraps a block on top of heads it holds; the first block of
\* a thread this node did not create has no parent.
RemoteCommit(r) ==
    /\ r \in Remote \ published
    /\ \E P \in SUBSET published :
          /\ P = {} => published = {} /\ loaded = "no"
          /\ parents' = [parents EXCEPT ![r] = P]
    /\ published' = published \cup {r}
    /\ UNCHANGED <<loaded, status, heads, posts, dl, works, lost>>

-----------------------------------------------------------------------------
(* Authoring: AddMessage, AddFiles, AddLike, ..., AddInvite index the block  *)
(* as QUEUED; FlushBlocks posts the queued blocks, one goroutine each.       *)

AddBlock(b) ==
    /\ loaded # "no" /\ b \notin Joins /\ status[b] = "new"
    /\ status' = [status EXCEPT ![b] = "queued"]
    /\ UNCHANGED <<loaded, parents, heads, published, posts, dl, works, lost>>

\* The blocks whose sync group is complete at the cafes; the others wait.
\* The cafe outbox lock is held until every post of the flush is done.
FlushBlocks(Q) ==
    /\ \A b \in Local : ppc[b] = "idle"
    /\ Q # {} /\ \A b \in Q : status[b] = "queued"
    /\ ppc' = [b \in Local |-> IF b \in Q THEN "listed" ELSE "idle"]
    /\ UNCHANGED <<index, published, psnap, dl, works, lost>>

\* The heads never become empty again, so the check of FlushBlocks and the
\* read of commitNode are one step.
PostRead(b) ==
    /\ ppc[b] = "listed"
    /\ \/ /\ b \notin Joins /\ heads = {}
          /\ ppc' = [ppc EXCEPT ![b] = "idle"]
          /\ UNCHANGED psnap
       \/ /\ b \in Joins \/ heads # {}
          /\ ppc' = [ppc EXCEPT ![b] = IF b \in Adds THEN "headed" ELSE "build"]
          /\ psnap' = [psnap EXCEPT ![b] = heads]
    /\ UNCHANGED <<index, published, dl, works, lost>>

\* commitNode: the wrapped block is pinned and the index gets final values.
PostIndex(b) ==
    /\ ppc[b] = "build"
    /\ parents' = [parents EXCEPT ![b] = psnap[b]]
    /\ status' = [status EXCEPT ![b] = "ready"]
    /\ ppc' = [ppc EXCEPT ![b] = "indexed"]
    /\ UNCHANGED <<loaded, heads, published, psnap, dl, works, lost>>

\* Mutant: post returns after the commit, before the outbox.
PostHeadUnsent(b) ==
    /\ ppc[b] = "indexed"
    /\ heads' = {b}
    /\ ppc' = [ppc EXCEPT ![b] = "idle"]
    /\ UNCHANGED <<loaded, status, parents, published, psnap, dl, works, lost>>

\* commitNode: the new node replaces whatever the heads are by now.
PostHead(b) ==
    /\ ppc[b] = "indexed"
    /\ heads' = {b}
    /\ ppc' = [ppc EXCEPT ![b] = "headed"]
    /\ UNCHANGED <<loaded, status, parents, published, psnap, dl, works, lost>>

\* The envelope goes to the block outbox; an ADD block is no longer needed.
PostSend(b) ==
    /\ ppc[b] = "headed"
    /\ ppc' = [ppc EXCEPT ![b] = "idle"]
    /\ psnap' = [psnap EXCEPT ![b] = {}]
    /\ \/ /\ b \in Adds
          /\ status' = [status EXCEPT ![b] = "deleted"]
          /\ UNCHANGED published
       \/ /\ b \notin Adds
          /\ published' = published \cup {b}
          /\ UNCHANGED status
    /\ UNCHANGED <<loaded, parents, heads, dl, works, lost>>

\* A post fails before or after the commit: the block gets an attempt, or is
\* deleted when it has had its last.  What was committed already stays.
PostError(b) ==
    /\ "post" \in Faults
    /\ ppc[b] \in {"build", "indexed", "headed"}
    /\ \/ /\ UNCHANGED status
          /\ lost' = IF ppc[b] # "build" /\ b \notin Adds THEN lost \cup {b} ELSE lost
       \/ /\ status' = [status EXCEPT ![b] = "deleted"]
          /\ lost' = lost \cup {b}
    /\ ppc' = [ppc EXCEPT ![b] = "idle"]
    /\ psnap' = [psnap EXCEPT ![b] = {}]
    /\ UNCHANGED <<loaded, parents, heads, published, dl, works>>

-----------------------------------------------------------------------------
(* Block downloads.  A flush starts a goroutine for each PENDING row and     *)
(* does not wait for it, so two may work on one block.                       *)

DownloadStart(n) ==
    /\ status[n] = "pending" /\ dl[n] < MaxDl
    /\ dl' = [dl EXCEPT ![n] = @ + 1]
    /\ UNCHANGED <<index, published, posts, works, lost>>

\* Mutant: a download that was never started is reported done.
DownloadDoneTwice(n) ==
    /\ status[n] = "ready"
    /\ dl' = [dl EXCEPT ![n] = @ - 1]
    /\ UNCHANGED <<index, published, posts, works, lost>>

\* thread.handle with replace: the row is READY whatever it was.
DownloadDone(n) ==
    /\ dl[n] > 0
    /\ dl' = [dl EXCEPT ![n] = @ - 1]
    /\ status' = [status EXCEPT ![n] = "ready"]
    /\ UNCHANGED <<loaded, parents, heads, published, posts, works, lost>>

\* The fetch fails (one more attempt, or the row is deleted after the last),
\* or the block is refused (the row is deleted).
DownloadFail(n) ==
    /\ "download" \in Faults /\ dl[n] > 0
    /\ dl' = [dl EXCEPT ![n] = @ - 1]
    /\ \/ UNCHANGED <<status, lost>>
       \/ /\ status' = [status EXCEPT ![n] = "deleted"]
          /\ lost' = lost \cup {n}
    /\ UNCHANGED <<loaded, parents, heads, published, posts, works>>

-----------------------------------------------------------------------------
(* Inbound messages: ThreadsService.Handle.                                  *)

Goto(w, pc) == wpc' = [wpc EXCEPT ![w] = pc]

\* The worker returns: its locals are gone.
Return(w) ==
    /\ Goto(w, "idle")
    /\ inbound' = [inbound EXCEPT ![w] = {}]
    /\ frontier' = [frontier EXCEPT ![w] = {}]
    /\ leaves' = [leaves EXCEPT ![w] = {}]
    /\ snap' = [snap EXCEPT ![w] = {}]
    /\ kind' = [kind EXCEPT ![w] = "inbound"]

\* A block that has a row is acknowledged and ignored: no step here.
HandleCheck(w, n) ==
    /\ loaded # "no" /\ wpc[w] = "idle"
    /\ n \in published /\ ~HasRow(n)
    /\ Goto(w, "checked")
    /\ kind' = [kind EXCEPT ![w] = "inbound"]
    /\ inbound' = [inbound EXCEPT ![w] = {n}]
    /\ UNCHANGED <<index, published, posts, dl, frontier, leaves, snap, lost>>

\* Mutant: the parents of an inbound block are not passed on to the tail.
HandleIndexShallow(w) ==
    /\ wpc[w] = "checked"
    /\ \E n \in Node :
          /\ inbound[w] = {n} /\ ~HasRow(n)
          /\ status' = [status EXCEPT ![n] = "ready"]
    /\ Goto(w, "indexed")
    /\ UNCHANGED <<loaded, parents, heads, published, posts, dl, kind, inbound,
                   frontier, leaves, snap, lost>>

\* thread.handle adds the row.
HandleIndex(w) ==
    /\ wpc[w] = "checked"
    /\ \E n \in Node :
          /\ inbound[w] = {n} /\ ~HasRow(n)
          /\ status' = [status EXCEPT ![n] = "ready"]
          /\ frontier' = [frontier EXCEPT ![w] = parents[n]]
    /\ Goto(w, "indexed")
    /\ UNCHANGED <<loaded, parents, heads, published, posts, dl, kind, inbound,
                   leaves, snap, lost>>

\* A row came in since the check: adding another fails, Handle returns.
HandleConflict(w) ==
    /\ wpc[w] = "checked"
    /\ \E n \in inbound[w] : HasRow(n)
    /\ Return(w)
    /\ UNCHANGED <<index, published, posts, dl, lost>>

\* The block cannot be decrypted or its author may not write it.
HandleReject(w) ==
    /\ "reject" \in Faults
    /\ wpc[w] = "checked"
    /\ Return(w)
    /\ UNCHANGED <<index, published, posts, dl, lost>>

AddHeadRead(w) ==
    /\ wpc[w] = "indexed"
    /\ snap' = [snap EXCEPT ![w] = heads]
    /\ Goto(w, "adding")
    /\ UNCHANGED <<index, published, posts, dl, kind, inbound, frontier, leaves, lost>>

AddHeadWrite(w) ==
    /\ wpc[w] = "adding"
    /\ heads' = snap[w] \cup inbound[w]
    /\ snap' = [snap EXCEPT ![w] = {}]
    /\ Goto(w, "tail")
    /\ UNCHANGED <<loaded, status, parents, published, posts, dl, kind, inbound,
                   frontier, leaves, lost>>

\* The head or the notification could not be written: Handle returns the
\* error and the tail is never followed.
HandleAbort(w) ==
    /\ "notify" \in Faults
    /\ wpc[w] \in {"indexed", "tail"} /\ kind[w] = "inbound"
    /\ lost' = lost \cup frontier[w] \cup inbound[w]
    /\ Return(w)
    /\ UNCHANGED <<index, published, posts, dl>>

-----------------------------------------------------------------------------
(* The background tail: followParents, handleHead, sendWelcome.              *)

TailStart(w) ==
    /\ wpc[w] = "tail" /\ StopLockFree
    /\ Goto(w, "follow")
    /\ UNCHANGED <<index, published, posts, dl, kind, inbound, frontier, leaves, snap, lost>>

\* Mutant: the parents of a newly queued download are not followed.
FollowNewShallow(w, p) ==
    /\ wpc[w] = "follow" /\ p \in frontier[w] /\ ~HasRow(p)
    /\ status' = [status EXCEPT ![p] = "pending"]
    /\ frontier' = [frontier EXCEPT ![w] = @ \ {p}]
    /\ UNCHANGED <<loaded, parents, heads, published, posts, dl, wpc, kind, inbound,
                   leaves, snap, lost>>

\* Parents are followed by one goroutine each, in any order.
FollowNew(w, p) ==
    /\ wpc[w] = "follow" /\ p \in frontier[w] /\ ~HasRow(p)
    /\ status' = [status EXCEPT ![p] = "pending"]
    /\ frontier' = [frontier EXCEPT ![w] = (@ \ {p}) \cup parents[p]]
    /\ UNCHANGED <<loaded, parents, heads, published, posts, dl, wpc, kind, inbound,
                   leaves, snap, lost>>

\* A parent with a row ends this branch.  The map of leaves is written by
\* every goroutine without a lock: an entry may be lost.
FollowExisting(w, p) ==
    /\ wpc[w] = "follow" /\ p \in frontier[w] /\ HasRow(p)
    /\ frontier' = [frontier EXCEPT ![w] = @ \ {p}]
    /\ \/ leaves' = [leaves EXCEPT ![w] = @ \cup {p}]
       \/ "map" \in Faults /\ UNCHANGED leaves
    /\ UNCHANGED <<index, published, posts, dl, wpc, kind, inbound, snap, lost>>

\* The parent's node cannot be fetched: the branch is dropped with a warning.
FollowFail(w, p) ==
    /\ "fetch" \in Faults
    /\ wpc[w] = "follow" /\ p \in frontier[w]
    /\ frontier' = [frontier EXCEPT ![w] = @ \ {p}]
    /\ lost' = lost \cup {p}
    /\ UNCHANGED <<index, published, posts, dl, wpc, kind, inbound, leaves, snap>>

\* An accepted invite is the first update: its leaves are not used.
HandleHeadRead(w) ==
    /\ wpc[w] = "follow" /\ frontier[w] = {}
    /\ \/ /\ kind[w] = "invite"
          /\ Goto(w, "welcome")
          /\ UNCHANGED snap
       \/ /\ kind[w] # "invite"
          /\ Goto(w, "merge")
          /\ snap' = [snap EXCEPT ![w] = heads]
    /\ UNCHANGED <<index, published, posts, dl, kind, inbound, frontier, leaves, lost>>

\* Mutant: every merge is taken for a fast-forward.
HandleHeadForward(w) ==
    /\ wpc[w] = "merge"
    /\ heads' = inbound[w]
    /\ Goto(w, "welcome")
    /\ UNCHANGED <<loaded, status, parents, published, posts, dl, kind, inbound,
                   frontier, leaves, snap, lost>>

\* Mutant: the heads the inbound block builds on are kept.
HandleHeadKeepAll(w) ==
    /\ wpc[w] = "merge"
    /\ heads' = inbound[w] \cup snap[w]
    /\ Goto(w, "welcome")
    /\ UNCHANGED <<loaded, status, parents, published, posts, dl, kind, inbound,
                   frontier, leaves, snap, lost>>

HandleHeadWrite(w) ==
    /\ wpc[w] = "merge"
    /\ heads' = inbound[w] \cup (snap[w] \ leaves[w])
    /\ Goto(w, "welcome")
    /\ UNCHANGED <<loaded, status, parents, published, posts, dl, kind, inbound,
                   frontier, leaves, snap, lost>>

\* The heads go to the peers that were not welcomed yet, if there are any;
\* stopLock is released.
SendWelcome(w) ==
    /\ wpc[w] = "welcome"
    /\ \/ published' = published \cup heads
       \/ UNCHANGED published
    /\ Return(w)
    /\ UNCHANGED <<index, posts, dl, lost>>

-----------------------------------------------------------------------------
(* Getting the thread: AcceptInvite / handleThreadAdd.                       *)

\* Mutant: the heads an invite starts from are not followed.
AcceptInviteUnfollowed(w, P) ==
    /\ "invite" \in Entries /\ loaded = "no" /\ wpc[w] = "idle"
    /\ P # {} /\ P \subseteq published
    /\ loaded' = "invite"
    /\ Goto(w, "accept")
    /\ kind' = [kind EXCEPT ![w] = "invite"]
    /\ inbound' = [inbound EXCEPT ![w] = P]
    /\ UNCHANGED <<status, parents, heads, published, posts, dl, frontier, leaves, snap, lost>>

AcceptInvite(w, P) ==
    /\ "invite" \in Entries /\ loaded = "no" /\ wpc[w] = "idle"
    /\ P # {} /\ P \subseteq published
    /\ loaded' = "invite"
    /\ Goto(w, "accept")
    /\ kind' = [kind EXCEPT ![w] = "invite"]
    /\ inbound' = [inbound EXCEPT ![w] = P]
    /\ frontier' = [frontier EXCEPT ![w] = P]
    /\ UNCHANGED <<status, parents, heads, published, posts, dl, leaves, snap, lost>>

AcceptHead(w) ==
    /\ wpc[w] = "accept"
    /\ heads' = inbound[w]
    /\ Goto(w, "accepted")
    /\ UNCHANGED <<loaded, status, parents, published, posts, dl, kind, inbound,
                   frontier, leaves, snap, lost>>

\* join indexes a JOIN block as QUEUED (bound: Joins may be used up).
QueueJoin ==
    \/ \E j \in Joins :
          /\ status[j] = "new"
          /\ status' = [status EXCEPT ![j] = "queued"]
    \/ /\ \A j \in Joins : status[j] # "new"
       /\ UNCHANGED status

AcceptJoin(w) ==
    /\ wpc[w] = "accepted"
    /\ QueueJoin
    /\ Goto(w, "tail")
    /\ UNCHANGED <<loaded, parents, heads, published, posts, dl, kind, inbound,
                   frontier, leaves, snap, lost>>

-----------------------------------------------------------------------------
(* Account snapshots: AddOrUpdateThread.                                     *)

\* The thread is unknown: it is added with the heads of the snapshot.
RestoreThread(w, P) ==
    /\ "restore" \in Entries /\ loaded = "no" /\ wpc[w] = "idle"
    /\ P # {} /\ P \subseteq published
    /\ loaded' = "restore"
    /\ Goto(w, "restore")
    /\ kind' = [kind EXCEPT ![w] = "snapshot"]
    /\ inbound' = [inbound EXCEPT ![w] = P]
    /\ UNCHANGED <<status, parents, heads, published, posts, dl, frontier, leaves, snap, lost>>

RestoreHead(w) ==
    /\ wpc[w] = "restore"
    /\ heads' = inbound[w]
    /\ Goto(w, "compare")
    /\ UNCHANGED <<loaded, status, parents, published, posts, dl, kind, inbound,
                   frontier, leaves, snap, lost>>

\* The thread is known already.
UpdateThread(w, P) ==
    /\ loaded \in Snapshots /\ wpc[w] = "idle"
    /\ P # {} /\ P \subseteq published
    /\ Goto(w, "compare")
    /\ kind' = [kind EXCEPT ![w] = "snapshot"]
    /\ inbound' = [inbound EXCEPT ![w] = P]
    /\ UNCHANGED <<index, published, posts, dl, frontier, leaves, snap, lost>>

\* Join if no JOIN of ours has a row, then compare the heads in the datastore
\* with the snapshot's.  Both are lists: a permutation does not compare equal.
CompareHeads(w) ==
    /\ wpc[w] = "compare"
    /\ \/ /\ \E j \in Joins : HasRow(j)
          /\ UNCHANGED status
       \/ /\ \A j \in Joins : ~HasRow(j)
          /\ QueueJoin
    /\ \/ /\ heads = inbound[w]
          /\ Return(w)
       \/ /\ heads # inbound[w] \/ (Cardinality(heads) > 1 /\ Snapshots # {})
          /\ Goto(w, "tail")
          /\ frontier' = [frontier EXCEPT ![w] = inbound[w]]
          /\ UNCHANGED <<kind, inbound, leaves, snap>>
    /\ UNCHANGED <<loaded, parents, heads, published, posts, dl, lost>>

-----------------------------------------------------------------------------
\* The process dies: every goroutine is gone, the datastore stays.
Crash ==
    /\ "crash" \in Faults
    /\ \/ \E w \in Workers : wpc[w] # "idle"
       \/ \E b \in Local : ppc[b] # "idle"
       \/ \E n \in Node : dl[n] > 0
    /\ lost' = lost \cup ToFollow
                    \cup {n \in Node : \E w \in Workers :
                             wpc[w] \in {"indexed", "adding"} /\ n \in inbound[w]}
                    \cup {b \in Local : ppc[b] \in {"indexed", "headed"}}
    /\ ppc' = [b \in Local |-> "idle"]
    /\ psnap' = [b \in Local |-> {}]
    /\ dl' = [n \in Node |-> 0]
    /\ wpc' = [w \in Workers |-> "idle"]
    /\ kind' = [w \in Workers |-> "inbound"]
    /\ inbound' = [w \in Workers |-> {}]
    /\ frontier' = [w \in Workers |-> {}]
    /\ leaves' = [w \in Workers |-> {}]
    /\ snap' = [w \in Workers |-> {}]
    /\ UNCHANGED <<index, published>>

\* Nothing is under way: the node waits for work.  Any other state in which no
\* step is possible is a deadlock.
Busy == {w \in Workers : wpc[w] # "idle"} \cup {b \in Local : ppc[b] # "idle"}

Rest == Busy = {} /\ UNCHANGED vars

Post(b) ==
    \/ PostRead(b) \/ PostIndex(b) \/ PostHead(b) \/ PostSend(b) \/ PostError(b)

Inbound(w) ==
    \/ \E n \in Node : HandleCheck(w, n)
    \/ HandleIndex(w) \/ HandleConflict(w) \/ HandleReject(w)
    \/ AddHeadRead(w) \/ AddHeadWrite(w) \/ HandleAbort(w)

BackgroundTail(w) ==
    \/ TailStart(w)
    \/ \E p \in Node : FollowNew(w, p) \/ FollowExisting(w, p) \/ FollowFail(w, p)
    \/ HandleHeadRead(w) \/ HandleHeadWrite(w) \/ SendWelcome(w)

Membership(w) ==
    \/ \E P \in SUBSET Node : AcceptInvite(w, P) \/ RestoreThread(w, P) \/ UpdateThread(w, P)
    \/ AcceptHead(w) \/ AcceptJoin(w) \/ RestoreHead(w) \/ CompareHeads(w)

Downloads(n) == DownloadStart(n) \/ DownloadDone(n) \/ DownloadFail(n)

Next ==
    \/ \E r \in Remote : RemoteCommit(r)
    \/ \E b \in Local : AddBlock(b) \/ Post(b)
    \/ \E Q \in SUBSET Local : FlushBlocks(Q)
    \/ \E n \in Node : Downloads(n)
    \/ \E w \in Workers : Inbound(w) \/ BackgroundTail(w) \/ Membership(w)
    \/ Crash
    \/ Rest

Spec == Init /\ [][Next]_vars

\* One operation at a time: what a test that calls the operations in turn sees.
Active ==
    ({"work"} \X {w \in Workers : wpc[w] # "idle"})
        \cup ({"post"} \X {b \in Local : ppc[b] # "idle"})
        \cup ({"load"} \X {n \in Node : dl[n] > 0})

Serial == (\A x, y \in Active : x = y)'

\* Goroutines run, stopLock is granted, a ticker restarts the downloads.
Fairness ==
    /\ \A b \in Local : WF_vars(Post(b))
    /\ \A n \in Node : WF_vars(DownloadStart(n)) /\ WF_vars(DownloadDone(n))
    /\ \A w \in Workers :
          WF_vars(HandleIndex(w) \/ HandleConflict(w) \/ AddHeadRead(w) \/ AddHeadWrite(w)
                  \/ BackgroundTail(w) \/ AcceptHead(w) \/ AcceptJoin(w)
                  \/ RestoreHead(w) \/ CompareHeads(w))

FairSpec == Spec /\ Fairness

-----------------------------------------------------------------------------
(* Properties. *)

\* The blocks linked from H: the least set that holds H and its parents.
Reach(H) ==
    {n \in Node : \A C \in SUBSET Node :
        (H \subseteq C /\ \A c \in C : parents[c] \subseteq C) => n \in C}

\* A block the node should know is indexed, about to be followed by a running
\* worker, or was let go by a failure the code reports.
Accounted(n) == Indexed(n) \/ n \in ToFollow \/ n \in lost

\* Back-propagation leaves no silent hole: whatever the interleaving of
\* handlers, tails, posts, downloads and crashes, every parent of an indexed
\* block is accounted for, although a tail stops at the first block with a row
\* and relies on whoever made that row to follow the rest.
NoSilentHole == \A n \in Node : Indexed(n) => \A p \in parents[n] : Accounted(p)

\* No head names a block the node does not know about: commitNode indexes
\* before it moves the head, Handle indexes before addHead, an accepted invite
\* follows the heads it starts from, a snapshot's heads are followed first.
HeadsAccounted == \A h \in heads : Accounted(h)

\* Strengthening, part 1: what a link can name.  A remote block is known here only
\* once its author wrapped it, a local one once commitNode wrapped it (so a QUEUED
\* row is never reached by a tail), and an ADD block is never linked or indexed.
Linked(S) ==
    \A n \in S :
        /\ n \in Remote => n \in published
        /\ n \in Local => n \notin Adds /\ status[n] \notin {"new", "queued"}

LinkInv ==
    /\ Linked(published) /\ Linked(heads)
    /\ \A n \in Node : Indexed(n) \/ dl[n] > 0 => Linked({n})
    /\ \A n \in Remote : status[n] # "queued"
    /\ \A n \in Node : Linked(parents[n])
    /\ \A b \in Local : Linked(psnap[b])
    /\ \A b \in Local : ppc[b] \in {"build", "indexed"} => b \notin Adds
    /\ \A b \in Local \ Adds : ppc[b] \in {"indexed", "headed"} => Linked({b})
    /\ \A w \in Workers : Linked(inbound[w]) /\ Linked(frontier[w]) /\ Linked(snap[w])
    /\ \A w \in Workers : wpc[w] \in {"idle", "checked", "merge", "welcome", "restore", "compare"}
          => frontier[w] = {}

\* Strengthening, part 2: what a goroutine read earlier and will write to the
\* heads or to a link later is accounted for, and so are the parents of a block
\* that a download may still bring back.
HeldInv ==
    /\ \A n \in Node : dl[n] > 0 => \A p \in parents[n] : Accounted(p)
    /\ \A b \in Local : \A p \in psnap[b] : Accounted(p)
    /\ \A b \in Local : ppc[b] = "indexed" => Accounted(b)
    /\ \A w \in Workers : \A p \in snap[w] : Accounted(p)
    /\ \A w \in Workers : wpc[w] \notin {"idle", "checked", "compare"} =>
          wpc[w] # "restore" /\ \A p \in inbound[w] : Accounted(p)

AccountInv == HeldInv /\ NoSilentHole /\ HeadsAccounted

SyncInv == TypeOK /\ LinkInv /\ AccountInv

\* A local block is READY only when it was handed to the block outbox, its post
\* is under way, or a failure after the commit kept it from being sent.
ReadyIsSent ==
    \A b \in Local : status[b] = "ready" =>
        b \in published \/ ppc[b] \in {"indexed", "headed"} \/ b \in lost

\* Its strengthening: the same once the block has left the queue at all, since a
\* deleted row may come back through a tail and a download.
SentInv ==
    \A b \in Local \ Adds : status[b] \notin {"new", "queued"} =>
        b \in published \/ ppc[b] \in {"indexed", "headed"} \/ b \in lost

\* Nobody is about to write n, or the heads of a snapshot that leads to it.
Settled(n) ==
    /\ n \notin lost
    /\ n \in Local => ppc[n] = "idle"
    /\ \A w \in Workers : n \notin inbound[w] /\ kind[w] # "snapshot"

\* Every block the node has handled stays reachable from the heads, so the next
\* block links to all of the thread's history.
NothingForgotten ==
    \A n \in Node : status[n] = "ready" /\ Settled(n) => n \in Reach(heads)

\* The same for inbound blocks only: what Handle says of the head it adds.
InboundHeadKept ==
    \A n \in Remote : status[n] = "ready" /\ Settled(n) => n \in Reach(heads)

\* In a thread created here no head is an ancestor of another: handleHead drops the
\* heads an inbound block builds on, even when blocks arrive out of order.
HeadsMinimal ==
    loaded = "create" /\ (\A w \in Workers : wpc[w] = "idle") =>
        \A h \in heads : \A g \in heads \ {h} : h \notin Reach({g})

\* AddOrUpdateThread compares heads "to determine if we need to backtrack": once
\* it is done, the heads it stored are indexed, or being followed.
RestoredHeadsFollowed == (\A w \in Workers : wpc[w] = "idle") => HeadsAccounted

\* Once a block is READY its whole history becomes READY.
HistoryArrives ==
    \A n \in Node :
        status[n] = "ready" ~> \A p \in Reach({n}) : status[p] = "ready"
=============================================================================
