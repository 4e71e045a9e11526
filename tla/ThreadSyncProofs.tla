-------------------------- MODULE ThreadSyncProofs --------------------------
(***************************************************************************)
(* Proofs about ThreadSync for any number of blocks, workers and downloads *)
(* and any set of faults.                                                  *)
(***************************************************************************)
EXTENDS ThreadSync, TLAPS

USE DEF Node

LEMMA TypeInit == Init => TypeOK
  <1> SUFFICES ASSUME Init PROVE TypeOK
    OBVIOUS
  <1>1. loaded \in EntryKinds \cup {"no"}
    BY DEF Init, EntryKinds
  <1>2. status \in [Node -> Status]
    BY DEF Init, Status
  <1>3. dl \in [Node -> 0 .. MaxDl]
    BY ThreadSyncAssumption DEF Init
  <1> QED BY <1>1, <1>2, <1>3 DEF Init, TypeOK, PostPc, WorkPc, Kinds, EntryKinds

LEMMA TypePost ==
    ASSUME TypeOK, NEW b \in Local, AddBlock(b) \/ Post(b)
    PROVE  TypeOK'
  <1>1. CASE AddBlock(b)
    BY <1>1 DEF AddBlock, TypeOK, Status, posts, works
  <1>2. CASE PostRead(b)
    BY <1>2 DEF PostRead, TypeOK, PostPc, index, works
  <1>3. CASE PostIndex(b)
    BY <1>3 DEF PostIndex, TypeOK, PostPc, Status, works
  <1>4. CASE PostHead(b)
    BY <1>4 DEF PostHead, TypeOK, PostPc, works
  <1>5. CASE PostSend(b)
    BY <1>5 DEF PostSend, TypeOK, PostPc, Status, works
  <1>6. CASE PostError(b)
    BY <1>6 DEF PostError, TypeOK, PostPc, Status, works
  <1> QED BY <1>1, <1>2, <1>3, <1>4, <1>5, <1>6 DEF Post

LEMMA TypeDownloads ==
    ASSUME TypeOK, NEW n \in Node, Downloads(n)
    PROVE  TypeOK'
  <1>1. CASE DownloadStart(n)
    BY <1>1, ThreadSyncAssumption DEF DownloadStart, TypeOK, index, posts, works
  <1>2. CASE DownloadDone(n)
    BY <1>2, ThreadSyncAssumption DEF DownloadDone, TypeOK, Status, posts, works
  <1>3. CASE DownloadFail(n)
    BY <1>3, ThreadSyncAssumption DEF DownloadFail, TypeOK, Status, posts, works
  <1> QED BY <1>1, <1>2, <1>3 DEF Downloads

LEMMA TypeInbound ==
    ASSUME TypeOK, NEW w \in Workers, Inbound(w)
    PROVE  TypeOK'
  <1> USE DEF TypeOK, WorkPc, Kinds, EntryKinds, Goto, index, posts
  <1>1. ASSUME NEW n \in Node, HandleCheck(w, n) PROVE TypeOK'
    BY <1>1 DEF HandleCheck
  <1>2. CASE HandleIndex(w)
    <2>1. PICK n \in Node :
            /\ inbound[w] = {n}
            /\ status' = [status EXCEPT ![n] = "ready"]
            /\ frontier' = [frontier EXCEPT ![w] = parents[n]]
      BY <1>2 DEF HandleIndex
    <2>2. n \in Node /\ parents[n] \in SUBSET Node
      BY <2>1
    <2> QED BY <1>2, <2>1, <2>2 DEF HandleIndex, Status
  <1>7. CASE HandleConflict(w)
    BY <1>7 DEF HandleConflict, Return
  <1>3. CASE HandleReject(w)
    BY <1>3 DEF HandleReject, Return
  <1>4. CASE AddHeadRead(w)
    BY <1>4 DEF AddHeadRead
  <1>5. CASE AddHeadWrite(w)
    BY <1>5 DEF AddHeadWrite
  <1>6. CASE HandleAbort(w)
    BY <1>6 DEF HandleAbort, Return
  <1> QED BY <1>1, <1>2, <1>3, <1>4, <1>5, <1>6, <1>7 DEF Inbound

LEMMA TypeTail ==
    ASSUME TypeOK, NEW w \in Workers, BackgroundTail(w)
    PROVE  TypeOK'
  <1> USE DEF TypeOK, WorkPc, Kinds, EntryKinds, Goto, index, posts
  <1>1. CASE TailStart(w)
    BY <1>1 DEF TailStart
  <1>2. ASSUME NEW p \in Node, FollowNew(w, p) PROVE TypeOK'
    BY <1>2 DEF FollowNew, Status
  <1>3. ASSUME NEW p \in Node, FollowExisting(w, p) PROVE TypeOK'
    BY <1>3 DEF FollowExisting
  <1>4. ASSUME NEW p \in Node, FollowFail(w, p) PROVE TypeOK'
    BY <1>4 DEF FollowFail
  <1>5. CASE HandleHeadRead(w)
    BY <1>5 DEF HandleHeadRead
  <1>6. CASE HandleHeadWrite(w)
    BY <1>6 DEF HandleHeadWrite
  <1>7. CASE SendWelcome(w)
    BY <1>7 DEF SendWelcome, Return
  <1> QED BY <1>1, <1>2, <1>3, <1>4, <1>5, <1>6, <1>7 DEF BackgroundTail

LEMMA TypeMembership ==
    ASSUME TypeOK, NEW w \in Workers, Membership(w)
    PROVE  TypeOK'
  <1> USE DEF TypeOK, WorkPc, Kinds, EntryKinds, Goto, index, posts
  <1>1. ASSUME NEW P \in SUBSET Node, AcceptInvite(w, P) PROVE TypeOK'
    BY <1>1 DEF AcceptInvite
  <1>2. ASSUME NEW P \in SUBSET Node, RestoreThread(w, P) PROVE TypeOK'
    BY <1>2 DEF RestoreThread
  <1>3. ASSUME NEW P \in SUBSET Node, UpdateThread(w, P) PROVE TypeOK'
    BY <1>3 DEF UpdateThread
  <1>4. CASE AcceptHead(w)
    BY <1>4 DEF AcceptHead
  <1>5. CASE AcceptJoin(w)
    BY <1>5, ThreadSyncAssumption DEF AcceptJoin, QueueJoin, Status
  <1>6. CASE RestoreHead(w)
    BY <1>6 DEF RestoreHead
  <1>7. CASE CompareHeads(w)
    <2>1. status' \in [Node -> Status]
      BY <1>7, ThreadSyncAssumption DEF CompareHeads, QueueJoin, Status
    <2>2. UNCHANGED <<loaded, parents, heads, published, ppc, psnap, dl, lost>>
      BY <1>7 DEF CompareHeads
    <2>3. CASE Return(w)
      BY <2>1, <2>2, <2>3 DEF Return
    <2>4. CASE /\ Goto(w, "tail")
               /\ frontier' = [frontier EXCEPT ![w] = inbound[w]]
               /\ UNCHANGED <<kind, inbound, leaves, snap>>
      BY <2>1, <2>2, <2>4
    <2> QED BY <1>7, <2>3, <2>4 DEF CompareHeads
  <1> QED BY <1>1, <1>2, <1>3, <1>4, <1>5, <1>6, <1>7 DEF Membership

LEMMA TypeNext == TypeOK /\ [Next]_vars => TypeOK'
  <1> SUFFICES ASSUME TypeOK, [Next]_vars PROVE TypeOK'
    OBVIOUS
  <1>1. ASSUME NEW r \in Remote, RemoteCommit(r) PROVE TypeOK'
    BY <1>1 DEF RemoteCommit, TypeOK, posts, works
  <1>2. ASSUME NEW Q \in SUBSET Local, FlushBlocks(Q) PROVE TypeOK'
    BY <1>2 DEF FlushBlocks, TypeOK, PostPc, index, works
  <1>3. CASE Crash
    BY <1>3, ThreadSyncAssumption
    DEF Crash, TypeOK, index, PostPc, WorkPc, Kinds, EntryKinds, ToFollow
  <1>4. CASE UNCHANGED vars
    BY <1>4 DEF TypeOK, vars, index, posts, works
  <1>5. CASE Next
    BY <1>1, <1>2, <1>3, <1>4, <1>5, TypePost, TypeDownloads, TypeInbound,
       TypeTail, TypeMembership DEF Next, Rest
  <1> QED BY <1>4, <1>5

\* Every variable keeps its type in every behaviour, faults and crashes included.
THEOREM TypeCorrect == Spec => []TypeOK
  BY TypeInit, TypeNext, PTL DEF Spec

LEMMA LinkPost ==
    ASSUME TypeOK, LinkInv, NEW b \in Local, AddBlock(b) \/ Post(b)
    PROVE  LinkInv'
  <1> USE DEF TypeOK, LinkInv, Linked, Indexed, HasRow, Goto, index, posts, works
  <1>1. CASE AddBlock(b)
    BY <1>1, ThreadSyncAssumption DEF AddBlock
  <1>2. CASE PostRead(b)
    BY <1>2, ThreadSyncAssumption DEF PostRead
  <1>3. CASE PostIndex(b)
    BY <1>3, ThreadSyncAssumption DEF PostIndex
  <1>4. CASE PostHead(b)
    BY <1>4, ThreadSyncAssumption DEF PostHead
  <1>5. CASE PostSend(b)
    BY <1>5, ThreadSyncAssumption DEF PostSend
  <1>6. CASE PostError(b)
    BY <1>6, ThreadSyncAssumption DEF PostError
  <1> QED BY <1>1, <1>2, <1>3, <1>4, <1>5, <1>6 DEF Post

LEMMA LinkDownloads ==
    ASSUME TypeOK, LinkInv, NEW n \in Node, Downloads(n)
    PROVE  LinkInv'
  <1> USE DEF TypeOK, LinkInv, Linked, Indexed, HasRow, Goto, index, posts, works
  <1>1. CASE DownloadStart(n)
    BY <1>1, ThreadSyncAssumption DEF DownloadStart
  <1>2. CASE DownloadDone(n)
    BY <1>2, ThreadSyncAssumption DEF DownloadDone
  <1>3. CASE DownloadFail(n)
    BY <1>3, ThreadSyncAssumption DEF DownloadFail
  <1> QED BY <1>1, <1>2, <1>3 DEF Downloads

LEMMA LinkInbound ==
    ASSUME TypeOK, LinkInv, NEW w \in Workers, Inbound(w)
    PROVE  LinkInv'
  <1> USE DEF TypeOK, LinkInv, Linked, Indexed, HasRow, Goto, index, posts, works
  <1>1. ASSUME NEW n \in Node, HandleCheck(w, n) PROVE LinkInv'
    BY <1>1, ThreadSyncAssumption DEF HandleCheck
  <1>2. CASE HandleIndex(w)
    BY <1>2, ThreadSyncAssumption DEF HandleIndex
  <1>3. CASE HandleConflict(w)
    BY <1>3, ThreadSyncAssumption DEF HandleConflict, Return
  <1>4. CASE HandleReject(w)
    BY <1>4, ThreadSyncAssumption DEF HandleReject, Return
  <1>5. CASE AddHeadRead(w)
    BY <1>5, ThreadSyncAssumption DEF AddHeadRead
  <1>6. CASE AddHeadWrite(w)
    BY <1>6, ThreadSyncAssumption DEF AddHeadWrite
  <1>7. CASE HandleAbort(w)
    BY <1>7, ThreadSyncAssumption DEF HandleAbort, Return
  <1> QED BY <1>1, <1>2, <1>3, <1>4, <1>5, <1>6, <1>7 DEF Inbound

LEMMA LinkTail ==
    ASSUME TypeOK, LinkInv, NEW w \in Workers, BackgroundTail(w)
    PROVE  LinkInv'
  <1> USE DEF TypeOK, LinkInv, Linked, Indexed, HasRow, Goto, index, posts, works
  <1>1. CASE TailStart(w)
    BY <1>1, ThreadSyncAssumption DEF TailStart
  <1>2. ASSUME NEW p \in Node, FollowNew(w, p) PROVE LinkInv'
    BY <1>2, ThreadSyncAssumption DEF FollowNew
  <1>3. ASSUME NEW p \in Node, FollowExisting(w, p) PROVE LinkInv'
    BY <1>3, ThreadSyncAssumption DEF FollowExisting
  <1>4. ASSUME NEW p \in Node, FollowFail(w, p) PROVE LinkInv'
    BY <1>4, ThreadSyncAssumption DEF FollowFail
  <1>5. CASE HandleHeadRead(w)
    BY <1>5, ThreadSyncAssumption DEF HandleHeadRead
  <1>6. CASE HandleHeadWrite(w)
    BY <1>6, ThreadSyncAssumption DEF HandleHeadWrite
  <1>7. CASE SendWelcome(w)
    BY <1>7, ThreadSyncAssumption DEF SendWelcome, Return
  <1> QED BY <1>1, <1>2, <1>3, <1>4, <1>5, <1>6, <1>7 DEF BackgroundTail

LEMMA LinkMembership ==
    ASSUME TypeOK, LinkInv, NEW w \in Workers, Membership(w)
    PROVE  LinkInv'
  <1> USE DEF TypeOK, LinkInv, Linked, Indexed, HasRow, Goto, index, posts, works
  <1>1. ASSUME NEW P \in SUBSET Node, AcceptInvite(w, P) PROVE LinkInv'
    BY <1>1, ThreadSyncAssumption DEF AcceptInvite
  <1>2. ASSUME NEW P \in SUBSET Node, RestoreThread(w, P) PROVE LinkInv'
    BY <1>2, ThreadSyncAssumption DEF RestoreThread
  <1>3. ASSUME NEW P \in SUBSET Node, UpdateThread(w, P) PROVE LinkInv'
    BY <1>3, ThreadSyncAssumption DEF UpdateThread
  <1>4. CASE AcceptHead(w)
    BY <1>4, ThreadSyncAssumption DEF AcceptHead
  <1>5. CASE AcceptJoin(w)
    BY <1>5, ThreadSyncAssumption DEF AcceptJoin, QueueJoin
  <1>6. CASE RestoreHead(w)
    BY <1>6, ThreadSyncAssumption DEF RestoreHead
  <1>7. CASE CompareHeads(w)
    <2>1. \/ UNCHANGED status
          \/ \E b \in Local : /\ status[b] = "new"
                             /\ status' = [status EXCEPT ![b] = "queued"]
      BY <1>7, ThreadSyncAssumption DEF CompareHeads, QueueJoin
    <2>2. UNCHANGED <<loaded, parents, heads, published, ppc, psnap, dl, lost>>
      BY <1>7 DEF CompareHeads
    <2>3. CASE Return(w)
      BY <2>1, <2>2, <2>3, ThreadSyncAssumption DEF Return
    <2>4. CASE /\ Goto(w, "tail")
               /\ frontier' = [frontier EXCEPT ![w] = inbound[w]]
               /\ UNCHANGED <<kind, inbound, leaves, snap>>
      BY <2>1, <2>2, <2>4, ThreadSyncAssumption
    <2> QED BY <1>7, <2>3, <2>4 DEF CompareHeads
  <1> QED BY <1>1, <1>2, <1>3, <1>4, <1>5, <1>6, <1>7 DEF Membership

LEMMA LinkNext == TypeOK /\ LinkInv /\ [Next]_vars => LinkInv'
  <1> SUFFICES ASSUME TypeOK, LinkInv, [Next]_vars PROVE LinkInv'
    OBVIOUS
  <1> USE DEF TypeOK, LinkInv, Linked, Indexed, index, posts, works
  <1>1. ASSUME NEW r \in Remote, RemoteCommit(r) PROVE LinkInv'
    BY <1>1, ThreadSyncAssumption DEF RemoteCommit
  <1>2. ASSUME NEW Q \in SUBSET Local, FlushBlocks(Q) PROVE LinkInv'
    BY <1>2 DEF FlushBlocks
  <1>3. CASE Crash
    BY <1>3 DEF Crash
  <1>4. CASE UNCHANGED vars
    BY <1>4 DEF vars
  <1>5. CASE Next
    BY <1>1, <1>2, <1>3, <1>4, <1>5, LinkPost, LinkDownloads, LinkInbound,
       LinkTail, LinkMembership DEF Next, Rest
  <1> QED BY <1>4, <1>5

LEMMA StablePost ==
    ASSUME TypeOK, LinkInv, NEW b \in Local, AddBlock(b) \/ Post(b)
    PROVE  \A q \in Node : Accounted(q) => Accounted(q)'
  <1> USE DEF TypeOK, LinkInv, Linked, Accounted, ToFollow, Indexed, HasRow, Goto, index,
    posts, works
  <1>1. CASE AddBlock(b)
    BY <1>1, ThreadSyncAssumption DEF AddBlock
  <1>2. CASE PostRead(b)
    BY <1>2, ThreadSyncAssumption DEF PostRead
  <1>3. CASE PostIndex(b)
    BY <1>3, ThreadSyncAssumption DEF PostIndex
  <1>4. CASE PostHead(b)
    BY <1>4, ThreadSyncAssumption DEF PostHead
  <1>5. CASE PostSend(b)
    BY <1>5, ThreadSyncAssumption DEF PostSend
  <1>6. CASE PostError(b)
    BY <1>6, ThreadSyncAssumption DEF PostError
  <1> QED BY <1>1, <1>2, <1>3, <1>4, <1>5, <1>6 DEF Post

LEMMA StableDownloads ==
    ASSUME TypeOK, LinkInv, NEW n \in Node, Downloads(n)
    PROVE  \A q \in Node : Accounted(q) => Accounted(q)'
  <1> USE DEF TypeOK, LinkInv, Linked, Accounted, ToFollow, Indexed, HasRow, Goto, index,
    posts, works
  <1>1. CASE DownloadStart(n)
    BY <1>1, ThreadSyncAssumption DEF DownloadStart
  <1>2. CASE DownloadDone(n)
    BY <1>2, ThreadSyncAssumption DEF DownloadDone
  <1>3. CASE DownloadFail(n)
    BY <1>3, ThreadSyncAssumption DEF DownloadFail
  <1> QED BY <1>1, <1>2, <1>3 DEF Downloads

LEMMA StableInbound ==
    ASSUME TypeOK, LinkInv, NEW w \in Workers, Inbound(w)
    PROVE  \A q \in Node : Accounted(q) => Accounted(q)'
  <1> USE DEF TypeOK, LinkInv, Linked, Accounted, ToFollow, Indexed, HasRow, Goto, index,
    posts, works
  <1>1. ASSUME NEW n \in Node, HandleCheck(w, n)
        PROVE  \A q \in Node : Accounted(q) => Accounted(q)'
    BY <1>1, ThreadSyncAssumption DEF HandleCheck
  <1>2. CASE HandleIndex(w)
    BY <1>2, ThreadSyncAssumption DEF HandleIndex
  <1>3. CASE HandleConflict(w)
    BY <1>3, ThreadSyncAssumption DEF HandleConflict, Return
  <1>4. CASE HandleReject(w)
    BY <1>4, ThreadSyncAssumption DEF HandleReject, Return
  <1>5. CASE AddHeadRead(w)
    BY <1>5, ThreadSyncAssumption DEF AddHeadRead
  <1>6. CASE AddHeadWrite(w)
    BY <1>6, ThreadSyncAssumption DEF AddHeadWrite
  <1>7. CASE HandleAbort(w)
    BY <1>7, ThreadSyncAssumption DEF HandleAbort, Return
  <1> QED BY <1>1, <1>2, <1>3, <1>4, <1>5, <1>6, <1>7 DEF Inbound

LEMMA StableTail ==
    ASSUME TypeOK, LinkInv, NEW w \in Workers, BackgroundTail(w)
    PROVE  \A q \in Node : Accounted(q) => Accounted(q)'
  <1> USE DEF TypeOK, LinkInv, Linked, Accounted, ToFollow, Indexed, HasRow, Goto, index,
    posts, works
  <1>1. CASE TailStart(w)
    BY <1>1, ThreadSyncAssumption DEF TailStart
  <1>2. ASSUME NEW p \in Node, FollowNew(w, p)
        PROVE  \A q \in Node : Accounted(q) => Accounted(q)'
    BY <1>2, ThreadSyncAssumption DEF FollowNew
  <1>3. ASSUME NEW p \in Node, FollowExisting(w, p)
        PROVE  \A q \in Node : Accounted(q) => Accounted(q)'
    BY <1>3, ThreadSyncAssumption DEF FollowExisting
  <1>4. ASSUME NEW p \in Node, FollowFail(w, p)
        PROVE  \A q \in Node : Accounted(q) => Accounted(q)'
    BY <1>4, ThreadSyncAssumption DEF FollowFail
  <1>5. CASE HandleHeadRead(w)
    BY <1>5, ThreadSyncAssumption DEF HandleHeadRead
  <1>6. CASE HandleHeadWrite(w)
    BY <1>6, ThreadSyncAssumption DEF HandleHeadWrite
  <1>7. CASE SendWelcome(w)
    BY <1>7, ThreadSyncAssumption DEF SendWelcome, Return
  <1> QED BY <1>1, <1>2, <1>3, <1>4, <1>5, <1>6, <1>7 DEF BackgroundTail

LEMMA StableMembership ==
    ASSUME TypeOK, LinkInv, NEW w \in Workers, Membership(w)
    PROVE  \A q \in Node : Accounted(q) => Accounted(q)'
  <1> USE DEF TypeOK, LinkInv, Linked, Accounted, ToFollow, Indexed, HasRow, Goto, index,
    posts, works
  <1>1. ASSUME NEW P \in SUBSET Node, AcceptInvite(w, P)
        PROVE  \A q \in Node : Accounted(q) => Accounted(q)'
    BY <1>1, ThreadSyncAssumption DEF AcceptInvite
  <1>2. ASSUME NEW P \in SUBSET Node, RestoreThread(w, P)
        PROVE  \A q \in Node : Accounted(q) => Accounted(q)'
    BY <1>2, ThreadSyncAssumption DEF RestoreThread
  <1>3. ASSUME NEW P \in SUBSET Node, UpdateThread(w, P)
        PROVE  \A q \in Node : Accounted(q) => Accounted(q)'
    BY <1>3, ThreadSyncAssumption DEF UpdateThread
  <1>4. CASE AcceptHead(w)
    BY <1>4, ThreadSyncAssumption DEF AcceptHead
  <1>5. CASE AcceptJoin(w)
    BY <1>5, ThreadSyncAssumption DEF AcceptJoin, QueueJoin
  <1>6. CASE RestoreHead(w)
    BY <1>6, ThreadSyncAssumption DEF RestoreHead
  <1>7. CASE CompareHeads(w)
    BY <1>7, ThreadSyncAssumption DEF CompareHeads, QueueJoin, Return
  <1> QED BY <1>1, <1>2, <1>3, <1>4, <1>5, <1>6, <1>7 DEF Membership

LEMMA AccountPost ==
    ASSUME "restore" \notin Entries, TypeOK, LinkInv, AccountInv,
           NEW b \in Local, AddBlock(b) \/ Post(b)
    PROVE  AccountInv'
  <1> USE DEF TypeOK, LinkInv, Linked, AccountInv, HeldInv, NoSilentHole, HeadsAccounted,
    Accounted, ToFollow, Indexed, HasRow, Goto, index, posts, works
  <1>a. \A q \in Node : Accounted(q) => Accounted(q)'
    BY StablePost
  <1>1. CASE AddBlock(b)
    BY <1>a, <1>1, ThreadSyncAssumption DEF AddBlock
  <1>2. CASE PostRead(b)
    BY <1>a, <1>2, ThreadSyncAssumption, SMTT(60) DEF PostRead
  <1>3. CASE PostIndex(b)
    BY <1>a, <1>3, ThreadSyncAssumption DEF PostIndex
  <1>4. CASE PostHead(b)
    BY <1>a, <1>4, ThreadSyncAssumption DEF PostHead
  <1>5. CASE PostSend(b)
    BY <1>a, <1>5, ThreadSyncAssumption DEF PostSend
  <1>6. CASE PostError(b)
    BY <1>a, <1>6, ThreadSyncAssumption DEF PostError
  <1> QED BY <1>1, <1>2, <1>3, <1>4, <1>5, <1>6 DEF Post

LEMMA AccountDownloads ==
    ASSUME "restore" \notin Entries, TypeOK, LinkInv, AccountInv,
           NEW n \in Node, Downloads(n)
    PROVE  AccountInv'
  <1> USE DEF TypeOK, LinkInv, Linked, AccountInv, HeldInv, NoSilentHole, HeadsAccounted,
    Accounted, ToFollow, Indexed, HasRow, Goto, index, posts, works
  <1>a. \A q \in Node : Accounted(q) => Accounted(q)'
    BY StableDownloads
  <1>1. CASE DownloadStart(n)
    BY <1>a, <1>1, ThreadSyncAssumption DEF DownloadStart
  <1>2. CASE DownloadDone(n)
    BY <1>a, <1>2, ThreadSyncAssumption DEF DownloadDone
  <1>3. CASE DownloadFail(n)
    BY <1>a, <1>3, ThreadSyncAssumption DEF DownloadFail
  <1> QED BY <1>1, <1>2, <1>3 DEF Downloads

LEMMA AccountInbound ==
    ASSUME "restore" \notin Entries, TypeOK, LinkInv, AccountInv,
           NEW w \in Workers, Inbound(w)
    PROVE  AccountInv'
  <1> USE DEF TypeOK, LinkInv, Linked, AccountInv, HeldInv, NoSilentHole, HeadsAccounted,
    Accounted, ToFollow, Indexed, HasRow, Goto, index, posts, works
  <1>a. \A q \in Node : Accounted(q) => Accounted(q)'
    BY StableInbound
  <1>1. ASSUME NEW n \in Node, HandleCheck(w, n) PROVE AccountInv'
    BY <1>a, <1>1, ThreadSyncAssumption DEF HandleCheck
  <1>2. CASE HandleIndex(w)
    <2>1. PICK n \in Node :
            /\ inbound[w] = {n}
            /\ status' = [status EXCEPT ![n] = "ready"]
            /\ frontier' = [frontier EXCEPT ![w] = parents[n]]
      BY <1>2 DEF HandleIndex
    <2>2. /\ n \in Node
          /\ wpc' = [wpc EXCEPT ![w] = "indexed"] /\ inbound[w] \subseteq Node
          /\ UNCHANGED <<parents, heads, ppc, psnap, dl, inbound, snap, lost>>
      BY <1>2 DEF HandleIndex
    <2>4. Accounted(n)' /\ \A q \in parents[n] : Accounted(q)'
      BY <2>1, <2>2
    <2>5. NoSilentHole'
      BY <1>a, <2>1, <2>2, <2>4
    <2>6. HeadsAccounted'
      BY <1>a, <2>2
    <2>7. HeldInv'
      BY <1>a, <2>1, <2>2, <2>4
    <2> QED BY <2>5, <2>6, <2>7
  <1>3. CASE HandleConflict(w)
    BY <1>a, <1>3, ThreadSyncAssumption DEF HandleConflict, Return
  <1>4. CASE HandleReject(w)
    BY <1>a, <1>4, ThreadSyncAssumption DEF HandleReject, Return
  <1>5. CASE AddHeadRead(w)
    BY <1>a, <1>5, ThreadSyncAssumption DEF AddHeadRead
  <1>6. CASE AddHeadWrite(w)
    BY <1>a, <1>6, ThreadSyncAssumption DEF AddHeadWrite
  <1>7. CASE HandleAbort(w)
    BY <1>a, <1>7, ThreadSyncAssumption DEF HandleAbort, Return
  <1> QED BY <1>1, <1>2, <1>3, <1>4, <1>5, <1>6, <1>7 DEF Inbound

LEMMA AccountTail ==
    ASSUME "restore" \notin Entries, TypeOK, LinkInv, AccountInv,
           NEW w \in Workers, BackgroundTail(w)
    PROVE  AccountInv'
  <1> USE DEF TypeOK, LinkInv, Linked, AccountInv, HeldInv, NoSilentHole, HeadsAccounted,
    Accounted, ToFollow, Indexed, HasRow, Goto, index, posts, works
  <1>a. \A q \in Node : Accounted(q) => Accounted(q)'
    BY StableTail
  <1>1. CASE TailStart(w)
    BY <1>a, <1>1, ThreadSyncAssumption DEF TailStart
  <1>2. ASSUME NEW p \in Node, FollowNew(w, p) PROVE AccountInv'
    BY <1>a, <1>2, ThreadSyncAssumption DEF FollowNew
  <1>3. ASSUME NEW p \in Node, FollowExisting(w, p) PROVE AccountInv'
    BY <1>a, <1>3, ThreadSyncAssumption DEF FollowExisting
  <1>4. ASSUME NEW p \in Node, FollowFail(w, p) PROVE AccountInv'
    BY <1>a, <1>4, ThreadSyncAssumption DEF FollowFail
  <1>5. CASE HandleHeadRead(w)
    BY <1>a, <1>5, ThreadSyncAssumption DEF HandleHeadRead
  <1>6. CASE HandleHeadWrite(w)
    BY <1>a, <1>6, ThreadSyncAssumption DEF HandleHeadWrite
  <1>7. CASE SendWelcome(w)
    BY <1>a, <1>7, ThreadSyncAssumption DEF SendWelcome, Return
  <1> QED BY <1>1, <1>2, <1>3, <1>4, <1>5, <1>6, <1>7 DEF BackgroundTail

LEMMA AccountMembership ==
    ASSUME "restore" \notin Entries, TypeOK, LinkInv, AccountInv,
           NEW w \in Workers, Membership(w)
    PROVE  AccountInv'
  <1> USE DEF TypeOK, LinkInv, Linked, AccountInv, HeldInv, NoSilentHole, HeadsAccounted,
    Accounted, ToFollow, Indexed, HasRow, Goto, index, posts, works
  <1>a. \A q \in Node : Accounted(q) => Accounted(q)'
    BY StableMembership
  <1>1. ASSUME NEW P \in SUBSET Node, AcceptInvite(w, P) PROVE AccountInv'
    BY <1>a, <1>1, ThreadSyncAssumption DEF AcceptInvite
  <1>2. ASSUME NEW P \in SUBSET Node, RestoreThread(w, P) PROVE AccountInv'
    BY <1>a, <1>2, ThreadSyncAssumption DEF RestoreThread
  <1>3. ASSUME NEW P \in SUBSET Node, UpdateThread(w, P) PROVE AccountInv'
    BY <1>a, <1>3, ThreadSyncAssumption DEF UpdateThread
  <1>4. CASE AcceptHead(w)
    BY <1>a, <1>4, ThreadSyncAssumption DEF AcceptHead
  <1>5. CASE AcceptJoin(w)
    BY <1>a, <1>5, ThreadSyncAssumption DEF AcceptJoin, QueueJoin
  <1>6. CASE RestoreHead(w)
    BY <1>a, <1>6, ThreadSyncAssumption DEF RestoreHead
  <1>7. CASE CompareHeads(w)
    <2>1. \/ UNCHANGED status
          \/ \E b \in Local : /\ status[b] = "new"
                             /\ status' = [status EXCEPT ![b] = "queued"]
      BY <1>7, ThreadSyncAssumption DEF CompareHeads, QueueJoin
    <2>2. UNCHANGED <<loaded, parents, heads, published, ppc, psnap, dl, lost>>
      BY <1>7 DEF CompareHeads
    <2>3. \A n \in Node : Indexed(n)' => Indexed(n)
      BY <2>1, ThreadSyncAssumption
    <2>4. NoSilentHole' /\ HeadsAccounted'
      BY <1>a, <2>2, <2>3
    <2>5. \A v \in Workers : snap[v]' \subseteq snap[v]
      BY <1>7 DEF CompareHeads, Return
    <2>6. ASSUME NEW v \in Workers, wpc[v]' \notin {"idle", "checked", "compare"}
          PROVE  wpc[v]' # "restore" /\ \A q \in inbound[v]' : Accounted(q)'
      <3>1. CASE v # w
        BY <1>a, <1>7, <2>6, <3>1 DEF CompareHeads, Return
      <3>2. CASE v = w
        BY <1>7, <2>6, <3>2 DEF CompareHeads, Return
      <3> QED BY <3>1, <3>2
    <2>7. HeldInv'
      BY <1>a, <2>2, <2>3, <2>5, <2>6
    <2> QED BY <2>4, <2>7
  <1> QED BY <1>1, <1>2, <1>3, <1>4, <1>5, <1>6, <1>7 DEF Membership

LEMMA AccountNext ==
    "restore" \notin Entries /\ TypeOK /\ LinkInv /\ AccountInv /\ [Next]_vars => AccountInv'
  <1> SUFFICES ASSUME "restore" \notin Entries, TypeOK, LinkInv, AccountInv, [Next]_vars
               PROVE  AccountInv'
    OBVIOUS
  <1> USE DEF TypeOK, LinkInv, Linked, AccountInv, HeldInv, NoSilentHole,
              HeadsAccounted, Accounted, ToFollow, Indexed, index, posts, works
  <1>1. ASSUME NEW r \in Remote, RemoteCommit(r) PROVE AccountInv'
    BY <1>1, ThreadSyncAssumption DEF RemoteCommit
  <1>2. ASSUME NEW Q \in SUBSET Local, FlushBlocks(Q) PROVE AccountInv'
    BY <1>2 DEF FlushBlocks
  <1>3. CASE Crash
    BY <1>3 DEF Crash
  <1>4. CASE UNCHANGED vars
    BY <1>4 DEF vars
  <1>5. CASE Next
    BY <1>1, <1>2, <1>3, <1>4, <1>5, AccountPost, AccountDownloads, AccountInbound,
       AccountTail, AccountMembership DEF Next, Rest
  <1> QED BY <1>4, <1>5

LEMMA SyncInit == Init => SyncInv
  BY TypeInit, ThreadSyncAssumption
  DEF Init, SyncInv, LinkInv, Linked, AccountInv, HeldInv, NoSilentHole,
      HeadsAccounted, Accounted, ToFollow, Indexed

\* However handlers, tails, posts, downloads, faults and crashes interleave, a
\* thread that was created here or joined by invite has no silent hole, and no
\* head that names an unknown block.
THEOREM SyncCorrect ==
    ("restore" \notin Entries) => (Spec => [](NoSilentHole /\ HeadsAccounted))
  <1> SUFFICES ASSUME "restore" \notin Entries
               PROVE  Spec => [](NoSilentHole /\ HeadsAccounted)
    OBVIOUS
  <1>1. SyncInv /\ [Next]_vars => SyncInv'
    BY TypeNext, LinkNext, AccountNext DEF SyncInv
  <1>2. SyncInv => NoSilentHole /\ HeadsAccounted
    BY DEF SyncInv, AccountInv
  <1> QED BY <1>1, <1>2, SyncInit, PTL DEF Spec

\* No head of a thread that was not restored names a block the node does not know
\* about (commitNode, addHead, handleHead, handleThreadAdd).
THEOREM HeadsAlwaysAccounted == ("restore" \notin Entries) => (Spec => []HeadsAccounted)
  <1>1. NoSilentHole /\ HeadsAccounted => HeadsAccounted
    OBVIOUS
  <1> QED BY SyncCorrect, <1>1, PTL

LEMMA SentPost ==
    ASSUME TypeOK, LinkInv, SentInv, NEW b \in Local, AddBlock(b) \/ Post(b)
    PROVE  SentInv'
  <1> USE DEF TypeOK, LinkInv, Linked, SentInv, Indexed, HasRow, Goto, index, posts, works
  <1>1. CASE AddBlock(b)
    BY <1>1, ThreadSyncAssumption DEF AddBlock
  <1>2. CASE PostRead(b)
    BY <1>2, ThreadSyncAssumption DEF PostRead
  <1>3. CASE PostIndex(b)
    BY <1>3, ThreadSyncAssumption DEF PostIndex
  <1>4. CASE PostHead(b)
    BY <1>4, ThreadSyncAssumption DEF PostHead
  <1>5. CASE PostSend(b)
    BY <1>5, ThreadSyncAssumption DEF PostSend
  <1>6. CASE PostError(b)
    BY <1>6, ThreadSyncAssumption DEF PostError
  <1> QED BY <1>1, <1>2, <1>3, <1>4, <1>5, <1>6 DEF Post

LEMMA SentDownloads ==
    ASSUME TypeOK, LinkInv, SentInv, NEW n \in Node, Downloads(n)
    PROVE  SentInv'
  <1> USE DEF TypeOK, LinkInv, Linked, SentInv, Indexed, HasRow, Goto, index, posts, works
  <1>1. CASE DownloadStart(n)
    BY <1>1, ThreadSyncAssumption DEF DownloadStart
  <1>2. CASE DownloadDone(n)
    BY <1>2, ThreadSyncAssumption DEF DownloadDone
  <1>3. CASE DownloadFail(n)
    BY <1>3, ThreadSyncAssumption DEF DownloadFail
  <1> QED BY <1>1, <1>2, <1>3 DEF Downloads

LEMMA SentInbound ==
    ASSUME TypeOK, LinkInv, SentInv, NEW w \in Workers, Inbound(w)
    PROVE  SentInv'
  <1> USE DEF TypeOK, LinkInv, Linked, SentInv, Indexed, HasRow, Goto, index, posts, works
  <1>1. ASSUME NEW n \in Node, HandleCheck(w, n) PROVE SentInv'
    BY <1>1, ThreadSyncAssumption DEF HandleCheck
  <1>2. CASE HandleIndex(w)
    BY <1>2, ThreadSyncAssumption DEF HandleIndex
  <1>3. CASE HandleConflict(w)
    BY <1>3, ThreadSyncAssumption DEF HandleConflict, Return
  <1>4. CASE HandleReject(w)
    BY <1>4, ThreadSyncAssumption DEF HandleReject, Return
  <1>5. CASE AddHeadRead(w)
    BY <1>5, ThreadSyncAssumption DEF AddHeadRead
  <1>6. CASE AddHeadWrite(w)
    BY <1>6, ThreadSyncAssumption DEF AddHeadWrite
  <1>7. CASE HandleAbort(w)
    BY <1>7, ThreadSyncAssumption DEF HandleAbort, Return
  <1> QED BY <1>1, <1>2, <1>3, <1>4, <1>5, <1>6, <1>7 DEF Inbound

LEMMA SentTail ==
    ASSUME TypeOK, LinkInv, SentInv, NEW w \in Workers, BackgroundTail(w)
    PROVE  SentInv'
  <1> USE DEF TypeOK, LinkInv, Linked, SentInv, Indexed, HasRow, Goto, index, posts, works
  <1>1. CASE TailStart(w)
    BY <1>1, ThreadSyncAssumption DEF TailStart
  <1>2. ASSUME NEW p \in Node, FollowNew(w, p) PROVE SentInv'
    BY <1>2, ThreadSyncAssumption DEF FollowNew
  <1>3. ASSUME NEW p \in Node, FollowExisting(w, p) PROVE SentInv'
    BY <1>3, ThreadSyncAssumption DEF FollowExisting
  <1>4. ASSUME NEW p \in Node, FollowFail(w, p) PROVE SentInv'
    BY <1>4, ThreadSyncAssumption DEF FollowFail
  <1>5. CASE HandleHeadRead(w)
    BY <1>5, ThreadSyncAssumption DEF HandleHeadRead
  <1>6. CASE HandleHeadWrite(w)
    BY <1>6, ThreadSyncAssumption DEF HandleHeadWrite
  <1>7. CASE SendWelcome(w)
    BY <1>7, ThreadSyncAssumption DEF SendWelcome, Return
  <1> QED BY <1>1, <1>2, <1>3, <1>4, <1>5, <1>6, <1>7 DEF BackgroundTail

LEMMA SentMembership ==
    ASSUME TypeOK, LinkInv, SentInv, NEW w \in Workers, Membership(w)
    PROVE  SentInv'
  <1> USE DEF TypeOK, LinkInv, Linked, SentInv, Indexed, HasRow, Goto, index, posts, works
  <1>1. ASSUME NEW P \in SUBSET Node, AcceptInvite(w, P) PROVE SentInv'
    BY <1>1, ThreadSyncAssumption DEF AcceptInvite
  <1>2. ASSUME NEW P \in SUBSET Node, RestoreThread(w, P) PROVE SentInv'
    BY <1>2, ThreadSyncAssumption DEF RestoreThread
  <1>3. ASSUME NEW P \in SUBSET Node, UpdateThread(w, P) PROVE SentInv'
    BY <1>3, ThreadSyncAssumption DEF UpdateThread
  <1>4. CASE AcceptHead(w)
    BY <1>4, ThreadSyncAssumption DEF AcceptHead
  <1>5. CASE AcceptJoin(w)
    BY <1>5, ThreadSyncAssumption DEF AcceptJoin, QueueJoin
  <1>6. CASE RestoreHead(w)
    BY <1>6, ThreadSyncAssumption DEF RestoreHead
  <1>7. CASE CompareHeads(w)
    BY <1>7, ThreadSyncAssumption DEF CompareHeads, QueueJoin, Return
  <1> QED BY <1>1, <1>2, <1>3, <1>4, <1>5, <1>6, <1>7 DEF Membership

LEMMA SentNext == TypeOK /\ LinkInv /\ SentInv /\ [Next]_vars => SentInv'
  <1> SUFFICES ASSUME TypeOK, LinkInv, SentInv, [Next]_vars PROVE SentInv'
    OBVIOUS
  <1> USE DEF TypeOK, LinkInv, Linked, SentInv, index, posts, works
  <1>1. ASSUME NEW r \in Remote, RemoteCommit(r) PROVE SentInv'
    BY <1>1 DEF RemoteCommit
  <1>2. ASSUME NEW Q \in SUBSET Local, FlushBlocks(Q) PROVE SentInv'
    BY <1>2 DEF FlushBlocks
  <1>3. CASE Crash
    BY <1>3 DEF Crash
  <1>4. CASE UNCHANGED vars
    BY <1>4 DEF vars
  <1>5. CASE Next
    BY <1>1, <1>2, <1>3, <1>4, <1>5, SentPost, SentDownloads, SentInbound,
       SentTail, SentMembership DEF Next, Rest
  <1> QED BY <1>4, <1>5

\* A READY block of this node was handed to the outbox, is about to be, or was let
\* go by a failure after its commit; even one whose row was deleted and came back.
THEOREM ReadySent == Spec => []ReadyIsSent
  <1>1. Init => TypeOK /\ LinkInv /\ SentInv
    BY SyncInit DEF SyncInv, SentInv, Init
  <1>2. TypeOK /\ LinkInv /\ SentInv /\ [Next]_vars => (TypeOK /\ LinkInv /\ SentInv)'
    BY TypeNext, LinkNext, SentNext
  <1>3. TypeOK /\ LinkInv /\ SentInv => ReadyIsSent
    BY ThreadSyncAssumption DEF TypeOK, LinkInv, Linked, Indexed, SentInv, ReadyIsSent,
       Node
  <1> QED BY <1>1, <1>2, <1>3, PTL DEF Spec

-----------------------------------------------------------------------------
(* One operation at a time: the heads reach everything. *)

HIDE DEF Node

\* The blocks reached from H by the links q, and the facts about them.
Span(q, H) ==
    {n \in Node : \A C \in SUBSET Node :
        (H \subseteq C /\ \A c \in C : q[c] \subseteq C) => n \in C}

LEMMA SpanClosed ==
    ASSUME NEW q \in [Node -> SUBSET Node], NEW H \in SUBSET Node
    PROVE  /\ H \subseteq Span(q, H) /\ Span(q, H) \in SUBSET Node
           /\ \A c \in Span(q, H) : q[c] \subseteq Span(q, H)
  BY DEF Span

LEMMA SpanLeast ==
    ASSUME NEW q, NEW H, NEW C \in SUBSET Node, H \subseteq C, \A c \in C : q[c] \subseteq C
    PROVE  Span(q, H) \subseteq C
  BY DEF Span

\* More links and more to start from reach more.
LEMMA SpanMore ==
    ASSUME NEW q \in [Node -> SUBSET Node], NEW r \in [Node -> SUBSET Node],
           \A n \in Node : q[n] \subseteq r[n],
           NEW H \in SUBSET Node, NEW K \in SUBSET Node, H \subseteq Span(r, K)
    PROVE  Span(q, H) \subseteq Span(r, K)
  <1>1. /\ Span(r, K) \in SUBSET Node
        /\ \A c \in Span(r, K) : r[c] \subseteq Span(r, K)
    BY SpanClosed
  <1>2. \A c \in Span(r, K) : q[c] \subseteq Span(r, K)
    BY <1>1
  <1> QED BY <1>1, <1>2, SpanLeast

LEMMA ReachIsSpan ==
    (\A H : Reach(H) = Span(parents, H)) /\ Reach(heads) = Span(parents, heads)
  BY DEF Reach, Span

\* At most one goroutine is under way.
Alone ==
    /\ \A v, w \in Workers : wpc[v] # "idle" /\ wpc[w] # "idle" => v = w
    /\ \A a, b \in Local : ppc[a] # "idle" /\ ppc[b] # "idle" => a = b
    /\ \A m, n \in Node : dl[m] > 0 /\ dl[n] > 0 => m = n
    /\ \A w \in Workers : wpc[w] # "idle" =>
           (\A b \in Local : ppc[b] = "idle") /\ (\A n \in Node : ~(dl[n] > 0))
    /\ \A b \in Local : ppc[b] # "idle" => \A n \in Node : ~(dl[n] > 0)

LEMMA SerialAlone == Serial => Alone'
  <1> SUFFICES ASSUME Serial PROVE Alone'
    OBVIOUS
  <1>1. ASSUME NEW x \in {"work", "post", "load"}, NEW y \in {"work", "post", "load"}, NEW i, NEW j,
               <<x, i>> \in Active', <<y, j>> \in Active'
        PROVE  x = y /\ i = j
    BY <1>1 DEF Serial
  <1>2. \A w \in Workers : wpc'[w] # "idle" => <<"work", w>> \in Active'
    BY DEF Active
  <1>3. \A b \in Local : ppc'[b] # "idle" => <<"post", b>> \in Active'
    BY DEF Active
  <1>4. \A n \in Node : dl'[n] > 0 => <<"load", n>> \in Active'
    BY DEF Active
  <1> QED BY <1>1, <1>2, <1>3, <1>4 DEF Alone

\* A block that was not committed yet has no links, and a post keeps its row.
Wrapped ==
    /\ \A b \in Local : status[b] \in {"new", "queued"} => parents[b] = {}
    /\ \A b \in Local : ppc[b] \in {"listed", "build"} => status[b] = "queued"
    /\ \A r \in Remote \ published : parents[r] = {}

\* Nothing happens before the thread is there, and nothing is indexed before it
\* has its first heads.
Fresh ==
    /\ loaded = "no" =>
           /\ heads = {} /\ \A n \in Node : status[n] = "new" /\ ~(dl[n] > 0)
           /\ \A w \in Workers : wpc[w] = "idle"
           /\ \A b \in Local : ppc[b] = "idle"
    /\ \A w \in Workers : wpc[w] \in {"accept", "restore"} =>
           heads = {} /\ \A n \in Node : ~Indexed(n)

\* What a worker does at each place.
Roles == \A w \in Workers :
    /\ wpc[w] \in {"idle", "checked", "indexed", "adding"} => kind[w] = "inbound"
    /\ wpc[w] \in {"accept", "accepted"} => kind[w] = "invite"
    /\ wpc[w] \in {"restore", "compare"} => kind[w] = "snapshot"
    /\ wpc[w] = "idle" => inbound[w] = {}
    /\ wpc[w] \notin {"follow", "merge", "welcome"} => leaves[w] = {}

\* The heads that were read are the heads still.
Held ==
    /\ \A b \in Local : ppc[b] \in {"build", "indexed"} => psnap[b] = heads
    /\ \A b \in Local : ppc[b] = "indexed" => parents[b] = psnap[b]
    /\ \A w \in Workers : wpc[w] \in {"adding", "merge"} => snap[w] = heads
    /\ \A w \in Workers :
           \/ wpc[w] \in {"accepted", "tail", "follow", "merge", "welcome"} /\ kind[w] # "snapshot"
           \/ wpc[w] \in {"compare", "tail", "follow", "merge"} /\ Snapshots = {}
           => inbound[w] \subseteq heads

Shape == Wrapped /\ Fresh /\ Roles /\ Held

LEMMA ShapePost ==
    ASSUME TypeOK, LinkInv, Alone, Alone', Shape, NEW b \in Local, AddBlock(b) \/ Post(b)
    PROVE  Shape'
  <1> USE ThreadSyncAssumption DEF TypeOK, Alone, Shape, Wrapped, Fresh, Roles, Held, Indexed,
          index, posts, works, Node
  <1>1. CASE AddBlock(b)
    BY <1>1 DEF AddBlock
  <1>2. CASE PostRead(b)
    BY <1>2 DEF PostRead
  <1>3. CASE PostIndex(b)
    BY <1>3 DEF PostIndex
  <1>4. CASE PostHead(b)
    BY <1>4 DEF PostHead
  <1>5. CASE PostSend(b)
    BY <1>5 DEF PostSend
  <1>6. CASE PostError(b)
    BY <1>6 DEF PostError
  <1> QED BY <1>1, <1>2, <1>3, <1>4, <1>5, <1>6 DEF Post

LEMMA ShapeDownloads ==
    ASSUME TypeOK, LinkInv, Alone, Alone', Shape, NEW n \in Node, Downloads(n)
    PROVE  Shape'
  <1> USE ThreadSyncAssumption DEF TypeOK, LinkInv, Linked, Alone, Shape, Wrapped, Fresh, Roles, Held,
          Indexed, index, posts, works, Node
  <1>1. CASE DownloadStart(n)
    BY <1>1 DEF DownloadStart
  <1>2. CASE DownloadDone(n)
    BY <1>2 DEF DownloadDone
  <1>3. CASE DownloadFail(n)
    BY <1>3 DEF DownloadFail
  <1> QED BY <1>1, <1>2, <1>3 DEF Downloads

LEMMA ShapeInbound ==
    ASSUME TypeOK, LinkInv, Alone, Alone', Shape, NEW w \in Workers, Inbound(w)
    PROVE  Shape'
  <1> USE ThreadSyncAssumption DEF TypeOK, Alone, Shape, Wrapped, Fresh, Roles, Held, Indexed,
          HasRow, Goto, index, posts, Node
  <1>1. ASSUME NEW n \in Node, HandleCheck(w, n) PROVE Shape'
    BY <1>1 DEF HandleCheck
  <1>2. CASE HandleIndex(w)
    BY <1>2 DEF HandleIndex
  <1>3. CASE HandleConflict(w)
    BY <1>3 DEF HandleConflict, Return
  <1>4. CASE HandleReject(w)
    BY <1>4 DEF HandleReject, Return
  <1>5. CASE AddHeadRead(w)
    BY <1>5 DEF AddHeadRead
  <1>6. CASE AddHeadWrite(w)
    BY <1>6 DEF AddHeadWrite
  <1>7. CASE HandleAbort(w)
    BY <1>7 DEF HandleAbort, Return
  <1> QED BY <1>1, <1>2, <1>3, <1>4, <1>5, <1>6, <1>7 DEF Inbound

LEMMA ShapeTail ==
    ASSUME TypeOK, LinkInv, Alone, Alone', Shape, NEW w \in Workers, BackgroundTail(w)
    PROVE  Shape'
  <1> USE ThreadSyncAssumption DEF TypeOK, Alone, Shape, Wrapped, Fresh, Roles, Held, Indexed,
          HasRow, Goto, index, posts, Node
  <1>1. CASE TailStart(w)
    BY <1>1 DEF TailStart
  <1>2. ASSUME NEW p \in Node, FollowNew(w, p) PROVE Shape'
    BY <1>2 DEF FollowNew
  <1>3. ASSUME NEW p \in Node, FollowExisting(w, p) PROVE Shape'
    BY <1>3 DEF FollowExisting
  <1>4. ASSUME NEW p \in Node, FollowFail(w, p) PROVE Shape'
    BY <1>4 DEF FollowFail
  <1>5. CASE HandleHeadRead(w)
    BY <1>5 DEF HandleHeadRead
  <1>6. CASE HandleHeadWrite(w)
    BY <1>6 DEF HandleHeadWrite
  <1>7. CASE SendWelcome(w)
    BY <1>7 DEF SendWelcome, Return
  <1> QED BY <1>1, <1>2, <1>3, <1>4, <1>5, <1>6, <1>7 DEF BackgroundTail

LEMMA ShapeMembership ==
    ASSUME TypeOK, LinkInv, Alone, Alone', Shape, NEW w \in Workers, Membership(w)
    PROVE  Shape'
  <1> USE ThreadSyncAssumption DEF TypeOK, Alone, Shape, Wrapped, Fresh, Roles, Held, Indexed,
          HasRow, Goto, index, posts, Node
  <1>1. ASSUME NEW P \in SUBSET Node, AcceptInvite(w, P) PROVE Shape'
    BY <1>1 DEF AcceptInvite, EntryKinds
  <1>2. ASSUME NEW P \in SUBSET Node, RestoreThread(w, P) PROVE Shape'
    BY <1>2 DEF RestoreThread, EntryKinds
  <1>3. ASSUME NEW P \in SUBSET Node, UpdateThread(w, P) PROVE Shape'
    BY <1>3 DEF UpdateThread, EntryKinds
  <1>4. CASE AcceptHead(w)
    BY <1>4 DEF AcceptHead
  <1>5. CASE AcceptJoin(w)
    BY <1>5 DEF AcceptJoin, QueueJoin
  <1>6. CASE RestoreHead(w)
    BY <1>6 DEF RestoreHead
  <1>7. CASE CompareHeads(w)
    <2>1. /\ UNCHANGED <<loaded, parents, heads, published, ppc, psnap, dl>>
          /\ \A n \in Node : (Indexed(n)' <=> Indexed(n)) /\ (status[n] = "queued" => status'[n] = "queued")
          /\ \A b \in Local : status'[b] \in {"new", "queued"} => status[b] \in {"new", "queued"}
      BY <1>7 DEF CompareHeads, QueueJoin
    <2>2. /\ \A v \in Workers \ {w} : /\ wpc'[v] = wpc[v] /\ kind'[v] = kind[v] /\ snap'[v] = snap[v]
                                      /\ inbound'[v] = inbound[v] /\ leaves'[v] = leaves[v]
          /\ wpc[w] = "compare"
          /\ \/ wpc'[w] = "idle" /\ kind'[w] = "inbound" /\ inbound'[w] = {} /\ leaves'[w] = {}
             \/ /\ wpc'[w] = "tail" /\ kind'[w] = kind[w] /\ inbound'[w] = inbound[w]
                /\ leaves'[w] = leaves[w]
      BY <1>7 DEF CompareHeads, Return
    <2>3. Wrapped' /\ Fresh'
      BY <2>1, <2>2
    <2>4. Roles' /\ Held'
      BY <2>1, <2>2
    <2> QED BY <2>3, <2>4
  <1> QED BY <1>1, <1>2, <1>3, <1>4, <1>5, <1>6, <1>7 DEF Membership

LEMMA ShapeNext ==
    ASSUME TypeOK, LinkInv, Alone, Alone', Shape, [Next]_vars
    PROVE  Shape'
  <1> USE ThreadSyncAssumption DEF TypeOK, LinkInv, Linked, Alone, Shape, Wrapped, Fresh, Roles,
          Held, Indexed, index, posts, works, Node
  <1>1. ASSUME NEW r \in Remote, RemoteCommit(r) PROVE Shape'
    BY <1>1 DEF RemoteCommit
  <1>2. ASSUME NEW Q \in SUBSET Local, FlushBlocks(Q) PROVE Shape'
    BY <1>2 DEF FlushBlocks
  <1>3. CASE Crash
    BY <1>3 DEF Crash
  <1>4. CASE UNCHANGED vars
    BY <1>4 DEF vars
  <1>5. CASE Next
    BY <1>1, <1>2, <1>3, <1>4, <1>5, ShapePost, ShapeDownloads, ShapeInbound,
       ShapeTail, ShapeMembership DEF Next, Rest
  <1> QED BY <1>4, <1>5

\* What a worker has still to follow, or took for a leaf, lies behind what it brings.
Branch == \A w \in Workers : frontier[w] \cup leaves[w] \subseteq Span(parents, inbound[w])

\* Somebody is about to make n, or the heads of a snapshot that leads to it, a head.
Coming(n) ==
    \/ n \in Local /\ ppc[n] = "indexed"
    \/ \E w \in Workers : wpc[w] \in {"indexed", "adding"} /\ n \in inbound[w]
    \/ \E w \in Workers :
          /\ kind[w] = "snapshot" /\ wpc[w] \in {"tail", "follow", "merge"}
          /\ n \in Span(parents, inbound[w])

Kept(n) == n \in lost \/ n \in Span(parents, heads)

\* An indexed block, and one that a download may still index, is behind the heads,
\* was let go, or is about to get there.
Remembered == \A n \in Node :
    /\ Indexed(n) => Kept(n) \/ Coming(n)
    /\ dl[n] > 0 => Kept(n)

\* A block gets its links when it is wrapped, here or by its author.
LEMMA LinkSteps ==
    ASSUME [Next]_vars, parents' # parents
    PROVE  (\E r \in Remote : RemoteCommit(r)) \/ (\E b \in Local : PostIndex(b))
  <1> USE DEF index
  <1>1. ASSUME NEW b \in Local, AddBlock(b) \/ Post(b), ~PostIndex(b) PROVE UNCHANGED parents
    BY <1>1 DEF AddBlock, Post, PostRead, PostHead, PostSend, PostError
  <1>2. ASSUME NEW Q \in SUBSET Local, FlushBlocks(Q) PROVE UNCHANGED parents
    BY <1>2 DEF FlushBlocks
  <1>3. ASSUME NEW n \in Node, Downloads(n) PROVE UNCHANGED parents
    BY <1>3 DEF Downloads, DownloadStart, DownloadDone, DownloadFail
  <1>4. ASSUME NEW w \in Workers, Inbound(w) PROVE UNCHANGED parents
    BY <1>4 DEF Inbound, HandleCheck, HandleIndex, HandleConflict, HandleReject, AddHeadRead,
       AddHeadWrite, HandleAbort
  <1>5. ASSUME NEW w \in Workers, BackgroundTail(w) PROVE UNCHANGED parents
    BY <1>5 DEF BackgroundTail, TailStart, FollowNew, FollowExisting, FollowFail, HandleHeadRead,
       HandleHeadWrite, SendWelcome
  <1>6. ASSUME NEW w \in Workers, Membership(w) PROVE UNCHANGED parents
    BY <1>6 DEF Membership, AcceptInvite, RestoreThread, UpdateThread, AcceptHead, AcceptJoin,
       RestoreHead, CompareHeads
  <1>7. CASE Crash \/ Rest \/ UNCHANGED vars
    BY <1>7 DEF Crash, Rest, vars
  <1> QED BY <1>1, <1>2, <1>3, <1>4, <1>5, <1>6, <1>7 DEF Next

\* That happens once, so links are only ever added.
LEMMA LinksGrow ==
    ASSUME TypeOK, Shape, [Next]_vars
    PROVE  \A n \in Node : parents[n] \subseteq parents'[n]
  <1>1. CASE parents' = parents
    BY <1>1
  <1>2. ASSUME NEW r \in Remote, RemoteCommit(r)
        PROVE  \A n \in Node : parents[n] \subseteq parents'[n]
    BY <1>2 DEF RemoteCommit, TypeOK, Shape, Wrapped, Node
  <1>3. ASSUME NEW b \in Local, PostIndex(b)
        PROVE  \A n \in Node : parents[n] \subseteq parents'[n]
    BY <1>3 DEF PostIndex, TypeOK, Shape, Wrapped, Node
  <1> QED BY <1>1, <1>2, <1>3, LinkSteps

\* So whatever was reached from some blocks still is.
LEMMA SpansGrow ==
    ASSUME TypeOK, TypeOK', Shape, [Next]_vars, NEW H \in SUBSET Node
    PROVE  Span(parents, H) \subseteq Span(parents', H)
  <1>1. H \subseteq Span(parents', H)
    BY SpanClosed DEF TypeOK
  <1> QED BY <1>1, LinksGrow, SpanMore DEF TypeOK

LEMMA BranchNext ==
    ASSUME TypeOK, TypeOK', LinkInv, Shape, Branch, [Next]_vars
    PROVE  Branch'
  <1> SUFFICES ASSUME NEW w \in Workers
               PROVE  frontier'[w] \cup leaves'[w] \subseteq Span(parents', inbound'[w])
    BY DEF Branch
  <1>1. \A H \in SUBSET Node : Span(parents, H) \subseteq Span(parents', H)
    BY SpansGrow
  <1>2. /\ inbound[w] \in SUBSET Node /\ inbound[w] \subseteq Span(parents, inbound[w])
        /\ \A c \in Span(parents, inbound[w]) : parents[c] \subseteq Span(parents, inbound[w])
    BY SpanClosed DEF TypeOK
  <1>3. frontier[w] \cup leaves[w] \subseteq Span(parents, inbound[w])
    BY DEF Branch
  <1>4. CASE UNCHANGED <<frontier, leaves, inbound>>
    BY <1>1, <1>2, <1>3, <1>4
  <1>5. CASE frontier'[w] = {} /\ leaves'[w] = {}
    BY <1>5
  <1>6. ASSUME NEW v \in Workers, v # w, Inbound(v) \/ BackgroundTail(v) \/ Membership(v)
        PROVE  frontier'[w] = frontier[w] /\ leaves'[w] = leaves[w] /\ inbound'[w] = inbound[w]
    <2> USE <1>6 DEF TypeOK, Goto, Return
    <2>1. CASE Inbound(v)
      BY <2>1 DEF Inbound, HandleCheck, HandleIndex, HandleConflict, HandleReject, AddHeadRead,
         AddHeadWrite, HandleAbort
    <2>2. CASE BackgroundTail(v)
      BY <2>2 DEF BackgroundTail, TailStart, FollowNew, FollowExisting, FollowFail, HandleHeadRead,
         HandleHeadWrite, SendWelcome
    <2>3. CASE Membership(v)
      BY <2>3 DEF Membership, AcceptInvite, RestoreThread, UpdateThread, AcceptHead, AcceptJoin,
         RestoreHead, CompareHeads
    <2> QED BY <1>6, <2>1, <2>2, <2>3
  <1>7. CASE Inbound(w)
    <2> USE DEF TypeOK, Goto, LinkInv, Shape, Roles
    <2>1. ASSUME NEW n \in Node, HandleCheck(w, n) PROVE frontier'[w] = {} /\ leaves'[w] = {}
      BY <2>1 DEF HandleCheck
    <2>2. CASE HandleIndex(w)
      <3>1. PICK n \in Node : inbound[w] = {n} /\ frontier' = [frontier EXCEPT ![w] = parents[n]]
        BY <2>2 DEF HandleIndex
      <3>2. n \in Span(parents, inbound[w]) /\ parents[n] \subseteq Span(parents, inbound[w])
        BY <3>1, <1>2
      <3>3. frontier'[w] = parents[n] /\ leaves' = leaves /\ inbound' = inbound /\ parents' = parents
        BY <2>2, <3>1 DEF HandleIndex
      <3> QED BY <3>2, <3>3, <1>3
    <2>3. CASE HandleConflict(w) \/ HandleReject(w) \/ HandleAbort(w)
      BY <2>3, <1>5 DEF HandleConflict, HandleReject, HandleAbort, Return
    <2>4. CASE AddHeadRead(w) \/ AddHeadWrite(w)
      BY <2>4, <1>4 DEF AddHeadRead, AddHeadWrite
    <2> QED BY <1>5, <1>7, <2>1, <2>2, <2>3, <2>4 DEF Inbound
  <1>8. CASE BackgroundTail(w)
    <2> USE DEF TypeOK, Goto
    <2>1. ASSUME NEW p \in Node, FollowNew(w, p)
          PROVE  frontier'[w] \cup leaves'[w] \subseteq Span(parents', inbound'[w])
      BY <2>1, <1>1, <1>2, <1>3 DEF FollowNew
    <2>2. ASSUME NEW p \in Node, FollowExisting(w, p) \/ FollowFail(w, p)
          PROVE  frontier'[w] \cup leaves'[w] \subseteq Span(parents', inbound'[w])
      BY <2>2, <1>1, <1>2, <1>3 DEF FollowExisting, FollowFail
    <2>3. CASE TailStart(w) \/ HandleHeadRead(w) \/ HandleHeadWrite(w)
      BY <2>3, <1>4 DEF TailStart, HandleHeadRead, HandleHeadWrite
    <2>4. CASE SendWelcome(w)
      BY <2>4, <1>5 DEF SendWelcome, Return
    <2> QED BY <1>8, <2>1, <2>2, <2>3, <2>4 DEF BackgroundTail
  <1>9. CASE Membership(w)
    <2> USE DEF TypeOK, Goto, LinkInv, Shape, Roles
    <2>1. ASSUME NEW P \in SUBSET Node, AcceptInvite(w, P)
          PROVE  frontier'[w] \cup leaves'[w] \subseteq Span(parents', inbound'[w])
      <3>1. frontier'[w] = P /\ leaves'[w] = {} /\ inbound'[w] = P
        BY <2>1 DEF AcceptInvite
      <3> QED BY <3>1, SpanClosed
    <2>2. ASSUME NEW P \in SUBSET Node, RestoreThread(w, P) \/ UpdateThread(w, P)
          PROVE  frontier'[w] = {} /\ leaves'[w] = {}
      BY <2>2 DEF RestoreThread, UpdateThread
    <2>3. CASE AcceptHead(w) \/ AcceptJoin(w) \/ RestoreHead(w)
      BY <2>3, <1>4 DEF AcceptHead, AcceptJoin, RestoreHead
    <2>4. CASE CompareHeads(w) /\ frontier'[w] = {}
      BY <2>4, <1>5 DEF CompareHeads, Return
    <2>5. CASE CompareHeads(w) /\ frontier'[w] # {}
      <3>1. /\ frontier'[w] = inbound[w] /\ leaves'[w] = {} /\ inbound'[w] = inbound[w]
            /\ parents' = parents
        BY <2>5 DEF CompareHeads, Return
      <3> QED BY <3>1, <1>2
    <2> QED BY <1>5, <1>9, <2>1, <2>2, <2>3, <2>4, <2>5 DEF Membership
  <1>10. ASSUME NEW n \in Node, Downloads(n) PROVE UNCHANGED <<frontier, leaves, inbound>>
    BY <1>10 DEF Downloads, DownloadStart, DownloadDone, DownloadFail, works
  <1>11. ASSUME NEW b \in Local, AddBlock(b) \/ Post(b) PROVE UNCHANGED <<frontier, leaves, inbound>>
    BY <1>11 DEF AddBlock, Post, PostRead, PostIndex, PostHead, PostSend, PostError, works
  <1>12. CASE \/ \E r \in Remote : RemoteCommit(r)
              \/ \E Q \in SUBSET Local : FlushBlocks(Q)
              \/ Rest \/ UNCHANGED vars
    BY <1>4, <1>12 DEF RemoteCommit, FlushBlocks, Rest, vars, works
  <1>13. CASE Crash
    BY <1>5, <1>13 DEF Crash
  <1>14. ASSUME NEW v \in Workers, Inbound(v) \/ BackgroundTail(v) \/ Membership(v)
         PROVE  frontier'[w] \cup leaves'[w] \subseteq Span(parents', inbound'[w])
    <2>1. CASE v = w
      BY <2>1, <1>7, <1>8, <1>9, <1>14
    <2>2. CASE v # w
      BY <2>2, <1>1, <1>2, <1>3, <1>6, <1>14
    <2> QED BY <2>1, <2>2
  <1> QED BY <1>4, <1>10, <1>11, <1>12, <1>13, <1>14 DEF Next

\* A step that lets nothing go and forgets no head keeps what it does not disturb.
LEMMA StillKept ==
    ASSUME TypeOK, TypeOK', Shape, [Next]_vars, lost \subseteq lost',
           heads \subseteq Span(parents', heads')
    PROVE  \A n \in Node : Kept(n) => Kept(n)'
  <1>1. Span(parents, heads) \subseteq Span(parents', heads')
    BY LinksGrow, SpanMore DEF TypeOK
  <1> QED BY <1>1 DEF Kept

LEMMA SameHeads ==
    ASSUME TypeOK, heads' = heads PROVE heads \subseteq Span(parents', heads')
  BY DEF Span, TypeOK

\* What is left to show of a step, block by block.
LEMMA RememberedStep ==
    ASSUME Remembered, \A n \in Node : Kept(n) => Kept(n)',
           \A n \in Node : Indexed(n)' => Indexed(n) \/ Kept(n)' \/ Coming(n)',
           \A n \in Node : Coming(n) /\ Indexed(n)' => Kept(n)' \/ Coming(n)',
           \A n \in Node : dl'[n] > 0 => dl[n] > 0 \/ Kept(n)'
    PROVE  Remembered'
  BY DEF Remembered

\* Whose doing it is that a block is coming, when one goroutine is under way.
LEMMA ComingFrom ==
    ASSUME Alone, NEW n \in Node, Coming(n)
    PROVE  /\ \A b \in Local : ppc[b] # "idle" => n = b /\ ppc[b] = "indexed"
           /\ \A w \in Workers : wpc[w] # "idle" =>
                \/ wpc[w] \in {"indexed", "adding"} /\ n \in inbound[w]
                \/ /\ kind[w] = "snapshot" /\ wpc[w] \in {"tail", "follow", "merge"}
                   /\ n \in Span(parents, inbound[w])
           /\ \A m \in Node : ~(dl[m] > 0)
  BY DEF Coming, Alone

LEMMA StillComing ==
    ASSUME TypeOK, TypeOK', Shape, [Next]_vars, UNCHANGED <<ppc, wpc, kind, inbound>>
    PROVE  \A n \in Node : Coming(n) => Coming(n)'
  <1>1. \A w \in Workers : Span(parents, inbound[w]) \subseteq Span(parents', inbound'[w])
    BY SpansGrow DEF TypeOK
  <1> QED BY <1>1 DEF Coming

LEMMA RememberedPost ==
    ASSUME TypeOK, TypeOK', LinkInv, Alone, Alone', Shape, Remembered, Next,
           NEW b \in Local, AddBlock(b) \/ Post(b)
    PROVE  Remembered'
  <1>1. /\ UNCHANGED <<dl, works>> /\ lost \subseteq lost'
        /\ \A a \in Local \ {b} : ppc'[a] = ppc[a]
    BY DEF AddBlock, Post, PostRead, PostIndex, PostHead, PostSend, PostError, posts, TypeOK
  <1>2. UNCHANGED <<wpc, kind, inbound>> /\ \A n \in Node : dl'[n] > 0 => dl[n] > 0
    BY <1>1 DEF works
  <1>3. b \in Node /\ \A n \in Node : Coming(n) /\ n # b => Coming(n)'
    <2>1. \A w \in Workers : Span(parents, inbound[w]) \subseteq Span(parents', inbound'[w])
      BY <1>2, SpansGrow DEF TypeOK
    <2> QED BY <1>1, <1>2, <2>1 DEF Coming, Node
  <1>4. ASSUME heads' = heads PROVE \A n \in Node : Kept(n) => Kept(n)'
    BY <1>1, <1>4, SameHeads, StillKept
  <1>5. CASE AddBlock(b)
    <2>1. heads' = heads /\ ppc' = ppc /\ \A n \in Node : Indexed(n)' => Indexed(n)
      BY <1>5 DEF AddBlock, index, posts, Indexed, TypeOK
    <2> QED BY <1>2, <1>4, <2>1, StillComing, RememberedStep
  <1>6. CASE PostRead(b)
    <2>1. heads' = heads /\ \A n \in Node : Indexed(n)' => Indexed(n)
      BY <1>6 DEF PostRead, index, Indexed
    <2>2. ~Coming(b)
      BY <1>3, <1>6, ComingFrom DEF PostRead
    <2> QED BY <1>2, <1>3, <1>4, <2>1, <2>2, RememberedStep
  <1>7. CASE PostIndex(b)
    <2>1. heads' = heads /\ Coming(b)'
      BY <1>7 DEF PostIndex, Coming, TypeOK
    <2>2. \A n \in Node : Indexed(n)' => Indexed(n) \/ n = b
      BY <1>7 DEF PostIndex, Indexed, TypeOK
    <2> QED BY <1>2, <1>3, <1>4, <2>1, <2>2, RememberedStep
  <1>8. CASE PostHead(b)
    <2>1. /\ heads' = {b} /\ parents' = parents /\ parents[b] = heads
          /\ \A n \in Node : Indexed(n)' => Indexed(n)
      BY <1>8 DEF PostHead, Shape, Held, Indexed
    <2>2. b \in Span(parents', heads') /\ heads \subseteq Span(parents', heads')
      BY <1>3, <2>1, SpanClosed DEF TypeOK
    <2> QED BY <1>1, <1>2, <1>3, <2>1, <2>2, StillKept, RememberedStep DEF Kept
  <1>9. CASE PostSend(b)
    <2>1. heads' = heads /\ \A n \in Node : Indexed(n)' => Indexed(n)
      BY <1>9 DEF PostSend, Indexed, TypeOK
    <2>2. ~Coming(b)
      BY <1>3, <1>9, ComingFrom DEF PostSend
    <2> QED BY <1>2, <1>3, <1>4, <2>1, <2>2, RememberedStep
  <1>10. CASE PostError(b)
    <2>1. heads' = heads /\ \A n \in Node : Indexed(n)' => Indexed(n)
      BY <1>10 DEF PostError, Indexed, TypeOK
    <2>2. Coming(b) => ppc[b] = "indexed" /\ b \notin Adds
      BY <1>3, <1>10, ComingFrom DEF PostError, LinkInv
    <2>3. Coming(b) => Kept(b)'
      BY <1>10, <2>2 DEF PostError, Kept
    <2> QED BY <1>2, <1>3, <1>4, <2>1, <2>3, RememberedStep
  <1> QED BY <1>5, <1>6, <1>7, <1>8, <1>9, <1>10 DEF Post

LEMMA RememberedDownloads ==
    ASSUME TypeOK, TypeOK', Alone, Alone', Shape, Remembered, Next, NEW n \in Node, Downloads(n)
    PROVE  Remembered'
  <1>1. UNCHANGED <<heads, ppc, wpc, kind, inbound>> /\ lost \subseteq lost'
    BY DEF Downloads, DownloadStart, DownloadDone, DownloadFail, index, posts, works
  <1>2. /\ \A m \in Node : Kept(m) => Kept(m)'
        /\ \A m \in Node : Coming(m) => Coming(m)'
    BY <1>1, SameHeads, StillKept, StillComing
  <1>3. CASE DownloadStart(n)
    <2>1. /\ dl'[n] > 0 /\ Indexed(n)
          /\ \A m \in Node : (Indexed(m)' <=> Indexed(m)) /\ (dl'[m] > 0 => dl[m] > 0 \/ m = n)
      BY <1>3 DEF DownloadStart, index, Indexed, TypeOK
    <2>2. ~Coming(n)'
      BY <2>1 DEF Coming, Alone
    <2>3. Kept(n)'
      BY <1>2, <2>1, <2>2 DEF Remembered
    <2> QED BY <1>2, <2>1, <2>3, RememberedStep
  <1>4. CASE DownloadDone(n)
    <2>1. dl[n] > 0 /\ \A m \in Node : (Indexed(m)' => Indexed(m) \/ m = n) /\ (dl'[m] > 0 => dl[m] > 0)
      BY <1>4, ThreadSyncAssumption DEF DownloadDone, Indexed, TypeOK
    <2>2. Kept(n)'
      BY <1>2, <2>1 DEF Remembered
    <2> QED BY <1>2, <2>1, <2>2, RememberedStep
  <1>5. CASE DownloadFail(n)
    <2>1. \A m \in Node : (Indexed(m)' => Indexed(m)) /\ (dl'[m] > 0 => dl[m] > 0)
      BY <1>5, ThreadSyncAssumption DEF DownloadFail, Indexed, TypeOK
    <2> QED BY <1>2, <2>1, RememberedStep
  <1> QED BY <1>3, <1>4, <1>5 DEF Downloads

\* A worker that is under way is the only one that makes a block come.
LEMMA ComingByWorker ==
    ASSUME TypeOK, TypeOK', Alone, Shape, [Next]_vars, NEW w \in Workers, wpc[w] # "idle",
           parents' = parents, inbound'[w] = inbound[w], kind'[w] = kind[w],
           \/ {wpc[w], wpc'[w]} \subseteq {"indexed", "adding"}
           \/ wpc'[w] \in {"tail", "follow", "merge"} /\ wpc[w] \notin {"indexed", "adding"}
    PROVE  \A n \in Node : Coming(n) => Coming(n)'
  <1> SUFFICES ASSUME NEW n \in Node, Coming(n) PROVE Coming(n)'
    OBVIOUS
  <1>1. CASE wpc[w] \in {"indexed", "adding"} /\ n \in inbound[w]
    BY <1>1 DEF Coming
  <1>2. CASE /\ kind[w] = "snapshot" /\ wpc[w] \in {"tail", "follow", "merge"}
             /\ n \in Span(parents, inbound[w])
    <2>1. wpc'[w] \in {"tail", "follow", "merge"}
      BY <1>2
    <2> QED BY <1>2, <2>1 DEF Coming
  <1> QED BY <1>1, <1>2, ComingFrom

LEMMA RememberedInbound ==
    ASSUME TypeOK, TypeOK', LinkInv, Alone, Alone', Shape, Remembered, Next,
           NEW w \in Workers, Inbound(w)
    PROVE  Remembered'
  <1>1. /\ UNCHANGED <<dl, ppc, parents>> /\ lost \subseteq lost'
        /\ \A v \in Workers \ {w} : wpc'[v] = wpc[v] /\ kind'[v] = kind[v] /\ inbound'[v] = inbound[v]
    BY DEF Inbound, HandleCheck, HandleIndex, HandleConflict, HandleReject, AddHeadRead,
       AddHeadWrite, HandleAbort, Return, Goto, index, posts, TypeOK
  <1>2. ASSUME heads' = heads PROVE \A n \in Node : Kept(n) => Kept(n)'
    BY <1>1, <1>2, SameHeads, StillKept
  <1>3. ASSUME NEW n \in Node, HandleCheck(w, n) PROVE Remembered'
    <2>1. /\ heads' = heads /\ wpc'[w] # "idle" /\ wpc[w] = "idle"
          /\ \A m \in Node : Indexed(m)' => Indexed(m)
      BY <1>3 DEF HandleCheck, index, Goto, Indexed, TypeOK
    <2>2. \A m \in Node : ~Coming(m)
      BY <1>1, <2>1 DEF Coming, Alone
    <2> QED BY <1>1, <1>2, <2>1, <2>2, RememberedStep
  <1>4. CASE HandleIndex(w)
    <2>1. PICK n \in Node : inbound[w] = {n} /\ status' = [status EXCEPT ![n] = "ready"]
      BY <1>4 DEF HandleIndex
    <2>2. heads' = heads /\ wpc[w] = "checked" /\ wpc'[w] = "indexed" /\ inbound' = inbound
      BY <1>4 DEF HandleIndex, Goto, TypeOK
    <2>3. \A m \in Node : Indexed(m)' => Indexed(m) \/ m = n
      BY <2>1 DEF Indexed, TypeOK
    <2>4. Coming(n)'
      BY <2>1, <2>2 DEF Coming
    <2>5. \A m \in Node : ~Coming(m)
      BY <2>2, ComingFrom
    <2> QED BY <1>1, <1>2, <2>2, <2>3, <2>4, <2>5, RememberedStep
  <1>5. CASE HandleConflict(w) \/ HandleReject(w)
    <2>1. /\ heads' = heads /\ wpc[w] = "checked"
          /\ \A m \in Node : Indexed(m)' => Indexed(m)
      BY <1>5 DEF HandleConflict, HandleReject, index, Indexed
    <2>2. \A m \in Node : ~Coming(m)
      BY <2>1, ComingFrom
    <2> QED BY <1>1, <1>2, <2>1, <2>2, RememberedStep
  <1>6. CASE AddHeadRead(w)
    <2>1. /\ heads' = heads /\ wpc[w] = "indexed" /\ wpc'[w] = "adding"
          /\ inbound' = inbound /\ kind' = kind
          /\ \A m \in Node : Indexed(m)' => Indexed(m)
      BY <1>6 DEF AddHeadRead, Goto, index, Indexed, TypeOK
    <2>2. \A m \in Node : Coming(m) => Coming(m)'
      BY <1>1, <2>1, ComingByWorker
    <2> QED BY <1>1, <1>2, <2>1, <2>2, RememberedStep
  <1>7. CASE AddHeadWrite(w)
    <2>1. /\ heads' = heads \cup inbound[w] /\ wpc[w] = "adding"
          /\ \A m \in Node : Indexed(m)' => Indexed(m)
      BY <1>7 DEF AddHeadWrite, Shape, Held, Indexed
    <2>2. heads' \subseteq Span(parents', heads')
      BY SpanClosed DEF TypeOK
    <2>3. \A m \in Node : Kept(m) => Kept(m)'
      BY <1>1, <2>1, <2>2, StillKept
    <2>4. \A m \in Node : Coming(m) => Kept(m)'
      BY <2>1, <2>2, ComingFrom DEF Kept
    <2> QED BY <1>1, <2>1, <2>3, <2>4, RememberedStep
  <1>8. CASE HandleAbort(w)
    <2>1. /\ heads' = heads /\ wpc[w] # "idle" /\ kind[w] # "snapshot"
          /\ lost' = lost \cup frontier[w] \cup inbound[w]
          /\ \A m \in Node : Indexed(m)' => Indexed(m)
      BY <1>8 DEF HandleAbort, index, Indexed
    <2>2. \A m \in Node : Coming(m) => Kept(m)'
      BY <2>1, ComingFrom DEF Kept
    <2> QED BY <1>1, <1>2, <2>1, <2>2, RememberedStep
  <1> QED BY <1>3, <1>4, <1>5, <1>6, <1>7, <1>8 DEF Inbound

LEMMA RememberedTail ==
    ASSUME TypeOK, TypeOK', LinkInv, Alone, Alone', Shape, Branch, Remembered, Next,
           NEW w \in Workers, BackgroundTail(w)
    PROVE  Remembered'
  <1>1. /\ UNCHANGED <<dl, ppc, parents>> /\ lost \subseteq lost'
        /\ \A v \in Workers \ {w} : wpc'[v] = wpc[v] /\ kind'[v] = kind[v] /\ inbound'[v] = inbound[v]
    BY DEF BackgroundTail, TailStart, FollowNew, FollowExisting, FollowFail, HandleHeadRead,
       HandleHeadWrite, SendWelcome, Return, Goto, index, posts, TypeOK
  <1>2. ASSUME heads' = heads PROVE \A n \in Node : Kept(n) => Kept(n)'
    BY <1>1, <1>2, SameHeads, StillKept
  <1>3. CASE TailStart(w)
    <2>1. /\ heads' = heads /\ wpc[w] = "tail" /\ wpc'[w] = "follow"
          /\ inbound' = inbound /\ kind' = kind
          /\ \A m \in Node : Indexed(m)' => Indexed(m)
      BY <1>3 DEF TailStart, Goto, index, Indexed, TypeOK
    <2>2. \A m \in Node : Coming(m) => Coming(m)'
      BY <1>1, <2>1, ComingByWorker
    <2> QED BY <1>1, <1>2, <2>1, <2>2, RememberedStep
  <1>4. ASSUME NEW p \in Node, FollowNew(w, p) PROVE Remembered'
    <2>1. /\ heads' = heads /\ wpc[w] = "follow" /\ UNCHANGED <<wpc, kind, inbound>>
          /\ p \in frontier[w]
          /\ \A m \in Node : Indexed(m)' => Indexed(m) \/ m = p
      BY <1>4 DEF FollowNew, Indexed, TypeOK
    <2>2. \A m \in Node : Coming(m) => Coming(m)'
      BY <1>1, <2>1, StillComing
    <2>3. p \in Span(parents, inbound[w])
      BY <2>1 DEF Branch
    <2>4. CASE kind[w] = "snapshot"
      <3>1. Coming(p)'
        BY <1>1, <2>1, <2>3, <2>4 DEF Coming
      <3> QED BY <1>1, <1>2, <2>1, <2>2, <3>1, RememberedStep
    <2>5. CASE kind[w] # "snapshot"
      <3>1. inbound[w] \subseteq heads
        BY <2>1, <2>5 DEF Shape, Held
      <3>2. inbound[w] \subseteq Span(parents, heads)
        BY <3>1, SpanClosed DEF TypeOK
      <3>3. p \in Span(parents, heads)
        BY <2>3, <3>2, SpanMore DEF TypeOK
      <3>4. Kept(p)'
        BY <1>1, <2>1, <3>3 DEF Kept
      <3> QED BY <1>1, <1>2, <2>1, <2>2, <3>4, RememberedStep
    <2> QED BY <2>4, <2>5
  <1>5. ASSUME NEW p \in Node, FollowExisting(w, p) \/ FollowFail(w, p) PROVE Remembered'
    <2>1. /\ heads' = heads /\ UNCHANGED <<wpc, kind, inbound>>
          /\ \A m \in Node : Indexed(m)' => Indexed(m)
      BY <1>5 DEF FollowExisting, FollowFail, index, Indexed
    <2> QED BY <1>1, <1>2, <2>1, StillComing, RememberedStep
  <1>6. CASE HandleHeadRead(w)
    <2>1. /\ heads' = heads /\ wpc[w] = "follow" /\ inbound' = inbound /\ kind' = kind
          /\ wpc'[w] = "merge" \/ kind[w] = "invite"
          /\ \A m \in Node : Indexed(m)' => Indexed(m)
      BY <1>6 DEF HandleHeadRead, Goto, index, Indexed, TypeOK
    <2>2. CASE wpc'[w] = "merge"
      <3>1. \A m \in Node : Coming(m) => Coming(m)'
        BY <1>1, <2>1, <2>2, ComingByWorker
      <3> QED BY <1>1, <1>2, <2>1, <3>1, RememberedStep
    <2>3. CASE kind[w] = "invite"
      <3>1. \A m \in Node : ~Coming(m)
        BY <2>1, <2>3, ComingFrom
      <3> QED BY <1>1, <1>2, <2>1, <3>1, RememberedStep
    <2> QED BY <2>1, <2>2, <2>3
  <1>7. CASE HandleHeadWrite(w)
    <2>1. /\ heads' = inbound[w] \cup (heads \ leaves[w]) /\ wpc[w] = "merge"
          /\ \A m \in Node : Indexed(m)' => Indexed(m)
      BY <1>7 DEF HandleHeadWrite, Shape, Held, Indexed
    <2>2. heads' \subseteq Span(parents, heads')
      BY SpanClosed DEF TypeOK
    <2>3. Span(parents, inbound[w]) \subseteq Span(parents, heads')
      <3>1. inbound[w] \subseteq Span(parents, heads') /\ inbound[w] \in SUBSET Node
        BY <1>1, <2>1, <2>2 DEF TypeOK
      <3> QED BY <3>1, SpanMore DEF TypeOK
    <2>4. heads \subseteq Span(parents', heads')
      BY <1>1, <2>1, <2>2, <2>3 DEF Branch
    <2>5. \A m \in Node : Kept(m) => Kept(m)'
      BY <1>1, <2>4, StillKept
    <2>6. \A m \in Node : Coming(m) => Kept(m)'
      <3>1. \A m \in Node : Coming(m) => m \in Span(parents, inbound[w])
        BY <2>1, ComingFrom
      <3> QED BY <1>1, <2>3, <3>1 DEF Kept
    <2> QED BY <1>1, <2>1, <2>5, <2>6, RememberedStep
  <1>8. CASE SendWelcome(w)
    <2>1. heads' = heads /\ wpc[w] = "welcome" /\ \A m \in Node : Indexed(m)' => Indexed(m)
      BY <1>8 DEF SendWelcome, index, Indexed
    <2>2. \A m \in Node : ~Coming(m)
      BY <2>1, ComingFrom
    <2> QED BY <1>1, <1>2, <2>1, <2>2, RememberedStep
  <1> QED BY <1>3, <1>4, <1>5, <1>6, <1>7, <1>8 DEF BackgroundTail

LEMMA RememberedMembership ==
    ASSUME TypeOK, TypeOK', LinkInv, Alone, Alone', Shape, Remembered, Next,
           NEW w \in Workers, Membership(w)
    PROVE  Remembered'
  <1>1. /\ UNCHANGED <<dl, ppc, parents>> /\ lost \subseteq lost'
        /\ \A m \in Node : Indexed(m)' => Indexed(m)
    BY DEF Membership, AcceptInvite, RestoreThread, UpdateThread, AcceptHead, AcceptJoin,
       RestoreHead, CompareHeads, QueueJoin, index, posts, Indexed, TypeOK
  <1>2. ASSUME heads' = heads PROVE \A n \in Node : Kept(n) => Kept(n)'
    BY <1>1, <1>2, SameHeads, StillKept
  <1>3. ASSUME NEW P \in SUBSET Node,
               AcceptInvite(w, P) \/ RestoreThread(w, P) \/ UpdateThread(w, P)
        PROVE  Remembered'
    <2>1. /\ heads' = heads /\ wpc[w] = "idle" /\ wpc'[w] # "idle"
          /\ \A v \in Workers \ {w} : wpc'[v] = wpc[v]
      BY <1>3 DEF AcceptInvite, RestoreThread, UpdateThread, Goto, index, TypeOK
    <2>2. \A m \in Node : ~Coming(m)
      BY <1>1, <2>1 DEF Coming, Alone
    <2> QED BY <1>1, <1>2, <2>1, <2>2, RememberedStep
  <1>4. CASE AcceptHead(w) \/ RestoreHead(w)
    <2>1. wpc[w] \in {"accept", "restore"}
      BY <1>4 DEF AcceptHead, RestoreHead
    <2>2. \A m \in Node : ~Indexed(m) /\ ~(dl[m] > 0)
      BY <2>1 DEF Shape, Fresh, Alone
    <2> QED BY <1>1, <2>2 DEF Remembered
  <1>5. CASE AcceptJoin(w) \/ CompareHeads(w)
    <2>1. heads' = heads /\ wpc[w] \in {"accepted", "compare"}
      BY <1>5 DEF AcceptJoin, CompareHeads
    <2>2. \A m \in Node : ~Coming(m)
      BY <2>1, ComingFrom
    <2> QED BY <1>1, <1>2, <2>1, <2>2, RememberedStep
  <1> QED BY <1>3, <1>4, <1>5 DEF Membership

LEMMA RememberedNext ==
    ASSUME TypeOK, TypeOK', LinkInv, Alone, Alone', Shape, Branch, Remembered, [Next]_vars,
           "crash" \notin Faults \/ Snapshots = {}
    PROVE  Remembered'
  <1>1. CASE \/ \E r \in Remote : RemoteCommit(r)
             \/ \E Q \in SUBSET Local : FlushBlocks(Q)
             \/ Rest \/ UNCHANGED vars
    <2>1. /\ UNCHANGED <<heads, wpc, kind, inbound, dl, status>> /\ lost \subseteq lost'
      BY <1>1 DEF RemoteCommit, FlushBlocks, Rest, vars, works, index
    <2>2. \A n \in Node : Kept(n) => Kept(n)'
      BY <2>1, SameHeads, StillKept
    <2>3. \A n \in Node : Coming(n) => Coming(n)'
      <3>1. CASE UNCHANGED ppc
        BY <2>1, <3>1, StillComing
      <3>2. ASSUME NEW Q \in SUBSET Local, FlushBlocks(Q) PROVE \A n \in Node : Coming(n) => Coming(n)'
        <4>1. parents' = parents /\ \A b \in Local : ppc[b] = "idle"
          BY <3>2 DEF FlushBlocks, index
        <4> QED BY <2>1, <4>1 DEF Coming
      <3> QED BY <1>1, <3>1, <3>2 DEF RemoteCommit, Rest, vars, posts
    <2> QED BY <2>1, <2>2, <2>3, RememberedStep DEF Indexed
  <1>2. CASE Crash
    <2>1. /\ UNCHANGED <<heads, parents, status>> /\ lost \subseteq lost' /\ \A n \in Node : ~(dl'[n] > 0)
          /\ \A b \in Local : ppc[b] = "indexed" => b \in lost'
          /\ \A w \in Workers : wpc[w] \in {"indexed", "adding"} => inbound[w] \subseteq lost'
      BY <1>2 DEF Crash, index, Node, TypeOK
    <2>2. \A n \in Node : Kept(n) => Kept(n)'
      BY <2>1, SameHeads, StillKept, <1>2 DEF Next
    <2>3. ASSUME NEW n \in Node, NEW w \in Workers, kind[w] = "snapshot",
                 wpc[w] \in {"tail", "follow", "merge"}, n \in Span(parents, inbound[w])
          PROVE  Kept(n)'
      <3>1. inbound[w] \subseteq heads
        BY <1>2, <2>3 DEF Crash, Shape, Held
      <3>2. inbound[w] \subseteq Span(parents, heads)
        BY <3>1, SpanClosed DEF TypeOK
      <3> QED BY <2>1, <2>3, <3>2, SpanMore DEF TypeOK, Kept
    <2>4. \A n \in Node : Coming(n) => Kept(n)'
      BY <2>1, <2>3 DEF Coming, Kept
    <2> QED BY <2>1, <2>2, <2>4, RememberedStep DEF Indexed
  <1>3. CASE Next
    BY <1>1, <1>2, <1>3, RememberedPost, RememberedDownloads, RememberedInbound, RememberedTail,
       RememberedMembership DEF Next
  <1> QED BY <1>1, <1>3

\* The inductive invariant of a node that does one thing at a time.
SerialInv == TypeOK /\ LinkInv /\ Alone /\ Shape /\ Branch /\ Remembered

LEMMA SerialInit == Init => SerialInv
  <1> SUFFICES ASSUME Init PROVE SerialInv
    OBVIOUS
  <1>1. TypeOK /\ LinkInv
    BY SyncInit DEF SyncInv
  <1>2. Alone /\ Shape
    BY ThreadSyncAssumption DEF Init, Alone, Shape, Wrapped, Fresh, Roles, Held, Indexed, Node, EntryKinds
  <1>3. Branch
    BY DEF Init, Branch
  <1>4. Remembered
    BY DEF Init, Remembered, Indexed
  <1> QED BY <1>1, <1>2, <1>3, <1>4 DEF SerialInv

LEMMA SerialNext ==
    ASSUME "crash" \notin Faults \/ Snapshots = {}, SerialInv, [Next]_vars, [Serial]_vars
    PROVE  SerialInv'
  <1>1. TypeOK' /\ LinkInv'
    BY TypeNext, LinkNext DEF SerialInv
  <1>2. Alone'
    BY SerialAlone DEF SerialInv, Alone, vars, works, posts
  <1> QED BY <1>1, <1>2, ShapeNext, BranchNext, RememberedNext DEF SerialInv

\* As long as nothing interrupts a snapshot that is being followed, a node that does
\* one thing at a time forgets nothing: whatever else fails, every block it has
\* handled stays reachable from its heads, so the merge of handleHead, the heads
\* commitNode links to and the heads an invite or a snapshot starts from add up.  What
\* the concurrent node may lose (see NothingForgotten) is due to interleaving alone.
THEOREM NothingIsForgotten ==
    ASSUME "crash" \notin Faults \/ Snapshots = {}
    PROVE  Spec /\ [][Serial]_vars => []NothingForgotten
  <1>1. SerialInv /\ [Next]_vars /\ [Serial]_vars => SerialInv'
    BY SerialNext
  <1>2. SerialInv => NothingForgotten
    BY ReachIsSpan DEF SerialInv, Remembered, NothingForgotten, Settled, Kept, Coming, Indexed, Roles, Shape
  <1> QED BY <1>1, <1>2, SerialInit, PTL DEF Spec
-----------------------------------------------------------------------------
(* One operation at a time: no head is behind another. *)

NoLoops(q) == \A m, n \in Node : m \in Span(q, {n}) /\ n \in Span(q, {m}) => m = n

Apart(q, H) == \A h, g \in H : h \in Span(q, {g}) => h = g

\* Links given to a block that nothing links to change no other block's history.
LEMMA SpanBelow ==
    ASSUME NEW q \in [Node -> SUBSET Node], NEW r \in [Node -> SUBSET Node], NEW x \in Node,
           \A n \in Node \ {x} : r[n] = q[n] /\ x \notin q[n], x \notin q[x], x \notin r[x],
           NEW H \in SUBSET Node, x \notin H
    PROVE  Span(r, H) = Span(q, H) /\ x \notin Span(q, H)
  <1>1. \A c \in Node \ {x} : q[c] \subseteq Node \ {x} /\ r[c] \subseteq Node \ {x}
    OBVIOUS
  <1>2. Span(q, H) \subseteq Node \ {x} /\ Span(r, H) \subseteq Node \ {x}
    BY <1>1, SpanLeast, H \subseteq Node \ {x}
  <1>3. /\ H \subseteq Span(q, H) /\ \A c \in Span(q, H) : q[c] \subseteq Span(q, H)
        /\ H \subseteq Span(r, H) /\ \A c \in Span(r, H) : r[c] \subseteq Span(r, H)
    BY SpanClosed
  <1>4. /\ \A c \in Span(q, H) : r[c] \subseteq Span(q, H)
        /\ \A c \in Span(r, H) : q[c] \subseteq Span(r, H)
    BY <1>2, <1>3
  <1>5. Span(q, H) \in SUBSET Node /\ Span(r, H) \in SUBSET Node
    BY <1>2
  <1>6. Span(r, H) \subseteq Span(q, H)
    BY <1>3, <1>4, <1>5, SpanLeast
  <1>7. Span(q, H) \subseteq Span(r, H)
    BY <1>3, <1>4, <1>5, SpanLeast
  <1> QED BY <1>2, <1>6, <1>7

\* A block gets its links when nothing can link to it yet.
LEMMA LinkedLate ==
    ASSUME TypeOK, TypeOK', LinkInv, Shape, [Next]_vars, parents' # parents
    PROVE  \E x \in Node : /\ ~Linked({x}) /\ x \notin parents'[x]
                           /\ \A n \in Node \ {x} : parents'[n] = parents[n]
  <1>1. ASSUME NEW r \in Remote, RemoteCommit(r)
        PROVE  /\ r \in Node /\ ~Linked({r}) /\ r \notin parents'[r]
               /\ \A n \in Node \ {r} : parents'[n] = parents[n]
    BY <1>1 DEF RemoteCommit, Linked, TypeOK, Node
  <1>2. ASSUME NEW b \in Local, PostIndex(b)
        PROVE  /\ b \in Node /\ ~Linked({b}) /\ b \notin parents'[b]
               /\ \A n \in Node \ {b} : parents'[n] = parents[n]
    <2>1. status[b] = "queued" /\ parents' = [parents EXCEPT ![b] = psnap[b]]
      BY <1>2 DEF PostIndex, Shape, Wrapped
    <2>2. b \in Node /\ ~Linked({b}) /\ b \notin psnap[b]
      BY <2>1 DEF Linked, LinkInv, Node
    <2> QED BY <2>1, <2>2 DEF TypeOK
  <1> QED BY <1>1, <1>2, LinkSteps

\* So the history behind blocks that can be linked never changes.
LEMMA SpansStay ==
    ASSUME TypeOK, TypeOK', LinkInv, Shape, [Next]_vars
    PROVE  /\ \A H \in SUBSET Node : Linked(H) => Span(parents', H) = Span(parents, H)
           /\ \A n \in Node : Linked({n}) => parents'[n] = parents[n]
           /\ NoLoops(parents) => NoLoops(parents')
  <1>1. CASE parents' = parents
    BY <1>1
  <1>2. CASE parents' # parents
    <2>1. PICK x \in Node : /\ ~Linked({x}) /\ x \notin parents'[x]
                            /\ \A n \in Node \ {x} : parents'[n] = parents[n]
      BY <1>2, LinkedLate
    <2>2. \A n \in Node : x \notin parents[n]
      BY <2>1 DEF LinkInv, Linked
    <2>3. parents \in [Node -> SUBSET Node] /\ parents' \in [Node -> SUBSET Node]
      BY DEF TypeOK
    <2>4. ASSUME NEW H \in SUBSET Node, x \notin H
          PROVE  Span(parents', H) = Span(parents, H) /\ x \notin Span(parents, H)
      BY <2>1, <2>2, <2>3, <2>4, SpanBelow
    <2>5. \A H \in SUBSET Node : Linked(H) => x \notin H
      BY <2>1 DEF Linked
    <2>6. ASSUME NoLoops(parents), NEW m \in Node, NEW n \in Node,
                 m \in Span(parents', {n}), n \in Span(parents', {m})
          PROVE  m = n
      <3>1. n # x => m # x /\ m \in Span(parents, {n})
        BY <2>4, <2>6
      <3>2. m # x => n # x /\ n \in Span(parents, {m})
        BY <2>4, <2>6
      <3> QED BY <2>6, <3>1, <3>2 DEF NoLoops
    <2> QED BY <2>1, <2>4, <2>5, <2>6 DEF NoLoops
  <1> QED BY <1>1, <1>2

\* What is behind a set is behind one of its members.
LEMMA SpanOfOne ==
    ASSUME NEW q \in [Node -> SUBSET Node], NEW H \in SUBSET Node, NEW n \in Span(q, H)
    PROVE  \E h \in H : n \in Span(q, {h})
  <1> DEFINE C == {m \in Node : \E h \in H : m \in Span(q, {h})}
  <1>1. \A h \in H : h \in Span(q, {h}) /\ \A c \in Span(q, {h}) : q[c] \subseteq Span(q, {h})
    BY SpanClosed
  <1>2. H \subseteq C /\ C \in SUBSET Node
    BY <1>1
  <1>3. \A c \in C : q[c] \subseteq C
    BY <1>1
  <1>4. n \in C
    <2> HIDE DEF C
    <2> QED BY <1>2, <1>3, SpanLeast
  <1> QED BY <1>4

LEMMA SpanTrans ==
    ASSUME NEW q \in [Node -> SUBSET Node], NEW H \in SUBSET Node, NEW n \in Span(q, H)
    PROVE  Span(q, {n}) \subseteq Span(q, H)
  <1>1. /\ Span(q, H) \in SUBSET Node /\ {n} \subseteq Span(q, H)
        /\ \A c \in Span(q, H) : q[c] \subseteq Span(q, H)
    BY SpanClosed
  <1> QED BY <1>1, SpanLeast

Merging == {"indexed", "adding", "tail", "follow", "merge"}

\* A thread created here, as long as no failure hits and no snapshot of it arrives:
\* nothing is let go, only messages are handled, and the parents of an indexed block
\* are indexed or about to be.
Created ==
    /\ lost = {}
    /\ \A w \in Workers :
          /\ kind[w] = "inbound" /\ wpc[w] \notin {"accept", "accepted", "restore", "compare"}
          /\ wpc[w] # "idle" => \E n \in Node : inbound[w] = {n}
          /\ wpc[w] \in Merging => \A n \in inbound[w] : Indexed(n)
    /\ \A n \in Node : dl[n] > 0 => Indexed(n)
    /\ \A b \in Local : ppc[b] = "indexed" => Indexed(b)
    /\ \A h \in heads : Indexed(h)
    /\ \A m \in Node : Indexed(m) => \A p \in parents[m] : Indexed(p) \/ p \in ToFollow

LEMMA CreatedPost ==
    ASSUME TypeOK, TypeOK', LinkInv, Alone, Shape, Created, Faults \subseteq {"reject"},
           NEW b \in Local, AddBlock(b) \/ Post(b)
    PROVE  Created'
  <1> USE DEF TypeOK, Indexed, index, posts, works
  <1>0. b \in Node
    BY DEF Node
  <1>1. ASSUME UNCHANGED <<works, parents, lost, dl>>, \A n \in Node : Indexed(n) => Indexed(n)',
               \A n \in Node : Indexed(n)' => Indexed(n),
               \A h \in heads' : Indexed(h)', \A a \in Local : ppc'[a] = "indexed" => Indexed(a)'
        PROVE  Created'
    BY <1>1 DEF Created, ToFollow
  <1>2. CASE AddBlock(b)
    BY <1>1, <1>2 DEF AddBlock, Created, Node
  <1>3. CASE PostRead(b)
    BY <1>1, <1>3 DEF PostRead, Created
  <1>4. CASE PostIndex(b)
    <2>1. /\ status' = [status EXCEPT ![b] = "ready"] /\ parents' = [parents EXCEPT ![b] = heads]
          /\ UNCHANGED <<works, heads, lost, dl>>
          /\ \A a \in Local : ppc'[a] = "indexed" => ppc[a] = "indexed" \/ a = b
      BY <1>4 DEF PostIndex, Shape, Held
    <2>2. \A n \in Node : Indexed(n)' <=> Indexed(n) \/ n = b
      BY <1>0, <2>1
    <2>3. \A n \in Node : Indexed(n)' => \A p \in parents'[n] : Indexed(p)' \/ p \in ToFollow
      BY <1>0, <2>1, <2>2 DEF Created
    <2> QED BY <2>1, <2>2, <2>3 DEF Created, ToFollow
  <1>5. CASE PostHead(b)
    BY <1>1, <1>5 DEF PostHead, Created, Node
  <1>6. CASE PostSend(b)
    BY <1>1, <1>6 DEF PostSend, Created, Node, LinkInv, Linked
  <1> QED BY <1>2, <1>3, <1>4, <1>5, <1>6 DEF Post, PostError

LEMMA CreatedDownloads ==
    ASSUME TypeOK, TypeOK', Created, Faults \subseteq {"reject"}, NEW n \in Node, Downloads(n)
    PROVE  Created'
  <1> USE ThreadSyncAssumption DEF TypeOK, Indexed
  <1>1. CASE DownloadStart(n)
    BY <1>1 DEF DownloadStart, Created, ToFollow, index, posts, works
  <1>2. CASE DownloadDone(n)
    <2>1. /\ \A m \in Node : Indexed(m)' <=> Indexed(m)
          /\ \A m \in Node : dl'[m] > 0 => dl[m] > 0
      BY <1>2 DEF DownloadDone, Created
    <2>2. UNCHANGED <<heads, parents, posts, works, lost>>
      BY <1>2 DEF DownloadDone
    <2> HIDE DEF Indexed
    <2> QED BY <2>1, <2>2 DEF Created, ToFollow, posts, works, Node
  <1> QED BY <1>1, <1>2 DEF Downloads, DownloadFail

LEMMA CreatedInbound ==
    ASSUME TypeOK, TypeOK', LinkInv, Shape, Created, Faults \subseteq {"reject"},
           NEW w \in Workers, Inbound(w)
    PROVE  Created'
  <1> USE DEF TypeOK, Goto, index, posts, Merging
  <1>1. ASSUME UNCHANGED <<status, parents, lost, dl, ppc, frontier>>,
               kind'[w] = "inbound", wpc'[w] \notin {"accept", "accepted", "restore", "compare"},
               wpc'[w] # "idle" => \E n \in Node : inbound'[w] = {n},
               wpc'[w] \in Merging => \A n \in inbound'[w] : Indexed(n),
               \A v \in Workers \ {w} : wpc'[v] = wpc[v] /\ kind'[v] = kind[v] /\ inbound'[v] = inbound[v],
               \A h \in heads' : Indexed(h)
        PROVE  Created'
    BY <1>1 DEF Created, ToFollow, Indexed
  <1>2. ASSUME NEW n \in Node, HandleCheck(w, n) PROVE Created'
    BY <1>1, <1>2 DEF HandleCheck, Created
  <1>3. CASE HandleIndex(w)
    <2>1. PICK n \in Node : /\ inbound[w] = {n} /\ status' = [status EXCEPT ![n] = "ready"]
                            /\ frontier' = [frontier EXCEPT ![w] = parents[n]]
      BY <1>3 DEF HandleIndex
    <2>2. /\ \A m \in Node : Indexed(m)' <=> Indexed(m) \/ m = n
          /\ wpc[w] = "checked" /\ frontier[w] = {} /\ ToFollow' = ToFollow \cup parents[n]
      BY <1>3, <2>1 DEF HandleIndex, Indexed, ToFollow, LinkInv
    <2>3. UNCHANGED <<heads, parents, posts, lost, dl, kind, inbound>> /\ wpc' = [wpc EXCEPT ![w] = "indexed"]
      BY <1>3 DEF HandleIndex
    <2> QED BY <2>1, <2>2, <2>3 DEF Created, Node
  <1>4. CASE HandleConflict(w) \/ HandleReject(w)
    <2>1. wpc[w] = "checked" /\ frontier[w] = {}
      BY <1>4 DEF HandleConflict, HandleReject, LinkInv
    <2>2. frontier' = [frontier EXCEPT ![w] = {}]
      BY <1>4 DEF HandleConflict, HandleReject, Return
    <2>3. frontier' = frontier
      BY <2>1, <2>2
    <2> QED BY <1>1, <1>4, <2>1, <2>3 DEF HandleConflict, HandleReject, Return, Created
  <1>5. CASE AddHeadRead(w)
    BY <1>1, <1>5 DEF AddHeadRead, Created
  <1>6. CASE AddHeadWrite(w)
    BY <1>1, <1>6 DEF AddHeadWrite, Created, Shape, Held
  <1> QED BY <1>2, <1>3, <1>4, <1>5, <1>6 DEF Inbound, HandleAbort

LEMMA CreatedTail ==
    ASSUME TypeOK, TypeOK', LinkInv, Shape, Created, Faults \subseteq {"reject"},
           NEW w \in Workers, BackgroundTail(w)
    PROVE  Created'
  <1> USE DEF TypeOK, Goto, index, posts, Merging
  <1>1. ASSUME UNCHANGED <<status, parents, lost, dl, ppc, frontier>>,
               kind'[w] = "inbound", wpc'[w] \notin {"accept", "accepted", "restore", "compare"},
               wpc'[w] # "idle" => \E n \in Node : inbound'[w] = {n},
               wpc'[w] \in Merging => \A n \in inbound'[w] : Indexed(n),
               \A v \in Workers \ {w} : wpc'[v] = wpc[v] /\ kind'[v] = kind[v] /\ inbound'[v] = inbound[v],
               \A h \in heads' : Indexed(h)
        PROVE  Created'
    BY <1>1 DEF Created, ToFollow, Indexed
  <1>2. CASE TailStart(w)
    BY <1>1, <1>2 DEF TailStart, Created
  <1>3. ASSUME NEW p \in Node, FollowNew(w, p) PROVE Created'
    <2>1. /\ \A m \in Node : Indexed(m)' <=> Indexed(m) \/ m = p
          /\ ToFollow' \cup {p} = ToFollow \cup parents[p] \cup {p}
      BY <1>3 DEF FollowNew, Indexed, ToFollow
    <2>2. UNCHANGED <<heads, parents, posts, lost, dl, kind, inbound, wpc>>
      BY <1>3 DEF FollowNew
    <2> QED BY <2>1, <2>2 DEF Created, Node
  <1>4. ASSUME NEW p \in Node, FollowExisting(w, p) PROVE Created'
    <2>1. Indexed(p) /\ ToFollow' \cup {p} = ToFollow \cup {p}
      BY <1>4 DEF FollowExisting, Indexed, HasRow, ToFollow, LinkInv, Linked, Node
    <2>2. UNCHANGED <<status, heads, parents, posts, lost, dl, kind, inbound, wpc>>
      BY <1>4 DEF FollowExisting
    <2> QED BY <2>1, <2>2 DEF Created, Node, Indexed
  <1>5. CASE HandleHeadRead(w)
    BY <1>1, <1>5 DEF HandleHeadRead, Created
  <1>6. CASE HandleHeadWrite(w)
    BY <1>1, <1>6 DEF HandleHeadWrite, Created, Shape, Held
  <1>7. CASE SendWelcome(w)
    <2>1. wpc[w] = "welcome" /\ frontier[w] = {}
      BY <1>7 DEF SendWelcome, LinkInv
    <2>2. frontier' = [frontier EXCEPT ![w] = {}]
      BY <1>7 DEF SendWelcome, Return
    <2>3. frontier' = frontier
      BY <2>1, <2>2
    <2> QED BY <1>1, <1>7, <2>3 DEF SendWelcome, Return, Created
  <1> QED BY <1>2, <1>3, <1>4, <1>5, <1>6, <1>7 DEF BackgroundTail, FollowFail

LEMMA CreatedNext ==
    ASSUME TypeOK, TypeOK', LinkInv, Alone, Shape, Created, [Next]_vars,
           Faults \subseteq {"reject"}, "create" \notin Snapshots,
           loaded = "create", loaded' = "create"
    PROVE  Created'
  <1>1. ASSUME NEW r \in Remote, RemoteCommit(r) PROVE Created'
    <2>1. UNCHANGED <<loaded, status, heads, posts, dl, works, lost>>
      BY <1>1 DEF RemoteCommit
    <2>2. \A m \in Node : Indexed(m) => parents'[m] = parents[m]
      BY <1>1 DEF RemoteCommit, LinkInv, Linked, TypeOK
    <2> QED BY <2>1, <2>2 DEF Created, Indexed, ToFollow, posts, works
  <1>2. ASSUME NEW Q \in SUBSET Local, FlushBlocks(Q) PROVE Created'
    BY <1>2 DEF FlushBlocks, Created, Indexed, ToFollow, index, works
  <1>3. CASE UNCHANGED vars
    BY <1>3 DEF vars, Created, Indexed, ToFollow, index, works, posts
  <1>4. ~Crash
    BY DEF Crash
  <1>5. ASSUME NEW w \in Workers PROVE ~Membership(w)
    BY DEF Membership, AcceptInvite, RestoreThread, UpdateThread, AcceptHead, AcceptJoin,
       RestoreHead, CompareHeads, Created
  <1> QED BY <1>1, <1>2, <1>3, <1>4, <1>5, CreatedPost, CreatedDownloads, CreatedInbound,
          CreatedTail DEF Next, Rest

\* The blocks behind the heads that a worker found.
Behind(w) == Span(parents, heads \ inbound[w])

\* While a worker brings a block in, the block is behind none of those heads, and
\* where its history meets theirs, the worker has a leaf or is about to have one.
Meeting(w) ==
    /\ Apart(parents, heads \ inbound[w])
    /\ \A n \in inbound[w] : n \notin Behind(w)
    /\ \A n \in Behind(w) : Indexed(n)
    /\ \A m \in Node \ Behind(w) :
          Indexed(m) => parents[m] \cap Behind(w) \subseteq frontier[w] \cup leaves[w]

Tidy ==
    /\ (\A w \in Workers : wpc[w] \notin {"tail", "follow", "merge"}) => Apart(parents, heads)
    /\ \A w \in Workers : wpc[w] \in Merging => Meeting(w)

\* The merge of handleHead: heads that are apart, without those a new block's
\* history leads to, are apart from the new block too.
LEMMA MergeApart ==
    ASSUME NEW q \in [Node -> SUBSET Node], NoLoops(q), NEW B \in SUBSET Node, Apart(q, B),
           NEW I \in SUBSET Node, NEW n \in I, n \notin Span(q, B), NEW L \in SUBSET Node,
           \A m \in I \ Span(q, B) : q[m] \subseteq I /\ q[m] \cap Span(q, B) \subseteq L
    PROVE  Apart(q, {n} \cup (B \ L))
  <1> DEFINE M == L \cap Span(q, B)
             D == (I \ Span(q, B)) \cup Span(q, M)
  <1>1. /\ Span(q, B) \in SUBSET Node /\ B \subseteq Span(q, B)
        /\ \A c \in Span(q, B) : q[c] \subseteq Span(q, B)
    BY SpanClosed
  <1>2. /\ Span(q, M) \in SUBSET Node /\ M \subseteq Span(q, M)
        /\ \A c \in Span(q, M) : q[c] \subseteq Span(q, M)
    BY <1>1, SpanClosed
  <1>3. Span(q, {n}) \subseteq D
    <2>1. D \in SUBSET Node /\ {n} \subseteq D
      BY <1>1, <1>2
    <2>2. \A c \in D : q[c] \subseteq D
      BY <1>1, <1>2
    <2> HIDE DEF D
    <2> QED BY <2>1, <2>2, SpanLeast
  <1>4. ASSUME NEW h \in B \ L, h \in Span(q, {n}) PROVE FALSE
    <2>1. h \in Span(q, M)
      BY <1>1, <1>3, <1>4
    <2>2. PICK l \in M : h \in Span(q, {l})
      BY <1>1, <2>1, SpanOfOne
    <2>3. PICK b \in B : l \in Span(q, {b})
      BY <2>2, SpanOfOne
    <2>4. h \in Span(q, {b})
      BY <2>2, <2>3, SpanTrans
    <2>5. h = b
      BY <1>4, <2>4 DEF Apart
    <2>6. l = h
      BY <1>1, <2>2, <2>3, <2>5 DEF NoLoops
    <2> QED BY <1>4, <2>2, <2>6
  <1>5. ASSUME NEW g \in B PROVE n \notin Span(q, {g})
    BY <1>1, SpanTrans
  <1> QED BY <1>4, <1>5 DEF Apart

\* What a step must show: heads found apart stay apart, and the one worker that is
\* under way keeps its account of where the histories meet.
LEMMA TidyByWorker ==
    ASSUME Alone, Alone', NEW w \in Workers, wpc[w] # "idle" \/ wpc'[w] # "idle",
           \A v \in Workers \ {w} : wpc'[v] = wpc[v],
           wpc'[w] \notin {"tail", "follow", "merge"} => Apart(parents', heads'),
           wpc'[w] \in Merging => Meeting(w)'
    PROVE  Tidy'
  <1>1. \A v \in Workers \ {w} : wpc'[v] = "idle"
    BY DEF Alone
  <1> QED BY <1>1 DEF Tidy, Merging

\* A step that leaves the heads, the workers and the set of indexed blocks alone.
LEMMA TidyStays ==
    ASSUME TypeOK, TypeOK', LinkInv, Shape, [Next]_vars, Tidy, heads' = heads, UNCHANGED works,
           \A n \in Node : Indexed(n)' <=> Indexed(n)
    PROVE  Tidy'
  <1>1. /\ \A H \in SUBSET Node : Linked(H) => Span(parents', H) = Span(parents, H)
        /\ \A n \in Node : Linked({n}) => parents'[n] = parents[n]
    BY SpansStay
  <1>2. ASSUME NEW H \in SUBSET Node, H \subseteq heads
        PROVE  /\ Span(parents', H) = Span(parents, H)
               /\ Apart(parents', H) <=> Apart(parents, H)
    <2>1. Linked(H) /\ \A g \in H : Linked({g}) /\ {g} \in SUBSET Node
      BY <1>2 DEF LinkInv, Linked
    <2> QED BY <1>1, <2>1 DEF Apart
  <1>3. ASSUME NEW w \in Workers
        PROVE  Meeting(w)' <=> Meeting(w)
    <2>1. heads \ inbound[w] \in SUBSET Node /\ heads' \ inbound'[w] = heads \ inbound[w]
      BY DEF TypeOK, works
    <2>2. /\ Behind(w)' = Behind(w)
          /\ Apart(parents', heads' \ inbound'[w]) <=> Apart(parents, heads \ inbound[w])
      BY <1>2, <2>1 DEF Behind
    <2>3. \A m \in Node : Indexed(m) => parents'[m] = parents[m]
      BY <1>1 DEF LinkInv
    <2>4. UNCHANGED <<inbound, frontier, leaves>> /\ Behind(w) \subseteq Node
      BY DEF works, Behind, Span
    <2>5. (\A n \in Behind(w)' : Indexed(n)') <=> (\A n \in Behind(w) : Indexed(n))
      BY <2>2, <2>4
    <2>6. (\A m \in Node \ Behind(w)' : Indexed(m)' =>
              parents'[m] \cap Behind(w)' \subseteq frontier'[w] \cup leaves'[w])
          <=> (\A m \in Node \ Behind(w) : Indexed(m) =>
              parents[m] \cap Behind(w) \subseteq frontier[w] \cup leaves[w])
      BY <2>2, <2>3, <2>4
    <2> QED BY <2>2, <2>4, <2>5, <2>6 DEF Meeting
  <1> QED BY <1>2, <1>3 DEF Tidy, works, TypeOK

LEMMA TidyPost ==
    ASSUME TypeOK, TypeOK', LinkInv, Alone, Shape, Tidy, Next, Faults \subseteq {"reject"},
           NEW b \in Local, AddBlock(b) \/ Post(b)
    PROVE  Tidy'
  <1>1. UNCHANGED works
    BY DEF AddBlock, Post, PostRead, PostIndex, PostHead, PostSend, PostError
  <1>2. CASE AddBlock(b) \/ PostRead(b) \/ PostSend(b)
    <2>1. heads' = heads
      BY <1>2 DEF AddBlock, PostRead, PostSend, index
    <2>2. \A n \in Node : Indexed(n)' <=> Indexed(n)
      BY <1>2 DEF AddBlock, PostRead, PostSend, index, Indexed, LinkInv, Linked, TypeOK, Node
    <2> QED BY <1>1, <2>1, <2>2, TidyStays
  <1>3. ASSUME ppc[b] # "idle", Apart(parents', heads') PROVE Tidy'
    BY <1>1, <1>3 DEF Tidy, Alone, works, Merging
  <1>4. CASE PostIndex(b)
    <2>1. heads' = heads /\ ppc[b] # "idle"
      BY <1>4 DEF PostIndex
    <2>2. Apart(parents, heads)
      BY <2>1 DEF Tidy, Alone
    <2>3. ASSUME NEW h \in heads, NEW g \in heads, h \in Span(parents', {g}) PROVE h = g
      <3>1. Linked({g}) /\ {g} \in SUBSET Node
        BY DEF LinkInv, Linked, TypeOK
      <3> QED BY <2>2, <2>3, <3>1, SpansStay DEF Apart
    <2> QED BY <1>3, <2>1, <2>3 DEF Apart
  <1>5. CASE PostHead(b)
    BY <1>3, <1>5 DEF PostHead, Apart
  <1> QED BY <1>2, <1>4, <1>5 DEF Post, PostError

\* With nothing left to follow, whatever is behind the heads is indexed.
LEMMA HistoryIndexed ==
    ASSUME TypeOK, Created, ToFollow = {}
    PROVE  \A n \in Span(parents, heads) : Indexed(n)
  <1> DEFINE I == {n \in Node : Indexed(n)}
  <1>1. heads \subseteq I /\ (\A c \in I : parents[c] \subseteq I) /\ I \in SUBSET Node
    BY DEF Created, TypeOK
  <1>2. Span(parents, heads) \subseteq I
    <2> HIDE DEF I
    <2> QED BY <1>1, SpanLeast
  <1> QED BY <1>2

LEMMA TidyInbound ==
    ASSUME TypeOK, TypeOK', LinkInv, Alone, Alone', Shape, Remembered, Created, Tidy,
           Faults \subseteq {"reject"}, NEW w \in Workers, Inbound(w)
    PROVE  Tidy'
  <1>1. /\ parents' = parents /\ wpc[w] \notin {"tail", "follow", "merge"}
        /\ \A v \in Workers \ {w} : wpc'[v] = wpc[v]
        /\ wpc[w] # "idle" \/ wpc'[w] # "idle"
    BY DEF Inbound, HandleCheck, HandleIndex, HandleConflict, HandleReject, AddHeadRead,
       AddHeadWrite, HandleAbort, Return, Goto, index, TypeOK
  <1>2. \A v \in Workers \ {w} : wpc[v] = "idle"
    BY <1>1 DEF Alone
  <1>3. Apart(parents, heads)
    BY <1>1, <1>2 DEF Tidy
  <1>4. CASE \/ \E n \in Node : HandleCheck(w, n)
             \/ HandleConflict(w) \/ HandleReject(w)
    <2>1. heads' = heads /\ wpc'[w] \in {"idle", "checked"}
      BY <1>4 DEF HandleCheck, HandleConflict, HandleReject, Return, Goto, index, TypeOK
    <2> QED BY <1>1, <1>3, <2>1, TidyByWorker DEF Merging
  <1>5. CASE HandleIndex(w)
    <2>1. PICK n \in Node : /\ inbound[w] = {n} /\ ~HasRow(n)
                            /\ status' = [status EXCEPT ![n] = "ready"]
                            /\ frontier' = [frontier EXCEPT ![w] = parents[n]]
      BY <1>5 DEF HandleIndex
    <2>2. /\ wpc[w] = "checked" /\ wpc'[w] = "indexed"
          /\ UNCHANGED <<heads, inbound, leaves>> /\ frontier'[w] = parents[n]
      BY <1>5, <2>1 DEF HandleIndex, Goto, TypeOK
    <2>3. ToFollow = {}
      BY <1>2, <2>2 DEF ToFollow, LinkInv
    <2>4. \A m \in Span(parents, heads) : Indexed(m)
      BY <2>3, HistoryIndexed
    <2>5. n \notin Span(parents, heads) /\ n \notin heads
      BY <2>1, <2>4 DEF Indexed, HasRow, Created
    <2>6. \A m \in Node : Indexed(m) => m \in Span(parents, heads)
      BY <2>2, ComingFrom DEF Remembered, Kept, Created
    <2>7. \A m \in Node : Indexed(m)' <=> Indexed(m) \/ m = n
      BY <2>1 DEF Indexed, TypeOK
    <2>8. heads \ inbound[w] = heads /\ heads' \ inbound'[w] = heads
      BY <2>1, <2>2, <2>5
    <2>9. Behind(w)' = Span(parents, heads)
      BY <1>1, <2>8 DEF Behind
    <2>10. Meeting(w)'
      <3>1. Apart(parents', heads' \ inbound'[w]) /\ \A k \in inbound'[w] : k \notin Behind(w)'
        BY <1>1, <1>3, <2>1, <2>2, <2>5, <2>8, <2>9
      <3>2. Span(parents, heads) \subseteq Node
        BY SpanClosed DEF TypeOK
      <3>3. \A k \in Behind(w)' : Indexed(k)'
        BY <2>4, <2>7, <2>9, <3>2
      <3>4. \A m \in Node \ Behind(w)' : Indexed(m)' => parents'[m] \subseteq frontier'[w]
        BY <1>1, <2>2, <2>6, <2>7, <2>9
      <3> QED BY <3>1, <3>3, <3>4 DEF Meeting
    <2> QED BY <1>1, <1>3, <2>2, <2>10, TidyByWorker
  <1>6. CASE AddHeadRead(w) \/ AddHeadWrite(w)
    <2>1. /\ wpc[w] \in {"indexed", "adding"} /\ wpc'[w] \in {"adding", "tail"}
          /\ UNCHANGED <<status, inbound, frontier, leaves>>
      BY <1>6 DEF AddHeadRead, AddHeadWrite, Goto, index, TypeOK
    <2>2. heads' \ inbound'[w] = heads \ inbound[w] /\ (wpc'[w] = "adding" => heads' = heads)
      BY <1>6, <2>1 DEF AddHeadRead, AddHeadWrite, index, Shape, Held, Goto, TypeOK
    <2>3. Behind(w)' = Behind(w)
      BY <1>1, <2>2 DEF Behind
    <2>4. Meeting(w)'
      <3>1. Meeting(w)
        BY <2>1 DEF Tidy, Merging
      <3>2. \A n : Indexed(n)' <=> Indexed(n)
        BY <2>1 DEF Indexed
      <3> QED BY <1>1, <2>1, <2>2, <2>3, <3>1, <3>2 DEF Meeting
    <2> QED BY <1>1, <1>3, <2>1, <2>2, <2>4, TidyByWorker
  <1> QED BY <1>4, <1>5, <1>6 DEF Inbound, HandleAbort

LEMMA TidyTail ==
    ASSUME TypeOK, TypeOK', LinkInv, Alone, Alone', Shape, Created, Tidy, NoLoops(parents),
           Faults \subseteq {"reject"}, NEW w \in Workers, BackgroundTail(w)
    PROVE  Tidy'
  <1>1. /\ parents' = parents /\ wpc[w] # "idle"
        /\ \A v \in Workers \ {w} : wpc'[v] = wpc[v]
    BY DEF BackgroundTail, TailStart, FollowNew, FollowExisting, FollowFail, HandleHeadRead,
       HandleHeadWrite, SendWelcome, Return, Goto, index, TypeOK
  <1>2. \A v \in Workers \ {w} : wpc[v] = "idle"
    BY <1>1 DEF Alone
  <1>3. CASE TailStart(w) \/ HandleHeadRead(w)
    <2>1. /\ UNCHANGED <<status, heads, inbound, frontier, leaves>>
          /\ wpc[w] \in {"tail", "follow"} /\ wpc'[w] \in {"follow", "merge"}
      BY <1>3 DEF TailStart, HandleHeadRead, Goto, index, TypeOK, Created
    <2>2. Behind(w)' = Behind(w)
      BY <1>1, <2>1 DEF Behind
    <2>3. Meeting(w)'
      BY <1>1, <2>1, <2>2 DEF Tidy, Merging, Meeting, Indexed
    <2> QED BY <1>1, <2>1, <2>3, TidyByWorker
  <1>4. ASSUME NEW p \in Node, FollowNew(w, p) PROVE Tidy'
    <2>1. /\ UNCHANGED <<heads, inbound, leaves, wpc>> /\ wpc[w] = "follow" /\ ~Indexed(p)
          /\ frontier'[w] = (frontier[w] \ {p}) \cup parents[p]
      BY <1>4 DEF FollowNew, HasRow, Indexed, TypeOK
    <2>2. \A m \in Node : Indexed(m)' <=> Indexed(m) \/ m = p
      BY <1>4 DEF FollowNew, Indexed, TypeOK
    <2>3. Behind(w)' = Behind(w)
      BY <1>1, <2>1 DEF Behind
    <2>4. Meeting(w)
      BY <2>1 DEF Tidy, Merging
    <2>5. Meeting(w)'
      <3>1. Behind(w) \subseteq Node
        BY DEF Behind, Span
      <3>2. \A k \in Behind(w)' : Indexed(k)'
        BY <2>2, <2>3, <2>4, <3>1 DEF Meeting
      <3>3. ASSUME NEW m \in Node \ Behind(w)', Indexed(m)'
            PROVE  parents'[m] \cap Behind(w)' \subseteq frontier'[w] \cup leaves'[w]
        <4>1. CASE m = p
          BY <1>1, <2>1, <4>1
        <4>2. CASE m # p
          <5>1. Indexed(m) /\ m \in Node \ Behind(w)
            BY <2>2, <2>3, <3>3, <4>2
          <5>2. parents[m] \cap Behind(w) \subseteq (frontier[w] \ {p}) \cup leaves[w]
            BY <2>1, <2>4, <5>1 DEF Meeting
          <5> QED BY <1>1, <2>1, <2>3, <5>2
        <4> QED BY <4>1, <4>2
      <3> QED BY <1>1, <2>1, <2>3, <2>4, <3>2, <3>3 DEF Meeting
    <2> QED BY <1>1, <2>1, <2>5, TidyByWorker
  <1>5. ASSUME NEW p \in Node, FollowExisting(w, p) PROVE Tidy'
    <2>1. /\ UNCHANGED <<status, heads, inbound, wpc>> /\ wpc[w] = "follow"
          /\ frontier'[w] \cup leaves'[w] = frontier[w] \cup leaves[w]
      BY <1>5 DEF FollowExisting, index, TypeOK
    <2>2. Behind(w)' = Behind(w)
      BY <1>1, <2>1 DEF Behind
    <2>3. Meeting(w)'
      BY <1>1, <2>1, <2>2 DEF Tidy, Merging, Meeting, Indexed
    <2> QED BY <1>1, <2>1, <2>3, TidyByWorker
  <1>6. CASE HandleHeadWrite(w)
    <2> DEFINE B == heads \ inbound[w]
               I == {n \in Node : Indexed(n)}
    <2>1. wpc[w] = "merge" /\ frontier[w] = {} /\ snap[w] = heads /\ wpc'[w] = "welcome"
      BY <1>6 DEF HandleHeadWrite, LinkInv, Shape, Held, Goto, TypeOK
    <2>2. PICK n \in Node : inbound[w] = {n}
      BY <2>1 DEF Created
    <2>3. heads' = {n} \cup (B \ leaves[w])
      BY <1>6, <2>1, <2>2 DEF HandleHeadWrite
    <2>4. ToFollow = {}
      BY <1>2, <2>1 DEF ToFollow, LinkInv
    <2>5. /\ Apart(parents, B) /\ n \notin Span(parents, B) /\ n \in I
          /\ \A m \in I \ Span(parents, B) :
                parents[m] \subseteq I /\ parents[m] \cap Span(parents, B) \subseteq leaves[w]
      <3>1. Meeting(w)
        BY <2>1 DEF Tidy, Merging
      <3>2. \A m \in I : parents[m] \subseteq I
        BY <2>4 DEF Created, TypeOK
      <3>3. n \in I
        BY <2>1, <2>2 DEF Created, Merging
      <3> QED BY <2>1, <2>2, <3>1, <3>2, <3>3 DEF Meeting, Behind
    <2>6. Apart(parents, {n} \cup (B \ leaves[w]))
      <3>1. /\ B \in SUBSET Node /\ I \in SUBSET Node /\ leaves[w] \in SUBSET Node
            /\ parents \in [Node -> SUBSET Node]
        BY DEF TypeOK
      <3> HIDE DEF B, I
      <3> QED BY <2>5, <3>1, MergeApart
    <2> QED BY <1>1, <2>1, <2>3, <2>6, TidyByWorker DEF Merging
  <1>7. CASE SendWelcome(w)
    <2>1. heads' = heads /\ wpc[w] = "welcome" /\ wpc'[w] = "idle"
      BY <1>7 DEF SendWelcome, Return, Goto, index, TypeOK
    <2> QED BY <1>1, <1>2, <2>1, TidyByWorker DEF Tidy, Merging
  <1> QED BY <1>3, <1>4, <1>5, <1>6, <1>7 DEF BackgroundTail, FollowFail

LEMMA TidyNext ==
    ASSUME TypeOK, TypeOK', LinkInv, Alone, Alone', Shape, Remembered, Created, Tidy,
           NoLoops(parents), [Next]_vars, Faults \subseteq {"reject"}, "create" \notin Snapshots,
           loaded = "create", loaded' = "create"
    PROVE  Tidy'
  <1>1. ASSUME NEW n \in Node, Downloads(n) PROVE Tidy'
    <2>1. /\ heads' = heads /\ UNCHANGED works /\ Next
          /\ \A m \in Node : Indexed(m)' <=> Indexed(m)
      <3>1. CASE DownloadStart(n)
        BY <1>1, <3>1 DEF DownloadStart, index, Indexed, Next
      <3>2. CASE DownloadDone(n)
        BY <1>1, <3>2 DEF DownloadDone, Indexed, Created, TypeOK, Next
      <3> QED BY <1>1, <3>1, <3>2 DEF Downloads, DownloadFail
    <2> QED BY <2>1, TidyStays
  <1>2. CASE \/ \E r \in Remote : RemoteCommit(r)
             \/ \E Q \in SUBSET Local : FlushBlocks(Q)
             \/ Rest \/ UNCHANGED vars
    <2>1. heads' = heads /\ status' = status /\ UNCHANGED works
      BY <1>2 DEF RemoteCommit, FlushBlocks, Rest, vars, index
    <2> QED BY <2>1, TidyStays DEF Indexed
  <1>3. ~Crash
    BY DEF Crash
  <1>4. ASSUME NEW w \in Workers PROVE ~Membership(w)
    BY DEF Membership, AcceptInvite, RestoreThread, UpdateThread, AcceptHead, AcceptJoin,
       RestoreHead, CompareHeads, Created
  <1>5. CASE Next
    BY <1>1, <1>2, <1>3, <1>4, <1>5, TidyPost, TidyInbound, TidyTail DEF Next
  <1> QED BY <1>2, <1>5

\* SerialInv, and in a thread created here the two conditions that keep its heads apart.
TidyInv == SerialInv /\ NoLoops(parents) /\ (loaded = "create" => Created /\ Tidy)

LEMMA TidyInit == Init => TidyInv
  <1> SUFFICES ASSUME Init PROVE TidyInv
    OBVIOUS
  <1>1. SerialInv
    BY SerialInit
  <1>2. NoLoops(parents)
    <2>1. \A n \in Node : Span(parents, {n}) \subseteq {n}
      <3>1. \A n \in Node : \A c \in {n} : parents[c] \subseteq {n}
        BY DEF Init
      <3> QED BY <3>1, SpanLeast
    <2> QED BY <2>1 DEF NoLoops
  <1>3. Created /\ Tidy
    BY DEF Init, Created, Tidy, Apart, Merging, Indexed
  <1> QED BY <1>1, <1>2, <1>3 DEF TidyInv

LEMMA CreatedAtFirst == [Next]_vars /\ loaded' = "create" => loaded = "create"
  <1> SUFFICES ASSUME [Next]_vars, loaded # "create" PROVE loaded' # "create"
    OBVIOUS
  <1> USE DEF index
  <1>1. ASSUME NEW b \in Local, AddBlock(b) \/ Post(b) PROVE loaded' = loaded
    BY <1>1 DEF AddBlock, Post, PostRead, PostIndex, PostHead, PostSend, PostError
  <1>2. ASSUME NEW n \in Node, Downloads(n) PROVE loaded' = loaded
    BY <1>2 DEF Downloads, DownloadStart, DownloadDone, DownloadFail
  <1>3. ASSUME NEW w \in Workers, Inbound(w) PROVE loaded' = loaded
    BY <1>3 DEF Inbound, HandleCheck, HandleIndex, HandleConflict, HandleReject, AddHeadRead,
       AddHeadWrite, HandleAbort
  <1>4. ASSUME NEW w \in Workers, BackgroundTail(w) PROVE loaded' = loaded
    BY <1>4 DEF BackgroundTail, TailStart, FollowNew, FollowExisting, FollowFail, HandleHeadRead,
       HandleHeadWrite, SendWelcome
  <1>5. ASSUME NEW w \in Workers, Membership(w) PROVE loaded' # "create"
    BY <1>5 DEF Membership, AcceptInvite, RestoreThread, UpdateThread, AcceptHead, AcceptJoin,
       RestoreHead, CompareHeads
  <1>6. CASE \/ \E r \in Remote : RemoteCommit(r)
             \/ \E Q \in SUBSET Local : FlushBlocks(Q)
             \/ Crash \/ Rest \/ UNCHANGED vars
    BY <1>6 DEF RemoteCommit, FlushBlocks, Crash, Rest, vars
  <1> QED BY <1>1, <1>2, <1>3, <1>4, <1>5, <1>6 DEF Next

\* In a thread created here, on a node that does one thing at a time, without failures
\* other than refused blocks and without account snapshots of that thread, no head is
\* an ancestor of another: the leaves that followParents hands to handleHead are all
\* of the heads an inbound block builds on, in whatever shape and order blocks come.
THEOREM HeadsAlwaysMinimal ==
    ASSUME Faults \subseteq {"reject"}, "create" \notin Snapshots
    PROVE  Spec /\ [][Serial]_vars => []HeadsMinimal
  <1>1. TidyInv /\ [Next]_vars /\ [Serial]_vars => TidyInv'
    <2> SUFFICES ASSUME TidyInv, [Next]_vars, [Serial]_vars PROVE TidyInv'
      OBVIOUS
    <2>1. SerialInv /\ SerialInv'
      BY SerialNext DEF TidyInv
    <2>2. NoLoops(parents')
      BY <2>1, SpansStay DEF TidyInv, SerialInv
    <2>3. ASSUME loaded' = "create" PROVE Created' /\ Tidy'
      <3>1. loaded = "create" /\ Created /\ Tidy
        BY <2>3, CreatedAtFirst DEF TidyInv
      <3> QED BY <2>1, <2>3, <3>1, CreatedNext, TidyNext DEF TidyInv, SerialInv
    <2> QED BY <2>1, <2>2, <2>3 DEF TidyInv
  <1>2. TidyInv => HeadsMinimal
    <2> SUFFICES ASSUME TidyInv, loaded = "create", \A w \in Workers : wpc[w] = "idle",
                        NEW h \in heads, NEW g \in heads \ {h}
                 PROVE  h \notin Reach({g})
      BY DEF HeadsMinimal
    <2>1. Apart(parents, heads) /\ Reach({g}) = Span(parents, {g})
      BY ReachIsSpan DEF TidyInv, Tidy
    <2> QED BY <2>1 DEF Apart
  <1> QED BY <1>1, <1>2, TidyInit, PTL DEF Spec
=============================================================================
