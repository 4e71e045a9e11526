--------------------------- MODULE OutboundProofs ---------------------------
(***************************************************************************)
(* StoredBeforeSent, RequestsKept and MessageKept of Outbound for any set  *)
(* of blocks, cafes and faults, by the invariant OutInv.                   *)
(***************************************************************************)
EXTENDS Outbound, TLAPS

LEMMA OutInit == Init => OutInv
  BY OutboundAssumption DEF Init, OutInv, StoredBeforeSent, RequestsKept, GroupSettled,
     Handed, Settled, HasRow,
      PostPc, BlockStatus, RowStatus, MsgStatus

LEMMA OutAuthor ==
    ASSUME OutInv, NEW b \in Block, CommitBlock(b) \/ IndexBlock(b)
    PROVE  OutInv'
  <1> USE OutboundAssumption DEF OutInv, StoredBeforeSent, RequestsKept, GroupSettled,
    Handed, Settled, HasRow,
              Goto, Batch, table, blocks, sends, outbox, flow, batch, PostPc,
                 BlockStatus, RowStatus, MsgStatus
  <1>1. CASE CommitBlock(b)
    <2>1. /\ block' \in [Block -> BlockStatus] /\ block[b] = "none"
          /\ \A a \in Block : block'[a] = IF a = b THEN "committed" ELSE block[a]
      BY <1>1 DEF CommitBlock
    <2>2. /\ row' \in [Req -> RowStatus]
          /\ \A q \in Req : row'[q] = row[q] \/ (row'[q] = "new" /\ q[1] = "store" /\ q[2] = b)
      BY <1>1 DEF CommitBlock, AddRows
    <2>3. UNCHANGED <<stored, msg, unsent, reached, noInbox, holder, left, done, flush, todo, post, ok>>
      BY <1>1 DEF CommitBlock
    <2>4. \A a \in Block : (a # b /\ GroupSettled(a) => GroupSettled(a)') /\ (Handed(a) => Handed(a)')
      BY <2>2, <2>3 DEF Req
    <2> QED BY <2>1, <2>2, <2>3, <2>4 DEF Req
  <1>2. CASE IndexBlock(b)
    BY <1>2 DEF IndexBlock
  <1> QED BY <1>1, <1>2

LEMMA OutSession ==
    ASSUME OutInv, NEW c \in Cafe,
           \/ RegisterSession(c) \/ RequestContent(c)
           \/ DeregisterRows(c) \/ DeregisterSession(c)
    PROVE  OutInv'
  <1> USE OutboundAssumption DEF OutInv, StoredBeforeSent, RequestsKept, GroupSettled,
    Handed, Settled, HasRow,
              Goto, Batch, table, blocks, sends, outbox, flow, batch, PostPc,
                 BlockStatus, RowStatus, MsgStatus
  <1>1. CASE RegisterSession(c)
    BY <1>1 DEF RegisterSession
  <1>2. CASE RequestContent(c)
    BY <1>2 DEF RequestContent, AddRows, Req
  <1>3. CASE DeregisterRows(c)
    BY <1>3 DEF DeregisterRows, DeleteRows, Req
  <1>4. CASE DeregisterSession(c)
    BY <1>4 DEF DeregisterSession
  <1> QED BY <1>1, <1>2, <1>3, <1>4

LEMMA OutBatch ==
    ASSUME OutInv, NEW r \in Runner, BatchStep(r)
    PROVE  OutInv'
  <1> USE OutboundAssumption DEF OutInv, StoredBeforeSent, RequestsKept, GroupSettled,
    Handed, Settled, HasRow,
              Goto, Batch, table, blocks, sends, outbox, flow, batch, PostPc,
                 BlockStatus, RowStatus, MsgStatus
  <1>1. CASE BatchList(r)
    BY <1>1 DEF BatchList, BatchPage
  <1>2. CASE BatchSend(r)
    BY <1>2 DEF BatchSend
  <1>3. CASE BatchNext(r)
    BY <1>3 DEF BatchNext
  <1>4. CASE BatchFail(r)
    BY <1>4 DEF BatchFail, Req
  <1>5. CASE BatchComplete(r)
    BY <1>5 DEF BatchComplete, BatchPage, Req
  <1> QED BY <1>1, <1>2, <1>3, <1>4, <1>5 DEF BatchStep

LEMMA OutFlush ==
    ASSUME OutInv, FlushStep
    PROVE  OutInv'
  <1> USE OutboundAssumption DEF OutInv, StoredBeforeSent, RequestsKept, GroupSettled,
    Handed, Settled, HasRow,
              Goto, Batch, table, blocks, sends, outbox, flow, batch, PostPc,
                 BlockStatus, RowStatus, MsgStatus
  <1>1. ASSUME NEW s \in BOOLEAN, StartFlush(s) PROVE OutInv'
    BY <1>1 DEF StartFlush, Runner
  <1>2. CASE FlushRequestsDone
    BY <1>2 DEF FlushRequestsDone
  <1>3. CASE FlushBlocksDone
    BY <1>3 DEF FlushBlocksDone
  <1>4. CASE Clean
    <2>1. row' \in [Req -> RowStatus]
      BY <1>4 DEF Clean, DeleteRows
    <2>2. ASSUME NEW q \in Req
          PROVE  row'[q] = row[q] \/ (row[q] = "complete" /\ row'[q] = "cleared")
      BY <1>4 DEF Clean, DeleteRows, SyncGroupComplete, Rows
    <2>3. /\ UNCHANGED <<block, post, stored, msg, unsent, reached, noInbox, ok, done, left, todo, holder>>
          /\ flush = "clean"
      BY <1>4 DEF Clean
    <2> QED BY <2>1, <2>2, <2>3 DEF Req
  <1> QED BY <1>1, <1>2, <1>3, <1>4 DEF FlushStep

LEMMA OutPost ==
    ASSUME OutInv, NEW b \in Block, PostStep(b)
    PROVE  OutInv'
  <1> USE OutboundAssumption DEF OutInv, StoredBeforeSent, RequestsKept, GroupSettled,
    Handed, Settled, HasRow,
              Goto, Batch, table, blocks, sends, outbox, flow, batch, PostPc,
                 BlockStatus, RowStatus, MsgStatus
  <1>1. CASE LookAt(b)
    <2>1. /\ post' \in [Block -> PostPc] /\ todo' \subseteq todo
          /\ UNCHANGED <<block, row, stored, msg, unsent, reached, noInbox, ok, done, left>>
      BY <1>1 DEF LookAt
    <2>2. \A a \in Block : a # b => post'[a] = post[a]
      BY <1>1 DEF LookAt
    <2>3. post'[b] = "idle" \/ (post'[b] = "post" /\ SyncGroupComplete(<<"store", b>>))
      BY <1>1 DEF LookAt
    <2>4. SyncGroupComplete(<<"store", b>>) => GroupSettled(b)
      BY DEF SyncGroupComplete, Rows, Group, Req
    <2>5. flush = "blocks" /\ UNCHANGED <<flush, holder>> /\ b \in todo /\ b \notin todo'
      BY <1>1 DEF LookAt
    <2> QED BY <2>1, <2>2, <2>3, <2>4, <2>5
  <1>2. CASE Post(b)
    <2>1. /\ post' \in [Block -> PostPc] /\ post[b] = "commit"
          /\ \A a \in Block : post'[a] = IF a = b THEN "tidy" ELSE post[a]
          /\ msg' \in [Block -> MsgStatus]
          /\ \A a \in Block : msg'[a] = IF a = b THEN "queued" ELSE msg[a]
      BY <1>2 DEF Post
    <2>2. /\ row' \in [Req -> RowStatus]
          /\ \A q \in Req : row'[q] = row[q] \/ (row'[q] = "new" /\ q[1] = "node")
      BY <1>2 DEF Post, AddRows
    <2>3. UNCHANGED <<block, stored, unsent, reached, noInbox, holder, left, done, flush, todo, ok>>
      BY <1>2 DEF Post
    <2>4. \A a \in Block : (GroupSettled(a) => GroupSettled(a)') /\ (Handed(a) => Handed(a)')
      BY <2>2, <2>3 DEF Req
    <2> QED BY <2>1, <2>2, <2>3, <2>4 DEF Req
  <1>3. CASE PostCommit(b)
    BY <1>3 DEF PostCommit
  <1>4. CASE PostWait(b)
    BY <1>4 DEF PostWait
  <1>5. CASE PostFail(b)
    <2>1. /\ block' \in [Block -> BlockStatus]
          /\ \A a \in Block : block'[a] = block[a] \/ (a = b /\ block'[a] = "dropped")
      BY <1>5 DEF PostFail
    <2>2. /\ post' = [post EXCEPT ![b] = "outbox"] /\ post[b] \in {"post", "commit"}
          /\ UNCHANGED <<stored, msg, reached, noInbox, ok, done, left, todo, flush, holder>>
          /\ unsent \subseteq unsent' /\ (post[b] = "commit" => b \in unsent')
      BY <1>5 DEF PostFail
    <2>3. /\ post' \in [Block -> PostPc]
          /\ \A a \in Block : post'[a] = post[a] \/ (a = b /\ post'[a] = "outbox")
      BY <2>2
    <2>4. /\ row' \in [Req -> RowStatus]
          /\ \A q \in Req : row'[q] = row[q] \/ (q[1] = "node" /\ row'[q] = "new")
      BY <1>5 DEF PostFail, AddRows, Req
    <2>5. \A q \in Req : q[1] # "node" => row'[q] = row[q]
      BY <2>4
    <2>6. \A a \in Block : (GroupSettled(a) => GroupSettled(a)') /\ (Handed(a) => Handed(a)')
      BY <2>2, <2>5 DEF Req
    <2> QED BY <2>1, <2>2, <2>3, <2>4, <2>6 DEF Req
  <1>6. CASE Tidy(b)
    <2>1. /\ post' \in [Block -> PostPc] /\ post[b] = "tidy" /\ block[b] = "ready"
          /\ \A a \in Block : post'[a] = IF a = b THEN "outbox" ELSE post[a]
      BY <1>6 DEF Tidy
    <2>2. /\ row' \in [Req -> RowStatus]
          /\ \A q \in Req : \/ row'[q] = row[q]
                             \/ /\ row'[q] = "cleared" /\ q[1] \in {"store", "sync"}
                                /\ q[2] = b /\ HasRow(q)
      BY <1>6 DEF Tidy, DeleteRows, Rows, Group, Req
    <2>3. UNCHANGED <<block, stored, msg, unsent, reached, noInbox, holder, left, done, flush, todo, ok>>
      BY <1>6 DEF Tidy
    <2>4. \A q \in Req : q[1] = "store" /\ q[2] = b /\ HasRow(q) => q \in stored
      BY <2>1 DEF Req
    <2>5. \A a \in Block : (GroupSettled(a) => GroupSettled(a)') /\ (Handed(a) => Handed(a)')
      BY <2>2, <2>3, <2>4 DEF Req
    <2> QED BY <2>1, <2>2, <2>3, <2>4, <2>5 DEF Req
  <1>7. CASE OutboxStart(b)
    BY <1>7 DEF OutboxStart
  <1>8. CASE OutboxHandle(b)
    <2>1. row' \in [Req -> RowStatus] /\ \A q \in Req : HasRow(q) => row'[q] = row[q]
      BY <1>8 DEF OutboxHandle, AddRows
    <2>2. \A q \in Req : row'[q] = row[q] \/ (q[1] = "inbox" /\ row'[q] = "new")
      BY <1>8 DEF OutboxHandle, AddRows, Req
    <2>3. /\ UNCHANGED <<block, post, stored, msg, unsent, ok, todo, flush, holder>>
          /\ reached \subseteq reached' /\ noInbox \subseteq noInbox'
          /\ left' \subseteq Block /\ done' \subseteq done \cup {b}
      BY <1>8 DEF OutboxHandle
    <2>4. Handed(b)'
      BY <1>8, <2>1 DEF OutboxHandle, AddRows, Req
    <2> QED BY <2>1, <2>2, <2>3, <2>4 DEF Req
  <1>9. CASE OutboxError(b)
    BY <1>9 DEF OutboxError
  <1>10. CASE OutboxEnd(b)
    BY <1>10 DEF OutboxEnd
  <1>11. CASE PostDone(b)
    BY <1>11 DEF PostDone
  <1> QED BY <1>1, <1>2, <1>3, <1>4, <1>5, <1>6, <1>7, <1>8, <1>9, <1>10, <1>11
    DEF PostStep

LEMMA OutNext == OutInv /\ [Next]_vars => OutInv'
  <1> SUFFICES ASSUME OutInv, [Next]_vars PROVE OutInv'
    OBVIOUS
  <1>1. CASE Crash
    BY <1>1, OutboundAssumption DEF Crash, OutInv, StoredBeforeSent, RequestsKept,
       GroupSettled, Handed, Settled, HasRow,
                table, PostPc, BlockStatus
  <1>2. CASE UNCHANGED vars
    BY <1>2 DEF vars, OutInv, StoredBeforeSent, RequestsKept, GroupSettled, Handed,
       Settled, HasRow,
                table, blocks, sends, outbox, flow, batch
  <1>3. CASE Next
    BY <1>1, <1>3, OutAuthor, OutSession, OutBatch, OutFlush, OutPost DEF Next
  <1> QED BY <1>2, <1>3

\* A block leaves for the other members only with its sync group settled, whatever
\* the number of blocks, cafes, attempts and failures: SyncGroupComplete, which takes
\* the absence of rows for completion, never lets a block go before its time.
THEOREM SentIsStored == Spec => []StoredBeforeSent
  <1>1. OutInv => StoredBeforeSent
    BY DEF OutInv
  <1> QED BY <1>1, OutInit, OutNext, PTL DEF Spec

\* A request that a post or a clean-up removed from the table was carried out.
THEOREM NoRequestLost == Spec => []RequestsKept
  <1>1. OutInv => RequestsKept
    BY DEF OutInv
  <1> QED BY <1>1, OutInit, OutNext, PTL DEF Spec

\* A READY block is never silently dropped between commitNode, the block outbox and
\* the inboxes of its recipient: every case in which it is lost is a failure or a
\* crash between the commit and the outbox, or a recipient without an inbox.
THEOREM NoMessageLost == Spec => []MessageKept
  <1>1. OutInv => MessageKept
    BY DEF OutInv, MessageKept, MsgStatus
  <1> QED BY <1>1, OutInit, OutNext, PTL DEF Spec
=============================================================================
