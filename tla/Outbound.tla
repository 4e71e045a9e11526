------------------------------ MODULE Outbound ------------------------------
(***************************************************************************)
(* What leaves a node: the cafe outbox with its request table              *)
(* (core/cafe_outbox.go, repo/db/cafe_requests.go), the request batches of *)
(* CafeService (core/cafe_service.go), Textile.FlushBlocks (core/core.go), *)
(* which holds a block back until its sync group is complete, and the      *)
(* block outbox (core/block_outbox.go), which reaches the recipient        *)
(* directly, by pubsub, or by a request to the recipient's cafe inboxes.   *)
(*                                                                         *)
(* One Flush holds the outbox lock at a time, but inside it the posts run  *)
(* concurrently, and one that did not post flushes the requests once more. *)
(* Authoring, registering and deregistering take no lock of the outbox.    *)
(***************************************************************************)
EXTENDS Naturals, Sequences, FiniteSets, SequencesExt

CONSTANTS
    Block,       \* blocks this node authors, each for one recipient
    Cafe,        \* cafes
    Registered,  \* the cafes there is a session with at the start
    Inboxes,     \* the cafe inboxes of the recipient
    PageSize,    \* cafeOutFlushGroupSize
    MaxAttempts, \* maxRequestAttempts, and maxDownloadAttempts for a post
    Sessions,    \* whether cafes are registered and deregistered meanwhile
    Faults       \* subset of FaultKinds

None == "none"
Main == "main"

FaultKinds == {"request", "append", "post", "heads", "send", "ack", "crash"}

ASSUME OutboundAssumption ==
    /\ Registered \subseteq Cafe /\ Inboxes \subseteq Cafe
    /\ PageSize \in Nat \ {0} /\ MaxAttempts \in Nat \ {0}
    /\ Sessions \in BOOLEAN /\ Faults \subseteq FaultKinds
    /\ None \notin Block /\ Main \notin Block

\* Requests: of a block (addBlock), of a block on registration, of the wrapping
\* nodes (commitNode), and to an inbox.  Re-adding one is not told apart.
Req == ({"store", "sync", "node"} \X Block \X Cafe) \cup ({"inbox"} \X Block \X Inboxes)
Group(q) == <<IF q[1] = "sync" THEN "store" ELSE q[1], q[2]>>

VARIABLES
    reg,        \* session with a cafe: see Reg
    block,      \* index row of a block: see BlockStatus
    tries,      \* failed posts of a block
    row,        \* status of a request, or why it has no row
    attempts,   \* failed attempts of a request
    order,      \* requests by date
    stored,     \* history: requests a cafe has carried out
    msg,        \* message of the block outbox: see MsgStatus
    unsent,     \* history: posts that failed after the block was committed
    reached,    \* history: blocks the recipient got directly
    noInbox,    \* history: unreachable recipient without an inbox
    flush,      \* the Flush that holds the lock: "idle", "requests", "blocks", "clean"
    skip,       \* its argument skipBlocks
    again,      \* a goroutine waits to Flush(true)
    todo,       \* queued blocks that Flush has still to look at
    post,       \* where the post of a block is
    posted,     \* posts that succeeded
    bpc, page,  \* batchRequests of the Flush (Main) and of each post: its page,
    ok, bad,    \* what was handled and what failed,
    next,       \* and the page after it
    holder,     \* the post that flushes the block outbox,
    left, done  \* the messages it has still to handle, and to delete

BlockStatus == {"none", "committed", "queued", "ready", "dropped"}
RowStatus == {"none", "new", "complete", "failed", "cleared", "deregistered"}
MsgStatus == {"none", "queued", "sent"}
PostPc == {"idle", "post", "commit", "tidy", "outbox", "sending", "nested"}
Reg == {"out", "session", "in", "leaving", "left"}
table  == <<row, attempts, order>>
blocks == <<block, tries>>
outbox == <<holder, left, done>>
sends  == <<msg, unsent, reached, noInbox, outbox>>
flow   == <<flush, skip, again, todo, post, posted>>
batch  == <<bpc, page, ok, bad, next>>
vars   == <<reg, blocks, table, stored, sends, flow, batch>>

Runner == {Main} \cup Block

TypeOK ==
    /\ reg \in [Cafe -> Reg]
    /\ block \in [Block -> BlockStatus]
    /\ tries \in [Block -> 0 .. MaxAttempts]
    /\ row \in [Req -> RowStatus]
    /\ attempts \in [Req -> 0 .. MaxAttempts]
    /\ order \in Seq(Req) /\ IsInjective(order)
    /\ stored \in SUBSET Req
    /\ msg \in [Block -> MsgStatus]
    /\ unsent \in SUBSET Block /\ reached \in SUBSET Block /\ noInbox \in SUBSET Block
    /\ flush \in {"idle", "requests", "blocks", "clean"}
    /\ skip \in BOOLEAN /\ again \in BOOLEAN
    /\ todo \in SUBSET Block /\ posted \in SUBSET Block
    /\ post \in [Block -> PostPc]
    /\ bpc \in [Runner -> {"idle", "list", "send", "next", "fail", "complete"}]
    /\ page \in [Runner -> Seq(Req)] /\ next \in [Runner -> Seq(Req)]
    /\ ok \in [Runner -> SUBSET Req] /\ bad \in [Runner -> SUBSET Req]
    /\ holder \in {None} \cup Block /\ left \in SUBSET Block /\ done \in SUBSET Block

HasRow(q) == row[q] \in {"new", "complete"}
Session == {c \in Cafe : reg[c] \in {"session", "in", "leaving"}}

Init ==
    /\ reg = [c \in Cafe |-> IF c \in Registered THEN "in" ELSE "out"]
    /\ block = [b \in Block |-> "none"] /\ tries = [b \in Block |-> 0]
    /\ row = [q \in Req |-> "none"] /\ attempts = [q \in Req |-> 0]
    /\ order = <<>> /\ stored = {}
    /\ msg = [b \in Block |-> "none"] /\ unsent = {} /\ reached = {} /\ noInbox = {}
    /\ flush = "idle" /\ skip = FALSE /\ again = FALSE /\ todo = {} /\ posted = {}
    /\ post = [b \in Block |-> "idle"]
    /\ bpc = [r \in Runner |-> "idle"]
    /\ page = [r \in Runner |-> <<>>] /\ next = [r \in Runner |-> <<>>]
    /\ ok = [r \in Runner |-> {}] /\ bad = [r \in Runner |-> {}]
    /\ holder = None /\ left = {} /\ done = {}

-----------------------------------------------------------------------------
(* The request table. *)

\* CafeOutbox.add for each request of S.
AddRows(S) ==
    LET new == {q \in S : ~HasRow(q)} IN
    /\ row' = [q \in Req |-> IF q \in new THEN "new" ELSE row[q]]
    /\ attempts' = [q \in Req |-> IF q \in new THEN 0 ELSE attempts[q]]
    /\ order' = order \o SetToSeq(new)

\* Rows are deleted; why is kept as a history.
DeleteRows(S, why) ==
    /\ row' = [q \in Req |-> IF q \in S /\ HasRow(q) THEN why ELSE row[q]]
    /\ attempts' = [q \in Req |-> IF q \in S THEN 0 ELSE attempts[q]]
    /\ order' = SelectSeq(order, LAMBDA q : q \notin S)

\* List: a page of NEW rows dated after the row of the offset.  If that row is
\* gone no date compares greater and the page is empty.
Page(offset) ==
    LET after == IF offset = None THEN order
                 ELSE IF HasRow(offset) THEN SubSeq(order, SelectInSeq(order, LAMBDA q : q = offset) + 1, Len(order))
                 ELSE <<>>
        new == SelectSeq(after, LAMBDA q : row[q] = "new")
    IN  SubSeq(new, 1, IF Len(new) < PageSize THEN Len(new) ELSE PageSize)

Rows(g) == {q \in Req : Group(q) = g /\ HasRow(q)}

\* No row at all counts as complete.
SyncGroupComplete(g) == \A q \in Rows(g) : row[q] = "complete"

-----------------------------------------------------------------------------
(* Authoring and sessions. *)

\* commitBlock: a STORE request for each session, before the block is indexed.
CommitBlock(b) ==
    /\ block[b] = "none"
    /\ block' = [block EXCEPT ![b] = "committed"]
    /\ AddRows({"store"} \X {b} \X Session)
    /\ UNCHANGED <<reg, tries, stored, sends, flow, batch>>

\* indexBlock, as QUEUED.
IndexBlock(b) ==
    /\ block[b] = "committed"
    /\ block' = [block EXCEPT ![b] = "queued"]
    /\ UNCHANGED <<reg, tries, table, stored, sends, flow, batch>>

\* RegisterCafe: the session is saved ...
RegisterSession(c) ==
    /\ Sessions /\ reg[c] = "out"
    /\ reg' = [reg EXCEPT ![c] = "session"]
    /\ UNCHANGED <<blocks, table, stored, sends, flow, batch>>

\* ... then every indexed block is requested to be stored there.
RequestContent(c) ==
    /\ reg[c] = "session"
    /\ reg' = [reg EXCEPT ![c] = "in"]
    /\ AddRows({"sync"} \X {b \in Block : block[b] \in {"queued", "ready"}} \X {c})
    /\ UNCHANGED <<blocks, stored, sends, flow, batch>>

\* Deregister: the requests to the cafe go first, those to a recipient's inbox
\* there included ...
DeregisterRows(c) ==
    /\ Sessions /\ reg[c] = "in"
    /\ reg' = [reg EXCEPT ![c] = "leaving"]
    /\ DeleteRows({q \in Req : q[3] = c}, "deregistered")
    /\ UNCHANGED <<blocks, stored, sends, flow, batch>>

\* ... then the session.
DeregisterSession(c) ==
    /\ reg[c] = "leaving"
    /\ reg' = [reg EXCEPT ![c] = "left"]
    /\ UNCHANGED <<blocks, table, stored, sends, flow, batch>>

-----------------------------------------------------------------------------
(* CafeService.Flush and batchRequests, by the runner r. *)

Batch(r, pc) == bpc' = [bpc EXCEPT ![r] = pc]

\* batchRequests with page p: done when it is empty.
BatchPage(r, p) ==
    /\ Batch(r, IF p = <<>> THEN "idle" ELSE "send")
    /\ page' = [page EXCEPT ![r] = p]
    /\ ok' = [ok EXCEPT ![r] = {}]
    /\ bad' = [bad EXCEPT ![r] = {}]
    /\ next' = [next EXCEPT ![r] = <<>>]

BatchList(r) ==
    /\ bpc[r] = "list"
    /\ BatchPage(r, Page(None))
    /\ UNCHANGED <<reg, blocks, table, stored, sends, flow>>

\* The requests of a page that go to one cafe in one call.
Call(P, c, inbox) == {q \in P : q[3] = c /\ (q[1] = "inbox") = inbox}

\* handleRequests: what may be reported handled and failed.  A STORE call that
\* fails reports what it stored before, and all of the call as failed.  Without
\* a session it fails at once.
Outcome(P, H, F) ==
    \A c \in Cafe :
        /\ Call(P, c, TRUE) = Call(H, c, TRUE) \cup Call(F, c, TRUE)
        /\ Call(H, c, TRUE) \cap Call(F, c, TRUE) = {}
        /\ \/ /\ Call(H, c, FALSE) = Call(P, c, FALSE) /\ Call(F, c, FALSE) = {}
              /\ c \in Session \/ Call(P, c, FALSE) = {}
           \/ /\ Call(F, c, FALSE) = Call(P, c, FALSE)
              /\ c \in Session \/ Call(H, c, FALSE) = {}

\* The calls, one goroutine for each cafe.  A failed one may have been carried
\* out all the same ("ack"); two goroutines append to the same slices without a
\* lock ("append").
BatchSend(r) ==
    /\ bpc[r] = "send"
    /\ LET P == ToSet(page[r]) IN
       \E H \in SUBSET P : \E F \in SUBSET P : \E did \in SUBSET F :
          /\ Outcome(P, H, F)
          /\ \A q \in F : "request" \in Faults \/ q[3] \notin Session
          /\ did # {} => "ack" \in Faults
          /\ stored' = stored \cup H \cup did
          /\ \E lostH \in SUBSET H : \E lostF \in SUBSET F :
                /\ lostH \cup lostF # {} =>
                      "append" \in Faults /\ Cardinality({q[3] : q \in P}) > 1
                /\ ok' = [ok EXCEPT ![r] = H \ lostH]
                /\ bad' = [bad EXCEPT ![r] = F \ lostF]
    /\ Batch(r, "next")
    /\ UNCHANGED <<reg, blocks, table, sends, flow, page, next>>

\* The next page is listed before the rows of this one change.
BatchNext(r) ==
    /\ bpc[r] = "next"
    /\ next' = [next EXCEPT ![r] = Page(Last(page[r]))]
    /\ Batch(r, "fail")
    /\ UNCHANGED <<reg, blocks, table, stored, sends, flow, page, ok, bad>>

\* Mutant: a failed request is retried for ever.
BatchFailForever(r) ==
    /\ bpc[r] = "fail"
    /\ Batch(r, "complete")
    /\ UNCHANGED <<reg, blocks, table, stored, sends, flow, page, ok, bad, next>>

\* One more attempt, or the row is deleted after the last.
BatchFail(r) ==
    /\ bpc[r] = "fail"
    /\ LET F == {q \in bad[r] : HasRow(q)}
           end == {q \in F : attempts[q] + 1 >= MaxAttempts}
       IN  /\ row' = [q \in Req |-> IF q \in end THEN "failed" ELSE row[q]]
           /\ attempts' = [q \in Req |-> IF q \in end THEN 0
                                         ELSE IF q \in F THEN attempts[q] + 1 ELSE attempts[q]]
           /\ order' = SelectSeq(order, LAMBDA q : q \notin end)
    /\ Batch(r, "complete")
    /\ UNCHANGED <<reg, blocks, stored, sends, flow, page, ok, bad, next>>

\* A row that is gone stays gone.
BatchComplete(r) ==
    /\ bpc[r] = "complete"
    /\ row' = [q \in Req |-> IF q \in ok[r] /\ HasRow(q) THEN "complete" ELSE row[q]]
    /\ BatchPage(r, next[r])
    /\ UNCHANGED <<reg, blocks, attempts, order, stored, sends, flow>>

-----------------------------------------------------------------------------
(* CafeOutbox.Flush. *)

\* A ticker, the end of a tail or FlushCafes; or a goroutine after a post.
StartFlush(s) ==
    /\ flush = "idle" /\ (s => again)
    /\ flush' = "requests" /\ skip' = s /\ again' = (again /\ ~s)
    /\ Batch(Main, "list")
    /\ UNCHANGED <<reg, blocks, table, stored, sends, todo, post, posted, page, ok, bad, next>>

\* The requests are done: go on to the blocks, or skip them.
FlushRequestsDone ==
    /\ flush = "requests" /\ bpc[Main] = "idle"
    /\ \/ skip /\ flush' = "clean" /\ UNCHANGED todo
       \/ ~skip /\ flush' = "blocks" /\ todo' = {b \in Block : block[b] = "queued"}
    /\ UNCHANGED <<reg, blocks, table, stored, sends, skip, again, post, posted, batch>>

FlushBlocksDone ==
    /\ flush = "blocks" /\ todo = {} /\ \A b \in Block : post[b] = "idle"
    /\ flush' = "clean" /\ posted' = {}
    /\ UNCHANGED <<reg, blocks, table, stored, sends, skip, again, todo, post, batch>>

\* DeleteCompleteSyncGroups.
Clean ==
    /\ flush = "clean"
    /\ DeleteRows({q \in Req : SyncGroupComplete(Group(q))}, "cleared")
    /\ flush' = "idle" /\ skip' = FALSE
    /\ UNCHANGED <<reg, blocks, stored, sends, again, todo, post, posted, batch>>

-----------------------------------------------------------------------------
(* Textile.FlushBlocks: a goroutine for each block whose group is complete. *)

Goto(b, pc) == post' = [post EXCEPT ![b] = pc]

\* Mutant: the sync group is not looked at.
LookAtUnchecked(b) ==
    /\ flush = "blocks" /\ b \in todo
    /\ todo' = todo \ {b}
    /\ Goto(b, "post")
    /\ UNCHANGED <<reg, blocks, table, stored, sends, flush, skip, again, posted, batch>>

LookAt(b) ==
    /\ flush = "blocks" /\ b \in todo
    /\ todo' = todo \ {b}
    /\ post' = [post EXCEPT ![b] = IF SyncGroupComplete(<<"store", b>>) THEN "post" ELSE "idle"]
    /\ UNCHANGED <<reg, blocks, table, stored, sends, flush, skip, again, posted, batch>>

\* thread.post: commitNode makes the block READY ...
PostCommit(b) ==
    /\ post[b] = "post"
    /\ block' = [block EXCEPT ![b] = "ready"]
    /\ Goto(b, "commit")
    /\ UNCHANGED <<reg, tries, table, stored, sends, flush, skip, again, todo, posted, batch>>

\* ... and requests its nodes to be stored; the envelope goes to the block outbox.
Post(b) ==
    /\ post[b] = "commit"
    /\ AddRows({"node"} \X {b} \X Session)
    /\ msg' = [msg EXCEPT ![b] = "queued"]
    /\ posted' = posted \cup {b}
    /\ Goto(b, "tidy")
    /\ UNCHANGED <<reg, blocks, stored, unsent, reached, noInbox, outbox, flush, skip, again,
                   todo, batch>>

\* No heads yet: the block waits.
PostWait(b) ==
    /\ post[b] = "post" /\ "heads" \in Faults
    /\ Goto(b, "outbox")
    /\ UNCHANGED <<reg, blocks, table, stored, sends, flush, skip, again, todo, posted, batch>>

\* The post fails: one more attempt, or the row is deleted after the last.  A block
\* that is READY already is not listed again.
PostFail(b) ==
    /\ post[b] \in {"post", "commit"} /\ "post" \in Faults
    /\ Goto(b, "outbox")
    /\ tries' = [tries EXCEPT ![b] = @ + 1]
    /\ block' = [block EXCEPT ![b] = IF tries[b] + 1 >= MaxAttempts THEN "dropped" ELSE @]
    /\ \/ UNCHANGED table
       \/ post[b] = "commit" /\ AddRows({"node"} \X {b} \X Session)
    /\ unsent' = IF post[b] = "commit" THEN unsent \cup {b} ELSE unsent
    /\ UNCHANGED <<reg, stored, msg, reached, noInbox, outbox, flush, skip, again, todo, posted,
                   batch>>

\* Mutant: every request for the block is deleted, not only its sync group.
TidyAll(b) ==
    /\ post[b] = "tidy"
    /\ DeleteRows({q \in Req : q[2] = b}, "cleared")
    /\ Goto(b, "outbox")
    /\ UNCHANGED <<reg, blocks, stored, sends, flush, skip, again, todo, posted, batch>>

\* DeleteBySyncGroup.
Tidy(b) ==
    /\ post[b] = "tidy"
    /\ DeleteRows(Rows(<<"store", b>>), "cleared")
    /\ Goto(b, "outbox")
    /\ UNCHANGED <<reg, blocks, stored, sends, flush, skip, again, todo, posted, batch>>

\* BlockOutbox.Flush, under its own lock.
OutboxStart(b) ==
    /\ post[b] = "outbox" /\ holder = None
    /\ holder' = b /\ left' = {m \in Block : msg[m] = "queued"} /\ done' = {}
    /\ Goto(b, "sending")
    /\ UNCHANGED <<reg, blocks, table, stored, msg, unsent, reached, noInbox, flush, skip, again, todo,
                   posted, batch>>

\* Mutant: a message is done with although the recipient was not reached.
OutboxHandleDropped(m) ==
    /\ m \in left
    /\ left' = left \ {m} /\ done' = done \cup {m}
    /\ UNCHANGED <<reg, blocks, table, stored, msg, unsent, reached, noInbox, holder, flow, batch>>

\* handle: directly or by pubsub; else by the inboxes; else not at all.
OutboxHandle(m) ==
    /\ m \in left
    /\ \/ /\ reached' = reached \cup {m}
          /\ UNCHANGED <<table, noInbox>>
       \/ /\ Inboxes # {} /\ AddRows({"inbox"} \X {m} \X Inboxes)
          /\ UNCHANGED <<reached, noInbox>>
       \/ /\ Inboxes = {} /\ noInbox' = noInbox \cup {m}
          /\ UNCHANGED <<table, reached>>
    /\ left' = left \ {m}
    /\ \/ done' = done \cup {m}
       \/ "append" \in Faults /\ UNCHANGED done
    /\ UNCHANGED <<reg, blocks, stored, msg, unsent, holder, flow, batch>>

\* handle returns an error: the message stays for the next flush.
OutboxError(m) ==
    /\ "send" \in Faults /\ m \in left
    /\ left' = left \ {m}
    /\ UNCHANGED <<reg, blocks, table, stored, msg, unsent, reached, noInbox, holder, done, flow, batch>>

\* The handled messages are deleted.  Then Flush(true) in a goroutine after a
\* post, or at once the requests again after a post that did not happen.
OutboxEnd(b) ==
    /\ holder = b /\ left = {}
    /\ msg' = [m \in Block |-> IF m \in done THEN "sent" ELSE msg[m]]
    /\ holder' = None /\ done' = {} /\ UNCHANGED left
    /\ \/ /\ b \in posted /\ again' = TRUE /\ Goto(b, "idle")
          /\ UNCHANGED bpc
       \/ /\ b \notin posted /\ Goto(b, "nested") /\ Batch(b, "list")
          /\ UNCHANGED again
    /\ UNCHANGED <<reg, blocks, table, stored, unsent, reached, noInbox, flush, skip, todo, posted,
                   page, ok, bad, next>>

PostDone(b) ==
    /\ post[b] = "nested" /\ bpc[b] = "idle"
    /\ Goto(b, "idle")
    /\ UNCHANGED <<reg, blocks, table, stored, sends, flush, skip, again, todo, posted, batch>>

-----------------------------------------------------------------------------
\* The process dies.  A block that was not indexed is gone; RegisterCafe finds
\* the session and returns before it requests the content.
Crash ==
    /\ "crash" \in Faults
    /\ flush # "idle" \/ again \/ \E c \in Cafe : reg[c] = "session"
    /\ reg' = [c \in Cafe |-> IF reg[c] = "session" THEN "in" ELSE reg[c]]
    /\ block' = [b \in Block |-> IF block[b] = "committed" THEN "dropped" ELSE block[b]]
    /\ flush' = "idle" /\ skip' = FALSE /\ again' = FALSE /\ todo' = {} /\ posted' = {}
    /\ post' = [b \in Block |-> "idle"]
    /\ bpc' = [r \in Runner |-> "idle"]
    /\ page' = [r \in Runner |-> <<>>] /\ next' = [r \in Runner |-> <<>>]
    /\ ok' = [r \in Runner |-> {}] /\ bad' = [r \in Runner |-> {}]
    /\ holder' = None /\ left' = {} /\ done' = {}
    /\ unsent' = unsent \cup {b \in Block : post[b] = "commit"}
    /\ UNCHANGED <<tries, table, stored, msg, reached, noInbox>>

BatchStep(r) == BatchList(r) \/ BatchSend(r) \/ BatchNext(r) \/ BatchFail(r) \/ BatchComplete(r)

PostStep(b) ==
    LookAt(b) \/ PostCommit(b) \/ Post(b) \/ PostWait(b) \/ PostFail(b) \/ Tidy(b) \/ OutboxStart(b)
    \/ OutboxHandle(b) \/ OutboxError(b) \/ OutboxEnd(b) \/ PostDone(b)

FlushStep == StartFlush(TRUE) \/ StartFlush(FALSE) \/ FlushRequestsDone \/ FlushBlocksDone \/ Clean

Next ==
    \/ \E b \in Block : CommitBlock(b) \/ IndexBlock(b) \/ PostStep(b)
    \/ \E c \in Cafe : RegisterSession(c) \/ RequestContent(c)
                       \/ DeregisterRows(c) \/ DeregisterSession(c)
    \/ \E r \in Runner : BatchStep(r)
    \/ FlushStep
    \/ Crash

Spec == Init /\ [][Next]_vars

\* Cafes are registered before the first block, and one that keeps no inbox is
\* left when no block is on its way.
QuietSessions ==
    /\ block' # block /\ (\A b \in Block : block[b] = "none") => \A c \in Cafe : reg[c] = "in"
    /\ reg' # reg => /\ flush = "idle" /\ \A r \in Runner : bpc[r] = "idle"
                     /\ \A b \in Block : block[b] \in {"none", "ready", "dropped"}
                     /\ \A c \in Cafe : reg'[c] \in {"leaving", "left"} =>
                           /\ c \notin Inboxes
                           /\ \A b \in Block : block[b] # "none"

\* A ticker flushes again and again, and every goroutine runs.  A cafe may fail
\* every request.
FairSpec ==
    /\ Spec
    /\ WF_vars(FlushStep)
    /\ \A r \in Runner : WF_vars(BatchStep(r))
    /\ \A b \in Block : WF_vars(PostStep(b)) /\ WF_vars(IndexBlock(b))

-----------------------------------------------------------------------------
(* Properties. *)

\* A request is carried out, or was given up after its attempts or with its cafe.
Settled(q) == q \in stored \/ row[q] \in {"failed", "deregistered"}

\* Every cafe the block was to be stored at has it, or was given up.
GroupSettled(b) ==
    \A c \in Cafe : row[<<"store", b, c>>] # "none" => Settled(<<"store", b, c>>)

\* A block is sent to the other members only when each cafe there was a session
\* with has it, or has been given up: with posts, nested flushes, clean-ups and
\* deregistrations in any order, the absence of rows never lets it go early.
StoredBeforeSent == \A b \in Block : block[b] = "ready" => GroupSettled(b)

\* No request of a block, its nodes or an inbox is forgotten: one that a post or a
\* clean-up removed was carried out.  (One made on registration may be: a post
\* tidies by block.)
RequestsKept == \A q \in Req : q[1] # "sync" /\ row[q] = "cleared" => q \in stored

\* The message of a block got somewhere: to the recipient, or to or on the way to
\* every inbox of the recipient.
Handed(b) ==
    \/ b \in reached \/ b \in noInbox
    \/ Inboxes # {} /\ \A c \in Inboxes : HasRow(<<"inbox", b, c>>) \/ Settled(<<"inbox", b, c>>)

\* A READY block reaches its recipient, waits in the block outbox, or is at or on
\* the way to every inbox of the recipient.  Two cases are given up: a recipient
\* without inboxes, and a post that failed, or a crash, right after the commit.
MessageKept ==
    \A b \in Block : block[b] = "ready" =>
        msg[b] = "queued" \/ Handed(b) \/ post[b] = "commit" \/ b \in unsent

\* Strengthening.  What a batch will report as handled was carried out; so was what
\* has a completed row; a post that was let go has its group settled, and nothing
\* is added to that group any more; a block still to be looked at is not being
\* posted; what a flush of the block outbox is about to delete, or has deleted, was
\* handed on.
OutInv ==
    /\ block \in [Block -> BlockStatus] /\ post \in [Block -> PostPc]
    /\ row \in [Req -> RowStatus] /\ msg \in [Block -> MsgStatus]
    /\ ok \in [Runner -> SUBSET stored]
    /\ done \subseteq Block /\ left \subseteq Block /\ todo \subseteq Block
    /\ \A q \in Req : row[q] = "complete" => q \in stored
    /\ \A b \in todo : block[b] # "none" /\ post[b] = "idle"
    /\ flush # "blocks" => \A b \in Block : post[b] = "idle"
    /\ \A b \in Block : holder = b => post[b] = "sending"
    /\ \A b \in Block : post[b] = "post" => block[b] # "none" /\ GroupSettled(b)
    /\ \A b \in Block : post[b] \in {"commit", "tidy"} => block[b] = "ready"
    /\ \A b \in done : Handed(b)
    /\ \A b \in Block : block[b] = "ready" =>
          msg[b] # "none" \/ post[b] = "commit" \/ b \in unsent
    /\ \A b \in Block : msg[b] = "sent" => Handed(b)
    /\ StoredBeforeSent /\ RequestsKept

\* A cafe that fails every request cannot hold blocks back for ever: a queued block
\* is posted or dropped.
BlockReleased == \A b \in Block : block[b] = "queued" ~> block[b] # "queued"
=============================================================================
