# A TLA+ verification of go-textile

go-textile is a peer-to-peer node for encrypted, shared *threads*. A thread is a
DAG of blocks that its members append to without coordination; *cafes* are peers
that store content and messages for members that are offline; the devices of one
account find each other through an *account thread* and through snapshots at a
cafe. This directory models the node, its cafe, its phone bindings and its
repository, checks them with TLC on small instances, and proves the main safety
properties with TLAPS for every size.

Sections: 1 the system, 2 the modules, 3 the runs, 4 the properties, 5 the proofs,
6 what the code does otherwise than one would expect, 7 plan, 8 what is not modelled.

## 1. The system

| part | state | operations | module |
|---|---|---|---|
| thread update log (`core/thread.go`, `thread_*.go`) | block index (`blocks`: QUEUED, PENDING, READY), HEADs (one column of `threads`), parent links in IPLD nodes | `addBlock`, `commitNode`, `post`, `handle`, `followParents`, `addHead`, `handleHead` | `ThreadSync` |
| block downloads (`core/block_downloads.go`) | PENDING rows, attempts | `Add`, `Flush`, `handle`, `handleErr` | `ThreadSync` |
| membership (`core/thread_joins.go`, `thread_adds.go`, `thread_leaves.go`) | thread peers, welcomed flags | `join`, `leave`, `sendWelcome`, `addOrUpdatePeer` | `Membership` |
| access (`core/thread.go`) | type, sharing, whitelist, initiator | `readable`, `annotatable`, `writable`, `shareable`, `member` and the handlers that use them | `ThreadAccess` |
| files of threads (`core/thread_files.go`, `repo/db/files.go`) | file rows with targets, pins | `AddFiles`, `handleFilesBlock`, `ignore`, `cleanUp` | `ThreadFiles` |
| file index, mills, schemas (`core/files.go`, `schema/`, `mill/`) | file rows | `Steps`, `AddFileIndex`, `AddNodeFromFiles`, `millBatch` | `FileIndex` |
| feed (`core/feed.go`, `blocks.go`) | none | `Feed`, its pages and stacks | `Feed` |
| invites, threads service, notifications (`core/invites.go`, `threads.go`, `threads_service.go`, `notifications.go`) | invites, loaded threads, notifications | `Handle`, `handleAdd`, `AcceptInvite`, `IgnoreInvite`, `AddThread`, `RemoveThread` | `Invites` |
| snapshots and account sync (`core/account.go`, `threads.go`) | cafe requests, snapshots at the cafe | `updateHead`, `store`, `SnapshotThreads`, `SyncAccount`, `AddOrUpdateThread` | `Backups` |
| contacts, profile (`core/peers.go`, `profile.go`, `contacts.go`, `thread_announces.go`) | peers table | `addPeer`, `annouce`, `SetName`, `AddContact`, `RemoveContact`, `GetBestUser` | `Contacts`, `Users` |
| cafe outbox, block outbox (`core/cafe_outbox.go`, `block_outbox.go`, `repo/db/cafe_requests.go`) | requests with group, sync group, status, attempts; block messages | `Add`, `Flush`, `batchRequests`, `FlushBlocks` | `Outbound` |
| requests of a phone (`mobile/cafes.go`) | the same table, bodies on disk | `CafeRequests`, `WriteCafeRequest`, `CompleteCafeRequest`, `FailCafeRequest`, ... | `MobileRequests` |
| cafe session (`core/cafe_service.go`, `cafes.go`, `jwt/`) | session, client row, nonces, pins | `Register`, `Deregister`, `refresh`, `store`, `unstore`, ... | `CafeSession` |
| cafe host (`core/cafe_service.go`, `cafe_api*.go`, `tokens.go`) | tokens, clients, client threads and messages | the handlers, HTTP and p2p | `CafeHost` |
| cafe inbox (`core/cafe_inbox.go`, `repo/db/cafe_client_messages.go`) | messages at the cafe, downloaded messages | `CheckMessages`, `DeleteMessages`, `Flush` | `CafeMailbox` |
| search (`core/search.go`) | results, channels | `search`, `searchCafe`, `searchPubSub` | `Search` |
| broadcaster and its users (`broadcast/`, `core/threads_service.go`) | listeners, buffers | `Listen`, `Send`, `Close`, `SendPubSubMessage` | `Broadcast` |
| peer streams (`service/`) | one sender per peer, its stream | `SendRequest`, `SendMessage`, `handleNewMessage` | `PeerStream` |
| lifecycle (`core/core.go`) | started, online, three locks, job loops | `Start`, `Stop`, `runJobs`, `flushQueues` | `Lifecycle` |
| events (`core/core.go`, `cmd/daemon.go`, `mobile/mobile.go`, `core/api_observe.go`) | update and notification channels, thread updates | `sendUpdate`, `sendThreadUpdate`, `sendNotification`, readers and observers | `Events` |
| set-up and configuration (`core/core.go`, `repo/init.go`, `repo/config/`) | repository files, account thread | `InitRepo`, `NewTextile`, `addAccountThread`, configuration requests | `Setup` |
| migrations (`repo/migrations/`) | schema, version file | `MigrateUp`, each migration, `InitRepo` | `Migrations` |
| wallet and keys (`wallet/`, `strkey/`, `crc16/`, `keypair/`, `crypto/`) | none | `AccountAt`, `Encode`, `Decode`, `Parse`, `Sign`, `Encrypt`, ... | `Keys` |

Everything shares one SQLite datastore whose calls are serialised by a mutex, one
call at a time; with few exceptions there are no transactions around several calls.
What is hard:

* goroutines of different origin (posts, inbound handlers, tails, downloads, cafe
  batches, tickers, API calls) interleave between two datastore calls;
* a crash keeps the tables and loses every goroutine;
* messages are duplicated, reordered and delayed; requests are retried although
  they may have been carried out;
* a row's *absence* carries meaning (a sync group without rows is complete, a
  block without a row is new), and several paths delete rows;
* unbuffered and bounded channels, and locks that are held while one sends to them;
* dates decide (newest wins, pages go on from a date), and dates tie and differ by clock.

`hazards` in `PROJECT.json` lists every such place by line with the properties aimed
at it, and says what no property covers.

## 2. Modules

Definitions whose comment begins with "Mutant:" are used in no specification: each
is a plausible wrong version of the definition that follows it, and shows that a
property would notice.

Most modules have a constant set of *scenarios* (`Scenes`, `Visits`, `Layouts`, ...), one
of which is chosen in the initial state and never changes. A scenario says what may happen
in a behaviour, so that TLC reaches long behaviours of few actors as well as short
ones of many; it is a parameter of the specification, not a restriction in it.

### Threads

**ThreadSync**: one thread on one node. A block and the IPLD node that wraps it share one
name, since a node whose flushes pass through the cafe outbox lock wraps a block once.
`status` is the row of the `blocks` table ("new" and "deleted" have no row); `heads` is
the head column. Each datastore call that races with others is an action of its own:
`AddHeadRead` and `AddHeadWrite` are the read and the write of `addHead`;
`HandleHeadRead` and `HandleHeadWrite` those of `handleHead`; `PostRead`, `PostIndex`,
`PostHead`, `PostSend` are `commitNode` and `post`. `followParents` is a frontier from which
parents are taken in any order, because the code runs one goroutine for each. The tail
starts when `stopLock` is free, as in `Handle`, `handleThreadAdd` and `AddOrUpdateThread`.
The failure paths are actions enabled by the constant `Faults`; each one that lets go of a
block records it in the history variable `lost`. `Entries` and `Snapshots` say how the
thread may come to be on the node (created, by an invite, restored) and which of these may
later be met by a snapshot of another device. `published` holds what other members have;
`RemoteCommit` stands for them. Left out: contents, signatures and encryption (a block that
cannot be decrypted is `HandleReject`); old-style blocks without links; the attempts
counter of a download, which is a choice between one more and the last.

**Membership**: several nodes that exchange blocks. `peerTbl` is each node's table of
members with its welcomed flag; an invite is taken up by `join`, whose block makes every
handler add the new member and, through `sendWelcome`, send it the heads. Messages are
delayed and reordered and not lost (the outboxes retry). The heads are those that one
writer at a time would leave; `ThreadSync` has those races.

**ThreadAccess**: each device with its copy of the policy. `Readable`, `Annotatable`,
`Writable`, `Shareable` and `Member` are the decision methods; authors and each handler
apply them separately, as in the code. Invites travel directly or externally and are
accepted on another device.

**ThreadFiles**: file rows with their targets, pins and data nodes under adding, handling,
ignoring and leaving in any order. **FileIndex**: from an input to the directory that a
schema asks for: the order of the links (`Steps`), the recognition of a file by source and
by checksum, the encryption per link, two jobs at a time. `copyOf` says in `ThreadFiles` which files
the table has one row for, because they have one mill and checksum: a member that encrypts
a known content anew makes another hash, which finds no room and so has no row.
A removal de-indexes link by link, in any order, and stops at the first file without a row
(`DeIndexSome`).

**Feed**: pages by offset over an index that grows from both ends, three modes, items made
of stacks. **Contacts**: cards that are announced in threads and echoed in the account
thread by devices with clocks that differ. Profiles change and contacts are added and removed
whatever is on its way; the history variable `overlap` keeps which cards met which, and
`removed` who removed the contact. **Users**: how many peers make one user.

**Invites**: messages and user calls as tasks whose database statements interleave, the
list of loaded threads that a removal reads once and shifts later, and notifications.
**Backups**: the table of requests of a device, the cafe's snapshots, and the sync that finds
and applies them. A batch keeps what it has read of a thread (`hand`) until it is answered,
while the thread is edited, removed or restored.

### Cafes

**Outbound**: a request is a kind, a block and a cafe. `row` says what the request table
holds, and why there is no row when there is none. `Page` is `List` with its comparison of
dates, so that a deleted offset row gives an empty page. A batch (`BatchList`, `BatchSend`,
`BatchNext`, `BatchFail`, `BatchComplete`) is run by the flush itself and, from inside
`FlushBlocks`, by each post that did not happen. `Outcome` is `handleRequests`: a failed
STORE call reports what was stored before as handled and the whole call as failed. `LookAt`
is the gate of `FlushBlocks`; `PostCommit`, `Post` and `PostFail` the post; `Tidy` the
deletion of the sync group; `Outbox...` the block outbox, which holds its own lock. Each
block has one recipient, reached directly or by pubsub, or through `Inboxes`. ADD blocks,
whose row is deleted by the post, are in `ThreadSync` only. Authoring and sessions take no
lock. `Crash` keeps the tables.

**MobileRequests**: the same table driven by an application that uploads in the background,
also while the process is gone, and reports overlapping groups.

**CafeMailbox** and **Mailbox**: `box[c]` has the rows of the table of client messages and
`before[c]` the order of their dates, `Deliver` the insert-or-replace with a new date, `DeletePage` the SQL of `DeleteByClient`. Two
checks may run in each client: the ticker's and one for a notification of the cafe. A check
is `StartCheck`, `List`, `SavePage`, `Delete`, and again if the answer says there is more.
`DeleteRetried` is the retry in `messageSender.SendRequest` after the request was executed.
The inbox runs a goroutine for each listed row and waits for none; `handleErr` uses the
attempts it was listed with. `Mailbox` says abstractly what an inbox promises.

**CafeSession**: the user, the outbox flush and the inbox check of a node share one stored
session towards one cafe; nonces, refreshes that overlap, a store with one retry.
**CafeHost**: what several clients do to one cafe at the same time: tokens, registration,
threads, messages and files, over p2p and over HTTP handlers with a shared buffer pool.

### The node

**Lifecycle**: `Start`, its bootstrap goroutine, `Stop`, job loops and the tails that hold
the stop lock, with the three mutexes. `cancelSync` is the pointer of that name, which `Stop`
resets; the goroutine that applies the results of an account sync is `syncer`, and takes no
notice of it (`ApplyBegin`, `ApplyEnd`). **PeerStream**: calls that share one message sender;
an answer is known only by its place in the stream. **Broadcast**: a call that waits for
answers, the timer goroutine, handlers that `Send` under the lock. **Search**: goroutines
and channels from the sources to a consumer that may stop reading; a source in `silent` keeps
its stream open after its answers.
**Events**: two channels of bounded capacity, an observer per request, the readers of the
daemon and of a phone, and paging through notifications.

**Setup**: the files of a repository while `InitRepo`, starts and configuration requests
write them, cut short at any step. **Migrations**: the columns of every table through every
migration, with a crash between any two statements.

**Keys**: from a phrase to an account, its text and back. The checksum table and the version
bytes are those of the code, byte for byte, with a bitwise division by the polynomial as
the reference; hashes, curves and ciphers are functions without collisions. An index has
`Bits` bits (10 in the run, where the code has 32), so that both edges of the range and
the wrap-around are among the inputs.

## 3. Runs

| run | checks | shows |
|---|---|---|
| `SyncFaults` | TypeOK, NoSilentHole, HeadsAccounted, ReadyIsSent | a thread created here or entered by an invite: two handlers, a post, overlapping downloads of one block, all failures, crashes at any step |
| `SyncSerial` | NothingForgotten, HeadsMinimal | one operation at a time (`Serial`), blocks in any shape and order, a thread created here or restored and updated from snapshots |
| `SyncLive` | HistoryArrives | liveness, two tails competing for `stopLock`, three remote blocks |
| `OutFaults` | StoredBeforeSent, RequestsKept, MessageKept | two cafes, one of them an inbox of the recipient, every failure, a crash at any step of a flush |
| `NodeSafe` | ShutdownSafe, MembersAgree, SessionGood, NonceUsedUp, FilesSettled, AuthoredAccepted, ThreadKept, UpgradeSafe, CardsSettle, ShownRight, SyncGroupEnds, KeysSound | ten components of a node |
| `AppSafe` | FilesRight, InvitesSound, BackupsSound, SetupSound, HostSound, EventsSound, ImplementsMailbox | seven components around an application and its cafe |
| `NodeLive` | DoneOnce, OnlyAcked, StreamsSound, MailSettles, ShutdownEnds, CallsReturn, SearchEnds, BlockReleased | liveness of six components |

Runs that end in a violation state what a comment in the code says, and TLC finds a
behaviour of the code that contradicts it (`findings` in `PROJECT.json`):

| run | property | behaviour |
|---|---|---|
| `SyncLostHead` | InboundHeadKept | a post overwrites the heads after an inbound head was added |
| `SyncRestoreBacktrack` | RestoredHeadsFollowed | a restored thread compares its heads with themselves and never follows its tail |
| `MailRace` | MailKept | a message delivered between a check and its delete is removed unread |
| `MemLeave` | LeaveNotified | `RemoveThread` deletes the queued LEAVE block with the rest, so nobody is told |
| `BcFull` | CloseDisables | `Send` waits for a full listener with the lock that its `Close` needs |

**Side by side.** `NodeSafe`, `AppSafe` and `NodeLive` each check several components that
share no variable. The variable `focus` is chosen in the initial state; only the component
in focus takes steps, the others stay where they are and start with one fixed scenario.
The state space is therefore the sum of those of the components, not the product, and
every property is as strong as in a run of its own: what the runs do not claim is
anything about components together. These runs disable the deadlock check, like `MemLeave`
and `BcFull`, because their scenarios are finite: invites are used up, users have made
their calls. That nothing hangs before that is what `NodeLive` checks. The runs of
`ThreadSync` and `Outbound` and `MailRace` check for deadlocks.

**Action constraints.** `Serial`, `QuietMail` and `QuietSessions` follow only the steps of
the same specification that start no operation while another one runs (`Serial`); that
make no delivery and no second check while a check runs (`QuietMail`); and that register
all cafes before the first block and leave one only when no block is on its way
(`QuietSessions`). Blocks of other
members and workers are interchangeable, which `Symmetry` uses in two runs of `ThreadSync`.

**Bounds.** They are in the `.cfg` files and, for scenarios, in the MC modules.

* `SyncFaults` has a JOIN and two remote blocks, which give every two-step history, a fork
  and a merge; two workers, which give every pairwise race; and `MaxDl = 2`, which overlaps
  two downloads of one block. `SyncSerial` has three local blocks (a JOIN, an ADD and an
  ordinary block) and two remote ones. The third remote block of `SyncLive` gives a tail
  that passes through a block that is itself pending.
* Pages of one or two rows make both "more" answers and page ends happen with two messages
  or requests. `MaxAttempts = 2` reaches "one more" and "last attempt". `MaxDeliver` bounds
  the deliveries of one message. `OutFaults` follows one block; several blocks share no
  row, and the proofs cover any number.
* `MCScenes`: three nodes, invited in a star or a chain, or a pair, of which one speaks,
  or leaves while `sendWelcome` overlaps. `MCVisits`: two workers with each pair of calls that
  share a session, over three session durations, which is one more than a refresh token
  lives. `MCPolicies`: all types, sharings and two whitelists, three devices of three
  accounts. `MCHistories`: from no repository, from before the major migration, and from
  versions 6 and 16, with up to two crashes.
* `MCLayouts`: three blocks, two of them with one data node, a file that two data nodes share,
  and three IGNOREs, one of them dated before its block; with and without files that are
  copies. The third block is the one that brings back the rows of files that were removed while another block was prepared.
  `MCParcels`: schemas with a source, a thumb of a large one, a JSON of an exif, and a loop,
  two jobs over one or two inputs.
* `MCLogs`: every log of up to four texts, comments and ignores. `MCHabits`: two devices, clocks
  that are one ahead or two behind, two peers of one person (announcements double with each further
  device: for those there is the theorem). `most` bounds how much may be on its way when a person
  changes something, which is as much as there can be where both clocks are right; where both are behind, two
  cards that meet are announced to and fro until the clocks have passed both dates, and
  `most` is 0. A device removes the contact once and adds a card by hand one at a time.
* `MCLoads`: two kinds of callers, and one with more answers than its listener has room for, so
  that `Send` gets stuck. `MCPlans`: every search with and without a cafe that goes silent,
  any of them cancelled at any time or never. `MCOccasions`, `MCBacklogs`, `MCOutlines`,
  `MCPlots`, `MCWays`: two tasks, devices, visitors or six calls, chosen so that the
  operations that touch the same rows or channels meet.
* `MCTrips`: the word counts with their neighbours; indexes around -1, 0, 2^(Bits-1) and
  2^Bits; payloads of zero to `KeySize + 1` bytes; changes of 16 adjacent bits in the version
  byte, the payload and the checksum, swaps and foreign letters.

**Fairness.** The fair specifications assume that started goroutines go on (the Go
scheduler), that a mutex is granted in the end, that tickers fire (`runJobs` flushes the
queues every few seconds and checks the mail every minute), and that time-outs of the code
expire. Nothing assumes that a request succeeds, that a peer answers a message, that a peer
takes what is written to it (`WriteMsg` has no fairness: `service/sender.go:195` has no
deadline), that a user cancels, that a consumer goes on reading after an error, or that
messages or blocks stop except by the bounds. The stream of a cafe that is not in `silent`
ends; the one of a cafe that is, which no time-out of the code ends (`service/service.go:162`),
ends only when the search is cancelled or full. `SyncLive`
has no failures: a fetch that fails drops its branch, and the code does not come back to it
until another block links there. `LiveFairness` in `MCLive` is the conjunction of the
fairness of the six components.

## 4. Properties

Threads:

* **NoSilentHole** every parent of an indexed block is indexed, in the frontier of a
  running tail, or let go by a failure the code logs. A tail stops at the first block
  with a row, so this needs all paths that make rows to take over the parents.
* **HeadsAccounted** no head names a block the node does not know about.
* **ReadyIsSent** a READY local block was handed to the outbox, is being posted, or its
  post failed or crashed after the commit.
* **NothingForgotten** every handled block can be reached from the heads. It holds one
  operation at a time, if no crash cuts a snapshot's tail short; under interleaving it does
  not (`SyncLostHead`).
* **HeadsMinimal** no head is an ancestor of another when blocks come out of order, in a
  thread created here (an invite or a snapshot brings its heads along as they are).
* **HistoryArrives** the history of a READY block becomes READY.
* **MembersAgree** = `Converged` (every member ends up with every block and every other
  member, whoever invited whom, unless `sendWelcome` overlaps with a new peer or somebody
  left) and `KnowsWhole` (no holes, heads that reach everything).
* **AuthoredAccepted** what an author may write no reader refuses, whatever the policy.
  **ThreadKept** = `StaysInside` (a thread stays with those its initiator let in, however
  invites travel) and `HoldersRead`.
* **FilesSettled** = `FilesKept` (a block that nobody ignored keeps its files, whatever other
  blocks share; its data node too, unless that was `unpinned` between the preparation of
  the block and `AddFiles`), `IgnoredGone` (what only ignored blocks had goes, also where a
  removal stopped half way) and `LostToCopy` (a handler fails only over a copy of one of its
  files).
  **FilesRight** = `DirectoryRight` (each link has the content its mill makes of its use,
  encrypted if and only if it says so) and `FailsForReason`.
* **ShownRight** = `FeedComplete` (`PagesDescend`, `NothingSkipped`, `ItemsShowAll`) and
  `UserFits` (a user is shown alike in contacts and beside blocks; and on every device, if no
  two cards met, none was added by hand or removed, and no clock is ahead).
* **CardsSettle** = `NewestKept` (once a person's announcements are handled, every device that
  has not removed the contact shows its card, if no clock is ahead and no other card of
  this person was on its way together with it) and `EchoesEnd` (announcements do not go round;
  a device may make one for each set of other devices that the card came over, which is
  2^(n-1) with n devices; not claimed for a card that was sent while one of that person was on
  its way, nor where a contact was removed). Both conditions are needed: a row is dated by when
  it is stored (`repo/db/peers.go:105`), so a second change that is made before the first is
  handled may be hidden by it for good; TLC finds this at once without `Hasty`.
* **InvitesSound** = `InviteKept`, `RosterMatches`, `LeftTidy`; **BackupsSound** =
  `SnapshotsMatch`, `RestoredKept`.

Cafes:

* **StoredBeforeSent** a block is posted only when the cafes there was a session with
  have it or were given up, although the gate takes missing rows for completion.
* **RequestsKept** a request removed by a post or a clean-up was carried out.
* **MessageKept** the message of a READY block is queued, with the recipient, or at or
  on its way to every inbox of the recipient; exceptions are a recipient without
  inboxes and a failure right after the commit.
* **BlockReleased** a queued block is posted or dropped.
* **SyncGroupEnds** = `BlockHeldBack`, `EndReported`, `NotStranded`, `BodiesGone`: the
  overlapping reports of a phone end a sync group exactly when its requests are over.
* **ImplementsMailbox** a message waits until it was handled or given up. It needs no
  delivery between a check and its delete and one check at a time (`MailRace`).
* **MailSettles** mailbox and inbox become empty, whatever fails.
* **SessionGood** = `SessionBacked`, `NotLockedOut`, `RefusedLate`, `StoredIsPinned`: a held
  session is good for something, however refreshes overlap. **NonceUsedUp** a challenge
  that was answered admits no later attempt (an action property).
* **HostSound** = `RowsOwned`, `NothingLeft`, `AdmittedByToken`, `WordKept`.

The node:

* **ShutdownSafe** = `ShutdownWaits` (neither node nor datastore is closed under a tail that found
  them open, a flush that a mobile call began, or an external handler; an account sync
  is not waited for) and `NoPanic`; **ShutdownEnds** = `StopReturns` and
  `JobsEnd`.
* **DoneOnce**, **OnlyAcked**, **CallsReturn** (`CallReturns` of the broadcaster, unless a `Send`
  is stuck for good, which is `BcFull`; and `CallComesBack` of streams, unless the peer does not
  take what is written to it, which holds that call and those that wait for its sender; both
  happen in the run), **StreamsSound** = `AnswerMatches`, `ServedAtMostTwice`,
  `NoStreamLeak`.
* **SearchEnds** in every search, what is taken from a source arrives unless something newer
  does (`NewestArrives`, which is also proved), and the search settles, if it is cancelled or full or
  no cafe has gone silent.
* **EventsSound** = `NoneLost`, `InOrder`, `RowFirst`, `WatchersServed`, `PagesWhole`.
* **SetupSound** = `BootsAgain`, `ProfileFits`, `AccountReady`; **UpgradeSafe** =
  `OpenIsCurrent`, `OpensUnharmed`, `KeysExported`.
* **KeysSound** = `AccountsMatch` (an index has the account at its path, or none),
  `TableDivides`, `CopyTrusted` (a text is read as the account it was written for, or not at
  all), `CopyServes` (and then does what its kind can do).

Where a property has an exception (`frayed`, `blurred`, `smudges`, `scars`, `torn`, ...), it is a
history variable that is set by the one step of the code that makes the exception, so
that nothing else can hide behind it; section 6 lists them.

## 5. Proofs

The constants are arbitrary within the named assumptions of the modules: any sets of
blocks, workers, nodes, cafes, devices, calls, any policies, scenarios and faults.

`ThreadSyncProofs`:

* `TypeCorrect`: `Spec => []TypeOK`.
* `SyncCorrect`: unless the thread was restored from a snapshot,
  `Spec => [](NoSilentHole /\ HeadsAccounted)`. The restore is excluded because heads
  it stores are followed by nobody (`SyncRestoreBacktrack`). The inductive invariant is `SyncInv`: `TypeOK`;
  `LinkInv`, which says what a link can name, so that a tail never stops at the row of a
  QUEUED block, and that a worker which is neither between index and tail nor in a tail
  owes no parents; and `HeldInv`, which extends "accounted" to what a goroutine has read
  and will write later (the heads a post, an `addHead` or a `handleHead` holds) and to
  the parents of blocks that a running download may bring back. Without `HeldInv` the
  write of a stale read would not preserve `HeadsAccounted`.
* `HeadsAlwaysAccounted`: the part of it about heads, under the same hypothesis.
* `ReadySent`: `Spec => []ReadyIsSent`, by `SentInv`, which covers deleted rows too because
  a tail and a download may bring them back.
* `NothingIsForgotten`: on a node that does one thing at a time (`[][Serial]_vars`), with any
  failures, `NothingForgotten` holds unless a crash may interrupt the tail of an account
  snapshot (then TLC finds PENDING rows that no head leads to, until the next snapshot).
  The invariant is `SerialInv`: at most one goroutine is under way (`Alone`), so what it read
  of the heads is still true when it writes (`Held` in `Shape`); what a worker has still to
  follow and its leaves are behind what it brings (`Branch`); and every indexed block is
  behind the heads, let go, or on its way there (`Remembered`). `Span` states reachability
  as a least closed set, which is how the provers can use it: no induction is needed.
* `HeadsAlwaysMinimal`: under `Serial`, without failures other than refused blocks and without
  snapshots of a thread created here, `HeadsMinimal`. `TidyInv` adds that links make no cycle
  (`NoLoops`: a block gets its links before anything can link to it), that a worker's
  block is behind none of the heads it found, and that wherever its history meets
  theirs there is a leaf, or one is about to be (`Meeting`). `MergeApart` is the set-theoretic
  core: without the leaves, the heads and the new block are apart.

`SharingProofs`: `MembersAlwaysAgree` (`MembersAgree`) and `MemberInvariant`, for any number of
nodes that invite each other in any order. A node that has the whole history of a head
knows everybody whose JOIN is in it; what is hard is that two members who never met learn of
each other. The argument, in `Spread`: every head's history contains the creator's JOIN, so
whoever joins tells the creator; of two members whom the creator welcomed, the later one was
sent heads whose history has the JOIN of the earlier one, and tells it. `Gets` and `Tells` say
that this is still to come, by a message on its way or a tail, which is what makes it
inductive. It holds while behaviours are `Calm` (no welcome overlapped with a new peer and
nobody left); `History`, `Queues`, `Sound`, `Whole` and `Rows` hold always.

It also has `FilesAlwaysSettled` (`FilesSettled`), for any number of blocks, data nodes and files,
shared in any way. `ShelfInv` says what holds between two steps of a handler. `Owned`: a
file with a row or a pin is a target or belongs to a block that is on its way; it holds
even where handlers overlap. When one thing happens at a time, `Keeping`: what is only on its
way has its pins, or is on record as having lost its data node, and what is `Shown` has
everything, since `removeFiles` stops when a second block has the data; and `Going`: data of a
single block is filed in full or not at all, which is why an ignore that stops at a missing
row leaves nothing behind. Such an ignore may take links of a block that was prepared or failed, and
of nothing else. `Copied`: when the handler has taken its files, each has a row or a copy that
has; so it finds all rows unless one is a copy (`LostToCopy`).

`OutboundProofs`: `SentIsStored`, `NoRequestLost`, `NoMessageLost`, all by `OutInv`. Its
core: what a batch is about to report as completed, and what has a completed row, was
carried out; a post that was let through the gate has its group settled and that group
gets no new rows; a block still to be looked at is not being posted; what a flush of the
block outbox is about to delete was handed on. Every action preserves it without any
assumption on how flushes, batches and sessions interleave.

`SharingProofs` has access too: the inductive invariant is `AccInv`, made of `AccTypeOK`; `HoldInv`,
whoever holds the thread is a member by the policy, and of the initiator's account where
nothing is shared; `JoinInv`, whoever holds it may read it and was let inside; `LetterInv`,
the block on its way passed the checks that handlers make; and `OfferInv`, whoever sent an
invite holds the thread still. Without `OfferInv` the others are not inductive: an invite is
made under the checks of its sender and used later, by another device, with the sender's
copy of the policy. From it follow `HandlersAgree` (`AuthoredAccepted`), `NobodyElse`,
`EveryoneReads`, and `WhoHolds` (`ThreadKept`), for any policy, any number of devices and
accounts, and any sequence of invites, joins and posts.

`InvitesProofs`: `InvitesAlwaysSound` (`InvitesSound`), for any threads, messages and calls of
the user, any number of tasks at once, and through failed statements and processes
that die. The inductive invariant `DeskInv` has five parts besides `InvTypeOK`. `Roles`: which
steps a task with its message or call can be at. `Keeps`: whatever an invite is about to be
told, or its thread about to be, is already on record, which gives `InviteKept`. `Rostered`: the
list of loaded threads and the table differ by those being loaded and the one being
removed (`Differ`), and a position that a removal has read still names its thread, unless
two removals overlapped or a load failed (`torn`); this gives `RosterMatches`. `Fights`: two tasks that
share a message or a thread have marked it (`blurred`), so what is not marked has tasks of
one kind. `Tidies` then says, message by message and thread by thread, what the tables
hold between the steps of that kind (`AddTidy`, `UpdateTidy`, `ThreadTidy`): an
invite that waits and has no notification yet has one task about to make it, for instance.
With no task under way these are `LeftTidy`. It is assumed that the threads are finitely many
and that invites, updates and threads are different things (`InvitesAssumption`).

It also has `BackupsAlwaysSound` (`BackupsSound`) and `BackupsTypeCorrect`, for any devices, threads,
blocks, batch sizes and numbers of attempts, through lost answers, calls that the cafe
handled although they failed, and devices that die. "Nothing waits, so the cafe has what the
device has" is far from inductive, since a request reads its thread when it is handled. The
invariant `BakInv` says for each device: `Requests`, a batch is part of the table, which its
dates order totally; `Listing`, the table of threads and the list of loaded ones agree; `Merged`,
what a sync applied is in the thread or on its way to it (this is `RestoredKept`). And for each
thread that is not marked (`frayed`): `Renewed`, its snapshot is right, or an edit, a walk, a
removal or a request that was not yet carried out will renew it; `ReadRight`, what a batch has
read and not yet sent is what the thread is, or something younger waits; and `Unstored`, a
thread that goes has a request to unstore it that comes after whatever stores it. It is
assumed that threads are finitely many and that "no thread" is none (`BackupsAssumption`).
The proof did not go through at first, for a good reason: `ApplySnapshot` of a thread that is
being removed makes a JOIN (`core/threads.go:216`) that stays when the thread goes. If another
result then restores the thread, the device has its JOIN, neither joins nor stores it, and the
cafe has no snapshot of it. TLC confirms the behaviour; the step now marks the thread, and
section 6 lists it.

`CafeProofs`, a client and its cafe:

* `SessionAlwaysGood` (`SessionGood`) and `NonceAlwaysUsedUp` (`NonceUsedUp`), for any number of
  goroutines that share the session and any time. `SessInv` adds to the properties who has
  a session in hand (`Clients`): a handler of a registration that has made one, a call
  between its answer and its save, the node. Each of them may store it later, over
  whatever is stored by then. `InTime` says that what a call holds is no older than the
  call, so that a refresh which overlaps another one is still accepted.
* `InboxImplementsMailbox`: the cafe's table, the checks and the inbox implement `Mailbox`,
  step by step, when no message is shared by two clients and checks and deliveries do not
  overlap. The invariant `PageHeld`: while a check is between its answer and its delete, the
  page it is going to delete is the page it was given, and after the save every
  message of that page has a row or was handled or given up. `MailTypesHold` holds without
  these assumptions: the dates order the rows of each client.
* `HostAlwaysSound` (`HostSound`) and `HostTypeCorrect`, for any number of calls, guests, tokens,
  buffers and times. `HostInv` adds to the four parts of `HostSound` what holds between the steps
  of a handler: `Buffered`, the buffer a call has from the pool holds its body until it is given
  back, and so is in nobody else's hands; `Shaped`, which steps a kind of call may be at;
  `Registering`, a token in the table was made by somebody, and so was the one that a
  registration under way has checked, even if it is removed by now; `Leaving`, what a
  deregistration has removed is gone, unless another call of that guest wrote it again
  (`smudges`); `Uploading`, the files an upload is done with are pinned.

`NodeProofs`, one node:

* `ShutdownAlwaysSafe` (`ShutdownSafe`) by `LifecycleSafe`, whose invariant says who holds
  each mutex at each place of `Start`, `Stop`, the job loops and the tails, and that who found the
  node open holds a lock that `Stop` needs. Nothing of the kind is said of an account sync, which
  has no lock.
* `SyncGroupAlwaysEnds` (`SyncGroupEnds`) by `RqInvariant`. `ReportPlace` and `SomeoneTells` say
  who of several overlapping reports will notice that the group is over: the last one to
  read finds no row left, since the rows of the others were written before. It is
  assumed that each sync group has a request; an empty one would be over without a report.
* `SetupAlwaysSound` (`SetupSound`) and `SetupTypeCorrect`, for any scenario of `InitRepo`,
  starts and configuration calls, with crashes between any two statements. `SetInv` says
  what `InitRepo` has made of the files, tables and version at each step (`Progress`); what
  a step of the start relies on, and that the configuration is written by others only while
  the node is up (`Places`); what a repository has whose making was not cut short
  (`Unharmed`): seed, owner, tables and a version, and a configuration that can be read
  unless a request is just writing it; and that without any mark the account thread is
  joined and told to everybody between two starts (`Ready`).
* `FilesAlwaysRight` (`FilesRight`) and `FilesTypeCorrect`, for any goroutines, files, links
  and rows that come from others. The first two parts of `FiInv` are about `schema.Steps`:
  `Ordered`, the steps have no link twice and none before the one it uses; `Counted`, if the
  links can be put in an order then each round has placed one or still will, whichever order
  the map gives them in (`SomePlaceable`: of the links without a place, one of the lowest
  rank can have it), so that the rounds do not run out; conversely the steps found are an
  order (`OrderSolves`). `FilesMade` says that every row is what its mill makes of its
  source with its options, which is why a file may be recognised by either of them;
  `Working` says what a goroutine has in hand at each step of `AddFileIndex`, and `DirRight`
  is `DirectoryRight` with the original that each content is of. `Undisturbed` is the reason
  for `FailsForReason`: the rows of a file that only one goroutine works on are neither
  added by others nor removed, until that goroutine has posted them. It is assumed
  (`FileIndexAssumption`, `IsParcel`) that a schema has finitely many links and at least
  one, and that the rows which others send were made by `AddFileIndex` on their nodes.
  `Rejected` is a content of no width, so that no mill makes it.

`PeerStreamProofs`: `StreamsAlwaysSound` (`StreamsSound`) by `StreamsInvariant`. An answer is
known only by its place in the stream, so `PsInv` says what may be under way: one request at
most (`OneInFlight`), of the call that holds the lock (`OwnStream`), and nothing on a stream
that a time-out has closed (`OutOfMap`, `Exchange`); `OnceEach` counts how often it was served.

It has Search too: `SearchLosesNothing` (`NewestArrives`) and `SearchTypeCorrect`, for any
plans, sources, answers and orders. What arrives may come from another source than the
one whose answer it replaces, so `SearchInv` follows the result set: for every date in it a
result with that id, as new, is on its way or was received (`SetCarried`); what was read from a
source is in the set, or something as new (`ReadInOrder`, `ReadFound`); and the channel of the
merged results is closed only when no goroutine has anything left for it (`Closing`). At the end
nothing is on its way, which leaves what was received. It is assumed that the own index holds
finitely many rows (`SearchAssumption`), so that one of those with an id is the newest.

`BroadcastProofs`: `BcInv` is `BcTypeOK`; `DoneInv`, which ties the state of the caller, of its
timer and of the timer goroutine to how often the done channel was closed; and `AckInv`: an
answer that is being sent, is in a buffer of anybody or has made a call return was given
by the recipient to that very call. From it `ClosedOnce` (`DoneOnce`) and `AckedOnly`
(`OnlyAcked`), for any number of calls, buffers and answers.

`BroadcastProofs` has Events too: `EventsAlwaysSound` (`EventsSound`) and `EventsTypeCorrect`,
by `EventsInv`, for any happenings, watchers, room and number of starts. `EventsSound` says
what was heard, which no step can keep without what is still on its way. So `Placed` and
`Came` say that what was sent to the application is told, in a reader's hand or in its
channel, and in one place only; `Dispatched`, that it was sent once and by a sender that is
done or has the broadcaster; `InTurn`, that with one set of readers these places are, one
after the other, a cut of the order it was sent in (with two sets, after a phone's second
start, this fails, and `InOrder` does not claim it). `Attended` is the reason why nothing is
lost that comes while the node starts: the application listens first. `Sending` says that
who has the broadcaster was the last to send, so that a listener lacks at most that event:
`Served` puts a border (`Seen`) into what was sent, before which a watcher has gone through
everything and behind which its queue follows, place by place. `Paged` says that until its
end a reader of pages has what is not older than the row it goes on from, unless two dates
are equal or that row was deleted. Assumed (`EventsAssumption`): a channel has room for at
least one, the number of starts is bounded by a natural number, the ways of the behaviours
are of the type `Way`, and the names of happenings, readers and watchers are distinct.

`SharingProofs` has Contacts: `CardsAlwaysSettle` (`CardsSettle`) and `ContactsTypeCorrect`, by
`ConInv`, for any persons, devices, clocks and changes, however quick. `NewestKept` needs `Coming`:
who has not the card is told it by a message that it will not take for an older one
(`DatedRows`), or a handler has it in hand; and `Latest`: what is on its way is the card as it is,
unless the two met (`overlap`), so that no handler has an older one in hand. `EchoesEnd` cannot be proved of a device by itself, since each
announcement makes others announce. `Rounds` therefore counts for all devices at once: where
S is the set of those that have the card, what they have made or are about to make is
fewer than the subsets of S; who has it not is told by its person and once by each of
these announcements (`Bounded`). When a device is added to S both sides at most double, which
is the induction, and why the bound is a power of two. The count was found by the
proof: `EchoesEnd` had the number of devices as its bound, which holds for two of them
and fails for three. Assumed (`ContactsAssumption`): there are finitely many devices and no
clock is behind by `LongAgo` or more, so that no row looks as old as none.

Only model-checked: the liveness properties (fairness and ENABLED are out of the prover's
reach), the properties of `Feed`, `Migrations` and `Keys`, whose behaviours are finite in each
scenario, and `UserFits`, which sorts and folds sequences.

## 6. Where the code surprises

Besides the violation runs, the models keep these behaviours of the code on record. Each is
a step that the module has, and an exception that a property names.

*Threads.* A block may be held back for ever if its download is given up. `RemoveThread`
calls that overlap drop a wrong thread from the loaded list; an invite accepted while its
thread is being removed leaves a row that is loaded only at the next start; a LEAVE
deletes all notifications of the peer, those of other threads included. A member's file with the
same mill and checksum but another key conflicts with a row (`core/thread_files.go:185`): the
handler then finds no row for it, fails, and the block is not shown (`LostToCopy`). A removal that
meets such a block stops half way, and may delete the row of a file that is just
being prepared. `AddFiles` does not pin the data
node, which `AddNodeFromFiles` did (`core/files.go:177`): if meanwhile the only other block
with that data was ignored, the node stays unpinned although the block shows it
(`ThreadFiles`, `unpinned`). `core/files.go:110` ends without file and error when it loses a
race over encrypted content.
`addPeer` dates a card by the local clock: a second change made before the first is handled is
older than the row of the first, and is dropped (`overlap`); a contact added again is newest by
date and its name may replace that of another peer on this device alone. Devices of an account announce to
each other what is new to them, and a device that gets a card over several others before its
first handler has stored it announces it again for each: up to twice
as many with every further device of the account.

*Cafes.* A block added while a cafe is registered may never be stored there. No message may
be shared by two clients, since `DeleteByClient` chooses ids of one client but deletes every
row that has such an id (`repo/db/cafe_client_messages.go:78`); a delete that is sent again
after it was executed removes a second page (`service/sender.go:171`). Types of a batch are
sent in map order, which may swap UNSTORE_THREAD and STORE_THREAD; a request given up after
its attempts leaves a stale snapshot, and a result of a sync that is applied to a thread which
is being removed leaves a JOIN that keeps the thread from being joined and stored when it is
restored again. What is written for a client while it deregisters
stays behind, sessions outlive deregistration and the removal of a token, and files of a
store that fails later stay pinned.

*The node.* An invite decided between its row and its notification has no user and
`cmd/daemon.go:177` then reads through a nil pointer. A send on an event channel after
`stopNode` panics. The observer's documented filter "FILES|COMMENTS|LIKES" matches neither
comments nor likes, whose types are named in the singular (`core/api_observe.go:20`). `Stop` closes the
datastore without waiting for the goroutine of an account sync, which goes on to apply
snapshots (`core/core.go:466`). A search waits for ever for a cafe that goes silent
(`service/service.go:162`), and a call for a peer that does not read (`service/sender.go:195`). An
observer that leaves while a `Send` waits for its full listener blocks the broadcaster
(`BcFull`).

*Set-up.* `InitRepo` is not atomic and refuses to repair what it left; two writes of the
configuration at a time can leave a file that no node reads; a crash between the row and the
JOIN of the account thread leaves a thread in which nothing else can be posted; when
`addAccountThread` fails, `started` is already set. A migration that dies between its statement
and the version file repeats the statement on a table that has it and fails.

*Keys.* `IsValidPath` takes segments from 2^31 on whose derivation then fails; an account index
of 2^32 and more is that of a small one; `Parse` does not look at the size, so that a short
seed is accepted and panics when its key is made, and an address is filled up or cut.

## 7. Plan

1. UNSTORE and the thread requests through the batches of `Outbound` (they are in `Backups`).
2. A composition of `ThreadSync`, `Outbound` and `CafeMailbox`: from an authored block to a
   handled one at a member that was offline.
3. Proofs: `FeedComplete`, `UpgradeSafe`, and the type invariants of the modules that have no
   theorem yet.
4. The pubsub side of `service/service.go` (`listen`) with the searches that use it.
5. Names and announcements of threads in `Membership`.

## 8. Not modelled

HTTP routes, the command line and the mobile wrappers, apart from the state they keep or
race on (parsing and formatting); generated protocol buffers and API documentation
(`pb/*.pb.go`, `docs/`), a quarter of the lines; the pixels of the mills; symmetric
encryption; the IPFS node, libp2p, the gateway and the helpers in `ipfs/` (external: content
is fetched or not, a request is answered, lost or retried). `components` in `PROJECT.json`
lists each with its reason.
