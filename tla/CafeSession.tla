---------------------------- MODULE CafeSession ----------------------------
(***************************************************************************)
(* A node and one cafe: registration with a challenge, the session with    *)
(* its access and refresh tokens, and the requests that need it            *)
(* (core/cafe_service.go, core/cafes.go, jwt/session.go and the tables     *)
(* they keep).  On the node the user, the flush of the cafe outbox and the *)
(* check of the inbox run at the same time and share the stored session.   *)
(*                                                                         *)
(* A session is named by the time it was issued.  Time is counted in       *)
(* session durations: an access token lives one, its refresh token two.    *)
(* Requests time out after seconds, so a call sees time advance at most    *)
(* once.                                                                   *)
(***************************************************************************)
EXTENDS Integers, FiniteSets

CONSTANTS
    Workers,    \* goroutines of the node that call the cafe
    Objects,    \* content the node wants stored
    MaxTime,    \* bound: how long time is followed
    MaxNonce,   \* bound: challenges given out
    Visits      \* what may happen in a behaviour: see Visit

\* work: what the outbox and the inbox have to do; others: another client of
\* the cafe may unstore the same content; closes: the cafe may be closed;
\* loses: answers may be lost.
Work == {"store", "unstore", "thread", "unthread", "check", "publish"}
Visit == [work : SUBSET Work, others : BOOLEAN, closes : BOOLEAN, loses : BOOLEAN]

ASSUME CafeSessionAssumption ==
    /\ MaxTime \in Nat /\ MaxNonce \in Nat /\ Visits \subseteq Visit

NoSession == -1
SessionId == 0..MaxTime
Attempt == 1..2     \* SendRequest sends a message again once

VARIABLES
    visit,      \* chosen once: see Visits
    clock,
    cafeOpen,   \* the cafe takes clients
    devToken,   \* cafe_tokens has the token the node registers with
    nonces,     \* cafe_client_nonces
    given,      \* how many challenges were given out
    client,     \* the node is in cafe_clients
    snapshot,   \* cafe_client_threads has a row of the node
    indexed,    \* the cafe's peers table has the node
    pinned,     \* what the cafe has pinned
    held,       \* cafe_sessions on the node
    newest,     \* the newest session the node stored since it has one
    chores,       \* work that is not done
    at,         \* where each worker is
    job,        \* what it is doing
    tok,        \* the session it uses
    begun,      \* when its call began
    need,       \* objects it has still to send
    regs,        \* the handler of each attempt to register, and its session
    regNonce,   \* the nonce being answered
    told,       \* objects the outbox was told are stored
    taken       \* objects that another client unstored

sessVars == <<visit, clock, cafeOpen, devToken, nonces, given, client, snapshot, indexed,
              pinned, held, newest, chores, at, job, tok, begun, need, regs,
              regNonce, told, taken>>

cafeSide == <<cafeOpen, devToken, nonces, given, client, snapshot, indexed, pinned, taken>>
nodeSide == <<held, newest, chores, told>>
callSide == <<at, job, tok, begun, need>>
regSide == <<regs, regNonce>>

Places == {"idle", "sent", "denied", "renewed", "resent", "objects", "refused",
           "challenged", "registering", "leaving", "refreshing"}
NoReg == [at |-> "none", tok |-> NoSession]

SessTypeOK ==
    /\ visit \in Visit /\ clock \in SessionId /\ {cafeOpen, devToken} \subseteq BOOLEAN
    /\ nonces \subseteq 1..MaxNonce /\ given \in 0..MaxNonce
    /\ {client, snapshot, indexed} \subseteq BOOLEAN
    /\ pinned \subseteq Objects /\ told \subseteq Objects /\ taken \subseteq Objects
    /\ held \in SessionId \cup {NoSession} /\ newest \in SessionId \cup {NoSession}
    /\ chores \subseteq Work
    /\ at \in [Workers -> Places]
    /\ job \in [Workers -> Work \cup {"none", "user"}]
    /\ tok \in [Workers -> SessionId \cup {NoSession}]
    /\ begun \in [Workers -> SessionId]
    /\ need \in [Workers -> SUBSET Objects]
    /\ regs \in [Attempt -> [at : {"none", "sent", "checked", "added", "answered", "refused"},
                            tok : SessionId \cup {NoSession}]]
    /\ regNonce \in 0..MaxNonce

SessInit ==
    /\ visit \in Visits
    /\ clock = 0 /\ cafeOpen = TRUE /\ devToken = TRUE
    /\ nonces = {} /\ given = 0
    /\ client = FALSE /\ snapshot = FALSE /\ indexed = FALSE
    /\ pinned = {} /\ held = NoSession /\ newest = NoSession
    /\ chores = visit.work
    /\ at = [w \in Workers |-> "idle"]
    /\ job = [w \in Workers |-> "none"]
    /\ tok = [w \in Workers |-> NoSession]
    /\ begun = [w \in Workers |-> 0]
    /\ need = [w \in Workers |-> {}]
    /\ regs = [k \in Attempt |-> NoReg] /\ regNonce = 0
    /\ told = {} /\ taken = {}

\* jwt.Validate, for the access and for the refresh token of a session.
AccessValid(s) == clock <= s + 1
RefreshValid(s) == clock <= s + 2

\* A call is seconds, a duration weeks: nobody is two durations in a call.
Tick ==
    /\ clock < MaxTime
    /\ \A w \in Workers : at[w] \in {"idle", "refused"} \/ begun[w] = clock
    /\ clock' = clock + 1
    /\ UNCHANGED <<visit, cafeSide, nodeSide, callSide, regSide>>

Go(w, where) == at' = [at EXCEPT ![w] = where]

\* A call returns: what it kept is gone.
Over(w) ==
    /\ Go(w, "idle")
    /\ job' = [job EXCEPT ![w] = "none"]
    /\ tok' = [tok EXCEPT ![w] = NoSession]
    /\ begun' = [begun EXCEPT ![w] = 0]
    /\ need' = [need EXCEPT ![w] = {}]

\* Mutant: a session that is there is not replaced.
SaveSessionOnce(s) ==
    /\ held' = IF held = NoSession THEN s ELSE held
    /\ newest' = IF s > newest THEN s ELSE newest

\* CafeSessions.AddOrUpdate.
SaveSession(s) ==
    /\ held' = s
    /\ newest' = IF s > newest THEN s ELSE newest

-----------------------------------------------------------------------------
\* RegisterCafe: a session that exists is returned as it is.  Otherwise the
\* cafe is asked for a challenge, and stores a nonce for it.
Challenge(w) ==
    /\ at[w] = "idle" /\ held = NoSession /\ given < MaxNonce
    /\ \A v \in Workers : job[v] # "user"
    /\ \A k \in Attempt : regs[k].at \notin {"sent", "checked", "added"}
    /\ given' = given + 1
    /\ nonces' = nonces \cup {given'}
    /\ regNonce' = given' /\ regs' = [k \in Attempt |-> NoReg]
    /\ Go(w, "challenged")
    /\ job' = [job EXCEPT ![w] = "user"]
    /\ begun' = [begun EXCEPT ![w] = clock]
    /\ UNCHANGED <<visit, clock, cafeOpen, devToken, client, snapshot, indexed, pinned,
                   taken, nodeSide, tok, need>>

\* The signed answer to the challenge is sent, and once more when no answer
\* is read in time; the first handler may still be running.
Answer(w, k) ==
    /\ at[w] = IF k = 1 THEN "challenged" ELSE "registering"
    /\ k = 2 => visit.loses
    /\ regs[k].at = "none"
    /\ regs' = [regs EXCEPT ![k].at = "sent"]
    /\ Go(w, "registering")
    /\ UNCHANGED <<visit, clock, cafeSide, nodeSide, job, tok, begun, need, regNonce>>

\* handleRegistration: closed, or the token or the nonce is not known.
RegisterRefuse(k) ==
    /\ regs[k].at = "sent" /\ (~cafeOpen \/ ~devToken \/ regNonce \notin nonces)
    /\ regs' = [regs EXCEPT ![k].at = "refused"]
    /\ UNCHANGED <<visit, clock, cafeSide, nodeSide, callSide, regNonce>>

\* It has read the token and the nonce.
RegisterCheck(k) ==
    /\ regs[k].at = "sent" /\ cafeOpen /\ devToken /\ regNonce \in nonces
    /\ regs' = [regs EXCEPT ![k].at = "checked"]
    /\ UNCHANGED <<visit, clock, cafeSide, nodeSide, callSide, regNonce>>

\* The client is added, or found to exist, and a session is made.
RegisterClient(k) ==
    /\ regs[k].at = "checked"
    /\ client' = TRUE
    /\ regs' = [regs EXCEPT ![k] = [at |-> "added", tok |-> clock]]
    /\ UNCHANGED <<visit, clock, cafeOpen, devToken, nonces, given, snapshot, indexed,
                   pinned, taken, nodeSide, callSide, regNonce>>

\* Mutant: the nonce stays.
RegisterAnswerKept(k) ==
    /\ regs[k].at = "added"
    /\ regs' = [regs EXCEPT ![k].at = "answered"]
    /\ UNCHANGED <<visit, clock, cafeSide, nodeSide, callSide, regNonce>>

\* The nonce is deleted and the session sent.
RegisterAnswer(k) ==
    /\ regs[k].at = "added"
    /\ nonces' = nonces \ {regNonce}
    /\ regs' = [regs EXCEPT ![k].at = "answered"]
    /\ UNCHANGED <<visit, clock, cafeOpen, devToken, given, client, snapshot, indexed,
                   pinned, taken, nodeSide, callSide, regNonce>>

\* Register stores the session, or returns the error; the answer that counts
\* is the one to the last attempt.
RegisterDone(w, k) ==
    /\ at[w] = "registering" /\ regs[k].at \in {"answered", "refused"}
    /\ k = 1 => regs[2].at = "none"
    /\ IF regs[k].at = "answered" THEN SaveSession(regs[k].tok) ELSE UNCHANGED <<held, newest>>
    /\ Over(w)
    /\ UNCHANGED <<visit, clock, cafeSide, chores, told, regSide>>

\* DeregisterCafe: the requests of the cafe go first, the session next.  The
\* cafe is not told.
DeregisterRequests(w) ==
    /\ at[w] = "idle" /\ held # NoSession
    /\ \A v \in Workers : job[v] # "user"
    /\ chores' = {} /\ Go(w, "leaving")
    /\ job' = [job EXCEPT ![w] = "user"]
    /\ begun' = [begun EXCEPT ![w] = clock]
    /\ UNCHANGED <<visit, clock, cafeSide, held, newest, told, tok, need, regSide>>

DeregisterDelete(w) ==
    /\ at[w] = "leaving"
    /\ held' = NoSession /\ newest' = NoSession
    /\ Over(w)
    /\ UNCHANGED <<visit, clock, cafeSide, chores, told, regSide>>

\* RefreshCafeSession: the refresh that sendCafeRequest makes on its own.
UserRefresh(w) ==
    /\ at[w] = "idle" /\ held # NoSession
    /\ \A v \in Workers : job[v] # "user"
    /\ Go(w, "denied")
    /\ job' = [job EXCEPT ![w] = "user"]
    /\ tok' = [tok EXCEPT ![w] = held]
    /\ begun' = [begun EXCEPT ![w] = clock]
    /\ UNCHANGED <<visit, clock, cafeSide, nodeSide, need, regSide>>

-----------------------------------------------------------------------------
\* sendCafeRequest reads the session and sends the request with it.
SendRequest(w, j) ==
    /\ at[w] = "idle" /\ held # NoSession /\ j \in chores
    /\ \A v \in Workers : job[v] # j
    /\ Go(w, "sent")
    /\ job' = [job EXCEPT ![w] = j]
    /\ tok' = [tok EXCEPT ![w] = held]
    /\ begun' = [begun EXCEPT ![w] = clock]
    /\ UNCHANGED <<visit, clock, cafeSide, nodeSide, need, regSide>>

\* The end of a request; d is the work it completed.
Finish(w, d) == Over(w) /\ chores' = chores \ d

\* It goes on, and nothing is completed yet.
GoOn(w, where) == Go(w, where) /\ UNCHANGED <<job, tok, begun, chores>>

\* handleStore: authToken, then the objects that are not pinned are asked for.
HandleStore(w) ==
    /\ job[w] = "store"
    /\ told' = told \cup (Objects \cap pinned)
    /\ IF Objects \subseteq pinned
       THEN Finish(w, {"store"})
       ELSE GoOn(w, "objects") /\ need' = [need EXCEPT ![w] = Objects \ pinned]
    /\ UNCHANGED <<client, snapshot, indexed, pinned>>

\* handleUnstore answers with what it did unpin, and unstore reports only
\* that: a request for content the cafe did not have stays where it is.
HandleUnstore(w) ==
    /\ job[w] = "unstore"
    /\ pinned' = pinned \ Objects /\ told' = told \ Objects
    /\ Finish(w, IF pinned \cap Objects = {} THEN {} ELSE {"unstore"})
    /\ UNCHANGED <<client, snapshot, indexed>>

\* handleStoreThread, handleUnstoreThread, handlePublishPeer and
\* handleCheckMessages want the row of the client.
HandleClient(w) ==
    /\ job[w] \in {"thread", "unthread", "publish", "check"}
    /\ IF client
       THEN /\ snapshot' = IF job[w] = "thread" THEN TRUE
                           ELSE IF job[w] = "unthread" THEN FALSE ELSE snapshot
            /\ indexed' = (indexed \/ job[w] = "publish")
            /\ Finish(w, {job[w]})
       ELSE GoOn(w, "refused") /\ UNCHANGED <<snapshot, indexed, need>>
    /\ UNCHANGED <<client, pinned, told>>

\* The cafe handles a request; with a token that is out of time it answers
\* 401, to the second try as well.
Handle(w) ==
    /\ at[w] \in {"sent", "resent"}
    /\ IF AccessValid(tok[w])
       THEN HandleStore(w) \/ HandleUnstore(w) \/ HandleClient(w)
       ELSE /\ GoOn(w, IF at[w] = "sent" THEN "denied" ELSE "refused")
            /\ UNCHANGED <<client, snapshot, indexed, pinned, told, need>>
    /\ UNCHANGED <<visit, clock, cafeOpen, devToken, nonces, given, taken, held, newest, regSide>>

\* handleRefreshSession: a new session, unless the cafe is closed or the
\* refresh token is out of time too.
HandleRefresh(w) ==
    /\ at[w] = "denied"
    /\ IF cafeOpen /\ RefreshValid(tok[w])
       THEN tok' = [tok EXCEPT ![w] = clock] /\ Go(w, "renewed")
       ELSE Go(w, "refused") /\ tok' = tok
    /\ UNCHANGED <<visit, clock, cafeSide, nodeSide, job, begun, need, regSide>>

\* refresh stores the session, over whatever is stored by now, and the
\* request is sent again with it.
Refreshed(w) ==
    /\ at[w] = "renewed"
    /\ SaveSession(tok[w])
    /\ IF job[w] = "user"
       THEN Finish(w, {})
       ELSE GoOn(w, "resent") /\ need' = need
    /\ UNCHANGED <<visit, clock, cafeSide, told, regSide>>

\* sendObject and handleObject, one after the other for what the cafe needs.
\* The token is the one of the store request, and is not refreshed.
HandleObject(w, o) ==
    /\ at[w] = "objects" /\ o \in need[w]
    /\ IF ~AccessValid(tok[w]) THEN GoOn(w, "refused") /\ UNCHANGED <<pinned, need, told>>
       ELSE /\ pinned' = pinned \cup {o} /\ told' = told \cup {o}
            /\ IF need[w] = {o} THEN Finish(w, {"store"})
               ELSE GoOn(w, "objects") /\ need' = [need EXCEPT ![w] = @ \ {o}]
    /\ UNCHANGED <<visit, clock, cafeOpen, devToken, nonces, given, client, snapshot, indexed,
                   taken, held, newest, regSide>>

\* An error is reported; the work stays for another flush.
Refused(w) ==
    /\ at[w] = "refused"
    /\ Over(w)
    /\ UNCHANGED <<visit, clock, cafeSide, nodeSide, regSide>>

\* A request or its answer is lost for good.
CallLost(w) ==
    /\ visit.loses /\ at[w] \in {"sent", "denied", "renewed", "resent", "objects", "challenged", "registering"}
    /\ Over(w)
    /\ UNCHANGED <<visit, clock, cafeSide, nodeSide, regSide>>

\* Pins are not counted by client: another one may unstore the same content.
OtherUnstores(o) ==
    /\ visit.others /\ o \in pinned
    /\ pinned' = pinned \ {o} /\ taken' = taken \cup {o}
    /\ UNCHANGED <<visit, clock, cafeOpen, devToken, nonces, given, client, snapshot, indexed,
                   nodeSide, callSide, regSide>>

\* The cafe is started again without its open flag.
CafeCloses ==
    /\ visit.closes /\ cafeOpen
    /\ cafeOpen' = FALSE
    /\ UNCHANGED <<visit, clock, devToken, nonces, given, client, snapshot, indexed, pinned,
                   taken, nodeSide, callSide, regSide>>

\* RemoveCafeToken: nobody registers with it any more; sessions go on.
RemoveToken ==
    /\ visit.closes /\ devToken
    /\ devToken' = FALSE
    /\ UNCHANGED <<visit, clock, cafeOpen, nonces, given, client, snapshot, indexed,
                   pinned, taken, nodeSide, callSide, regSide>>

UserCall(w) ==
    \/ Challenge(w) \/ (\E k \in Attempt : Answer(w, k) \/ RegisterDone(w, k))
    \/ DeregisterRequests(w) \/ DeregisterDelete(w) \/ UserRefresh(w)

Request(w) ==
    \/ \E j \in Work : SendRequest(w, j)
    \/ Handle(w) \/ HandleRefresh(w) \/ Refreshed(w) \/ Refused(w) \/ CallLost(w)
    \/ \E o \in Objects : HandleObject(w, o)

SessNext ==
    \/ \E w \in Workers : UserCall(w) \/ Request(w)
    \/ \E k \in Attempt : RegisterRefuse(k) \/ RegisterCheck(k) \/ RegisterClient(k) \/ RegisterAnswer(k)
    \/ \E o \in Objects : OtherUnstores(o)
    \/ Tick \/ CafeCloses \/ RemoveToken

SessSpec == SessInit /\ [][SessNext]_sessVars

-----------------------------------------------------------------------------
\* A node that holds a session is a client of the cafe: it was given the
\* session after its row was written, on every path through handleRegistration,
\* a second attempt that overlaps the first one included.
SessionBacked == held # NoSession => client

\* A challenge answered once is used up: an attempt to register that reads
\* the nonce does so before any handler has answered with a session for it.
NonceUsedUp ==
    [][\A k \in Attempt : regs[k].at = "sent" /\ regs'[k].at = "checked" =>
            \A m \in Attempt : regs[m].at # "answered"]_sessVars

\* A call is refused only by a closed cafe, or with a session that is past
\* refreshing, or, in the middle of a store, because the token that was good
\* for the request is not renewed for its objects: refreshing at the same time
\* elsewhere costs nobody its session, and one retry is enough.
RefusedLate ==
    \A w \in Workers : at[w] = "refused" =>
        ~cafeOpen \/ clock > tok[w] + 2 \/ (job[w] = "store" /\ need[w] # {})

\* Refreshes that overlap store their sessions in any order, and an older one
\* may replace a newer one, but never by more than the duration that the
\* refresh token outlives the access token: the node is not locked out.
NotLockedOut == held # NoSession => newest <= held + 1

\* What the outbox was told is stored is pinned by the cafe, unless another
\* client has unstored the same content.
StoredIsPinned == told \subseteq pinned \cup taken

\* A session that a node holds is good for something: the cafe knows the
\* client, the session can still be refreshed, and calls with it are served;
\* and what the cafe said it stored with it is stored.
SessionGood == SessionBacked /\ NotLockedOut /\ RefusedLate /\ StoredIsPinned
=============================================================================
