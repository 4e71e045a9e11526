------------------------------ MODULE CafeHost ------------------------------
(***************************************************************************)
(* The side of a cafe that several clients meet at the same time: the      *)
(* tokens its operator makes (core/tokens.go), registration,               *)
(* deregistration and refresh (core/cafe_service.go), the JSON web tokens  *)
(* (jwt/), and the HTTP entry points of phones (core/cafe_api*.go), whose  *)
(* handlers share buffers.                                                 *)
(*                                                                         *)
(* A body is named by the call that carries it, and a session by its       *)
(* number in issued.  CafeSession has the client's side of a session.      *)
(***************************************************************************)
EXTENDS Naturals, FiniteSets, SequencesExt

CONSTANTS
    Guests,       \* peers that call the cafe; "admin" is its operator
    Shelves,      \* ids of threads that guests store
    Parts,        \* files that they upload
    TokenIds, Secrets,    \* the two halves of a dev token
    Calls,        \* names of calls
    Buffers,      \* what bodyPool may hold
    Plots,        \* what may happen in a behaviour: see Plot
    MaxHour       \* bound: how long time is followed, in session durations

CallKinds == {"create", "validate", "remove", "register", "deregister", "refresh", "pin",
          "store", "unstore", "storeThread", "unstoreThread", "deliver", "search", "off"}

\* dev: the dev token; kept: create stores it; shows: which bearer token;
\* parts: files in a form, or entries in an archive, "bad" for what cannot be
\* read, "dir" for a directory, which only an archive has; after: calls that
\* are answered before.
AnyCall == [kind : CallKinds, by : Guests \cup {"admin"}, http : BOOLEAN,
         dev : [id : TokenIds, secret : Secrets \cup {"hash"}], kept : BOOLEAN,
         shows : {"own", "none", "refresh", "foreign", "protocol", "mixed"},
         shelf : Shelves, to : Guests, parts : Seq(Parts \cup {"bad", "dir"}),
         good : BOOLEAN, after : SUBSET Calls]
Call == {c \in AnyCall :
    /\ c.by = "admin" => c.kind \in {"create", "validate", "remove", "off"}
    /\ c.kind # "pin" => "dir" \notin ToSet(c.parts)
    /\ c.kind = "unstore" => c.parts # <<>>}
Plot == [Calls -> Call]

\* A file is no message, and the words for nothing are no names.
ASSUME CafeHostAssumption ==
    /\ MaxHour \in Nat /\ Plots \subseteq Plot
    /\ Calls \cap (Parts \cup {"none", "bad", "dir"}) = {} /\ {"bad", "dir"} \cap Parts = {}
    /\ "none" \notin TokenIds \cup Secrets \cup Buffers

VARIABLES
    plot,         \* chosen once
    hour,
    tokenRows,    \* cafe_tokens: the secret whose hash is kept, or "none"
    nonceRows,    \* cafe_client_nonces: guests with an open challenge
    clientRows,   \* cafe_clients: the id of the token, or "none"
    threadRows,   \* cafe_client_threads: the body, by guest and thread
    inboxRows,    \* cafe_client_messages
    pins,         \* what is pinned
    issued,       \* sessions: the subject, and when
    purse,        \* sessions of each guest, oldest first
    stage,        \* where the handler of each call is
    reply,        \* the status it answered, 0 for none
    reads,        \* files it is done with
    buffer,       \* the buffer it has
    text,         \* what is in each buffer
    query,        \* the goroutine behind a search
    gone,         \* searches whose caller went away
    admitted,     \* who has registered, by the token
    smudges         \* rows left behind, files another guest unstored

hostRows == <<tokenRows, nonceRows, clientRows, threadRows, inboxRows, pins>>
hostCalls == <<stage, reply, reads, buffer, text>>
hostSearch == <<query, gone>>
hostVars == <<plot, hour, hostRows, issued, purse, hostCalls, hostSearch, admitted, smudges>>

NoCall == "none"
Stages == {"none", "authorized", "body", "found", "read", "deregistering", "forgetting",
           "admitting", "added", "streaming", "cancelled", "done", "over"}

\* The tables, by what their primary keys make of the statements on them: an
\* insert of a token, a nonce or a client fails when the key is there; a
\* thread or a message is replaced; a delete names the whole key, or for a
\* client that leaves its part of it.
TokenTable == [TokenIds -> Secrets \cup {"none"}]
NonceTable == SUBSET Guests
ClientTable == [Guests -> TokenIds \cup {"none"}]
ThreadTable == [Guests \X Shelves -> Calls \cup {NoCall}]
InboxTable == SUBSET (Guests \X (Calls \cup {NoCall}))

HostTypeOK ==
    /\ plot \in Plots /\ hour \in 0..MaxHour
    /\ tokenRows \in TokenTable /\ nonceRows \in NonceTable /\ clientRows \in ClientTable
    /\ threadRows \in ThreadTable /\ inboxRows \in InboxTable
    /\ pins \subseteq Parts \cup Calls \cup {NoCall}
    /\ issued \in Seq([subject : Guests, at : 0..MaxHour])
    /\ purse \in [Guests -> Seq(DOMAIN issued)]
    /\ stage \in [Calls -> Stages] /\ reads \in [Calls -> Nat]
    /\ reply \in [Calls -> {0, 200, 201, 204, 400, 401, 403, 500}]
    /\ buffer \in [Calls -> Buffers \cup {"none"}] /\ text \in [Buffers -> Calls \cup {NoCall}]
    /\ query \in [Calls -> {"none", "searching", "sending", "over"}] /\ gone \subseteq Calls
    /\ admitted \subseteq Guests \X TokenIds
    /\ smudges \subseteq Guests \cup Parts \cup Calls \cup {NoCall}

HostInit ==
    /\ plot \in Plots /\ hour = 0
    /\ tokenRows = [i \in TokenIds |-> "none"] /\ nonceRows = Guests
    /\ clientRows = [g \in Guests |-> "none"]
    /\ threadRows = [r \in Guests \X Shelves |-> NoCall] /\ inboxRows = {} /\ pins = {}
    /\ issued = <<>> /\ purse = [g \in Guests |-> <<>>]
    /\ stage = [c \in Calls |-> "none"] /\ reply = [c \in Calls |-> 0]
    /\ reads = [c \in Calls |-> 0]
    /\ buffer = [c \in Calls |-> "none"] /\ text = [b \in Buffers |-> NoCall]
    /\ query = [c \in Calls |-> "none"] /\ gone = {} /\ admitted = {} /\ smudges = {}

KindOf(c) == plot[c].kind
By(c) == plot[c].by
MoveTo(c, s) == stage' = [stage EXCEPT ![c] = s]
\* The status goes out; the buffer is given back when the handler returns.
Reply(c, status) == MoveTo(c, "done") /\ reply' = [reply EXCEPT ![c] = status]
Started(c) == stage[c] = "none" /\ KindOf(c) # "off" /\ \A d \in plot[c].after : stage[d] = "over"

-----------------------------------------------------------------------------
(* Dev tokens.                                                               *)

\* CreateCafeToken: given or random, its hash is added under its id, which
\* must be new.
CreateCafeToken(c) ==
    LET t == plot[c].dev IN
    /\ Started(c) /\ KindOf(c) = "create" /\ t.secret # "hash"
    /\ IF plot[c].kept /\ tokenRows[t.id] # "none"
       THEN Reply(c, 400) /\ tokenRows' = tokenRows
       ELSE /\ Reply(c, 201)
            /\ tokenRows' = IF plot[c].kept THEN [tokenRows EXCEPT ![t.id] = t.secret] ELSE tokenRows
    /\ UNCHANGED <<plot, hour, nonceRows, clientRows, threadRows, inboxRows, pins, issued,
                   purse, reads, buffer, text, hostSearch, admitted, smudges>>

\* The row of the id, and the hash of the rest.  What CafeTokens lists is the
\* id and the hash, and does not match.
Matches(t) == tokenRows[t.id] # "none" /\ tokenRows[t.id] = t.secret

ValidateCafeToken(c) ==
    /\ Started(c) /\ KindOf(c) = "validate"
    /\ Reply(c, IF Matches(plot[c].dev) THEN 200 ELSE 401)
    /\ UNCHANGED <<plot, hour, hostRows, issued, purse, reads, buffer, text, hostSearch,
                   admitted, smudges>>

\* By the id alone.  Clients that registered with it stay.
RemoveCafeToken(c) ==
    /\ Started(c) /\ KindOf(c) = "remove" /\ Reply(c, 204)
    /\ tokenRows' = [tokenRows EXCEPT ![plot[c].dev.id] = "none"]
    /\ UNCHANGED <<plot, hour, nonceRows, clientRows, threadRows, inboxRows, pins, issued,
                   purse, reads, buffer, text, hostSearch, admitted, smudges>>

-----------------------------------------------------------------------------
(* JSON web tokens.                                                          *)

\* NewSession makes the two tokens of a session, for one protocol, signed by
\* the cafe.
NewSession(g) ==
    /\ issued' = Append(issued, [subject |-> g, at |-> hour])
    /\ purse' = [purse EXCEPT ![g] = Append(@, Len(issued'))]

Bearer(n, scope) ==
    [id |-> n, scope |-> scope, subject |-> issued[n].subject, signer |-> "cafe",
     audience |-> "cafe", exp |-> issued[n].at + IF scope = "access" THEN 1 ELSE 2]

\* What a caller shows: the token of its latest session that belongs there, or
\* another one.
Shown(c) ==
    LET n == Last(purse[By(c)])
        t == Bearer(n, IF plot[c].shows \in {"refresh", "mixed"} THEN "refresh" ELSE "access")
    IN  IF plot[c].shows = "foreign" THEN [t EXCEPT !.signer = "other"]
        ELSE IF plot[c].shows = "protocol" THEN [t EXCEPT !.audience = "threads"]
        ELSE t

\* Verify of SigningMethodEd25519, with the key of the cafe.
Verify(t) == t.signer = "cafe"

\* Validate, with the error it gives.
Validate(t, refreshing, subject) ==
    IF hour > t.exp THEN "expired"
    ELSE IF \/ ~Verify(t)
            \/ t.scope # IF refreshing THEN "refresh" ELSE "access"
            \/ subject # "any" /\ subject # t.subject
            \/ t.audience # "cafe"
         THEN "invalid"
         ELSE "ok"

HasToken(c) == plot[c].shows # "none" /\ purse[By(c)] # <<>>

\* The routes of the API, with validateToken in front of most: the caller is
\* whom the token names.
Authorize(c) ==
    /\ Started(c) /\ plot[c].http
    /\ KindOf(c) \in {"pin", "store", "unstore", "storeThread", "unstoreThread", "search"}
    /\ LET verdict == IF ~HasToken(c) THEN "none" ELSE Validate(Shown(c), FALSE, "any") IN
       IF verdict = "ok" THEN MoveTo(c, "authorized") /\ UNCHANGED reply
       ELSE Reply(c, IF verdict = "invalid" THEN 403 ELSE 401)
    /\ UNCHANGED <<plot, hour, hostRows, issued, purse, reads, buffer, text, hostSearch,
                   admitted, smudges>>

-----------------------------------------------------------------------------
(* Bodies.                                                                   *)

\* storeThread, unstoreThread and deliverMessage want the row of a client
\* first; a message for anybody else is dropped, and the sender not told.
FindClient(c) ==
    LET g == IF KindOf(c) = "deliver" THEN plot[c].to ELSE By(c) IN
    /\ \/ KindOf(c) \in {"storeThread", "unstoreThread"} /\ stage[c] = "authorized"
       \/ KindOf(c) = "deliver" /\ Started(c)
    /\ IF clientRows[g] # "none" THEN MoveTo(c, "found") /\ UNCHANGED reply
       ELSE Reply(c, IF KindOf(c) = "deliver" THEN 200 ELSE 403)
    /\ UNCHANGED <<plot, hour, hostRows, issued, purse, reads, buffer, text, hostSearch,
                   admitted, smudges>>

FreeBuffers == {b \in Buffers : \A c \in Calls : buffer[c] # b}

\* Mutant: the buffer is back in the pool as soon as it is read.
ReadBodyPut(c) ==
    /\ \/ KindOf(c) \in {"storeThread", "deliver"} /\ stage[c] = "found"
       \/ KindOf(c) = "search" /\ stage[c] = "authorized"
       \/ KindOf(c) \in {"register", "deregister", "refresh"} /\ plot[c].http /\ Started(c)
    /\ \E b \in Buffers :
        /\ buffer' = [buffer EXCEPT ![c] = b] /\ text' = [text EXCEPT ![b] = c]
    /\ MoveTo(c, "read") /\ UNCHANGED reply
    /\ UNCHANGED <<plot, hour, hostRows, issued, purse, reads, hostSearch, admitted, smudges>>

\* A buffer of the pool, one that nobody else has (they are alike), with the
\* body read into it.  Buffers bounds how many are in use.
\* service takes a message of the p2p protocol.
ReadBody(c) ==
    /\ \/ KindOf(c) \in {"storeThread", "deliver"} /\ stage[c] = "found"
       \/ KindOf(c) = "search" /\ stage[c] = "authorized"
       \/ KindOf(c) \in {"register", "deregister", "refresh"} /\ plot[c].http /\ Started(c)
    /\ FreeBuffers # {}
    /\ LET b == CHOOSE b \in FreeBuffers : TRUE IN
        /\ buffer' = [buffer EXCEPT ![c] = b] /\ text' = [text EXCEPT ![b] = c]
    /\ IF plot[c].good THEN MoveTo(c, "read") /\ UNCHANGED reply ELSE Reply(c, 400)
    /\ UNCHANGED <<plot, hour, hostRows, issued, purse, reads, hostSearch, admitted, smudges>>

\* The deferred call empties the buffer and gives it back.
GiveBack(c) ==
    /\ stage[c] = "done" /\ MoveTo(c, "over")
    /\ text' = IF buffer[c] = "none" THEN text ELSE [text EXCEPT ![buffer[c]] = NoCall]
    /\ buffer' = [buffer EXCEPT ![c] = "none"]
    /\ UNCHANGED <<plot, hour, hostRows, issued, purse, reply, reads, hostSearch, admitted, smudges>>

\* A row that is written for a guest whose deregistration has begun may stay.
LeftBehind(g) ==
    IF clientRows[g] = "none" \/ \E d \in Calls :
            KindOf(d) = "deregister" /\ By(d) = g /\ stage[d] \in {"deregistering", "forgetting"}
    THEN {g} ELSE {}

HostStoreThread(c) ==
    /\ KindOf(c) = "storeThread" /\ stage[c] = "read" /\ Reply(c, 204)
    /\ threadRows' = [threadRows EXCEPT ![<<By(c), plot[c].shelf>>] = text[buffer[c]]]
    /\ smudges' = smudges \cup LeftBehind(By(c))
    /\ UNCHANGED <<plot, hour, tokenRows, nonceRows, clientRows, inboxRows, pins, issued, purse,
                   reads, buffer, text, hostSearch, admitted>>

HostUnstoreThread(c) ==
    /\ KindOf(c) = "unstoreThread" /\ stage[c] = "found" /\ Reply(c, 204)
    /\ threadRows' = [threadRows EXCEPT ![<<By(c), plot[c].shelf>>] = NoCall]
    /\ UNCHANGED <<plot, hour, tokenRows, nonceRows, clientRows, inboxRows, pins, issued, purse,
                   reads, buffer, text, hostSearch, admitted, smudges>>

\* The parts of the message are pinned, then its envelope, then comes the row.
DeliverMessage(c) ==
    /\ KindOf(c) = "deliver" /\ stage[c] = "read" /\ Reply(c, 200)
    /\ pins' = pins \cup {text[buffer[c]]}
    /\ inboxRows' = inboxRows \cup {<<plot[c].to, text[buffer[c]]>>}
    /\ smudges' = smudges \cup LeftBehind(plot[c].to)
    /\ UNCHANGED <<plot, hour, tokenRows, nonceRows, clientRows, threadRows, issued, purse,
                   reads, buffer, text, hostSearch, admitted>>
-----------------------------------------------------------------------------
(* Files.                                                                    *)

\* store adds and pins one file after the other, as an object or else as
\* data, and stops at one it cannot read: those before it stay pinned.
StoreFile(c) ==
    LET i == reads[c] + 1
        f == plot[c].parts[i]
    IN
    /\ KindOf(c) = "store" /\ stage[c] = "authorized" /\ i <= Len(plot[c].parts)
    /\ reads' = [reads EXCEPT ![c] = i]
    /\ IF f = "bad" THEN Reply(c, 400) /\ pins' = pins
       ELSE pins' = pins \cup {f} /\ UNCHANGED <<stage, reply>>
    /\ UNCHANGED <<plot, hour, tokenRows, nonceRows, clientRows, threadRows, inboxRows, issued,
                   purse, buffer, text, hostSearch, admitted, smudges>>

StoredFiles(c) ==
    /\ KindOf(c) = "store" /\ stage[c] = "authorized" /\ reads[c] = Len(plot[c].parts)
    /\ Reply(c, 204)
    /\ UNCHANGED <<plot, hour, hostRows, issued, purse, reads, buffer, text, hostSearch,
                   admitted, smudges>>

\* unstore takes the pin, whoever asked for it.
UnstoreFile(c) ==
    LET f == plot[c].parts[1] IN
    /\ KindOf(c) = "unstore" /\ stage[c] = "authorized"
    /\ IF f = "bad" THEN Reply(c, 400) /\ UNCHANGED <<pins, smudges>>
       ELSE Reply(c, 204) /\ pins' = pins \ {f} /\ smudges' = smudges \cup {f}
    /\ UNCHANGED <<plot, hour, tokenRows, nonceRows, clientRows, threadRows, inboxRows, issued,
                   purse, reads, buffer, text, hostSearch, admitted>>

\* pin, for an archive: its files make up one directory, which is pinned as a
\* whole; a directory in it is refused.  Data by itself is an archive of one.
PinArchive(c) ==
    LET ps == plot[c].parts
        wrong == {i \in DOMAIN ps : ps[i] \in {"bad", "dir"}}
    IN
    /\ KindOf(c) = "pin" /\ stage[c] = "authorized"
    /\ IF ~plot[c].good THEN Reply(c, 400) /\ pins' = pins
       ELSE IF wrong = {} THEN Reply(c, 201) /\ pins' = pins \cup {c}
       ELSE LET first == CHOOSE i \in wrong : \A j \in wrong : i <= j IN
            Reply(c, IF ps[first] = "dir" THEN 400 ELSE 500) /\ pins' = pins
    /\ UNCHANGED <<plot, hour, tokenRows, nonceRows, clientRows, threadRows, inboxRows, issued,
                   purse, reads, buffer, text, hostSearch, admitted, smudges>>

-----------------------------------------------------------------------------
(* Messages of the cafe protocol, on a stream or through service.            *)

Called(c) == IF plot[c].http THEN stage[c] = "read" ELSE Started(c)

\* handleRegistration reads the token and the nonce.
CheckToken(c) ==
    /\ KindOf(c) = "register" /\ Called(c)
    /\ IF Matches(plot[c].dev) /\ By(c) \in nonceRows
       THEN MoveTo(c, "admitting") /\ UNCHANGED reply
       ELSE Reply(c, 403)
    /\ UNCHANGED <<plot, hour, hostRows, issued, purse, reads, buffer, text, hostSearch,
                   admitted, smudges>>

\* A guest that is a client keeps its row, with the token of its first time.
AddClient(c) ==
    /\ KindOf(c) = "register" /\ stage[c] = "admitting" /\ MoveTo(c, "added")
    /\ clientRows' = [clientRows EXCEPT ![By(c)] = IF @ = "none" THEN plot[c].dev.id ELSE @]
    /\ admitted' = admitted \cup {<<By(c), plot[c].dev.id>>}
    /\ UNCHANGED <<plot, hour, tokenRows, nonceRows, threadRows, inboxRows, pins, issued, purse,
                   reply, reads, buffer, text, hostSearch, smudges>>

OpenSession(c) ==
    /\ KindOf(c) = "register" /\ stage[c] = "added" /\ Reply(c, 200)
    /\ nonceRows' = nonceRows \ {By(c)} /\ NewSession(By(c))
    /\ UNCHANGED <<plot, hour, tokenRows, clientRows, threadRows, inboxRows, pins, reads,
                   buffer, text, hostSearch, admitted, smudges>>

\* handleDeregistration asks for no token: the threads go, then the messages,
\* then the client.
DeregisterThreads(c) ==
    /\ KindOf(c) = "deregister" /\ Called(c) /\ MoveTo(c, "deregistering")
    /\ threadRows' = [r \in DOMAIN threadRows |-> IF r[1] = By(c) THEN NoCall ELSE threadRows[r]]
    /\ UNCHANGED <<plot, hour, tokenRows, nonceRows, clientRows, inboxRows, pins, issued, purse,
                   reply, reads, buffer, text, hostSearch, admitted, smudges>>

DeregisterMessages(c) ==
    /\ KindOf(c) = "deregister" /\ stage[c] = "deregistering" /\ MoveTo(c, "forgetting")
    /\ inboxRows' = {m \in inboxRows : m[1] # By(c)}
    /\ UNCHANGED <<plot, hour, tokenRows, nonceRows, clientRows, threadRows, pins, issued, purse,
                   reply, reads, buffer, text, hostSearch, admitted, smudges>>

DeregisterClient(c) ==
    /\ KindOf(c) = "deregister" /\ stage[c] = "forgetting" /\ Reply(c, 200)
    /\ clientRows' = [clientRows EXCEPT ![By(c)] = "none"]
    /\ UNCHANGED <<plot, hour, tokenRows, nonceRows, threadRows, inboxRows, pins, issued, purse,
                   reads, buffer, text, hostSearch, admitted, smudges>>

\* handleRefreshSession: the refresh token is good, and the access token, in
\* time or not, is of the same session.  The row of the client is not asked for.
RefreshSession(c) ==
    LET mine == purse[By(c)]
        verdict == IF ~HasToken(c) THEN "none" ELSE Validate(Shown(c), TRUE, By(c))
        pair == plot[c].shows # "mixed" \/ Len(mine) = 1
    IN
    /\ KindOf(c) = "refresh" /\ Called(c)
    /\ IF verdict = "ok" /\ pair THEN Reply(c, 200) /\ NewSession(By(c))
       ELSE /\ Reply(c, IF verdict \in {"none", "expired"} THEN 401 ELSE 403)
            /\ UNCHANGED <<issued, purse>>
    /\ UNCHANGED <<plot, hour, hostRows, reads, buffer, text, hostSearch, admitted, smudges>>

-----------------------------------------------------------------------------
(* Searches: the handler copies what a goroutine of the service finds.       *)

searchRest == <<plot, hour, hostRows, issued, purse, reads, buffer, text, admitted, smudges>>

OpenSearch(c) ==
    /\ KindOf(c) = "search" /\ stage[c] = "read" /\ MoveTo(c, "streaming")
    /\ query' = [query EXCEPT ![c] = "searching"] /\ UNCHANGED <<reply, gone, searchRest>>

\* Its goroutine holds a result until the handler takes it.
QueryFinds(c) ==
    /\ query[c] = "searching" /\ query' = [query EXCEPT ![c] = "sending"]
    /\ UNCHANGED <<stage, reply, gone, searchRest>>

\* The time is over, or the search was cancelled.
QueryEnds(c) ==
    /\ query[c] = "searching" /\ query' = [query EXCEPT ![c] = "over"]
    /\ UNCHANGED <<stage, reply, gone, searchRest>>

StreamResult(c) ==
    /\ stage[c] \in {"streaming", "cancelled"} /\ query[c] = "sending"
    /\ \E more \in BOOLEAN : query' = [query EXCEPT ![c] = IF more THEN "searching" ELSE "over"]
    /\ UNCHANGED <<stage, reply, gone, searchRest>>

StreamEnds(c) ==
    /\ stage[c] \in {"streaming", "cancelled"} /\ query[c] = "over" /\ Reply(c, 200)
    /\ UNCHANGED <<hostSearch, searchRest>>

CallerLeaves(c) ==
    /\ stage[c] = "streaming" /\ c \notin gone /\ gone' = gone \cup {c}
    /\ UNCHANGED <<stage, reply, query, searchRest>>

\* The context of the request is done: the search is cancelled.  The handler
\* is asked again before the stream ends, and cancels twice: it panics.
CancelSearch(c) ==
    /\ c \in gone /\ stage[c] \in {"streaming", "cancelled"}
    /\ IF stage[c] = "streaming" THEN MoveTo(c, "cancelled") /\ UNCHANGED reply ELSE Reply(c, 500)
    /\ UNCHANGED <<hostSearch, searchRest>>

\* The stream ends; what the goroutine holds is never taken.
StreamGone(c) ==
    /\ c \in gone /\ stage[c] \in {"streaming", "cancelled"} /\ Reply(c, 200)
    /\ UNCHANGED <<hostSearch, searchRest>>

HourPasses ==
    /\ hour < MaxHour /\ hour' = hour + 1
    /\ UNCHANGED <<plot, hostRows, issued, purse, hostCalls, hostSearch, admitted, smudges>>

SearchStep(c) ==
    \/ OpenSearch(c) \/ QueryFinds(c) \/ QueryEnds(c) \/ StreamResult(c) \/ StreamEnds(c)
    \/ CallerLeaves(c) \/ CancelSearch(c) \/ StreamGone(c)

ClientStep(c) ==
    \/ CheckToken(c) \/ AddClient(c) \/ OpenSession(c) \/ RefreshSession(c)
    \/ DeregisterThreads(c) \/ DeregisterMessages(c) \/ DeregisterClient(c)

HostNext ==
    \/ \E c \in Calls :
        \/ CreateCafeToken(c) \/ ValidateCafeToken(c) \/ RemoveCafeToken(c)
        \/ Authorize(c) \/ FindClient(c) \/ ReadBody(c) \/ GiveBack(c)
        \/ HostStoreThread(c) \/ HostUnstoreThread(c) \/ DeliverMessage(c)
        \/ StoreFile(c) \/ StoredFiles(c) \/ UnstoreFile(c) \/ PinArchive(c)
        \/ ClientStep(c) \/ SearchStep(c)
    \/ HourPasses

HostSpec == HostInit /\ [][HostNext]_hostVars

-----------------------------------------------------------------------------
\* Every row holds the body of a call that was meant for it, although the
\* handlers read bodies into buffers that they share.
RowsOwned ==
    /\ \A r \in DOMAIN threadRows : LET c == threadRows[r] IN
        c # NoCall => KindOf(c) = "storeThread" /\ <<By(c), plot[c].shelf>> = r
    /\ \A m \in inboxRows :
        /\ m[2] \in pins
        /\ m[2] # NoCall /\ KindOf(m[2]) = "deliver" /\ plot[m[2]].to = m[1]

\* A guest that is no client has no rows: a deregistration removes them all,
\* unless one was being written, by a call that had found the client.
NothingLeft ==
    \A g \in Guests : clientRows[g] = "none" =>
        \/ g \in smudges
        \/ (\A s \in Shelves : threadRows[<<g, s>>] = NoCall) /\ (\A m \in inboxRows : m[1] # g)

\* Clients and sessions come from a registration with a token that was kept:
\* one that was only made, listed, or half right admits nobody.
AdmittedByToken ==
    /\ \A a \in admitted : \E c, d \in Calls :
        /\ KindOf(c) = "register" /\ By(c) = a[1] /\ plot[c].dev.id = a[2]
        /\ KindOf(d) = "create" /\ plot[d].kept /\ reply[d] = 201 /\ plot[d].dev = plot[c].dev
    /\ \A g \in Guests : clientRows[g] = "none" \/ <<g, clientRows[g]>> \in admitted
    /\ \A n \in DOMAIN issued : \E a \in admitted : a[1] = issued[n].subject

\* What a call was told is stored is there, until its owner takes it away;
\* files, until anybody does.
WordKept ==
    \A c \in Calls :
        /\ KindOf(c) = "storeThread" /\ reply[c] = 204 =>
            \/ threadRows[<<By(c), plot[c].shelf>>] # NoCall
            \/ \E d \in Calls : /\ By(d) = By(c) /\ stage[d] # "none"
                                /\ \/ KindOf(d) = "deregister"
                                   \/ KindOf(d) = "unstoreThread" /\ plot[d].shelf = plot[c].shelf
        /\ KindOf(c) = "store" /\ reply[c] = 204 => ToSet(plot[c].parts) \subseteq pins \cup smudges

\* The rows of a cafe are those of its clients, its clients are those it
\* admitted, and what it answered is so.
HostSound == RowsOwned /\ NothingLeft /\ AdmittedByToken /\ WordKept
=============================================================================
