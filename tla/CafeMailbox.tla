---------------------------- MODULE CafeMailbox -----------------------------
(***************************************************************************)
(* Messages left at a cafe for offline clients: the cafe's table of client *)
(* messages (core/cafe_service.go handlers, repo/db/                       *)
(* cafe_client_messages.go), a client's CheckMessages / DeleteMessages     *)
(* loop, and its local inbox (core/cafe_inbox.go).                         *)
(*                                                                         *)
(* A check reads one page, oldest first; a delete names no messages: the   *)
(* cafe removes the oldest page of that moment.  A client may run several  *)
(* checks: the ticker's, and one for each notification from the cafe.      *)
(***************************************************************************)
EXTENDS Naturals, FiniteSets

CONSTANTS
    Client,      \* the cafe's clients
    Msg,         \* message ids (the content id of an envelope)
    Dest,        \* Dest[m]: the clients message m is sent to
    MailPage,    \* inboxMessagePageSize
    MailAttempts,\* cafeInMaxDownloadAttempts
    MaxDeliver,  \* bound: deliveries of one message to one client
    MailFaults   \* subset of MailFaultKinds

MailFaultKinds == {"reply", "retry", "fail", "crash", "row"}

ASSUME CafeMailboxAssumption ==
    /\ Dest \in [Msg -> SUBSET Client]
    /\ MailPage \in Nat \ {0} /\ MailAttempts \in Nat \ {0} /\ MaxDeliver \in Nat
    /\ MailFaults \subseteq MailFaultKinds

\* The goroutines of a client that run CheckMessages.
Check == {"tick", "mail"}
AtRest == "idle"

VARIABLES
    box, before,\* the cafe's rows for a client, and which has an earlier date
    sent,       \* deliveries made so far
    notified,   \* a notification of the cafe is on its way to the client
    pc, listing, \* state of each check of each client, and the page it got
    inbox,      \* the client's rows: message -> attempts (MailAttempts: no row)
    flushing,   \* a flush of the inbox was started and has not listed yet
    working,    \* inbox goroutines: message and the attempts it was listed with
    handled,    \* history: passed to ThreadsService.Handle
    dropped     \* history: deleted after the last attempt

cafe   == <<box, before, sent, notified>>
checks == <<pc, listing>>
local  == <<inbox, flushing, working, handled, dropped>>
mailVars == <<cafe, checks, local>>

NoRow == MailAttempts
InboxRows(c) == {m \in Msg : inbox[c][m] # NoRow}

\* The dates of the rows R are all different.
DateOrder(R, r) ==
    /\ r \subseteq R \X R
    /\ \A m, n \in R : m # n => (<<m, n>> \in r <=> <<n, m>> \notin r)
    /\ \A m \in R : <<m, m>> \notin r
    /\ \A l, m, n \in R : <<l, m>> \in r /\ <<m, n>> \in r => <<l, n>> \in r

MailTypeOK ==
    /\ box \in [Client -> SUBSET Msg]
    /\ before \in [Client -> SUBSET (Msg \X Msg)]
    /\ sent \in [Client -> [Msg -> 0 .. MaxDeliver]]
    /\ notified \in [Client -> BOOLEAN]
    /\ pc \in [Client -> [Check -> {AtRest, "ask", "listed", "delete"}]]
    /\ listing \in [Client -> [Check -> SUBSET Msg]]
    /\ inbox \in [Client -> [Msg -> 0 .. MailAttempts]]
    /\ flushing \in [Client -> BOOLEAN]
    /\ working \in [Client -> SUBSET (Msg \X (0 .. MailAttempts - 1))]
    /\ handled \in [Client -> SUBSET Msg]
    /\ dropped \in [Client -> SUBSET Msg]
    /\ \A c \in Client : DateOrder(box[c], before[c])

MailInit ==
    /\ box = [c \in Client |-> {}]
    /\ before = [c \in Client |-> {}]
    /\ sent = [c \in Client |-> [m \in Msg |-> 0]]
    /\ notified = [c \in Client |-> FALSE]
    /\ pc = [c \in Client |-> [k \in Check |-> AtRest]]
    /\ listing = [c \in Client |-> [k \in Check |-> {}]]
    /\ inbox = [c \in Client |-> [m \in Msg |-> NoRow]]
    /\ flushing = [c \in Client |-> FALSE]
    /\ working = [c \in Client |-> {}]
    /\ handled = [c \in Client |-> {}]
    /\ dropped = [c \in Client |-> {}]

-----------------------------------------------------------------------------
(* The cafe. *)

\* ListByClient: the oldest rows of the client, at most a page.
Oldest(c) == {m \in box[c] : Cardinality({n \in box[c] : <<n, m>> \in before[c]}) < MailPage}

\* handleDeliverMessage: insert or replace with the date of now, so a second
\* delivery makes the row the newest; the client is notified if it is online.
Deliver(c, m) ==
    /\ c \in Dest[m] /\ sent[c][m] < MaxDeliver
    /\ sent' = [sent EXCEPT ![c][m] = @ + 1]
    /\ box' = [box EXCEPT ![c] = @ \cup {m}]
    /\ LET rest == box[c] \ {m} IN
       before' = [before EXCEPT ![c] = (@ \cap (rest \X rest)) \cup (rest \X {m})]
    /\ \/ notified' = [notified EXCEPT ![c] = TRUE]
       \/ UNCHANGED notified
    /\ UNCHANGED <<checks, local>>

\* DeleteByClient selects the ids of the client's oldest page and deletes the
\* rows with these ids, of every client.
DeletePage(c) ==
    /\ box' = [d \in Client |-> box[d] \ Oldest(c)]
    /\ before' = [d \in Client |-> before[d] \cap (box'[d] \X box'[d])]

-----------------------------------------------------------------------------
(* CafeService.CheckMessages and DeleteMessages on the client. *)

\* The ticker checks whenever it fires and is not still checking; a notification
\* checks in its own goroutine.
StartCheck(c, k) ==
    /\ pc[c][k] = AtRest
    /\ k = "mail" => notified[c]
    /\ notified' = [notified EXCEPT ![c] = @ /\ k # "mail"]
    /\ pc' = [pc EXCEPT ![c][k] = "ask"]
    /\ UNCHANGED <<box, before, sent, listing, local>>

\* handleCheckMessages answers with a page.
List(c, k) ==
    /\ pc[c][k] = "ask"
    /\ pc' = [pc EXCEPT ![c][k] = "listed"]
    /\ listing' = [listing EXCEPT ![c][k] = Oldest(c)]
    /\ UNCHANGED <<cafe, local>>

\* Mutant: the page is deleted from the cafe without being saved.
SavePageSkipped(c, k) ==
    /\ pc[c][k] = "listed"
    /\ flushing' = [flushing EXCEPT ![c] = TRUE]
    /\ pc' = [pc EXCEPT ![c][k] = IF listing[c][k] = {} THEN AtRest ELSE "delete"]
    /\ listing' = [listing EXCEPT ![c][k] = {}]
    /\ UNCHANGED <<cafe, inbox, working, handled, dropped>>

\* Save the page to the inbox (a message with a row keeps it), start a flush,
\* and go on to delete if there was anything.
SavePage(c, k) ==
    /\ pc[c][k] = "listed"
    /\ inbox' = [inbox EXCEPT ![c] =
          [m \in Msg |-> IF m \in listing[c][k] /\ @[m] = NoRow THEN 0 ELSE @[m]]]
    /\ flushing' = [flushing EXCEPT ![c] = TRUE]
    /\ pc' = [pc EXCEPT ![c][k] = IF listing[c][k] = {} THEN AtRest ELSE "delete"]
    /\ listing' = [listing EXCEPT ![c][k] = {}]
    /\ UNCHANGED <<cafe, working, handled, dropped>>

\* handleDeleteMessages, and its answer: check again if there is more.
Delete(c, k) ==
    /\ pc[c][k] = "delete"
    /\ DeletePage(c)
    /\ pc' = [pc EXCEPT ![c][k] = IF box'[c] # {} THEN "ask" ELSE AtRest]
    /\ UNCHANGED <<sent, notified, listing, local>>

\* The answer is lost after the cafe acted: SendRequest sends the request again.
DeleteRetried(c, k) ==
    /\ "retry" \in MailFaults
    /\ pc[c][k] = "delete"
    /\ DeletePage(c)
    /\ UNCHANGED <<sent, notified, checks, local>>

\* A request fails, before or after the cafe acted: the check returns an error.
RequestFails(c, k) ==
    /\ "reply" \in MailFaults
    /\ pc[c][k] \in {"ask", "listed", "delete"}
    /\ \/ UNCHANGED <<box, before>>
       \/ pc[c][k] = "delete" /\ DeletePage(c)
    /\ pc' = [pc EXCEPT ![c][k] = AtRest]
    /\ listing' = [listing EXCEPT ![c][k] = {}]
    /\ UNCHANGED <<sent, notified, local>>

-----------------------------------------------------------------------------
(* CafeInbox. *)

\* Flush lists the rows and starts a goroutine for each; it waits for none.
FlushInbox(c) ==
    /\ flushing[c]
    /\ flushing' = [flushing EXCEPT ![c] = FALSE]
    /\ working' = [working EXCEPT ![c] = @ \cup {<<m, inbox[c][m]>> : m \in InboxRows(c)}]
    /\ UNCHANGED <<cafe, checks, inbox, handled, dropped>>

\* Handled, then the row is deleted ("row": that delete fails).
HandleMsg(c, w) ==
    /\ w \in working[c]
    /\ working' = [working EXCEPT ![c] = @ \ {w}]
    /\ handled' = [handled EXCEPT ![c] = @ \cup {w[1]}]
    /\ \/ inbox' = [inbox EXCEPT ![c][w[1]] = NoRow]
       \/ "row" \in MailFaults /\ UNCHANGED inbox
    /\ UNCHANGED <<cafe, checks, flushing, dropped>>

\* AddAttempt; attempts from MailAttempts - 1 on are not told apart.
AddAttempt(a) == IF a + 1 < MailAttempts THEN a + 1 ELSE a

\* Mutant: a failed message is never given up.
HandleErrForever(c, w) ==
    /\ "fail" \in MailFaults
    /\ w \in working[c]
    /\ working' = [working EXCEPT ![c] = @ \ {w}]
    /\ inbox' = [inbox EXCEPT ![c][w[1]] = AddAttempt(@)]
    /\ UNCHANGED <<cafe, checks, flushing, handled, dropped>>

\* handleErr decides on the attempts the row was listed with.
HandleErr(c, w) ==
    /\ "fail" \in MailFaults
    /\ w \in working[c]
    /\ working' = [working EXCEPT ![c] = @ \ {w}]
    /\ \/ /\ w[2] + 1 >= MailAttempts
          /\ inbox' = [inbox EXCEPT ![c][w[1]] = NoRow]
          /\ dropped' = [dropped EXCEPT ![c] = @ \cup {w[1]}]
       \/ /\ w[2] + 1 < MailAttempts
          /\ inbox' = [inbox EXCEPT ![c][w[1]] = AddAttempt(@)]
          /\ UNCHANGED dropped
    /\ UNCHANGED <<cafe, checks, flushing, handled>>

\* The client process dies: its rows and the cafe's stay.
ClientCrash(c) ==
    /\ "crash" \in MailFaults
    /\ (\E k \in Check : pc[c][k] # AtRest) \/ working[c] # {} \/ flushing[c]
    /\ pc' = [pc EXCEPT ![c] = [k \in Check |-> AtRest]]
    /\ listing' = [listing EXCEPT ![c] = [k \in Check |-> {}]]
    /\ flushing' = [flushing EXCEPT ![c] = FALSE]
    /\ working' = [working EXCEPT ![c] = {}]
    /\ UNCHANGED <<cafe, inbox, handled, dropped>>

CheckStep(c, k) ==
    StartCheck(c, k) \/ List(c, k) \/ SavePage(c, k) \/ Delete(c, k)
    \/ DeleteRetried(c, k) \/ RequestFails(c, k)

InboxStep(c) ==
    \/ FlushInbox(c)
    \/ \E w \in Msg \X (0 .. MailAttempts - 1) : HandleMsg(c, w) \/ HandleErr(c, w)

MailNext ==
    \E c \in Client :
        \/ \E m \in Msg : Deliver(c, m)
        \/ \E k \in Check : CheckStep(c, k)
        \/ InboxStep(c)
        \/ ClientCrash(c)

MailSpec == MailInit /\ [][MailNext]_mailVars

\* One check at a time, no delivery between a check and its delete, and only the
\* delete of the last page is retried.
Checking(c) == {k \in Check : pc[c][k] # AtRest}

QuietMail ==
    \A c \in Client :
        /\ Cardinality(Checking(c)') <= 1
        /\ sent'[c] # sent[c] => Checking(c) = {}
        /\ \A k \in Check : pc[c][k] = "delete" /\ pc'[c][k] = "delete" /\ box'[c] # box[c]
                              => box'[c] = {}

\* The ticker fires, the cafe answers, goroutines run.
MailFairSpec ==
    /\ MailSpec
    /\ \A c \in Client :
          /\ WF_mailVars(FlushInbox(c))
          /\ \A w \in Msg \X (0 .. MailAttempts - 1) : WF_mailVars(HandleMsg(c, w) \/ HandleErr(c, w))
          /\ WF_mailVars(StartCheck(c, "tick"))
          /\ \A k \in Check : WF_mailVars(List(c, k) \/ SavePage(c, k) \/ Delete(c, k))

-----------------------------------------------------------------------------
(* Properties. *)

\* Messages that can still reach the client's handler.
Waiting(c) == box[c] \cup InboxRows(c) \cup UNION {listing[c][k] : k \in Check}

\* A message the cafe accepted for a client is not lost: it is at the cafe, on its
\* way, in the inbox, or was handled or dropped after its attempts.  CheckMessages
\* deletes "them", the messages it saved, from the remote.
MailKept ==
    \A c \in Client : \A m \in Msg :
        sent[c][m] > 0 => m \in Waiting(c) \cup handled[c] \cup dropped[c]

\* Without overlapping checks and deliveries, and with no message shared by two
\* clients, the cafe and the client implement the mailbox, whatever requests fail
\* and wherever the client crashes.
Abstract == INSTANCE Mailbox WITH
    waiting <- [c \in Client |-> Waiting(c)],
    closed <- [c \in Client |-> handled[c] \cup dropped[c]]

ImplementsMailbox == Abstract!Spec

\* The mailbox and the inbox empty for good once deliveries stop: a page that is
\* followed by more is followed by another check, and a message that cannot be
\* handled is dropped in the end.
MailSettles ==
    \A c \in Client : <>[](box[c] = {} /\ InboxRows(c) = {})
=============================================================================
