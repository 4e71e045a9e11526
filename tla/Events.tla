------------------------------- MODULE Events -------------------------------
(***************************************************************************)
(* What a node tells the application: account updates and notifications    *)
(* over two channels, thread updates over a broadcaster (core/core.go),    *)
(* read by the daemon (cmd/daemon.go), by the bridge of a phone            *)
(* (mobile/mobile.go) and by requests that observe threads                 *)
(* (core/api_observe.go); and the table of notifications, which they read  *)
(* page by page.  Invites has what makes and deletes notifications,        *)
(* Lifecycle the locks of Start and Stop.                                  *)
(***************************************************************************)
EXTENDS Naturals, Sequences, FiniteSets

CONSTANTS
    Happenings,  \* what happens, each once
    Watchers,    \* requests that observe
    Room,        \* capacity of the channels and of a listener, 10 in the code
    MaxLives,    \* bound: how often a phone starts its node
    Ways         \* what may happen in a behaviour: see Way

Channel == {"update", "note", "feed"}

\* on: the channel; thread, type: of the block; date: of the notification;
\* invite: the user is looked up in an invite.
Happening == [on : Channel, thread : {"account", "t1", "t2"}, type : {"TEXT", "LIKE"},
              date : Nat, invite : BOOLEAN]

\* fails: Start may fail at its end; stops: the node may be stopped; asks:
\* what each watcher asks for; page: the size of the pages in which the
\* notifications are read, 0 if nobody does; deletes: notifications may be
\* deleted, and invites decided.
Way == [host : {"daemon", "mobile"}, of : [Happenings -> Happening], fails : BOOLEAN,
        stops : BOOLEAN, page : Nat, deletes : BOOLEAN,
        asks : [Watchers -> [thread : {"any", "t1"}, type : {"any", "LIKE"}]]]

Nobody == "nobody"

ASSUME EventsAssumption ==
    /\ Room \in Nat \ {0} /\ MaxLives \in Nat /\ Ways \subseteq Way
    /\ Happenings \cap {Nobody, "waits", "off"} = {} /\ "app" \notin Watchers

VARIABLES
    way,        \* chosen once
    life,       \* "off", "starting", "started", "stopped" or "exited"
    lives,      \* how often the node was started
    onlineNow,  \* the online channel of this start is closed
    listens,    \* the application has its listener
    shut,       \* CloseChns: which channels are closed
    chan,        \* what is in each channel; that of "feed" is the listener's
    hands,      \* what each reader has taken; a start makes one per channel
    writer,     \* where the sender of each event is
    bcast,      \* the Send that has the broadcaster, and who is left to get it
    sentOn,     \* the order they were sent in, by channel
    toldOf,     \* the order they were told in, by channel
    noteRows,      \* the notifications table, with the read mark
    nameless,   \* notifications whose user was not found
    watch,      \* each watcher's listener
    pager,      \* who reads the notifications page by page
    fell        \* why the process died

senderVars == <<writer, bcast, sentOn, nameless>>
readerVars == <<hands, toldOf>>
noteVars == <<noteRows, pager>>
nodeLife == <<life, lives, onlineNow, listens, shut>>
eventVars == <<way, senderVars, readerVars, nodeLife, chan, noteVars, watch, fell>>

NoteTable == [Happenings -> {"none", "unread", "read", "deleted"}]

ReaderSets == 1..MaxLives
NoWatch == [at |-> "none", queue |-> <<>>, given |-> <<>>, from |-> 0]
NoPager == [at |-> "none", offset |-> Nobody, got |-> {}, want |-> {}, torn |-> FALSE]
NoSending == [by |-> Nobody, left |-> {}]

\* queue: what the listener has; given: what the request got; from: how many
\* were sent before.
Listener == [at : {"none", "open", "leaving", "closed"}, queue : Seq(Happenings),
             given : Seq(Happenings), from : Nat]

\* offset: the last row of the page before; want: what was there at the start;
\* torn: the row of the offset was deleted.
Pager == [at : {"none", "reading", "done"}, offset : Happenings \cup {Nobody},
          got : SUBSET Happenings, want : SUBSET Happenings, torn : BOOLEAN]

EventsTypeOK ==
    /\ way \in Ways /\ life \in {"off", "starting", "started", "stopped", "exited"}
    /\ lives \in 0..MaxLives /\ onlineNow \in BOOLEAN /\ listens \in BOOLEAN
    /\ shut \subseteq Channel
    /\ {chan, sentOn, toldOf} \subseteq [Channel -> Seq(Happenings)]
    /\ \A k \in Channel : Len(chan[k]) <= Room
    /\ hands \in [ReaderSets -> [Channel -> Happenings \cup {Nobody, "waits", "off"}]]
    /\ writer \in [Happenings -> {"none", "row", "view", "send", "done"}]
    /\ bcast \in [by : Happenings \cup {Nobody}, left : SUBSET (Watchers \cup {"app"})]
    /\ noteRows \in NoteTable
    /\ nameless \subseteq Happenings
    /\ watch \in [Watchers -> Listener] /\ \A w \in Watchers : Len(watch[w].queue) <= Room
    /\ pager \in Pager
    /\ fell \in {"no", "closed channel", "no user"}

EventsInit ==
    /\ way \in Ways /\ life = "off" /\ lives = 0 /\ onlineNow = FALSE
    /\ listens = (way.host = "mobile")      \* NewTextile of mobile listens
    /\ shut = {} /\ chan = [k \in Channel |-> <<>>]
    /\ hands = [s \in ReaderSets |-> [k \in Channel |-> "off"]]
    /\ writer = [e \in Happenings |-> "none"] /\ bcast = NoSending
    /\ sentOn = [k \in Channel |-> <<>>] /\ toldOf = sentOn
    /\ noteRows = [e \in Happenings |-> "none"] /\ nameless = {}
    /\ watch = [w \in Watchers |-> NoWatch] /\ pager = NoPager /\ fell = "no"

Within(s) == {s[i] : i \in DOMAIN s}
Alive == fell = "no" /\ life # "exited"

-----------------------------------------------------------------------------
(* The node and who runs it.                                                 *)

RestOfNode == <<way, senderVars, toldOf, chan, noteVars, watch, fell>>

\* startNode listens first.
AppListens ==
    /\ Alive /\ ~listens /\ listens' = TRUE
    /\ UNCHANGED <<RestOfNode, life, lives, onlineNow, shut, hands>>

\* Mutant: the daemon starts the node before it listens.
StartFirst ==
    /\ Alive /\ lives < MaxLives
    /\ life = "off" \/ (way.host = "mobile" /\ life = "stopped")
    /\ life' = "starting" /\ lives' = lives + 1 /\ onlineNow' = FALSE
    /\ UNCHANGED <<RestOfNode, listens, shut, hands>>

\* Start makes a new online channel.
StartBegins ==
    /\ Alive /\ lives < MaxLives /\ listens
    /\ life = "off" \/ (way.host = "mobile" /\ life = "stopped")
    /\ life' = "starting" /\ lives' = lives + 1 /\ onlineNow' = FALSE
    /\ UNCHANGED <<RestOfNode, listens, shut, hands>>

Readers(s, state) == hands' = [hands EXCEPT ![s] = [k \in Channel |-> state]]

\* The daemon starts to read at once, the bridge when the node is online.
StartReturns ==
    /\ Alive /\ life = "starting" /\ life' = "started"
    /\ Readers(lives, IF way.host = "daemon" THEN Nobody ELSE "waits")
    /\ UNCHANGED <<RestOfNode, lives, onlineNow, listens, shut>>

\* addAccountThread fails after started was set: the daemon gives up.  A phone
\* that starts again is told that all is well, and nobody reads.
StartGivesUp ==
    /\ Alive /\ way.fails /\ life = "starting"
    /\ life' = (IF way.host = "daemon" THEN "exited" ELSE "started")
    /\ UNCHANGED <<RestOfNode, lives, onlineNow, listens, shut, hands>>

\* The bootstrap ends, and gives back the lock that Start took.
NodeOnline ==
    /\ Alive /\ life \in {"starting", "started"} /\ ~onlineNow /\ onlineNow' = TRUE
    /\ UNCHANGED <<RestOfNode, life, lives, listens, shut, hands>>

ReadersOnline(s) ==
    /\ Alive /\ hands[s]["note"] = "waits" /\ (onlineNow \/ s < lives)
    /\ Readers(s, Nobody)
    /\ UNCHANGED <<RestOfNode, nodeLife>>

\* Stop needs that lock.  Readers stay: a phone that starts its node again has
\* two of each.
StopNodeNow ==
    /\ Alive /\ way.stops /\ life = "started" /\ onlineNow /\ life' = "stopped"
    /\ UNCHANGED <<RestOfNode, lives, onlineNow, listens, shut, hands>>

\* stopNode closes one after the other when Stop has returned; the broadcaster
\* when no Send has it.
CloseChns ==
    /\ Alive /\ way.host = "daemon" /\ life = "stopped"
    /\ \E k \in Channel : /\ shut' = shut \cup {k}
                          /\ CASE k = "update" -> shut = {}
                               [] k = "feed" -> shut = {"update"} /\ bcast = NoSending
                               [] k = "note" -> shut = {"update", "feed"}
    /\ UNCHANGED <<RestOfNode, life, lives, onlineNow, listens, hands>>

\* The process ends, whatever is not told.
Exit ==
    /\ Alive /\ shut = Channel /\ life' = "exited"
    /\ UNCHANGED <<RestOfNode, lives, onlineNow, listens, shut, hands>>

-----------------------------------------------------------------------------
(* Senders.                                                                  *)

Moves(e, s) == writer' = [writer EXCEPT ![e] = s]
On(e) == way.of[e].on
Rest == <<way, nodeLife, readerVars>>

\* Something happens: a handler runs, as soon as the services do, or a call.
\* What is of the account thread is not told; a notification gets its row first.
Happen(e) ==
    /\ Alive /\ writer[e] = "none" /\ life \in {"starting", "started"}
    /\ Moves(e, IF On(e) = "note" THEN "row"
               ELSE IF way.of[e].thread = "account" THEN "done" ELSE "send")
    /\ UNCHANGED <<Rest, bcast, sentOn, nameless, chan, noteVars, watch, fell>>

\* Notifications.Add; the store of a stopped node is closed, and nothing is sent.
AddNote(e) ==
    /\ Alive /\ writer[e] = "row"
    /\ IF life = "stopped" THEN Moves(e, "done") /\ noteRows' = noteRows
       ELSE Moves(e, "view") /\ noteRows' = [noteRows EXCEPT ![e] = "unread"]
    /\ UNCHANGED <<Rest, bcast, sentOn, nameless, chan, pager, watch, fell>>

\* NotificationView: an invite that was decided meanwhile has no user.
NotificationView(e) ==
    /\ Alive /\ writer[e] = "view" /\ Moves(e, "send")
    /\ \/ nameless' = nameless
       \/ /\ way.of[e].invite /\ (way.deletes \/ life = "stopped")
          /\ nameless' = nameless \cup {e}
    /\ UNCHANGED <<Rest, bcast, sentOn, chan, noteVars, watch, fell>>

PutIn(k, e) == chan' = [chan EXCEPT ![k] = Append(@, e)]
NoteSent(k, e) == sentOn' = [sentOn EXCEPT ![k] = Append(@, e)]

\* Mutant: the channel grows.
SendOnFull(e) ==
    LET k == On(e) IN
    /\ Alive /\ writer[e] = "send" /\ k # "feed"
    /\ \/ k \in shut /\ fell' = "closed channel" /\ UNCHANGED <<chan, sentOn, writer>>
       \/ /\ k \notin shut /\ fell' = fell
          /\ Moves(e, "done") /\ PutIn(k, e) /\ NoteSent(k, e)
    /\ UNCHANGED <<Rest, bcast, nameless, noteVars, watch>>

\* A channel takes it when there is room; one that is closed, with a panic.
SendOn(e) ==
    LET k == On(e) IN
    /\ Alive /\ writer[e] = "send" /\ k # "feed"
    /\ \/ k \in shut /\ fell' = "closed channel" /\ UNCHANGED <<chan, sentOn, writer>>
       \/ /\ k \notin shut /\ Len(chan[k]) < Room /\ fell' = fell
          /\ Moves(e, "done") /\ PutIn(k, e) /\ NoteSent(k, e)
    /\ UNCHANGED <<Rest, bcast, nameless, noteVars, watch>>

Listeners == {w \in Watchers : watch[w].at \in {"open", "leaving"}}
                 \cup {l \in {"app"} : listens}

\* Send takes the broadcaster; a closed one sends nothing.
SendBegins(e) ==
    /\ Alive /\ writer[e] = "send" /\ On(e) = "feed" /\ bcast = NoSending
    /\ IF "feed" \in shut THEN Moves(e, "done") /\ UNCHANGED <<bcast, sentOn>>
       ELSE /\ bcast' = [by |-> e, left |-> Listeners] /\ NoteSent("feed", e)
            /\ writer' = writer
    /\ UNCHANGED <<Rest, nameless, chan, noteVars, watch, fell>>

\* To each listener, in the order of a map, when it has room.
SendToNext(l) ==
    /\ Alive /\ l \in bcast.left /\ bcast' = [bcast EXCEPT !.left = @ \ {l}]
    /\ \/ l = "app" /\ Len(chan["feed"]) < Room /\ PutIn("feed", bcast.by)
          /\ watch' = watch
       \/ /\ l # "app" /\ Len(watch[l].queue) < Room /\ chan' = chan
          /\ watch' = [watch EXCEPT ![l].queue = Append(@, bcast.by)]
    /\ UNCHANGED <<Rest, writer, sentOn, nameless, noteVars, fell>>

SendReturns ==
    /\ Alive /\ bcast.by # Nobody /\ bcast.left = {} /\ bcast' = NoSending
    /\ Moves(bcast.by, "done")
    /\ UNCHANGED <<Rest, sentOn, nameless, chan, noteVars, watch, fell>>

-----------------------------------------------------------------------------
(* Readers.                                                                  *)

\* A reader gets what a channel has; a closed and empty one ends it.
TakeEvent(s, k) ==
    /\ Alive /\ hands[s][k] = Nobody
    /\ \/ /\ chan[k] # <<>> /\ hands' = [hands EXCEPT ![s][k] = Head(chan[k])]
          /\ chan' = [chan EXCEPT ![k] = Tail(@)]
       \/ /\ chan[k] = <<>> /\ k \in shut /\ chan' = chan
          /\ hands' = [hands EXCEPT ![s][k] = "off"]
    /\ UNCHANGED <<way, senderVars, toldOf, nodeLife, noteVars, watch, fell>>

\* notify of the bridge, or a line of the daemon, which takes the name of a
\* notification's user.
Tell(s, k) ==
    LET e == hands[s][k] IN
    /\ Alive /\ e \in Happenings
    /\ IF way.host = "daemon" /\ e \in nameless
       THEN fell' = "no user" /\ UNCHANGED readerVars
       ELSE /\ fell' = fell /\ hands' = [hands EXCEPT ![s][k] = Nobody]
            /\ toldOf' = [toldOf EXCEPT ![k] = Append(@, e)]
    /\ UNCHANGED <<way, senderVars, nodeLife, chan, noteVars, watch>>

\* getThreadsObserve: a request listens while nobody sends.
Watch(w) ==
    /\ Alive /\ way.host = "daemon" /\ life = "started" /\ watch[w].at = "none"
    /\ bcast = NoSending
    /\ watch' = [watch EXCEPT ![w] = [at |-> "open", queue |-> <<>>, given |-> <<>>,
                                      from |-> Len(sentOn["feed"])]]
    /\ UNCHANGED <<way, senderVars, readerVars, nodeLife, chan, noteVars, fell>>

AsksFor(w, e) ==
    /\ way.asks[w].thread \in {"any", way.of[e].thread}
    /\ way.asks[w].type \in {"any", way.of[e].type}

\* It gets what it asked for.
WatchTake(w) ==
    /\ Alive /\ watch[w].at = "open" /\ watch[w].queue # <<>>
    /\ LET e == Head(watch[w].queue) IN
       watch' = [watch EXCEPT ![w].queue = Tail(@),
                              ![w].given = IF AsksFor(w, e) THEN Append(@, e) ELSE @]
    /\ UNCHANGED <<way, senderVars, readerVars, nodeLife, chan, noteVars, fell>>

\* Its client goes, or the broadcaster was closed; a Send holds it up, and for
\* ever if it waits for this listener, which nobody reads.
StopWatching(w) ==
    /\ Alive
    /\ watch' = [watch EXCEPT ![w].at =
                    IF @ = "leaving" THEN "closed" ELSE "leaving"]
    /\ watch[w].at = "open" \/ (watch[w].at = "leaving" /\ bcast = NoSending)
    /\ UNCHANGED <<way, senderVars, readerVars, nodeLife, chan, noteVars, fell>>

-----------------------------------------------------------------------------
(* The table of notifications.                                               *)

OfNotes == {e \in Happenings : noteRows[e] \in {"unread", "read"}}
Date(e) == way.of[e].date
Reading == Alive /\ life = "started" /\ way.page > 0
RestOfTable == <<way, senderVars, readerVars, nodeLife, chan, watch, fell>>

ReadNotification(e) ==
    /\ Reading /\ noteRows[e] = "unread" /\ noteRows' = [noteRows EXCEPT ![e] = "read"]
    /\ UNCHANGED <<RestOfTable, pager>>

ReadAllNotifications ==
    /\ Reading
    /\ noteRows' = [e \in Happenings |-> IF e \in OfNotes THEN "read" ELSE noteRows[e]]
    /\ UNCHANGED <<RestOfTable, pager>>

\* An invite was decided, its actor left, or its thread was removed.
DeleteNote(e) ==
    /\ Reading /\ way.deletes /\ e \in OfNotes
    /\ noteRows' = [noteRows EXCEPT ![e] = "deleted"]
    /\ pager' = IF pager.at = "reading" /\ e = pager.offset
                THEN [pager EXCEPT !.torn = TRUE] ELSE pager
    /\ UNCHANGED RestOfTable

\* The limit newest of those older than the row of offset, newest first; none
\* if that row is gone.
ListNotes(offset, limit) ==
    LET older == {e \in OfNotes :
                     offset # Nobody => offset \in OfNotes /\ Date(e) < Date(offset)}
    IN  {s \in UNION {[1..n -> older] : n \in {IF Cardinality(older) < limit
                                               THEN Cardinality(older) ELSE limit}} :
            /\ \A i, j \in DOMAIN s : i < j => s[i] # s[j] /\ Date(s[i]) >= Date(s[j])
            /\ \A e \in older : (\A i \in DOMAIN s : s[i] # e) =>
                                    \A i \in DOMAIN s : Date(s[i]) >= Date(e)}

\* A page, from the last row of the one before.
NextPage ==
    /\ Reading /\ pager.at # "done"
    /\ \E s \in ListNotes(pager.offset, way.page) :
          pager' = [at |-> IF Len(s) < way.page THEN "done" ELSE "reading",
                    offset |-> IF s = <<>> THEN pager.offset ELSE s[Len(s)],
                    got |-> pager.got \cup Within(s),
                    want |-> IF pager.at = "none" THEN OfNotes ELSE pager.want,
                    torn |-> pager.torn]
    /\ UNCHANGED <<RestOfTable, noteRows>>

NodeMoves ==
    \/ AppListens \/ StartBegins \/ StartReturns \/ StartGivesUp \/ NodeOnline
    \/ \E s \in ReaderSets : ReadersOnline(s)
    \/ StopNodeNow \/ CloseChns \/ Exit

EventsNext ==
    \/ NodeMoves
    \/ \E e \in Happenings : Happen(e) \/ AddNote(e) \/ NotificationView(e) \/ SendOn(e)
                             \/ SendBegins(e) \/ ReadNotification(e) \/ DeleteNote(e)
    \/ \E l \in Watchers \cup {"app"} : SendToNext(l)
    \/ SendReturns \/ ReadAllNotifications \/ NextPage
    \/ \E s \in ReaderSets, k \in Channel : TakeEvent(s, k) \/ Tell(s, k)
    \/ \E w \in Watchers : Watch(w) \/ WatchTake(w) \/ StopWatching(w)

EventsSpec == EventsInit /\ [][EventsNext]_eventVars

-----------------------------------------------------------------------------
Taken(k) == {s \in ReaderSets : hands[s][k] \in Happenings}
Reached(l, e) == ~(e = bcast.by /\ l \in bcast.left)

\* What was sent to the application is told, taken or in its channel, each
\* once, also what came before Start returned.
NoneLost ==
    \A k \in Channel :
        LET sent == {e \in Within(sentOn[k]) : k = "feed" => Reached("app", e)}
            taken == {hands[s][k] : s \in Taken(k)}
        IN  /\ sent = Within(toldOf[k]) \cup Within(chan[k]) \cup taken
            /\ Cardinality(sent) = Len(toldOf[k]) + Len(chan[k]) + Cardinality(Taken(k))

\* It is told in the order it was sent in, unless a phone has started twice.
InOrder ==
    lives < 2 => \A k \in Channel :
        /\ Len(toldOf[k]) <= Len(sentOn[k])
        /\ \A i \in DOMAIN toldOf[k] : toldOf[k][i] = sentOn[k][i]

\* A notification is told when its row is there to be read.
RowFirst == \A e \in Within(toldOf["note"]) : noteRows[e] # "none"

\* A watcher gets what was sent since it listened and what it asked for, each
\* once and in the order it was sent in.
WatchersServed ==
    \A w \in Watchers : watch[w].at \in {"open", "leaving"} =>
        LET all == watch[w].given \o watch[w].queue
            sent == sentOn["feed"]
            since == {sent[i] : i \in (watch[w].from + 1)..Len(sent)}
        IN  /\ {e \in Within(all) : AsksFor(w, e)}
                  = {e \in since : AsksFor(w, e) /\ Reached(w, e)}
            /\ \A e \in Within(watch[w].given) : AsksFor(w, e)
            /\ \A i, j \in DOMAIN all : i < j =>
                  \E p, q \in DOMAIN sent : p < q /\ sent[p] = all[i] /\ sent[q] = all[j]

\* Two notifications that were made have one date.
DatesEqual == \E e, f \in Happenings : /\ e # f /\ Date(e) = Date(f)
                                       /\ noteRows[e] # "none" /\ noteRows[f] # "none"

\* Who reads page after page has seen every notification that was there and
\* still is, unless two have one date or the row it went on from was deleted.
PagesWhole ==
    pager.at # "done" \/ pager.torn \/ DatesEqual \/ pager.want \cap OfNotes \subseteq pager.got

\* core/core.go sendUpdate, sendThreadUpdate and sendNotification: the
\* application hears of all that happens, in order, and finds what it heard of.
EventsSound == NoneLost /\ InOrder /\ RowFirst /\ WatchersServed /\ PagesWhole
=============================================================================
