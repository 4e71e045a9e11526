-------------------------------- MODULE MCApp -------------------------------
(***************************************************************************)
(* Instances for TLC of the components with safety properties that are     *)
(* about what an application asks of a node, and what its cafe keeps for   *)
(* it; put together as in MCNode.                                          *)
(***************************************************************************)
EXTENDS FileIndex, Invites, Backups, Setup, CafeHost, Events,
        CafeMailbox, TLC

CONSTANT Focuses    \* the components that are checked
VARIABLE focus      \* chosen once

ASSUME AppAssumption ==
    Focuses \subseteq {"index", "invites", "backups", "setup", "host", "events",
                       "mail"}

\* What a component chooses does not matter outside its focus.
Choice(c, S) == IF focus = c THEN S ELSE {CHOOSE x \in S : TRUE}

AppInit ==
    /\ focus \in Focuses
    /\ MailInit
    /\ parcel \in Choice("index", Parcels) /\ FiInit
    /\ occasion \in Choice("invites", Occasions) /\ InvInit
    /\ backlog \in Choice("backups", Backlogs) /\ BakInit
    /\ outline \in Choice("setup", Outlines) /\ SetupInit
    /\ plot \in Choice("host", Plots) /\ HostInit
    /\ way \in Choice("events", Ways) /\ EventsInit

Others(c) ==
    /\ UNCHANGED focus
    /\ IF c = "index" THEN TRUE ELSE UNCHANGED fiVars
    /\ IF c = "invites" THEN TRUE ELSE UNCHANGED invVars
    /\ IF c = "backups" THEN TRUE ELSE UNCHANGED bakVars
    /\ IF c = "setup" THEN TRUE ELSE UNCHANGED setupVars
    /\ IF c = "host" THEN TRUE ELSE UNCHANGED hostVars
    /\ IF c = "events" THEN TRUE ELSE UNCHANGED eventVars
    /\ IF c = "mail" THEN TRUE ELSE UNCHANGED mailVars

AppNext ==
    \/ focus = "index" /\ FiNext /\ Others("index")
    \/ focus = "invites" /\ InvNext /\ Others("invites")
    \/ focus = "backups" /\ BakNext /\ Others("backups")
    \/ focus = "setup" /\ SetupNext /\ Others("setup")
    \/ focus = "host" /\ HostNext /\ Others("host")
    \/ focus = "events" /\ EventsNext /\ Others("events")
    \/ focus = "mail" /\ MailNext /\ Others("mail")

appVars == <<focus, fiVars, invVars, bakVars, setupVars,
             hostVars, eventVars, mailVars>>

AppSpec == AppInit /\ [][AppNext]_appVars

\* The variables of the component have their types.
AppTypeOK ==
    CASE focus = "index" -> FiTypeOK
      [] focus = "invites" -> InvTypeOK [] focus = "backups" -> BakTypeOK
      [] focus = "setup" -> SetupTypeOK [] focus = "host" -> HostTypeOK
      [] focus = "events" -> EventsTypeOK [] OTHER -> MailTypeOK

-----------------------------------------------------------------------------
(* Values of the constants.                                                  *)

MCDest == [m \in Msg |-> Client]

MCLink(m, w, u, p) == [mill |-> m, width |-> w, use |-> u, plain |-> p]
MCMedia == "large" :> MCLink("resize", 2, FileTag, FALSE) @@ "thumb" :> MCLink("resize", 1, "large", FALSE)
           @@ "exif" :> MCLink("exif", 0, FileTag, TRUE)
MCBlobs == "raw" :> MCLink("blob", 0, FileTag, FALSE) @@ "copy" :> MCLink("blob", 0, "raw", TRUE)
MCNotes == "exif" :> MCLink("exif", 0, FileTag, FALSE) @@ "json" :> MCLink("json", 0, "exif", TRUE)
MCLoop  == "x" :> MCLink("blob", 0, "y", FALSE) @@ "y" :> MCLink("blob", 0, "x", FALSE)
MCThumb == LET c == [of |-> "a", width |-> 1] IN
    [mill |-> "resize", check |-> checksum(c, FALSE), source |-> checksum(c, FALSE),
     opts |-> <<1, FALSE>>, hash |-> [content |-> c, key |-> -1]]
MCParcel(l, v, i, r) ==
    [links |-> l, via |-> v, input |-> ("j1" :> "a" @@ "j2" :> i), removes |-> r,
     remote |-> IF r THEN {MCThumb} ELSE {}]
MCParcels ==
    {MCParcel(l, v, "a", FALSE) : l \in {MCBlobs, MCNotes, MCLoop, SingleFileTag :> MCBlobs["raw"]},
                                  v \in {"http", "path", "data"}}
    \cup {MCParcel(MCMedia, v, "a", FALSE) : v \in {"http", "path"}}
    \cup {MCParcel([l \in {"large", "thumb"} |-> MCMedia[l]], "http", "b", TRUE)}

MCDeliveries(a, b, c, d) == "i1" :> a @@ "i2" :> b @@ "u1" :> c @@ "u2" :> d
MCOccasion(own, leaves, c, start, rem, cr) ==
    [of |-> ("i1" :> "t1" @@ "i2" :> "t1" @@ "u1" :> "t1" @@ "u2" :> "t2"),
     actor |-> ("i1" :> "ann" @@ "i2" :> "bob" @@ "u1" :> "bob" @@ "u2" :> "ann"),
     own |-> own, leaves |-> leaves, copies |-> c, start |-> start, removes |-> rem,
     creates |-> cr]
MCOccasions ==
    LET three == {"t1", "t2", "t3"} IN
    {MCOccasion({}, {}, MCDeliveries(2, 0, 0, 0), {}, {}, {}),
     MCOccasion({}, {}, MCDeliveries(1, 1, 0, 0), {}, {}, {}),
     MCOccasion({"i1"}, {"u2"}, MCDeliveries(1, 0, 0, 1), {"t2"}, {"t1"}, {}),
     MCOccasion({"i1"}, {"u2"}, MCDeliveries(0, 1, 0, 1), {"t2"}, {"t1"}, {}),
     MCOccasion({"u1"}, {"u1"}, MCDeliveries(0, 0, 2, 0), three, {"t1", "t2"}, {}),
     MCOccasion({"u1"}, {"u1"}, MCDeliveries(0, 0, 1, 1), three, {"t1", "t2"}, {}),
     MCOccasion({}, {}, MCDeliveries(0, 0, 2, 1), {"t1", "t2"}, {"t1"}, {"t3"})}

MCBacklog(h1, h2, ses, p, a, r, asks, on, snap) ==
    [has |-> ("d1" :> h1 @@ "d2" :> h2), session |-> ses, posts |-> p, adds |-> a,
     removes |-> r, asks |-> asks, online |-> on, snapshots |-> snap]
MCBacklogs ==
    LET both == {"t1", "t2"} IN
    {MCBacklog(both, {}, {"d1"}, {<<"d1", "t2", "u2">>}, {<<"d1", "t2">>}, {<<"d1", "t2">>}, {}, {}, {}),
     MCBacklog(both, {}, {}, {}, {<<"d1", "t1">>}, {<<"d1", "t1">>}, {}, {}, {"d1"}),
     MCBacklog({"t1"}, {}, {}, {<<"d1", "t1", "u1">>}, {}, {}, {}, {}, {"d1"}),
     MCBacklog({"t1"}, {}, {"d1", "d2"}, {<<"d1", "t1", "u1">>}, {}, {<<"d2", "t1">>}, {"d2"}, {}, {}),
     MCBacklog({"t1"}, {"t1"}, {"d1", "d2"}, {<<"d2", "t1", "u2">>}, {}, {}, {"d1"}, {"d2"}, {}),
     MCBacklog({"t1"}, {"t1"}, {"d1"}, {}, {}, {<<"d1", "t1">>}, {"d1"}, {"d2"}, {})}

MCOptions(m, s) == [owner |-> TRUE, mobile |-> m, server |-> s, api |-> 0]
MCOutline(f, o, p, a) == [from |-> f, options |-> o, ports |-> p, asks |-> a]
MCOutlines ==
    LET none == [v \in Visitors |-> Absent]
        patch(f, c) == [method |-> "patch", field |-> f, conf |-> c]
        put(c) == [method |-> "put", field |-> "owner", conf |-> c]
    IN  {MCOutline("new", MCOptions(FALSE, FALSE), <<1>>, none),
         MCOutline("new", MCOptions(TRUE, FALSE), <<1, 2>>, none),
         MCOutline("malformed", MCOptions(TRUE, FALSE), <<>>, none),
         MCOutline("schemaless", MCOptions(FALSE, FALSE), <<1, 2, 3>>, none),
         MCOutline("made", MCOptions(FALSE, TRUE), <<1>>,
                   ("v1" :> patch("server", Default) @@ "v2" :> patch("api", [Default EXCEPT !.api = 2]))),
         MCOutline("made", MCOptions(FALSE, FALSE), <<1>>,
                   ("v1" :> patch("mobile", MCOptions(TRUE, FALSE)) @@ "v2" :> put(Default)))}

\* A call of the cafe's host, with what is not said left at these values.
MCCall(k, g, after, over) ==
    over @@ [kind |-> k, by |-> g, http |-> TRUE, dev |-> [id |-> "k", secret |-> "s"],
             kept |-> TRUE, shows |-> "own", shelf |-> "t1", to |-> "p", parts |-> <<>>,
             good |-> TRUE, after |-> after]
MCPlot(a, b, c, d, e, f) ==
    "c1" :> a @@ "c2" :> b @@ "c3" :> c @@ "c4" :> d @@ "c5" :> e @@ "c6" :> f
MCPlots ==
    LET make == MCCall("create", "admin", {}, <<>>)
        reg(g, a) == MCCall("register", g, a, [http |-> FALSE])
        dev(i, x) == [dev |-> [id |-> i, secret |-> x]]
    IN {
    \* two guests fill the shelves, and one of them gets a message
    MCPlot(make, reg("p", {"c1"}), reg("q", {"c2"}), MCCall("storeThread", "p", {"c3"}, <<>>),
           MCCall("storeThread", "q", {"c3"}, <<>>), MCCall("deliver", "q", {"c3"}, <<>>)),
    \* one leaves while it stores and is written to
    MCPlot(make, reg("p", {"c1"}), MCCall("storeThread", "p", {"c2"}, <<>>),
           MCCall("deliver", "q", {"c2"}, <<>>), MCCall("deregister", "p", {"c2"}, <<>>),
           MCCall("unstoreThread", "p", {"c3"}, <<>>)),
    \* dev tokens: kept or not, listed, half right, removed
    MCPlot(make, MCCall("create", "admin", {}, dev("k", "x") @@ [kept |-> FALSE]),
           reg("p", {}), MCCall("register", "q", {}, dev("k", "x")),
           MCCall("remove", "admin", {}, <<>>), MCCall("validate", "admin", {}, dev("k", "hash"))),
    MCPlot(make, MCCall("create", "admin", {}, dev("k", "x")), reg("p", {"c1"}),
           MCCall("register", "p", {"c1"}, dev("k", "x")),
           MCCall("register", "q", {"c2"}, dev("k", "hash")), MCCall("validate", "admin", {"c1"}, <<>>)),
    \* files that two guests share
    MCPlot(make, reg("p", {"c1"}), MCCall("store", "p", {"c2"}, [parts |-> <<"x", "y">>]),
           MCCall("store", "p", {"c2"}, [parts |-> <<"y", "bad">>]),
           MCCall("unstore", "p", {"c2"}, [parts |-> <<"x">>]),
           MCCall("pin", "p", {"c2"}, [parts |-> <<"x", "dir">>])),
    \* sessions that end, and a caller that goes away
    MCPlot(make, reg("p", {"c1"}), MCCall("refresh", "p", {"c2"}, [shows |-> "refresh"]),
           MCCall("refresh", "p", {"c3"}, [shows |-> "mixed"]),
           MCCall("search", "p", {"c2"}, <<>>), MCCall("storeThread", "q", {"c2"}, <<>>)),
    MCPlot(make, reg("p", {"c1"}), MCCall("pin", "p", {"c2"}, [parts |-> <<"x">>]),
           MCCall("search", "p", {"c2"}, [shows |-> "foreign"]),
           MCCall("store", "p", {"c2"}, [shows |-> "refresh", parts |-> <<"x">>]),
           MCCall("deliver", "q", {"c2"}, [good |-> FALSE]))}

MCHappening(o, t, y, d, i) == [on |-> o, thread |-> t, type |-> y, date |-> d, invite |-> i]
MCFeed(t, y) == MCHappening("feed", t, y, 0, FALSE)
MCNote(d, i) == MCHappening("note", "t1", "TEXT", d, i)
MCWay(h, a, b, c, over) ==
    over @@ [host |-> h, of |-> ("h1" :> a @@ "h2" :> b @@ "h3" :> c), fails |-> FALSE,
             stops |-> TRUE, page |-> 0, deletes |-> FALSE,
             asks |-> ("w1" :> [thread |-> "t1", type |-> "LIKE"])]
MCUpdate(t) == MCHappening("update", t, "TEXT", 0, FALSE)
MCWays ==
    {MCWay("daemon", MCFeed("t1", "LIKE"), MCFeed("t2", "LIKE"), MCUpdate("t1"), <<>>),
     MCWay("daemon", MCFeed("t1", "TEXT"), MCUpdate("t1"), MCNote(1, TRUE),
           [fails |-> TRUE, deletes |-> TRUE]),
     MCWay("mobile", MCFeed("t1", "LIKE"), MCFeed("account", "TEXT"), MCFeed("t2", "TEXT"),
           [fails |-> TRUE]),
     MCWay("mobile", MCNote(1, FALSE), MCUpdate("account"), MCNote(2, TRUE), <<>>),
     MCWay("mobile", MCNote(1, FALSE), MCNote(2, FALSE), MCUpdate("account"),
           [page |-> 1, deletes |-> TRUE, stops |-> FALSE]),
     MCWay("mobile", MCNote(1, FALSE), MCNote(1, FALSE), MCNote(2, FALSE),
           [page |-> 2, stops |-> FALSE])}
=============================================================================
