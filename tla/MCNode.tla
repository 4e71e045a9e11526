------------------------------- MODULE MCNode -------------------------------
(***************************************************************************)
(* Instances for TLC of the components with safety properties that are     *)
(* about a node, its threads and those of others.  They share no state in  *)
(* the model: a behaviour is one of one component, its focus, the others   *)
(* stay where they are, and so the states of the components add up.        *)
(***************************************************************************)
EXTENDS Lifecycle, Membership, CafeSession, ThreadFiles, ThreadAccess, Migrations,
        Users, Feed, MobileRequests, Keys, TLC

CONSTANT Focuses    \* the components that are checked
VARIABLE focus      \* chosen once

ASSUME NodeAssumption ==
    Focuses \subseteq {"lifecycle", "membership", "session", "files", "access",
                       "migrations", "contacts", "feed", "requests", "keys"}

\* What a component chooses does not matter outside its focus.
Choice(c, S) == IF focus = c THEN S ELSE {CHOOSE x \in S : TRUE}

NodeInit ==
    /\ focus \in Focuses
    /\ trouble \in Choice("lifecycle", Troubles) /\ LifeInit
    /\ scene \in Choice("membership", Scenes) /\ MemInit
    /\ visit \in Choice("session", Visits) /\ SessInit
    /\ layout \in Choice("files", Layouts) /\ ShelfInit
    /\ policy \in Choice("access", Policies) /\ AccInit
    /\ history \in Choice("migrations", Histories) /\ MigInit
    /\ habit \in Choice("contacts", Habits) /\ ConInit
    /\ threadLog \in Choice("feed", Logs) /\ limit \in Choice("feed", Limits)
    /\ FeedInit /\ RqInit
    /\ trip \in Choice("keys", Trips) /\ KeysInit
    /\ focus = "feed" \/ (mode = "chrono" /\ arrived = DOMAIN threadLog)

Others(c) ==
    /\ UNCHANGED focus
    /\ IF c = "lifecycle" THEN TRUE ELSE UNCHANGED lifeVars
    /\ IF c = "membership" THEN TRUE ELSE UNCHANGED memVars
    /\ IF c = "session" THEN TRUE ELSE UNCHANGED sessVars
    /\ IF c = "files" THEN TRUE ELSE UNCHANGED shelfVars
    /\ IF c = "access" THEN TRUE ELSE UNCHANGED accVars
    /\ IF c = "migrations" THEN TRUE ELSE UNCHANGED migVars
    /\ IF c = "contacts" THEN TRUE ELSE UNCHANGED conVars
    /\ IF c = "feed" THEN TRUE ELSE UNCHANGED feedVars
    /\ IF c = "requests" THEN TRUE ELSE UNCHANGED rqVars
    /\ IF c = "keys" THEN TRUE ELSE UNCHANGED keyVars

NodeNext ==
    \/ focus = "lifecycle" /\ LifeNext /\ Others("lifecycle")
    \/ focus = "membership" /\ MemNext /\ Others("membership")
    \/ focus = "session" /\ SessNext /\ Others("session")
    \/ focus = "files" /\ ShelfNext /\ Others("files")
    \/ focus = "access" /\ AccNext /\ Others("access")
    \/ focus = "migrations" /\ MigNext /\ Others("migrations")
    \/ focus = "contacts" /\ ConNext /\ Others("contacts")
    \/ focus = "feed" /\ FeedNext /\ Others("feed")
    \/ focus = "requests" /\ RqNext /\ Others("requests")
    \/ focus = "keys" /\ KeysNext /\ Others("keys")

nodeVars == <<focus, lifeVars, memVars, sessVars, shelfVars, accVars,
             migVars, conVars, feedVars, rqVars, keyVars>>

NodeSpec == NodeInit /\ [][NodeNext]_nodeVars

\* The variables of the component have their types.
NodeTypeOK ==
    CASE focus = "lifecycle" -> LifeTypeOK [] focus = "membership" -> MemTypeOK
      [] focus = "session" -> SessTypeOK [] focus = "files" -> ShelfTypeOK
      [] focus = "access" -> AccTypeOK [] focus = "migrations" -> MigTypeOK
      [] focus = "contacts" -> ConTypeOK [] focus = "feed" -> FeedTypeOK
      [] focus = "requests" -> RqTypeOK [] OTHER -> KeysTypeOK

\* What an application is shown of a thread (core/feed.go) and of its persons
\* (core/peers.go): the pages of its blocks, and the author beside each.
ShownRight == FeedComplete /\ UserFits

-----------------------------------------------------------------------------
(* Values of the constants.                                                  *)

MCScene(i, l, t, o) == [invites |-> i, leavers |-> l, texts |-> t, overlap |-> o]
MCPair == {<<"a", "b">>}
MCStar == {<<"a", "b">>, <<"a", "c">>}
MCChain == {<<"a", "b">>, <<"b", "c">>}
MCScenes == {MCScene(MCStar, {}, {}, {}), MCScene(MCChain, {}, {}, {}),
             MCScene(MCPair, {"b"}, {"t"}, {"a", "b"}), MCScene(MCPair, {}, {"t"}, {})}

MCVisit(w, o, c, l) == [work |-> w, others |-> o, closes |-> c, loses |-> l]
MCVisits == {MCVisit({"store", "check"}, TRUE, FALSE, FALSE),
             MCVisit({"store", "unstore"}, FALSE, FALSE, FALSE),
             MCVisit({"thread", "publish"}, FALSE, TRUE, FALSE),
             MCVisit({"unthread"}, FALSE, FALSE, TRUE)}

MCLayout(d1, d2, f, own, skew) ==
    [thread |-> ("b1" :> "t1" @@ "b2" :> "t2" @@ "b3" :> "t1"),
     data |-> ("b1" :> "d1" @@ "b2" :> d1 @@ "b3" :> d2), files |-> f,
     target |-> ("i1" :> "b1" @@ "i2" :> "b1" @@ "i3" :> "b2"),
     local |-> own, skewed |-> skew, removes |-> {"t1"},
     copyOf |-> [x \in {"f1", "f2"} |-> x], overlap |-> FALSE]
\* Two blocks of one data node or of two that share a file, and a third one;
\* and blocks with two copies of one file.
MCLayouts ==
    {MCLayout(d, "d2", "d1" :> {"f1", "f2"} @@ "d2" :> {"f2"}, own, skew) :
        d \in {"d1", "d2"}, own \in {{}, {"b1"}, {"b2", "i1"}, {"b1", "b2", "i3"}},
        skew \in {{}, {"i2"}}}
    \cup {MCLayout("d1", "d2", "d1" :> {"f2"} @@ "d2" :> {"f1", "f2"}, own, {}) :
        own \in {{"b1", "b2"}, {"b2", "b3"}}}
    \cup {[MCLayout("d1", "d2", d, own, {}) EXCEPT !.copyOf = [x \in {"f1", "f2"} |-> "f1"]] :
        d \in {"d1" :> {"f1"} @@ "d2" :> {"f2"}, "d1" :> {"f1"} @@ "d2" :> {"f1", "f2"}},
        own \in {{}, {"b1", "i1"}}}

MCAddressOf == "me1" :> "me" @@ "ann1" :> "ann" @@ "bob1" :> "bob"
MCPolicies == [initiator : {"me"}, whitelist : {{}, {"ann"}},
               type : {"private", "readOnly", "public", "open"},
               sharing : {"notShared", "inviteOnly", "shared"}]

MCHistories == {[from |-> 6, crashes |-> 2], [from |-> 16, crashes |-> 1],
                [from |-> -1, crashes |-> 1], [from |-> 0, crashes |-> 0]}

MCHabit(a, b, by, off, s, m) ==
    [skew |-> ("m1" :> a @@ "m2" :> b), adds |-> by \X {"p"}, removes |-> off, sets |-> s,
     most |-> m]
MCHabits ==
    LET n == <<"p", "name", "n">>
        v == <<"p", "avatar", "n">>
        r == <<"r", "name", "k">>
    IN  {MCHabit(0, 0, {}, {}, {n, v}, 4)}
        \cup {MCHabit(a, 0, {}, {}, {n, v}, 1) : a \in {-2, 1}}
        \cup {MCHabit(a, -2, {}, {}, {n, v}, 0) : a \in {-2, 1}}
        \cup {MCHabit(a, 0, {"m1"}, {}, {n}, 0) : a \in {0, -2}}
        \cup {MCHabit(0, 0, {"m1"}, {}, {n, v}, 0), MCHabit(0, 0, {}, {"m1"}, {n, v}, 0),
              MCHabit(0, 0, {}, {}, {n, r}, 1)}
        \cup {MCHabit(a, 0, {}, {}, s, 0) :
                  a \in {0, -2}, s \in {{n, v, r}, {n, r, <<"p", "name", "k">>}}}

MCLogs ==
    LET B(k, t) == [kind |-> k, target |-> t]
        K(n) == {B("text", 0)} \cup {B(k, t) : k \in {"comment", "ignore"}, t \in 1..n}
    IN  {<<>>} \cup {<<a, b, c, d>> : a \in K(0), b \in K(1), c \in K(2), d \in K(3)}

MCSyncOf == "g1" :> "s1" @@ "g2" :> "s1" @@ "i1" :> "s2"

MCDamage(k, n, b) == [kind |-> k, at |-> n, by |-> b]
MCWhole == MCDamage("none", 0, <<>>)
MCTrip(w, i, f, s, d, u) ==
    [words |-> w, index |-> i, form |-> f, size |-> s, damage |-> d, use |-> u]
MCForms == {"seed", "address"}
\* Every account of a phrase and every phrase; every use of a text of every size;
\* every damage of a text of two bytes.  A damage is in the first three bytes or in
\* the checksum.
MCTrips ==
    {MCTrip(w, i, "seed", 2, MCWhole, "init") :
        w \in {0, 11, 12, 13, 15, 18, 21, 24}, i \in {0, 1}}
    \cup {MCTrip(12, i, "seed", 2, MCWhole, "init") :
        i \in {-513, -512, -1, 2, 510, 511, 512, 513, 1023, 1024, 1025}}
    \cup {MCTrip(12, 0, f, s, MCWhole, u) :
        f \in MCForms, s \in 0..3, u \in {"init", "sign", "verify", "send", "open"}}
    \cup {MCTrip(12, 0, f, 2, MCDamage("burst", n, <<x, y>>), "verify") :
        f \in MCForms, n \in {1, 2, 4},
        x \in {0, 1, 34, 128, 255}, y \in {0, 1, 127, 254}}
    \cup {MCTrip(12, 0, f, 2, MCDamage(k, n, <<>>), "verify") :
        f \in MCForms, k \in {"swap", "letter", "short"}, n \in {1, 2, 4}}
=============================================================================
