------------------------------- MODULE MCLive -------------------------------
(***************************************************************************)
(* Instances for TLC of the components with liveness properties.  They     *)
(* share no state in the model: a behaviour is one of one component, its   *)
(* focus, the others stay where they are, and so the states of the         *)
(* components add up.                                                      *)
(***************************************************************************)
EXTENDS CafeMailbox, Outbound, Lifecycle, Broadcast, Search, PeerStream, TLC

CONSTANT Focuses    \* the components that are checked
VARIABLE focus      \* chosen once

ASSUME LiveAssumption ==
    Focuses \subseteq {"mail", "outbound", "lifecycle", "broadcast", "search", "stream"}

\* What a component chooses does not matter outside its focus.
Choice(c, S) == IF focus = c THEN S ELSE {CHOOSE x \in S : TRUE}

LiveInit ==
    /\ focus \in Focuses
    /\ MailInit /\ Init /\ PsInit
    /\ trouble \in Choice("lifecycle", Troubles) /\ LifeInit
    /\ load \in Choice("broadcast", Loads) /\ BcInit
    /\ plan \in Choice("search", Plans) /\ SearchInit

Others(c) ==
    /\ UNCHANGED focus
    /\ IF c = "mail" THEN TRUE ELSE UNCHANGED mailVars
    /\ IF c = "outbound" THEN TRUE ELSE UNCHANGED vars
    /\ IF c = "lifecycle" THEN TRUE ELSE UNCHANGED lifeVars
    /\ IF c = "broadcast" THEN TRUE ELSE UNCHANGED bcVars
    /\ IF c = "search" THEN TRUE ELSE UNCHANGED searchVars
    /\ IF c = "stream" THEN TRUE ELSE UNCHANGED psVars

LiveNext ==
    \/ focus = "mail" /\ MailNext /\ Others("mail")
    \/ focus = "outbound" /\ Next /\ Others("outbound")
    \/ focus = "lifecycle" /\ LifeNext /\ Others("lifecycle")
    \/ focus = "broadcast" /\ BcNext /\ Others("broadcast")
    \/ focus = "search" /\ SearchNext /\ Others("search")
    \/ focus = "stream" /\ PsNext /\ Others("stream")

liveVars == <<focus, mailVars, vars, lifeVars, bcVars, searchVars, psVars>>

\* The fairness of each component, in its own behaviours.
LiveFairness ==
    /\ \A c \in Client :
        /\ WF_mailVars(focus = "mail" /\ FlushInbox(c))
        /\ \A w \in Msg \X (0 .. MailAttempts - 1) :
              WF_mailVars(focus = "mail" /\ (HandleMsg(c, w) \/ HandleErr(c, w)))
        /\ WF_mailVars(focus = "mail" /\ StartCheck(c, "tick"))
        /\ \A k \in Check :
              WF_mailVars(focus = "mail" /\ (List(c, k) \/ SavePage(c, k) \/ Delete(c, k)))
    /\ WF_vars(focus = "outbound" /\ FlushStep)
    /\ \A r \in Runner : WF_vars(focus = "outbound" /\ BatchStep(r))
    /\ \A b \in Block : /\ WF_vars(focus = "outbound" /\ PostStep(b))
                        /\ WF_vars(focus = "outbound" /\ IndexBlock(b))
    /\ WF_lifeVars(focus = "lifecycle" /\ LifeProgress)
    /\ SF_lifeVars(focus = "lifecycle" /\ LoopStep)
    /\ WF_bcVars(focus = "broadcast" /\ BcProgress)
    /\ WF_searchVars(focus = "search" /\ SearchProgress)
    /\ WF_psVars(focus = "stream" /\ PsProgress)

LiveSpec == LiveInit /\ [][LiveNext]_liveVars /\ LiveFairness

\* The variables of the component have their types.
LiveTypeOK ==
    CASE focus = "mail" -> MailTypeOK [] focus = "outbound" -> TypeOK
      [] focus = "lifecycle" -> LifeTypeOK [] focus = "broadcast" -> BcTypeOK
      [] focus = "search" -> SearchTypeOK [] OTHER -> PsTypeOK

\* SearchSettles of the behaviours that are about a search, and NewestArrives:
\* a search that is cancelled ends though a cafe has gone silent.
SearchEnds == focus = "search" => []NewestArrives /\ SearchSettles

\* Who waits for the broadcaster, an answer or a stream comes back, unless a
\* Send is stuck or the peer takes no write.
CallsReturn == CallReturns /\ CallComesBack

-----------------------------------------------------------------------------
(* Values of the constants.                                                  *)

MCDest == [m \in Msg |-> Client]

MCLoad(n, r, c, q) == [need |-> n, replies |-> r, capacity |-> c, query |-> q]
\* In the last one there are more answers than a listener has room for.
MCLoads == {MCLoad(1, 1, 3, FALSE), MCLoad(2, 1, 2, TRUE), MCLoad(1, 2, 1, TRUE)}

MCPlans ==
    LET I(x, d) == [id |-> x, date |-> d]
    IN  {[local |-> {I("x", 1)},
          remote |-> ("s1" :> <<I("x", 2), I("y", 1)>> @@ "s2" :> <<I("x", d)>>),
          limit |-> n, hideOlder |-> h, faulty |-> f, silent |-> q, consumer |-> c,
          rude |-> TRUE, localOnly |-> o] :
             d \in {1, 3}, n \in {0, 2}, h \in BOOLEAN, f \in {{}, {"s1", "local"}},
             q \in {{}, {"s1"}}, c \in {"sync", "stream"}, o \in BOOLEAN}
=============================================================================
