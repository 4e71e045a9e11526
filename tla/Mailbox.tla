------------------------------ MODULE Mailbox -------------------------------
(***************************************************************************)
(* What a cafe inbox promises: a message accepted for a client waits until *)
(* the client has handled it or has given up on it after its attempts.     *)
(* Nothing else removes it.                                                *)
(***************************************************************************)
CONSTANTS Client, Msg

VARIABLES
    waiting,    \* per client, messages accepted and not yet handled
    closed      \* per client, messages handled or given up

mvars == <<waiting, closed>>

Init ==
    /\ waiting = [c \in Client |-> {}]
    /\ closed = [c \in Client |-> {}]

Accept(c, m) ==
    /\ waiting' = [waiting EXCEPT ![c] = @ \cup {m}]
    /\ UNCHANGED closed

\* A message may be closed more than once: delivery is at least once.
Close(c, m) ==
    /\ m \in waiting[c] \cup closed[c]
    /\ waiting' = [waiting EXCEPT ![c] = @ \ {m}]
    /\ closed' = [closed EXCEPT ![c] = @ \cup {m}]

\* Handled, but its record outlives the handling.
Again(c, m) ==
    /\ m \in waiting[c] \cup closed[c]
    /\ closed' = [closed EXCEPT ![c] = @ \cup {m}]
    /\ UNCHANGED waiting

\* A second copy of a closed message goes away or comes back from the cafe.
Copies(c) ==
    /\ \E S \in SUBSET closed[c] :
          waiting' = [waiting EXCEPT ![c] = (@ \ closed[c]) \cup S]
    /\ UNCHANGED closed

Next ==
    \E c \in Client :
        \/ Copies(c)
        \/ \E m \in Msg : Accept(c, m) \/ Close(c, m) \/ Again(c, m)

Spec == Init /\ [][Next]_mvars
=============================================================================
