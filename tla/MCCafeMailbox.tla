---------------------------- MODULE MCCafeMailbox ---------------------------
(* Instances of CafeMailbox for TLC. *)
EXTENDS CafeMailbox
CONSTANTS c1, c2, m1, m2, m3

OneClient == [m \in Msg |-> {c1}]
Disjoint  == [m \in Msg |-> IF m = m3 THEN {c2} ELSE {c1}]
Shared    == [m \in Msg |-> {c1, c2}]
=============================================================================
