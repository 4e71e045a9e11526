---------------------------- MODULE MCBroadcast -----------------------------
(* Instances of Broadcast for TLC. *)
EXTENDS Broadcast

\* One result satisfies a query, and more come than its listener can hold.
SmallBuffer == {[need |-> 1, replies |-> 2, capacity |-> 1, query |-> TRUE]}
=============================================================================
