----------------------------- MODULE MCOutbound -----------------------------
(* Instances of Outbound for TLC: blocks and cafes are model values. *)
EXTENDS Outbound
=============================================================================
