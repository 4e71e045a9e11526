---------------------------- MODULE MCThreadSync ----------------------------
(* Instances of ThreadSync for TLC: blocks and workers are model values. *)
EXTENDS ThreadSync, TLC

\* Workers are interchangeable, and so are the blocks of other members.
Symmetry == Permutations(Workers) \cup Permutations(Remote)

=============================================================================
