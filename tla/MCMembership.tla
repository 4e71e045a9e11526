---------------------------- MODULE MCMembership ----------------------------
(* Instances of Membership for TLC. *)
EXTENDS Membership

\* a invites b, and b may leave.
OneLeaves == {[invites |-> {<<"a", "b">>}, leavers |-> {"b"}, texts |-> {}, overlap |-> {}]}
=============================================================================
