--------------------------- MODULE MCNotifications ---------------------------
(* Small instances of Notifications for TLC. *)
EXTENDS Notifications, TLC

CONSTANTS u1, e1, e2, s1, s2, p1, p2

Users == {u1}
Endpoints == {e1, e2}
Sockets == {s1, s2}
Calls == {p1, p2}
Openers == (s1 :> u1) @@ (s2 :> Admin)

Symmetry == Permutations(Endpoints) \cup Permutations(Calls)

=============================================================================
