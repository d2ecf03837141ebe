-------------------------- MODULE MCConversations --------------------------
(* Small instances of Conversations for TLC. *)
EXTENDS Conversations, TLC

CONSTANTS u1, u2, c1, c2, o1, o2

Users == {u1, u2}
Characters == {c1, c2}
Ops == {o1, o2}

OneUser == {u1}
OneCharacter == {c1}

Symmetry == Permutations(Users) \cup Permutations(Characters) \cup Permutations(Ops)

=============================================================================
