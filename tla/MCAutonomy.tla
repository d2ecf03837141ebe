----------------------------- MODULE MCAutonomy -----------------------------
(* Small instances of Autonomy for TLC. *)
EXTENDS Autonomy, TLC

CONSTANTS loop, manual, c1, c2, u1, u2

LoopAlone == {loop}
LoopAndManual == {loop, manual}

OneCharacter == {c1}
TwoCharacters == {c1, c2}

OneRecipient == {u1}
TwoRecipients == {u1, u2}

NoChange == {0}
Autumn == {-1}
Spring == {1}

\* What the invariants of AutonomyManual read, and what decides about the next steps:
\* not when a character was checked last, nor how a run that is over has ended.
View == <<now, shift, log, kept, initiated, base, forced, agenda, current, todo,
          [r \in Run |-> IF Running(r) THEN pc[r] ELSE "idle"]>>

Symmetry == Permutations(Character) \cup Permutations(Recipient)

=============================================================================
