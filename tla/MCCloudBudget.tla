--------------------------- MODULE MCCloudBudget ---------------------------
(* Small instances of CloudBudget for TLC. *)
EXTENDS CloudBudget, TLC

CONSTANTS q1, q2, q3

MCRequest == {q1, q2, q3}

Symmetry == Permutations(MCRequest)

\* Either the request counters bind (one in an hour, two in a day, one image),
\* or the tokens and the spend do: a reservation is 4 or 5 tokens and 10 or 11
\* units; an answer of 1 gives some of it back, an answer of 5 overruns it.
MCLimits == {[hour |-> 1, day |-> 2, tokens |-> 99, cost |-> 99, image |-> 1],
             [hour |-> 9, day |-> 9, tokens |-> 9, cost |-> 21, image |-> 0]}

=============================================================================
