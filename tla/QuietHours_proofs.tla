-------------------------- MODULE QuietHours_proofs --------------------------
(* The quiet-hour arithmetic of in_quiet_hours, for a day of any length. *)
EXTENDS QuietHours, TLAPS

\* Of the distance taken around the face only the last turn counts.
LEMMA OneTurn ==
    ASSUME NEW n \in Nat \ {0}, NEW a \in Nat, a < n
    PROVE  /\ a % n = a
           /\ (a + n) % n = a
BY Z3

\* Walking clockwise from one reading to another takes their difference, or that
\* and a turn.
LEMMA Clockwise ==
    ASSUME NEW n \in Nat \ {0}, NEW from \in 0..(n - 1), NEW to \in 0..(n - 1)
    PROVE  ClockwiseFrom(from, to, n) = IF from <= to THEN to - from ELSE to + n - from
<1>1. CASE from <= to
  <2>1. to - from \in Nat /\ to - from < n /\ to + n - from = (to - from) + n
    BY <1>1
  <2>2. ((to - from) + n) % n = to - from
    BY <2>1, OneTurn
  <2> QED BY <1>1, <2>1, <2>2 DEF ClockwiseFrom
<1>2. CASE from > to
  <2>1. to + n - from \in Nat /\ to + n - from < n
    BY <1>2
  <2>2. (to + n - from) % n = to + n - from
    BY <2>1, OneTurn
  <2> QED BY <1>2, <2>2 DEF ClockwiseFrom
<1> QED BY <1>1, <1>2

\* The quiet readings of any window are one arc of the clock face (in_quiet_hours,
\* same-day and overnight windows, and the empty one).
THEOREM WindowIsOneArc ==
    ASSUME NEW n \in Nat \ {0},
           NEW c \in 0..(n - 1), NEW s \in 0..(n - 1), NEW e \in 0..(n - 1)
    PROVE  QuietIsOneArc(c, s, e, n)
<1>1. ClockwiseFrom(s, c, n) = IF s <= c THEN c - s ELSE c + n - s
  BY Clockwise
<1>2. ClockwiseFrom(s, e, n) = IF s <= e THEN e - s ELSE e + n - s
  BY Clockwise
<1> QED BY <1>1, <1>2 DEF QuietIsOneArc, InQuietHours

=============================================================================
