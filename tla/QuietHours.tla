----------------------------- MODULE QuietHours -----------------------------
(* in_quiet_hours (daemon.py): a window of the local clock face that may run *)
(* over midnight.  Clock readings are minutes, or coarser ticks, of a day.   *)
EXTENDS Naturals

\* Mutant: the two ends of an overnight window are joined by "and".
InQuietHours_Both(current, start, end) ==
    IF start < end THEN start <= current /\ current < end
                   ELSE start # end /\ current >= start /\ current < end

InQuietHours(current, start, end) ==
    \/ start < end /\ start <= current /\ current < end
    \/ start > end /\ (current >= start \/ current < end)

\* The ticks since the clock last showed "from", on a face of the given length.
ClockwiseFrom(from, to, length) == (to + length - from) % length

\* The quiet ticks are one arc of the face: those met when walking clockwise
\* from the start before the end is reached; the empty arc when both coincide
\* (test_overnight_quiet_hours, and the docstring "same-day and overnight").
QuietIsOneArc(current, start, end, length) ==
    InQuietHours(current, start, end)
        <=> ClockwiseFrom(start, current, length) < ClockwiseFrom(start, end, length)

=============================================================================
