------------------------- MODULE MCDaemonLifecycle -------------------------
(* Small instances of DaemonLifecycle for TLC. *)
EXTENDS DaemonLifecycle, TLC

CONSTANTS t1, t2, t3, m1, m2

ThreeTasks == {t1, t2, t3}
TwoRequests == {m1, m2}

=============================================================================
