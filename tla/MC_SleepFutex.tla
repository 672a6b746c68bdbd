--------------------------- MODULE MC_SleepFutex ---------------------------
(* Instantiation of SleepFutex for TLC: three threads (two for the run of  *)
(* the stale timer) and two futex words.                                   *)
EXTENDS SleepFutex

CONSTANTS t1, t2, t3, a1, a2

MCTasks == {t1, t2, t3}
MCTwoTasks == {t1, t2}
MCAddrs == {a1, a2}
=============================================================================
