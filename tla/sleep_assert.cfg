CONSTANTS
  t1 = t1
  t2 = t2
  t3 = t3
  a1 = a1
  a2 = a2
  Tasks <- MCTwoTasks
  Addrs <- MCAddrs
  Vals = {0, 1}
  Durations = {1, 2}
  WakeCounts = {1}
  MaxTime = 3
  MaxSig = 1
  MaxTimers = 2
  NoTimeout = NoTimeout
SPECIFICATION Spec
\* Threads blocked on futex words nobody wakes stop, and so does a panic.
CHECK_DEADLOCK FALSE
INVARIANT NanosleepAssertHolds
