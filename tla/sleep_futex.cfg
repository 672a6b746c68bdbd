CONSTANTS
  t1 = t1
  t2 = t2
  t3 = t3
  a1 = a1
  a2 = a2
  Tasks <- MCTasks
  Addrs <- MCAddrs
  Vals = {0, 1}
  Durations = {1}
  WakeCounts = {0, 2}
  MaxTime = 2
  MaxSig = 1
  MaxTimers = 1
  NoTimeout = NoTimeout
SPECIFICATION Spec
\* All threads may block on futex words nobody will wake: user programs
\* that deadlock stop, and so does a kernel panic.
CHECK_DEADLOCK FALSE
INVARIANT TypeOK
PROPERTY DeadlineHonoured
