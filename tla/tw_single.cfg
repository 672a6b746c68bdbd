\* One CPU, no preemption in the kernel: a leader child and a non-leader
\* thread, one task sending signals.
CONSTANTS
  Parent = p
  Children = {c1, c2}
  Threads = {c2}
  Killers = {k1}
  MultiCore = FALSE
  SetTidFails = TRUE
SPECIFICATION Spec
INVARIANT TypeOK
PROPERTY ReapSoleOwner
PROPERTY WaitReturns
