\* Several CPUs: a child's exit path, or a concurrent sys_kill, may still
\* hold a reference when the parent reaps the zombie.
CONSTANTS
  Parent = p
  Children = {c1, c2}
  Threads = {c2}
  Killers = {k1}
  MultiCore = TRUE
  SetTidFails = FALSE
SPECIFICATION Spec
PROPERTY ReapSoleOwner
