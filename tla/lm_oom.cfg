\* LinearMap with oom_handler: active queue and counters through evictions,
\* reloads, resizes of the end, splits and into_three's Err return.
\* set_start is left out: it does not rebase the active queue, which breaks
\* ActiveExact.  set_end is called with ends at or above the start: after
\* its Err return (the range stored, the frames kept) a later set_end can
\* truncate resident slots the queue still lists.  The README records both
\* traces.
CONSTANTS
  MaxVPN = 3
  Frames = {f1, f2}
  MapIds = {m1, m2, m3}
  IdxBits = 3
  OOM = TRUE
  StartMoves = {}
  EndChecked = TRUE
  CutsChecked = FALSE
SPECIFICATION Spec
SYMMETRY Symmetry
INVARIANT TypeOK
INVARIANT ActiveExact
INVARIANT CountersExact
