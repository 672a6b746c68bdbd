\* One file, removed and recreated, writes past its end: do the clusters
\* it grows by show only what it wrote, or zeros?
CONSTANTS
  Root = root
  f1 = f1
  f2 = f2
  Files <- MCOneFile
  NClus = 4
  C = 3
  NameLens = {5}
  MaxSize = 4
  SizeBits = 8
  EnterDeleted = FALSE
  Evict = FALSE
  Kinds = {"File"}
  MaxDirEnt = 6
  GetdentsLens = {}
INIT Init
NEXT Next
INVARIANT NoStaleRead
