\* File data: one file, written at every offset and length up to four units
\* (two clusters), removed and recreated; linked inodes stay in memory.
\* Four clusters are enough that the disk never fills.
CONSTANTS
  Root = root
  f1 = f1
  f2 = f2
  Files <- MCOneFile
  NClus = 4
  C = 3
  NameLens = {5}
  MaxSize = 4
  SizeBits = 8
  EnterDeleted = FALSE
  Evict = FALSE
  Kinds = {"File"}
  MaxDirEnt = 6
  GetdentsLens = {}
INIT Init
NEXT Next
INVARIANT ClusMatchesSize ReadBackWritten
