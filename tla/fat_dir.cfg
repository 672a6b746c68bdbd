\* The namespace and its enumeration: a root and two inodes created as
\* files or directories, nested, renamed, removed, closed (their last
\* reference dropped) and reopened, with names of two long entries each, so
\* that the root grows a cluster, has its hint trimmed and shrinks; a reader
\* walks a directory with dirent_info_lock, one or two entries per call,
\* between those operations.  Five clusters of three entries: the disk
\* never fills.  No data writes.
CONSTANTS
  Root = root
  f1 = f1
  f2 = f2
  Files <- MCFiles
  NClus = 5
  C = 3
  NameLens = {14}
  MaxSize = 0
  SizeBits = 8
  EnterDeleted = FALSE
  Evict = TRUE
  Kinds = {"File", "Dir"}
  MaxDirEnt = 7
  GetdentsLens = {1, 2}
INIT Init
NEXT Next
INVARIANT TypeOK ClusterExclusive EntriesIntact DotDotPointsToParent GetdentsExactlyOnce
SYMMETRY MCSymmetry
