\* The ext4 node operations over an lwext4 namespace of two names and two
\* levels (files, directories, a file under a directory, a directory made on
\* the way by O_CREAT): create, remove, read_at, write_at, truncate and
\* rename from every node, including nodes whose path does not exist.
\* Offsets run one past the longest file so seeks past the end happen.
\* A panic stops the kernel, and nothing runs after it.
CONSTANTS
    a = a
    b = b
    Names = {a, b}
    MaxDepth = 2
    Vals = {1, 2}
    MaxLen = 1
    Offs = {0, 1, 2}
    MaxFile = 2
INIT Init
NEXT Next
INVARIANT ReadAfterWrite
PROPERTY CreateKeepsData
SYMMETRY MCSymmetry
CHECK_DEADLOCK FALSE
