\* sys_execve on a script: the "#!" arm of the magic match can never match
\* a four-byte slice, so a script is refused with ENOEXEC.
CONSTANTS
  FS <- MCFS
  Paths <- MCPaths
  Arrays <- MCArrays
  BadPath = BadPath
  NullArray = NullArray
  BadStr = "BadStr"
  NULL = "NULL"
  LoadErrors = {"ENOMEM"}
INIT Init
NEXT Next
INVARIANT ScriptsRunByShell
