------------------------------- MODULE Execve -------------------------------
(***************************************************************************)
(* sys_execve (src/os/src/syscall/process.rs): the path and the argv and   *)
(* envp arrays are copied in from user memory, the file is opened in the   *)
(* working directory, its first four bytes are matched against the ELF and *)
(* the script magic, and load_elf replaces the task's image.                *)
(*                                                                         *)
(* A user array is a sequence of cells: an argument string, BadStr (a      *)
(* pointer whose string does not translate) or NULL.  Running past the end *)
(* of the sequence is a cell translated_ref cannot read.  A file's content *)
(* is a sequence of bytes, each a one-character string ("7f" for 0x7f).    *)
(***************************************************************************)
EXTENDS Naturals, Sequences, SequencesExt

CONSTANTS
  FS,           \* path -> content, for the paths open() finds
  Paths,        \* paths a caller passes, some of them not in FS
  BadPath,      \* a pathname pointer translated_str cannot read
  Arrays,       \* argv/envp arrays a caller passes (sequences of cells)
  NullArray,    \* the null argv or envp pointer
  BadStr, NULL, \* the cells that are not argument strings
  LoadErrors    \* the errnos load_elf may return

DEFAULT_SHELL == "/bin/bash"
ELF_MAGIC == <<"7f", "E", "L", "F">>
SCRIPT_MAGIC == <<"#", "!">>

VARIABLES
  image,     \* what the task runs: [prog, argv, envp]
  ret,       \* the value the last sys_execve returned
  lastPath,  \* the path the last sys_execve was given
  panicked   \* the kernel hit an unwrap on an Err

vars == <<image, ret, lastPath, panicked>>

(* translated_str / translated_ref (mm, not in this repository): a bad     *)
(* pointer is EFAULT.                                                       *)
Fault == "EFAULT"

(* The copy loops of lines 513-549: cells are read until NULL; a cell that *)
(* cannot be read or a string that cannot be translated returns its errno. *)
RECURSIVE CopyStrings(_, _)
CopyStrings(arr, i) ==
  IF i > Len(arr) THEN Fault
  ELSE IF arr[i] = NULL THEN <<>>
  ELSE IF arr[i] = BadStr THEN Fault
  ELSE LET rest == CopyStrings(arr, i + 1)
       IN IF rest = Fault THEN Fault ELSE <<arr[i]>> \o rest

CopyArray(arr) == IF arr = NullArray THEN <<>> ELSE CopyStrings(arr, 1)

(* Lines 565-567: the first four bytes of a file of at least four bytes.   *)
MagicNumber(content) == SubSeq(content, 1, 4)

(* Lines 570-580: the file is an ELF image, a script, or neither.  A byte  *)
(* string pattern matches a slice only when their lengths are equal.       *)
Kind(content) ==
  CASE MagicNumber(content) = ELF_MAGIC    -> "elf"
    [] MagicNumber(content) = SCRIPT_MAGIC -> "script"
    [] OTHER                               -> "none"

Init ==
  /\ image = [prog |-> "init", argv |-> <<>>, envp |-> <<>>]
  /\ ret = "SUCCESS"
  /\ lastPath = "init"
  /\ panicked = FALSE

(* Returns errno without changing the task.                                 *)
Fail(path, errno) ==
  /\ ret' = errno /\ lastPath' = path
  /\ UNCHANGED <<image, panicked>>

(* load_elf (task/, not in this repository) either builds the new image or *)
(* returns an errno; on an error the caller returns it at line 586.        *)
LoadElf(path, prog, argv, envp) ==
  \/ /\ image' = [prog |-> prog, argv |-> argv, envp |-> envp]
     /\ ret' = "SUCCESS" /\ lastPath' = path /\ UNCHANGED panicked
  \/ \E e \in LoadErrors : Fail(path, e)

(* The whole syscall, lines 498-594.                                        *)
sys_execve(path, argv, envp) ==
  /\ ~panicked
  /\ LET argv_vec == CopyArray(argv)
         envp_vec == CopyArray(envp)
     IN
     CASE path = BadPath       -> Fail(path, Fault)
       [] argv_vec = Fault     -> Fail(path, Fault)
       [] envp_vec = Fault     -> Fail(path, Fault)
       [] path \notin DOMAIN FS -> Fail(path, "ENOENT")
       [] Len(FS[path]) < 4    -> Fail(path, "ENOEXEC")
       [] Kind(FS[path]) = "elf" -> LoadElf(path, path, argv_vec, envp_vec)
       [] Kind(FS[path]) = "script" ->
            \/ /\ DEFAULT_SHELL \notin DOMAIN FS
               /\ panicked' = TRUE /\ lastPath' = path
               /\ UNCHANGED <<image, ret>>
            \/ /\ DEFAULT_SHELL \in DOMAIN FS
               /\ LoadElf(path, DEFAULT_SHELL,
                          <<DEFAULT_SHELL>> \o argv_vec, envp_vec)
       [] OTHER                -> Fail(path, "ENOEXEC")

Next == \E p \in Paths \cup {BadPath}, a, e \in Arrays \cup {NullArray} :
          sys_execve(p, a, e)

Spec == Init /\ [][Next]_vars

TypeOK ==
  /\ image.prog \in DOMAIN FS \cup {"init"}
  /\ ret \in {"SUCCESS", Fault, "ENOENT", "ENOEXEC"} \cup LoadErrors
  /\ panicked \in BOOLEAN

(* The comment at lines 568-569: a file whose magic is "#!" is a script   *)
(* the default shell interprets.  So sys_execve never answers ENOEXEC for *)
(* a file of four bytes or more that starts with "#!".                    *)
ScriptsRunByShell ==
  ret = "ENOEXEC" /\ lastPath \in DOMAIN FS
    => ~(Len(FS[lastPath]) >= 4 /\ IsPrefix(SCRIPT_MAGIC, FS[lastPath]))
=============================================================================
