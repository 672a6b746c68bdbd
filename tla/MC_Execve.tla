------------------------------ MODULE MC_Execve ------------------------------
(***************************************************************************)
(* Model-checking instance of Execve: a shell, an ELF program, a script,  *)
(* a file with neither magic, and a path that does not exist.              *)
(***************************************************************************)
EXTENDS Execve

MCFS ==
  [p \in {"/bin/bash", "/prog", "/run.sh", "/data"} |->
     CASE p = "/run.sh" -> <<"#", "!", "/", "b", "i">>
       [] p = "/data"   -> <<"x", "y", "z", "w">>
       [] OTHER         -> <<"7f", "E", "L", "F", "x">>]

MCPaths == {"/bin/bash", "/prog", "/run.sh", "/data", "/none"}

(* NULL-terminated, containing a bad string, and unterminated.             *)
MCArrays == {<<"NULL">>, <<"a", "NULL">>, <<"BadStr", "NULL">>, <<"a">>}
=============================================================================
