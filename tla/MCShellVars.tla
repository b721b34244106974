---------------------------- MODULE MCShellVars ----------------------------
(* A model-checking instance of ShellVars. *)
EXTENDS ShellVars
============================================================================
