-------------------------- MODULE MCShellSession --------------------------
(* Sessions with every command and three directories. *)
EXTENDS ShellSession

AllCommands == DOMAIN Handlers

ThreePaths == {Root, <<"hd0">>, <<"hd0", "1">>}
============================================================================
