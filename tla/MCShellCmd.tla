---------------------------- MODULE MCShellCmd ----------------------------
(* Model-checking instance of ShellCmd. *)
EXTENDS ShellCmd, TLC

CONSTANTS monitor, display

OneOrTwo == {monitor :> 3 @@ display :> 0, monitor :> 2 @@ display :> 1,
             monitor :> 1 @@ display :> 2}
============================================================================
