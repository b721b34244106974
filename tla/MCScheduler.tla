----------------------------- MODULE MCScheduler -----------------------------
(* Two applications, whose int 0x40 is a signal, and the board thread,     *)
(* which calls i40.  The second application only makes the call it stays   *)
(* in, which keeps the instance small.                                     *)
EXTENDS Scheduler

Calls == [app1 |-> 2, app2 |-> 1, board |-> 2]
=============================================================================
