-------------------------- MODULE CommandService --------------------------
(***************************************************************************)
(* What shell_run_cmd and io_read promise to the thread that calls them:   *)
(* the command of a call is executed exactly once, after the call and      *)
(* before the return, and nothing is executed outside a call.  Executions  *)
(* are visible, so that a second one of the same command is no step of     *)
(* this specification.  ShellCmd and UmkaIo are shown to implement it when *)
(* a single thread calls.                                                  *)
(***************************************************************************)
EXTENDS Naturals

CONSTANTS
  Clients,     \* the threads that call
  MaxCalls     \* bound on the calls of one client

VARIABLES
  phase,       \* phase[c]: where c's current call stands
  calls,       \* calls[c]: number of calls c has made
  execs        \* execs[<<c, n>>]: executions of the n-th call of c

vars == <<phase, calls, execs>>

TypeOK ==
  /\ phase \in [Clients -> {"idle", "called", "served"}]
  /\ calls \in [Clients -> 0..MaxCalls]
  /\ execs \in [Clients \X (1..MaxCalls) -> Nat]

Init ==
  /\ phase = [c \in Clients |-> "idle"]
  /\ calls = [c \in Clients |-> 0]
  /\ execs = [t \in Clients \X (1..MaxCalls) |-> 0]

Move(c, from, to) == phase[c] = from /\ phase' = [phase EXCEPT ![c] = to]

Count(c) == calls' = [calls EXCEPT ![c] = @ + 1]

Execute(c, n) == execs' = [execs EXCEPT ![<<c, n>>] = @ + 1]

Call(c) == Move(c, "idle", "called") /\ Count(c) /\ UNCHANGED execs

Serve(c) == Move(c, "called", "served") /\ Execute(c, calls[c]) /\ UNCHANGED calls

Return(c) == Move(c, "served", "idle") /\ UNCHANGED <<calls, execs>>

\* A call that the caller executes itself, in one step.
ServeNow(c) ==
  /\ phase[c] = "idle" /\ UNCHANGED phase
  /\ Count(c) /\ Execute(c, calls[c] + 1)

Next == \E c \in Clients : Call(c) \/ Serve(c) \/ Return(c) \/ ServeNow(c)

Spec == Init /\ [][Next]_vars
============================================================================
