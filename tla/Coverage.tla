------------------------------ MODULE Coverage ------------------------------
(***************************************************************************)
(* Branch coverage of the kernel in umka_shell.  With EFLAGS.TF set the    *)
(* processor traps at every taken branch, and handle_sigtrap (trace_lbr.c) *)
(* counts its two ends if they lie in the kernel's code.  The shell sets   *)
(* TF around each call of the kernel (COVERAGE_ON, COVERAGE_OFF), and the  *)
(* disk and network drivers, which the kernel calls back, switch it too.   *)
(* A few of its calls are made outside such a pair, with TF clear.         *)
(* tools/covpreproc.c adds the tables of several sessions and computes how *)
(* often each instruction was executed from the branches alone.            *)
(*                                                                         *)
(* An instruction takes one address.  set_eflags_tf, which switches TF, is *)
(* itself part of the code that is counted: the addresses Tf and Tf + 1,   *)
(* the second one being its return.                                        *)
(***************************************************************************)
EXTENDS Integers, Sequences

CONSTANTS
  N,            \* the code lies at the addresses 1..N
  Tf,           \* set_eflags_tf
  Kind, Target, \* per address: what the instruction is, where it jumps
  Entries,      \* functions the shell calls between COVERAGE_ON and _OFF
  Bare,         \* functions it calls outside of them
  MaxTaken,     \* bound: conditional jumps taken in a session
  MaxCommands,  \* bound: commands in a session
  MaxSessions   \* bound: coverage files

Code == (1..N) \ {Tf, Tf + 1}

ASSUME ProgramAssumption ==
  /\ N \in Nat /\ Tf \in 1..(N - 1)
  /\ Kind \in [Code -> {"plain", "cond", "jump", "call", "ret", "driver"}]
  /\ Target \in [Code -> Code]
  /\ Entries \subseteq Code /\ Bare \subseteq Code
  /\ \A i \in Code : Kind[i] \notin {"jump", "ret"} => i + 1 \in Code

ASSUME BoundsAssumption == {MaxTaken, MaxCommands, MaxSessions} \subseteq Nat

VARIABLES
  at,          \* address, or Shell, or Driver
  stage,       \* of the shell: "off", "on", "called", "bare"
  stack,       \* return addresses inside the kernel
  todo,        \* what the driver has still to do
  tf,          \* EFLAGS.TF
  from, to,    \* coverage_table of the session
  branches,    \* covpreproc's sums over the files read
  commands, sessions,
  visits, jumps,  \* history: arrivals at each address and conditional jumps
               \* taken, in calls made between COVERAGE_ON and COVERAGE_OFF
  traced,      \* history: arrivals with TF set
  reset        \* history: a network driver was reset or unloaded

vars == <<at, stage, stack, todo, tf, from, to, branches, commands, sessions,
          visits, jumps, traced, reset>>
control == <<stage, stack, todo>>
files == <<branches, commands, sessions>>

\* Places outside the kernel.
Shell == 0
Driver == -1

Zero == [i \in 1..N |-> 0]
Inc(c, i, b) == [c EXCEPT ![i] = @ + (IF b THEN 1 ELSE 0)]

-----------------------------------------------------------------------------
(* The trap.                                                               *)

\* Faulty: only branches from kernel code to kernel code are counted.
handle_sigtrap_inner(a, b) ==
  LET both == tf /\ a \in 1..N /\ b \in 1..N
  IN /\ from' = IF both THEN Inc(from, a, TRUE) ELSE from
     /\ to' = IF both THEN Inc(to, b, TRUE) ELSE to

\* The branch from a to b, each of them an address or something else.
handle_sigtrap(a, b) ==
  /\ from' = IF tf /\ a \in 1..N THEN Inc(from, a, TRUE) ELSE from
  /\ to' = IF tf /\ b \in 1..N THEN Inc(to, b, TRUE) ELSE to

\* The shell is between COVERAGE_ON and COVERAGE_OFF.
Covered == stage \in {"on", "called"}

\* Control arrives at i.
Arrive(i) ==
  /\ at' = i
  /\ visits' = Inc(visits, i, Covered)
  /\ traced' = Inc(traced, i, tf)

Leave(p) ==
  /\ at' = p
  /\ UNCHANGED <<visits, traced>>

\* The call of set_eflags_tf traps if TF was set before, its return if TF
\* is set now.
set_eflags_tf(b) ==
  /\ to' = Inc(to, Tf, tf)
  /\ from' = IF b THEN Inc(from, Tf + 1, TRUE) ELSE from
  /\ tf' = b

trace_on == set_eflags_tf(TRUE)

trace_off == set_eflags_tf(FALSE)

-----------------------------------------------------------------------------
(* A command of the shell.                                                 *)

CommandOn ==
  /\ at = Shell /\ stage = "off" /\ commands < MaxCommands
  /\ stage' = "on" /\ commands' = commands + 1
  /\ trace_on
  /\ UNCHANGED <<at, stack, todo, branches, sessions, visits, jumps, traced,
                 reset>>

CallKernel(e) ==
  /\ at = Shell /\ stage = "on"
  /\ stage' = "called"
  /\ handle_sigtrap(Shell, e)
  /\ Arrive(e)
  /\ UNCHANGED <<stack, todo, tf, files, jumps, reset>>

CommandOff ==
  /\ at = Shell /\ stage = "called"
  /\ stage' = "off"
  /\ trace_off
  /\ UNCHANGED <<at, stack, todo, files, visits, jumps, traced, reset>>

\* A call without the pair: umka_new_sys_threads, umka_get_key,
\* kos_new_sys_threads, kos_time_to_epoch, kos_acpi_count_nodes.
CallBare(e) ==
  /\ at = Shell /\ stage = "off" /\ commands < MaxCommands
  /\ stage' = "bare" /\ commands' = commands + 1
  /\ handle_sigtrap(Shell, e)
  /\ Arrive(e)
  /\ UNCHANGED <<stack, todo, tf, branches, sessions, jumps, reset>>

\* The session ends, its table is written and covpreproc reads it; another
\* session starts.
NewSession ==
  /\ at = Shell /\ stage = "off" /\ sessions < MaxSessions
  /\ sessions' = sessions + 1 /\ commands' = 0
  /\ branches' = [from |-> [i \in 1..N |-> branches.from[i] + from[i]],
                  to |-> [i \in 1..N |-> branches.to[i] + to[i]]]
  /\ from' = Zero /\ to' = Zero
  /\ tf' = FALSE
  /\ UNCHANGED <<at, control, visits, jumps, traced, reset>>

-----------------------------------------------------------------------------
(* The kernel.                                                             *)

Plain ==
  /\ at \in Code /\ Kind[at] = "plain"
  /\ Arrive(at + 1)
  /\ UNCHANGED <<control, tf, from, to, files, jumps, reset>>

CondTaken ==
  /\ at \in Code /\ Kind[at] = "cond" /\ jumps[at] < MaxTaken
  /\ jumps' = Inc(jumps, at, Covered)
  /\ handle_sigtrap(at, Target[at])
  /\ Arrive(Target[at])
  /\ UNCHANGED <<control, tf, files, reset>>

CondNotTaken ==
  /\ at \in Code /\ Kind[at] = "cond"
  /\ Arrive(at + 1)
  /\ UNCHANGED <<control, tf, from, to, files, jumps, reset>>

Jump ==
  /\ at \in Code /\ Kind[at] = "jump"
  /\ handle_sigtrap(at, Target[at])
  /\ Arrive(Target[at])
  /\ UNCHANGED <<control, tf, files, jumps, reset>>

Call ==
  /\ at \in Code /\ Kind[at] = "call"
  /\ stack' = <<at + 1>> \o stack
  /\ handle_sigtrap(at, Target[at])
  /\ Arrive(Target[at])
  /\ UNCHANGED <<stage, todo, tf, files, jumps, reset>>

Return ==
  /\ at \in Code /\ Kind[at] = "ret" /\ stack # <<>>
  /\ stack' = Tail(stack)
  /\ handle_sigtrap(at, Head(stack))
  /\ Arrive(Head(stack))
  /\ UNCHANGED <<stage, todo, tf, files, jumps, reset>>

ReturnToShell ==
  /\ at \in Code /\ Kind[at] = "ret" /\ stack = <<>>
  /\ stage' = IF stage = "bare" THEN "off" ELSE stage
  /\ handle_sigtrap(at, Shell)
  /\ Leave(Shell)
  /\ UNCHANGED <<stack, todo, tf, files, jumps, reset>>

-----------------------------------------------------------------------------
(* The drivers the kernel calls back.                                      *)

\* Faulty: a driver that forgets COVERAGE_ON.
DisksSilent == {<<"off">>}

\* vdisk_querymedia and close, read and write of raw and qcow2 disks;
\* transmit of the network drivers ends in the same pair.
Disks == {<<"off", "on">>}

\* vdisk_adjust_cache_size.
AdjustCacheSize == {<<>>}

\* reset and unload of the network drivers: the pair is reversed.
Resets == {<<"on", "off">>}

\* None of the functions called outside the pair calls a driver.
CallDriver ==
  /\ at \in Code /\ Kind[at] = "driver" /\ stage = "called"
  /\ stack' = <<at + 1>> \o stack
  /\ \E d \in Disks \cup AdjustCacheSize \cup Resets :
       /\ todo' = d
       /\ reset' = (reset \/ d \in Resets)
  /\ handle_sigtrap(at, Driver)
  /\ Leave(Driver)
  /\ UNCHANGED <<stage, tf, files, jumps>>

DriverOn ==
  /\ at = Driver /\ todo # <<>> /\ Head(todo) = "on"
  /\ todo' = Tail(todo)
  /\ trace_on
  /\ UNCHANGED <<at, stage, stack, files, visits, jumps, traced, reset>>

DriverOff ==
  /\ at = Driver /\ todo # <<>> /\ Head(todo) = "off"
  /\ todo' = Tail(todo)
  /\ trace_off
  /\ UNCHANGED <<at, stage, stack, files, visits, jumps, traced, reset>>

DriverReturn ==
  /\ at = Driver /\ todo = <<>>
  /\ stack' = Tail(stack)
  /\ handle_sigtrap(Driver, Head(stack))
  /\ Arrive(Head(stack))
  /\ UNCHANGED <<stage, todo, tf, files, jumps, reset>>

-----------------------------------------------------------------------------
Init ==
  /\ at = Shell /\ stage = "off" /\ stack = <<>> /\ todo = <<>>
  /\ tf = FALSE
  /\ from = Zero /\ to = Zero
  /\ branches = [from |-> Zero, to |-> Zero]
  /\ commands = 0 /\ sessions = 0
  /\ visits = Zero /\ jumps = Zero /\ traced = Zero
  /\ reset = FALSE

Next ==
  \/ CommandOn \/ CommandOff \/ NewSession
  \/ \E e \in Entries : CallKernel(e)
  \/ \E e \in Bare : CallBare(e)
  \/ Plain \/ CondTaken \/ CondNotTaken \/ Jump
  \/ Call \/ Return \/ ReturnToShell
  \/ CallDriver \/ DriverOn \/ DriverOff \/ DriverReturn

Spec == Init /\ [][Next]_vars

-----------------------------------------------------------------------------
(* tools/covpreproc.c: the columns of the report.                          *)

Sum(f) == [i \in 1..N |-> branches[f][i] + (IF f = "from" THEN from ELSE to)[i]]

\* cur before the line of address i is printed.
cur[i \in 0..N] ==
  IF i = 0 THEN 0
  ELSE cur[i - 1] - (IF i = 1 THEN 0 ELSE Sum("from")[i - 1]) + Sum("to")[i]

taken(i) == Sum("from")[i]

\* Faulty: the times it was taken are not subtracted.
not_taken_all(i) == cur[i]

not_taken(i) == cur[i] - taken(i)

-----------------------------------------------------------------------------
TypeOK ==
  /\ at \in Code \cup {Shell, Driver}
  /\ stage \in {"off", "on", "called", "bare"}
  /\ stack \in Seq(Code)
  /\ todo \in {<<>>, <<"on">>, <<"off">>, <<"on", "off">>, <<"off", "on">>}
  /\ tf \in BOOLEAN /\ reset \in BOOLEAN
  /\ {from, to, visits, jumps, traced} \subseteq [1..N -> Nat]
  /\ branches \in [{"from", "to"} -> [1..N -> Nat]]
  /\ commands \in Nat /\ sessions \in Nat

\* Times execution fell through from i to the next instruction with TF set.
Through(i) ==
  traced[i] - Sum("from")[i] - (IF at = i /\ tf THEN 1 ELSE 0)

(***************************************************************************)
(* At any moment the table accounts for the flow of control: an            *)
(* instruction was reached by the branches to it and by falling through    *)
(* from the one before it.  Switching TF itself, which executes one half   *)
(* of set_eflags_tf with TF set and the other without, leaves nothing      *)
(* behind for the addresses that follow it once TF is clear                *)
(* (trace_lbr.c:76-82, umka.asm:628-641).                                  *)
(***************************************************************************)
FlowConserved ==
  /\ \A i \in Code :
       /\ traced[i] = Sum("to")[i] + IF i - 1 \in Code THEN Through(i - 1)
                                                      ELSE 0
       /\ i + 1 \notin Code => Through(i) = 0
  /\ Sum("from")[Tf + 1] = Sum("to")[Tf] + IF tf THEN 1 ELSE 0
  /\ Sum("from")[Tf] = 0 /\ Sum("to")[Tf + 1] = 0

Between == at = Shell /\ stage = "off"

(***************************************************************************)
(* Between two commands the report is right for every instruction of the   *)
(* kernel: the computed count is the number of times it was executed with  *)
(* TF set.  Unless a network driver was reset or unloaded, it tells of a   *)
(* conditional jump how often it was taken and not taken in the calls made *)
(* between COVERAGE_ON and COVERAGE_OFF: the calls made outside of them,   *)
(* even of the same code, add nothing to it (tools/covpreproc.c:126-153,   *)
(* trace_lbr.c:70-89, shell.c:2786).                                       *)
(***************************************************************************)
CountsRight ==
  Between => \A i \in Code :
    /\ cur[i] = traced[i]
    /\ Kind[i] = "cond" => taken(i) >= 0 /\ not_taken(i) >= 0
    /\ Kind[i] = "cond" /\ ~reset =>
         taken(i) = jumps[i] /\ not_taken(i) = visits[i] - jumps[i]

(***************************************************************************)
(* Unless a network driver was reset or unloaded in this or an earlier     *)
(* command, kernel code called between COVERAGE_ON and COVERAGE_OFF is     *)
(* executed with TF set, whatever drivers it has called back, and kernel   *)
(* code called outside of them with TF clear; the code of the shell        *)
(* between commands always runs with TF clear (trace.h:12, shell.c:927,    *)
(* vdisk/raw.c:35-40, vnet/null.c:26-29).                                  *)
(***************************************************************************)
KernelTraced ==
  /\ ~reset => /\ at \in Code => (tf <=> stage # "bare")
               /\ traced = visits
  /\ Between \/ stage = "bare" => ~tf

=============================================================================
