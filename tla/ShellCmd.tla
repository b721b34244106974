----------------------------- MODULE ShellCmd -----------------------------
(***************************************************************************)
(* The command slot of the shell (shell.c, umka_cmd_buf[0]).               *)
(*                                                                         *)
(* A host thread, the monitor or the display of umka_os, fills the slot,   *)
(* stores READY and, if the system runs, waits on the condition variable   *)
(* cmd_done; the kernel thread cmd_runner polls for READY, executes the    *)
(* command, stores DONE and signals cmd_done.  Before the system runs, and *)
(* always in umka_shell, the caller executes the command itself.  Neither  *)
(* the signal nor the wait is guarded by the slot's status, a wait may     *)
(* return without a signal, the mutex of the wait is not held by the       *)
(* signaller and the display never locks it.                               *)
(*                                                                         *)
(* A command's type and arguments are the ticket <<c, n>>: the n-th        *)
(* command of client c.  Atomic accesses are steps of their own.           *)
(***************************************************************************)
EXTENDS Integers

CONSTANTS
  Clients,       \* host threads that call shell_run_cmd
  Lockers,       \* the clients that hold cmd_mutex: the monitor, in run_test
  MaxCmds,       \* bound on the commands of one client
  Quotas,        \* how many commands each client issues: 0 if it does not exist
  StartRunning   \* values of umka->running the behaviour may start with

ASSUME LockersAssumption == Lockers \subseteq Clients

ASSUME MaxCmdsAssumption == MaxCmds \in Nat

ASSUME QuotasAssumption == Quotas \subseteq [Clients -> 0..MaxCmds]

RunStates == {"NEVER", "NOT_YET", "YES"}

ASSUME StartRunningAssumption == StartRunning \subseteq RunStates

VARIABLES
  status,    \* cmd->status
  cmd,       \* cmd->type and its arguments: the ticket of the last writer
  running,   \* umka->running
  mutex,     \* whether ctx->cmd_mutex is locked (by whom does not matter)
  waiters,   \* threads blocked on ctx->cmd_done
  pc,        \* control state of each client
  quota,     \* quota[c]: the commands c issues in this behaviour
  sub,       \* sub[c]: number of c's current or last command
  rpc,       \* control state of cmd_runner
  runs,      \* history: how often each ticket was executed
  npass,     \* history: passes of cmd_runner's loop
  nready,    \* history: READY stores
  nwoken,    \* history: waits ended by a signal
  missed,    \* history: clients signalled after READY but before the wait
  raced,     \* history: a self-executed command was open at the switch
  spurious   \* history: a wait has returned without a signal

vars == <<status, cmd, running, mutex, waiters, pc, quota, sub, rpc, runs,
          npass, nready, nwoken, missed, raced, spurious>>

Tickets == Clients \X (1..MaxCmds)

NoTicket == <<>>

Statuses == {"EMPTY", "READY", "DONE"}

ClientStates == {"start", "idle", "filled", "ready", "towait", "blocked", "woken",
                 "sync", "executed", "signal", "clear"}

RunnerStates == {"wait", "exec", "done", "signal"}

Ticket(c) == <<c, sub[c]>>

\* Between the READY store and the store of EMPTY.
InCall(c) == pc[c] \notin {"start", "idle", "filled"}

\* The caller saw the system not running and executes the command itself.
SelfExecuting(c) == pc[c] \in {"sync", "executed", "signal"}

TypeOK ==
  /\ status \in Statuses
  /\ cmd \in Tickets \cup {NoTicket}
  /\ running \in RunStates
  /\ mutex \in BOOLEAN
  /\ waiters \subseteq Clients
  /\ pc \in [Clients -> ClientStates]
  /\ quota \in [Clients -> 0..MaxCmds]
  /\ sub \in [Clients -> 0..MaxCmds]
  /\ rpc \in RunnerStates
  /\ runs \in [Tickets -> Nat]
  /\ npass \in Nat
  /\ nready \in Nat
  /\ nwoken \in Nat
  /\ missed \subseteq Clients
  /\ raced \in BOOLEAN
  /\ spurious \in BOOLEAN

\* shell_init has run, and the startup script; the host threads are created.
Init ==
  /\ status = "EMPTY"
  /\ cmd = NoTicket
  /\ running \in StartRunning
  /\ mutex = FALSE
  /\ waiters = {}
  /\ pc = [c \in Clients |-> IF c \in Lockers THEN "start" ELSE "idle"]
  /\ quota \in Quotas
  /\ sub = [c \in Clients |-> 0]
  /\ rpc = "wait"
  /\ runs = [t \in Tickets |-> 0]
  /\ npass = 0
  /\ nready = 0
  /\ nwoken = 0
  /\ missed = {}
  /\ raced = FALSE
  /\ spurious = FALSE

-----------------------------------------------------------------------------
Goto(c, from, to) == pc[c] = from /\ pc' = [pc EXCEPT ![c] = to]

\* run_test locks cmd_mutex for as long as it reads commands.
Enter(c) ==
  /\ Goto(c, "start", "idle")
  /\ ~mutex
  /\ mutex' = TRUE
  /\ UNCHANGED <<status, cmd, running, waiters, quota, sub, rpc, runs, npass,
                 nready, nwoken, missed, raced, spurious>>

\* The handler of a slot command (or an SDL event) writes type and arguments.
Fill(c) ==
  /\ Goto(c, "idle", "filled")
  /\ sub[c] < quota[c]
  /\ sub' = [sub EXCEPT ![c] = @ + 1]
  /\ cmd' = <<c, sub[c] + 1>>
  /\ UNCHANGED <<status, running, mutex, waiters, quota, rpc, runs, npass,
                 nready, nwoken, missed, raced, spurious>>

StoreReady(c) ==
  /\ Goto(c, "filled", "ready")
  /\ status' = "READY"
  /\ nready' = nready + 1
  /\ missed' = missed \ {c}
  /\ UNCHANGED <<cmd, running, mutex, waiters, quota, sub, rpc, runs, npass,
                 nwoken, raced, spurious>>

LoadRunning(c) ==
  /\ Goto(c, "ready", IF running = "YES" THEN "towait" ELSE "sync")
  /\ UNCHANGED <<status, cmd, running, mutex, waiters, quota, sub, rpc, runs,
                 npass, nready, nwoken, missed, raced, spurious>>

\* Faulty: a wait that keeps the mutex.
CondWaitLocked(c) ==
  /\ Goto(c, "towait", "blocked")
  /\ waiters' = waiters \cup {c}
  /\ UNCHANGED <<status, cmd, running, mutex, quota, sub, rpc, runs, npass,
                 nready, nwoken, missed, raced, spurious>>

\* pthread_cond_wait: unlocks the mutex, whoever locked it, and blocks.
CondWait(c) ==
  /\ Goto(c, "towait", "blocked")
  /\ mutex' = FALSE
  /\ waiters' = waiters \cup {c}
  /\ UNCHANGED <<status, cmd, running, quota, sub, rpc, runs, npass, nready,
                 nwoken, missed, raced, spurious>>

\* pthread_cond_wait may return without a signal, and shell_run_cmd does not
\* look at the status again.
SpuriousReturn(c) ==
  /\ Goto(c, "blocked", "woken")
  /\ waiters' = waiters \ {c}
  /\ spurious' = TRUE
  /\ UNCHANGED <<status, cmd, running, mutex, quota, sub, rpc, runs, npass,
                 nready, nwoken, missed, raced>>

\* A signalled waiter must take the mutex before pthread_cond_wait returns.
Relock(c) ==
  /\ Goto(c, "woken", "clear")
  /\ ~mutex
  /\ mutex' = TRUE
  /\ UNCHANGED <<status, cmd, running, waiters, quota, sub, rpc, runs, npass,
                 nready, nwoken, missed, raced, spurious>>

ClearCmd(c) ==
  /\ Goto(c, "clear", "idle")
  /\ status' = "EMPTY"
  /\ UNCHANGED <<cmd, running, mutex, waiters, quota, sub, rpc, runs, npass,
                 nready, nwoken, missed, raced, spurious>>

-----------------------------------------------------------------------------
\* The switch of shell_run_cmd_sync: executes whatever the slot holds.
Execute ==
  runs' = IF cmd \in Tickets THEN [runs EXCEPT ![cmd] = @ + 1] ELSE runs

\* pthread_cond_signal: wakes one waiter, and is lost on those not yet waiting.
SignalDone ==
  IF waiters = {}
    THEN /\ missed' = missed \cup {c \in Clients : pc[c] \in {"ready", "towait"}}
         /\ UNCHANGED <<waiters, nwoken>>
    ELSE /\ \E w \in waiters : waiters' = waiters \ {w}
         /\ nwoken' = nwoken + 1
         /\ UNCHANGED missed

Woken == waiters \ waiters'

\* The caller's own pass through shell_run_cmd_sync.
SyncExecute(c) ==
  /\ Goto(c, "sync", "executed")
  /\ Execute
  /\ UNCHANGED <<status, cmd, running, mutex, waiters, quota, sub, rpc,
                 npass, nready, nwoken, missed, raced, spurious>>

SyncDone(c) ==
  /\ Goto(c, "executed", "signal")
  /\ status' = "DONE"
  /\ UNCHANGED <<cmd, running, mutex, waiters, quota, sub, rpc, runs, npass,
                 nready, nwoken, missed, raced, spurious>>

SyncSignal(c) ==
  /\ pc[c] = "signal"
  /\ SignalDone
  /\ pc' = [d \in Clients |-> IF d = c THEN "clear"
                              ELSE IF d \in Woken THEN "woken" ELSE pc[d]]
  /\ UNCHANGED <<status, cmd, running, mutex, quota, sub, rpc, runs, npass,
                 nready, raced, spurious>>

\* Faulty: the test takes any command that is not EMPTY for a new one.
RunnerTestNotEmpty ==
  /\ running = "YES"
  /\ rpc = "wait" /\ status # "EMPTY"
  /\ rpc' = "exec"
  /\ npass' = npass + 1
  /\ UNCHANGED <<status, cmd, running, mutex, waiters, pc, quota, sub, runs,
                 nready, nwoken, missed, raced, spurious>>

\* thread_cmd_runner: scheduled only while the system runs.
RunnerTest ==
  /\ running = "YES"
  /\ rpc = "wait" /\ status = "READY"
  /\ rpc' = "exec"
  /\ npass' = npass + 1
  /\ UNCHANGED <<status, cmd, running, mutex, waiters, pc, quota, sub, runs,
                 nready, nwoken, missed, raced, spurious>>

RunnerExecute ==
  /\ rpc = "exec" /\ rpc' = "done"
  /\ Execute
  /\ UNCHANGED <<status, cmd, running, mutex, waiters, pc, quota, sub, npass,
                 nready, nwoken, missed, raced, spurious>>

\* Faulty: the DONE store is missing.
RunnerDoneNoStore ==
  /\ rpc = "done" /\ rpc' = "signal"
  /\ UNCHANGED <<status, cmd, running, mutex, waiters, pc, quota, sub, runs,
                 npass, nready, nwoken, missed, raced, spurious>>

RunnerDone ==
  /\ rpc = "done" /\ rpc' = "signal"
  /\ status' = "DONE"
  /\ UNCHANGED <<cmd, running, mutex, waiters, pc, quota, sub, runs, npass,
                 nready, nwoken, missed, raced, spurious>>

RunnerSignal ==
  /\ rpc = "signal" /\ rpc' = "wait"
  /\ SignalDone
  /\ pc' = [d \in Clients |-> IF d \in Woken THEN "woken" ELSE pc[d]]
  /\ UNCHANGED <<status, cmd, running, mutex, quota, sub, runs, npass,
                 nready, raced, spurious>>

\* umka_os main, after it has created the monitor and the display threads.
SwitchOn ==
  /\ running = "NOT_YET" /\ running' = "YES"
  /\ raced' = \E c \in Clients : SelfExecuting(c)
  /\ UNCHANGED <<status, cmd, mutex, waiters, pc, quota, sub, rpc, runs,
                 npass, nready, nwoken, missed, spurious>>

-----------------------------------------------------------------------------
Client(c) ==
  \/ Enter(c) \/ Fill(c) \/ StoreReady(c) \/ LoadRunning(c) \/ CondWait(c)
  \/ Relock(c) \/ ClearCmd(c) \/ SyncExecute(c) \/ SyncDone(c) \/ SyncSignal(c)

Runner == RunnerTest \/ RunnerExecute \/ RunnerDone \/ RunnerSignal

Next == Runner \/ SwitchOn \/ \E c \in Clients : Client(c) \/ SpuriousReturn(c)

Spec == Init /\ [][Next]_vars

\* The host schedules its threads; irq0 and the scheduler run cmd_runner again
\* and again.  Nobody forces a client to issue another command.
Fairness ==
  /\ WF_vars(Runner)
  /\ \A c \in Clients : WF_vars(Client(c) /\ ~(pc[c] = "idle"))

FairSpec == Spec /\ Fairness

-----------------------------------------------------------------------------
\* Only one host thread uses the slot: umka_shell, or umka_os without display.
Solo == \A c, d \in Clients : quota[c] > 0 /\ quota[d] > 0 => c = d

\* And so far the switch caught no command and no wait returned unsignalled.
Orderly == Solo /\ ~raced /\ ~spurious

(* One READY store of shell_run_cmd leads to at most one pass of cmd_runner, *)
(* and the signal of one pass ends the wait of at most one caller, unless the*)
(* switch caught a caller that executes its command itself.  Holds for any   *)
(* number of callers, however their commands overwrite each other, and       *)
(* whatever waits return without a signal.                                   *)
PassesMatchCommands == npass <= nready /\ (~raced => nwoken <= npass)

(* A caller whose pthread_cond_wait was ended by the signal had its own      *)
(* command executed, once: the result it reads after shell_run_cmd is its    *)
(* own.                                                                      *)
ResumedServed ==
  Orderly =>
    \A c \in Clients : pc[c] \in {"woken", "clear"} => runs[Ticket(c)] = 1

(* Even a command caught by the switch of umka->running, executed by its     *)
(* caller and by cmd_runner at once, or one whose caller went on after a     *)
(* spurious return and refilled the slot, is executed at most twice.         *)
AtMostTwice == Solo => \A t \in Tickets : runs[t] <= 2

(* A caller waits for a cmd_runner that has nothing left to do only when the *)
(* signal was sent between its READY store and its pthread_cond_wait.        *)
HangsOnlyIfMissed ==
  Solo => \A c \in Clients :
            pc[c] = "blocked" /\ rpc = "wait" /\ status # "READY" => c \in missed

(* The slot is not refilled while a command is READY or being executed.      *)
SlotStable ==
  [][Orderly /\ cmd' # cmd => status = "EMPTY" /\ rpc = "wait"]_vars

(* A caller that blocks before cmd_runner signals gets back to the shell.    *)
WaiterResumes ==
  \A c \in Clients :
    Solo /\ pc[c] = "blocked" /\ c \notin missed ~> pc[c] = "clear"

-----------------------------------------------------------------------------
\* How a caller's control state looks from its own side; its executions are
\* those of runs, and a command counts from its READY store on.
Phase(c) ==
  IF ~InCall(c) THEN "idle"
  ELSE IF runs[Ticket(c)] = 0 THEN "called" ELSE "served"

Issued(c) == IF pc[c] = "filled" THEN sub[c] - 1 ELSE sub[c]

Service == INSTANCE CommandService
             WITH MaxCalls <- MaxCmds,
                  phase <- [c \in Clients |-> Phase(c)],
                  calls <- [c \in Clients |-> Issued(c)],
                  execs <- runs

(* As long as no other thread uses the slot, the switch catches no command   *)
(* and no wait returns without a signal, every step of the system is a step  *)
(* of the service: a caller's command is executed exactly once, between call *)
(* and return.  A second execution, in the call or after it, would be no     *)
(* step of the service.                                                      *)
ImplementsService ==
  Service!Init /\ [][Orderly' => Service!Next]_(Service!vars)
============================================================================
