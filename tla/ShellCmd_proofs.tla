-------------------------- MODULE ShellCmd_proofs --------------------------
(***************************************************************************)
(* Proofs about the command slot, for any set of callers and any quotas.   *)
(*                                                                         *)
(* Counting is the invariant behind PassesMatchCommands: a READY slot that *)
(* the runner has not taken yet is a store without a pass, and a runner    *)
(* that is past its test is a pass without a wakeup.  Alone is the one     *)
(* behind the properties of a single caller: it lists, for each control    *)
(* state of the caller, what the slot, the runner and the history hold.    *)
(***************************************************************************)
EXTENDS ShellCmd, TLAPS

\* The run state and what it rules out.
Phases ==
  /\ raced => running = "YES"
  /\ running # "YES" =>
       /\ waiters = {} /\ rpc = "wait"
       /\ \A c \in Clients : pc[c] \notin {"towait", "blocked", "woken"}
  /\ ~raced /\ running = "YES" => \A c \in Clients : ~SelfExecuting(c)

Pending == IF rpc = "wait" THEN 0 ELSE 1

Counting ==
  /\ npass <= nready
  /\ status = "READY" /\ rpc \in {"wait", "signal"} => npass < nready
  /\ ~raced => nwoken + Pending <= npass

Inv == TypeOK /\ Phases /\ Counting

\* A command that cmd_runner is to execute, executes or has executed.
Handed(c) ==
  \/ status = "READY" /\ rpc = "wait" /\ runs[Ticket(c)] = 0
  \/ /\ running = "YES"
     /\ \/ status = "READY" /\ rpc = "exec" /\ runs[Ticket(c)] = 0
        \/ status = "READY" /\ rpc = "done" /\ runs[Ticket(c)] = 1
        \/ status = "DONE" /\ rpc = "signal" /\ runs[Ticket(c)] = 1
        \/ status = "DONE" /\ rpc = "wait" /\ runs[Ticket(c)] = 1 /\ c \in missed

\* The slot as the only caller c sees it.
View(c) ==
  /\ waiters = (IF pc[c] = "blocked" THEN {c} ELSE {})
  /\ pc[c] \notin {"start", "idle"} => sub[c] \in 1..MaxCmds /\ cmd = Ticket(c)
  /\ \A n \in 1..MaxCmds : n > sub[c] => runs[<<c, n>>] = 0
  /\ pc[c] \in {"start", "idle"} => status = "EMPTY" /\ rpc = "wait"
  /\ pc[c] = "filled" =>
       status = "EMPTY" /\ rpc = "wait" /\ runs[Ticket(c)] = 0
  /\ pc[c] \in {"ready", "towait", "blocked"} => Handed(c)
  /\ pc[c] = "sync" => status = "READY" /\ rpc = "wait" /\ runs[Ticket(c)] = 0
  /\ pc[c] = "executed" =>
       status = "READY" /\ rpc = "wait" /\ runs[Ticket(c)] = 1
  /\ pc[c] \in {"signal", "woken", "clear"} =>
       status = "DONE" /\ rpc = "wait" /\ runs[Ticket(c)] = 1

\* Where the waiters are, and the clients that issue no commands.
Places ==
  /\ \A c \in Clients : c \in waiters <=> pc[c] = "blocked"
  /\ \A c \in Clients : quota[c] = 0 => pc[c] \in {"start", "idle"}
  /\ (\A c \in Clients : quota[c] = 0) => status = "EMPTY" /\ rpc = "wait"

\* A caller that missed no signal has one ahead of it.
Heard ==
  Solo => \A c \in Clients :
            pc[c] \in {"ready", "towait", "blocked"} /\ c \notin missed
              => status = "READY" \/ rpc = "signal"

Alone == Orderly => \A c \in Clients : quota[c] > 0 => View(c)

\* Executions of the slot's command still to come: the runner's pass that has
\* passed its test, the pass a READY slot will get, and the caller's own.
Owed(c) ==
  (IF rpc = "exec" THEN 1 ELSE 0)
  + (IF status = "READY" /\ rpc \in {"wait", "signal"} THEN 1 ELSE 0)
  + (IF pc[c] \in {"filled", "sync"} THEN 1 ELSE 0)

\* What was and what can still be executed of the commands of the only caller c,
\* even after the switch has caught one of them.
Budget(c) ==
  /\ \A n \in 1..MaxCmds : runs[<<c, n>>] <= 2 /\ (n > sub[c] => runs[<<c, n>>] = 0)
  /\ pc[c] \in {"start", "idle", "filled"} => status # "READY"
  /\ pc[c] \notin {"start", "idle"} => sub[c] # 0
  /\ sub[c] = 0 => cmd = NoTicket
  /\ sub[c] # 0 => cmd = Ticket(c) /\ runs[Ticket(c)] + Owed(c) <= 2
  /\ running # "YES" /\ pc[c] \in {"filled", "ready"} => runs[Ticket(c)] = 0

Budgets ==
  Solo => /\ \A c \in Clients : quota[c] > 0 => Budget(c)
          /\ (\A c \in Clients : quota[c] = 0) => cmd = NoTicket
          /\ \A c \in Clients, n \in 1..MaxCmds : quota[c] = 0 => runs[<<c, n>>] = 0

-----------------------------------------------------------------------------
(* A signal on cmd_done wakes nobody but a waiter, and keeps the types.      *)
LEMMA SignalType ==
  ASSUME TypeOK, SignalDone
  PROVE  waiters' \subseteq Clients /\ missed' \subseteq Clients /\ nwoken' \in Nat
  BY DEF TypeOK, SignalDone

(* Executing the slot's command keeps the counters natural numbers.          *)
LEMMA ExecuteType ==
  ASSUME TypeOK, Execute
  PROVE  runs' \in [Tickets -> Nat]
  BY DEF TypeOK, Execute

(* No step of a caller, of cmd_runner or of main leaves the types.           *)
LEMMA TypeStep == TypeOK /\ [Next]_vars => TypeOK'
<1> SUFFICES ASSUME TypeOK, [Next]_vars
             PROVE  TypeOK'
  OBVIOUS
<1> USE MaxCmdsAssumption
<1>1. ASSUME NEW c \in Clients, Client(c)
      PROVE  TypeOK'
  <2>1. CASE Enter(c)
    BY <2>1 DEF TypeOK, Enter, Goto, ClientStates
  <2>2. CASE Fill(c)
    <3>1. sub[c] + 1 \in 1..MaxCmds /\ sub'[c] \in 0..MaxCmds
      BY <2>2 DEF TypeOK, Fill
    <3>2. cmd' \in Tickets
      BY <2>2, <3>1 DEF Fill, Tickets
    <3> QED
      BY <2>2, <3>1, <3>2 DEF TypeOK, Fill, Goto, ClientStates
  <2>3. CASE StoreReady(c)
    BY <2>3 DEF TypeOK, StoreReady, Goto, ClientStates, Statuses
  <2>4. CASE LoadRunning(c)
    BY <2>4 DEF TypeOK, LoadRunning, Goto, ClientStates
  <2>5. CASE CondWait(c)
    BY Zenon, <2>5 DEF TypeOK, CondWait, Goto, ClientStates
  <2>6. CASE Relock(c)
    BY <2>6 DEF TypeOK, Relock, Goto, ClientStates
  <2>7. CASE ClearCmd(c)
    BY <2>7 DEF TypeOK, ClearCmd, Goto, ClientStates, Statuses
  <2>8. CASE SyncExecute(c)
    BY <2>8, ExecuteType DEF TypeOK, SyncExecute, Goto, ClientStates
  <2>9. CASE SyncDone(c)
    BY <2>9 DEF TypeOK, SyncDone, Goto, ClientStates, Statuses
  <2>10. CASE SyncSignal(c)
    BY <2>10, SignalType DEF TypeOK, SyncSignal, ClientStates
  <2> QED
    BY <1>1, <2>1, <2>2, <2>3, <2>4, <2>5, <2>6, <2>7, <2>8, <2>9, <2>10
    DEF Client
<1>2. CASE RunnerTest
  BY <1>2 DEF TypeOK, RunnerTest, RunnerStates
<1>3. CASE RunnerExecute
  BY <1>3, ExecuteType DEF TypeOK, RunnerExecute, RunnerStates
<1>4. CASE RunnerDone
  BY <1>4 DEF TypeOK, RunnerDone, RunnerStates, Statuses
<1>5. CASE RunnerSignal
  BY <1>5, SignalType DEF TypeOK, RunnerSignal, RunnerStates, ClientStates
<1>6. CASE SwitchOn
  BY <1>6 DEF TypeOK, SwitchOn, RunStates
<1>7. CASE UNCHANGED vars
  BY <1>7 DEF TypeOK, vars
<1>8. ASSUME NEW c \in Clients, SpuriousReturn(c)
      PROVE  TypeOK'
  BY <1>8 DEF TypeOK, SpuriousReturn, Goto, ClientStates
<1> QED
  BY <1>1, <1>2, <1>3, <1>4, <1>5, <1>6, <1>7, <1>8 DEF Next, Runner

(* The variables of the command slot keep their types, whatever the callers. *)
THEOREM TypeCorrect == Spec => []TypeOK
<1>1. Init => TypeOK
  <2> SUFFICES ASSUME Init PROVE TypeOK
    OBVIOUS
  <2>1. quota \in [Clients -> 0..MaxCmds] /\ running \in RunStates
    BY QuotasAssumption, StartRunningAssumption DEF Init
  <2>2. pc \in [Clients -> ClientStates] /\ sub \in [Clients -> 0..MaxCmds]
    BY MaxCmdsAssumption DEF Init, ClientStates
  <2> QED
    BY Zenon, <2>1, <2>2 DEF Init, TypeOK, Statuses, RunnerStates
<1> QED
  BY <1>1, TypeStep, PTL DEF Spec

-----------------------------------------------------------------------------
(* Before the system runs nobody waits for cmd_runner, and afterwards nobody *)
(* executes commands but cmd_runner, unless the switch caught a command.     *)
LEMMA PhasesStep == TypeOK /\ Phases /\ [Next]_vars => Phases'
<1> SUFFICES ASSUME TypeOK, Phases, [Next]_vars
             PROVE  Phases'
  OBVIOUS
<1> USE DEF TypeOK, Phases, SelfExecuting
<1>1. ASSUME NEW c \in Clients, Client(c)
      PROVE  Phases'
  <2>1. CASE Enter(c)
    BY <2>1 DEF Enter, Goto
  <2>2. CASE Fill(c)
    BY <2>2 DEF Fill, Goto
  <2>3. CASE StoreReady(c)
    BY <2>3 DEF StoreReady, Goto
  <2>4. CASE LoadRunning(c)
    BY <2>4 DEF LoadRunning, Goto
  <2>5. CASE CondWait(c)
    BY <2>5 DEF CondWait, Goto
  <2>6. CASE Relock(c)
    BY <2>6 DEF Relock, Goto
  <2>7. CASE ClearCmd(c)
    BY <2>7 DEF ClearCmd, Goto
  <2>8. CASE SyncExecute(c)
    BY <2>8 DEF SyncExecute, Goto
  <2>9. CASE SyncDone(c)
    BY <2>9 DEF SyncDone, Goto
  <2>10. CASE SyncSignal(c)
    BY <2>10 DEF SyncSignal, SignalDone, Woken
  <2> QED
    BY <1>1, <2>1, <2>2, <2>3, <2>4, <2>5, <2>6, <2>7, <2>8, <2>9, <2>10
    DEF Client
<1>2. CASE RunnerTest
  BY <1>2 DEF RunnerTest
<1>3. CASE RunnerExecute
  BY <1>3 DEF RunnerExecute
<1>4. CASE RunnerDone
  BY <1>4 DEF RunnerDone
<1>5. CASE RunnerSignal
  BY <1>5 DEF RunnerSignal, SignalDone, Woken
<1>6. CASE SwitchOn
  BY <1>6 DEF SwitchOn
<1>7. CASE UNCHANGED vars
  BY <1>7 DEF vars
<1>8. ASSUME NEW c \in Clients, SpuriousReturn(c)
      PROVE  Phases'
  BY <1>8 DEF SpuriousReturn, Goto
<1> QED
  BY <1>1, <1>2, <1>3, <1>4, <1>5, <1>6, <1>7, <1>8 DEF Next, Runner

(* Only StoreReady adds a pass to be made, only RunnerTest makes one, and    *)
(* only the runner's signal, once per pass, wakes a waiter.                  *)
LEMMA CountingStep == Inv /\ [Next]_vars => Counting'
<1> SUFFICES ASSUME Inv, [Next]_vars
             PROVE  Counting'
  OBVIOUS
<1> USE DEF Inv, TypeOK, Counting, Pending
<1>1. ASSUME NEW c \in Clients, Client(c)
      PROVE  Counting'
  <2>1. CASE Enter(c)
    BY <2>1 DEF Enter
  <2>2. CASE Fill(c)
    BY <2>2 DEF Fill
  <2>3. CASE StoreReady(c)
    BY <2>3 DEF StoreReady
  <2>4. CASE LoadRunning(c)
    BY <2>4 DEF LoadRunning
  <2>5. CASE CondWait(c)
    BY <2>5 DEF CondWait
  <2>6. CASE Relock(c)
    BY <2>6 DEF Relock
  <2>7. CASE ClearCmd(c)
    BY <2>7 DEF ClearCmd
  <2>8. CASE SyncExecute(c)
    BY <2>8 DEF SyncExecute
  <2>9. CASE SyncDone(c)
    BY <2>9 DEF SyncDone
  <2>10. CASE SyncSignal(c)
    <3>1. ~raced => waiters = {}
      BY <2>10 DEF Phases, SelfExecuting, SyncSignal
    <3> QED
      BY <2>10, <3>1 DEF SyncSignal, SignalDone
  <2> QED
    BY <1>1, <2>1, <2>2, <2>3, <2>4, <2>5, <2>6, <2>7, <2>8, <2>9, <2>10
    DEF Client
<1>2. CASE RunnerTest
  BY <1>2 DEF RunnerTest
<1>3. CASE RunnerExecute
  BY <1>3 DEF RunnerExecute
<1>4. CASE RunnerDone
  BY <1>4 DEF RunnerDone
<1>5. CASE RunnerSignal
  BY <1>5 DEF RunnerSignal, SignalDone
<1>6. CASE SwitchOn
  BY <1>6 DEF SwitchOn, Phases
<1>7. CASE UNCHANGED vars
  BY <1>7 DEF vars
<1>8. ASSUME NEW c \in Clients, SpuriousReturn(c)
      PROVE  Counting'
  BY <1>8 DEF SpuriousReturn
<1> QED
  BY <1>1, <1>2, <1>3, <1>4, <1>5, <1>6, <1>7, <1>8 DEF Next, Runner

(* The inductive invariant behind PassesMatchCommands.                       *)
LEMMA InvCorrect == Spec => []Inv
<1>1. Init => Phases /\ Counting
  BY DEF Init, Phases, Counting, Pending, SelfExecuting
<1>2. Inv /\ [Next]_vars => Phases' /\ Counting'
  BY PhasesStep, CountingStep DEF Inv
<1> QED
  BY <1>1, <1>2, TypeCorrect, PTL DEF Spec, Inv

(* shell_run_cmd and thread_cmd_runner: never more passes than READY stores, *)
(* nor more wakeups than passes, for any callers and any number of commands. *)
THEOREM PassesCorrect == Spec => []PassesMatchCommands
<1>1. Inv => PassesMatchCommands
  BY DEF Inv, TypeOK, Counting, Pending, PassesMatchCommands
<1> QED
  BY <1>1, InvCorrect, PTL

-----------------------------------------------------------------------------
(* Waiters are blocked, and a client without commands never fills the slot.  *)
LEMMA PlacesStep == TypeOK /\ Places /\ [Next]_vars => Places'
<1> SUFFICES ASSUME TypeOK, Places, [Next]_vars
             PROVE  Places'
  OBVIOUS
<1> USE DEF TypeOK, Places
<1>1. ASSUME NEW c \in Clients, Client(c)
      PROVE  Places'
  BY <1>1 DEF Client, Enter, Fill, StoreReady, LoadRunning, CondWait, Relock,
       ClearCmd, SyncExecute, SyncDone, SyncSignal, SignalDone, Woken, Goto
<1>2. CASE Runner
  BY <1>2 DEF Runner, RunnerTest, RunnerExecute, RunnerDone, RunnerSignal,
              SignalDone, Woken
<1>3. CASE SwitchOn \/ UNCHANGED vars
  BY Zenon, <1>3 DEF SwitchOn, vars
<1>4. ASSUME NEW c \in Clients, SpuriousReturn(c)
      PROVE  Places'
  BY <1>4 DEF SpuriousReturn, Goto
<1> QED
  BY <1>1, <1>2, <1>3, <1>4 DEF Next

(* How much a client issues is fixed, and what was disturbed stays so.       *)
LEMMA HistoryStep ==
  ASSUME Phases, [Next]_vars
  PROVE  quota' = quota /\ (Orderly' => Orderly)
<1>1. quota' = quota
  BY Zenon DEF Next, vars, Phases, Runner, RunnerTest, RunnerExecute, RunnerDone,
       RunnerSignal, SwitchOn, Client, Enter, Fill, StoreReady, LoadRunning,
       CondWait, Relock, ClearCmd, SyncExecute, SyncDone, SyncSignal,
       SpuriousReturn
<1>2. raced' = raced \/ ~raced
  BY Zenon DEF Next, vars, Phases, Runner, RunnerTest, RunnerExecute, RunnerDone,
       RunnerSignal, SwitchOn, Client, Enter, Fill, StoreReady, LoadRunning,
       CondWait, Relock, ClearCmd, SyncExecute, SyncDone, SyncSignal,
       SpuriousReturn
<1>3. spurious' = spurious \/ spurious'
  BY Zenon DEF Next, vars, Phases, Runner, RunnerTest, RunnerExecute, RunnerDone,
       RunnerSignal, SwitchOn, Client, Enter, Fill, StoreReady, LoadRunning,
       CondWait, Relock, ClearCmd, SyncExecute, SyncDone, SyncSignal,
       SpuriousReturn
<1> QED
  BY <1>1, <1>2, <1>3, SMTT(30) DEF Orderly, Solo

(* A thread that takes a step, after it has entered, has commands to issue.  *)
LEMMA Entitled ==
  ASSUME TypeOK, Places, NEW c \in Clients, Client(c)
  PROVE  Enter(c) \/ quota[c] > 0
<1>1. quota[c] \in Nat /\ sub[c] \in Nat
  BY DEF TypeOK
<1>2. Enter(c) \/ pc[c] \notin {"start", "idle"} \/ sub[c] < quota[c]
  BY DEF Client, Fill, StoreReady, LoadRunning, CondWait, Relock, ClearCmd,
         SyncExecute, SyncDone, SyncSignal, Goto
<1> QED BY <1>1, <1>2 DEF Places

(* While only c issues commands, each step keeps the slot as c expects it.   *)
LEMMA ViewStep ==
  ASSUME Inv, Places, [Next]_vars, Orderly',
         NEW c \in Clients, quota[c] > 0, Orderly => View(c)
  PROVE  View(c)'
<1> USE DEF Inv, TypeOK, View, Handed, Ticket
<1>0. /\ ~raced /\ View(c) /\ ~raced' /\ ~spurious'
      /\ \A d \in Clients : d # c => quota[d] = 0 /\ pc[d] \in {"start", "idle"}
  <2>1. Orderly
    BY HistoryStep
  <2> QED
    BY <2>1 DEF Orderly, Solo, Places
<1>1. ASSUME NEW d \in Clients, Client(d), d # c
      PROVE  View(c)'
  <2>1. Enter(d)
    <3>1. Enter(d) \/ quota[d] > 0
      BY Zenon, <1>1, Entitled
    <3> QED BY <1>0, <1>1, <3>1
  <2> QED
    BY <1>0, <1>1, <2>1 DEF Enter, Goto
<1>2. CASE Client(c)
  <2>1. CASE Enter(c)
    BY <1>0, <2>1 DEF Enter, Goto
  <2>2. CASE Fill(c)
    BY <1>0, <2>2, MaxCmdsAssumption DEF Fill, Goto
  <2>3. CASE StoreReady(c)
    BY <1>0, <2>3 DEF StoreReady, Goto
  <2>4. CASE LoadRunning(c)
    BY <1>0, <2>4 DEF LoadRunning, Goto, Phases
  <2>5. CASE CondWait(c)
    BY <1>0, <2>5 DEF CondWait, Goto
  <2>6. CASE Relock(c)
    BY <1>0, <2>6 DEF Relock, Goto
  <2>7. CASE ClearCmd(c)
    BY <1>0, <2>7 DEF ClearCmd, Goto
  <2>8. CASE SyncExecute(c)
    BY <1>0, <2>8 DEF SyncExecute, Execute, Goto, Tickets
  <2>9. CASE SyncDone(c)
    BY <1>0, <2>9 DEF SyncDone, Goto
  <2>10. CASE SyncSignal(c)
    BY <1>0, <2>10 DEF SyncSignal, SignalDone, Woken
  <2> QED
    BY Zenon, <1>2, <2>1, <2>2, <2>3, <2>4, <2>5, <2>6, <2>7, <2>8, <2>9, <2>10
    DEF Client
<1>3. CASE RunnerTest
  BY <1>0, <1>3 DEF RunnerTest, Phases, SelfExecuting
<1>4. CASE RunnerExecute
  BY <1>0, <1>4 DEF RunnerExecute, Execute, Tickets
<1>5. CASE RunnerDone
  BY <1>0, <1>5 DEF RunnerDone
<1>6. CASE RunnerSignal
  BY <1>0, <1>6 DEF RunnerSignal, SignalDone, Woken
<1>7. CASE SwitchOn
  BY <1>0, <1>7 DEF SwitchOn
<1>8. CASE UNCHANGED vars
  BY <1>0, <1>8 DEF vars
<1>9. ASSUME NEW d \in Clients, SpuriousReturn(d)
      PROVE  FALSE
  BY Zenon, <1>0, <1>9 DEF SpuriousReturn
<1> QED
  BY Zenon, <1>1, <1>2, <1>3, <1>4, <1>5, <1>6, <1>7, <1>8, <1>9 DEF Next, Runner

(* The inductive invariant behind the properties of a single caller.         *)
LEMMA AloneCorrect == Spec => [](Inv /\ Places /\ Alone)
<1>1. Init => Places /\ Alone
  BY MaxCmdsAssumption DEF Init, Places, Alone, View, Tickets
<1>2. Inv /\ Places /\ Alone /\ [Next]_vars => Alone'
  <2> SUFFICES ASSUME Inv, Places, Alone, [Next]_vars, Orderly',
                      NEW c \in Clients, quota'[c] > 0
               PROVE  View(c)'
    BY DEF Alone
  <2>1. quota[c] > 0
    BY HistoryStep DEF Inv
  <2> QED
    BY <2>1, ViewStep DEF Alone
<1>3. Inv /\ Places /\ [Next]_vars => Places'
  BY PlacesStep DEF Inv
<1> QED
  BY <1>1, <1>2, <1>3, InvCorrect, PTL DEF Spec

(* A single caller that resumes after shell_run_cmd had its command executed *)
(* exactly once, for any number of commands.                                 *)
THEOREM ResumedCorrect == Spec => []ResumedServed
<1>1. Inv /\ Places /\ Alone => ResumedServed
  BY DEF Inv, TypeOK, Places, Alone, View, ResumedServed
<1> QED
  BY <1>1, AloneCorrect, PTL

(* While a single caller uses the slot, nothing but its own Fill changes the *)
(* command, and Fill finds the slot EMPTY and cmd_runner asleep.             *)
THEOREM SlotStableCorrect == Spec => SlotStable
<1>1. /\ Inv /\ Places /\ Alone /\ [Next]_vars
      => [Orderly /\ cmd' # cmd => status = "EMPTY" /\ rpc = "wait"]_vars
  <2> SUFFICES ASSUME Inv, Places, Alone, Next, Orderly, cmd' # cmd
               PROVE  status = "EMPTY" /\ rpc = "wait"
    BY DEF vars
  <2>1. PICK c \in Clients : Fill(c)
    BY Zenon DEF Next, Runner, RunnerTest, RunnerExecute, RunnerDone, RunnerSignal,
           SwitchOn, Client, Enter, StoreReady, LoadRunning, CondWait, Relock,
           ClearCmd, SyncExecute, SyncDone, SyncSignal, SpuriousReturn
  <2>2. pc[c] = "idle" /\ quota[c] > 0
    BY <2>1 DEF Fill, Goto, Inv, TypeOK
  <2> QED
    BY Zenon, <2>2 DEF Alone, View
<1> QED
  BY <1>1, AloneCorrect, PTL DEF Spec, SlotStable

(* A single caller waits in vain only when it was signalled before it began  *)
(* to wait, even if the switch to the running state caught one of its        *)
(* commands.                                                                 *)
THEOREM HangsCorrect == Spec => []HangsOnlyIfMissed
<1>1. Init => Heard
  BY DEF Init, Heard
<1>2. Inv /\ Places /\ Heard /\ [Next]_vars => Heard'
  <2> SUFFICES ASSUME Inv, Places, Heard, [Next]_vars, Solo',
                      NEW c \in Clients, c \notin missed',
                      pc'[c] \in {"ready", "towait", "blocked"}
               PROVE  status' = "READY" \/ rpc' = "signal"
    BY DEF Heard
  <2> USE DEF Inv, TypeOK, Places
  <2>1. Solo /\ \A d \in Clients : d # c => pc[d] \in {"start", "idle"}
    <3>1. quota' = quota
      BY HistoryStep
    <3>2. quota[c] > 0
      BY <3>1, PlacesStep
    <3> QED
      BY <3>1, <3>2 DEF Solo
  <2>2. CASE Runner
    BY <2>1, <2>2 DEF Heard, Runner, RunnerTest, RunnerExecute, RunnerDone,
         RunnerSignal, SignalDone, Woken
  <2>3. CASE SwitchOn \/ UNCHANGED vars
    BY Zenon, <2>1, <2>3 DEF Heard, SwitchOn, vars
  <2>4. ASSUME NEW d \in Clients, Client(d)
        PROVE  status' = "READY" \/ rpc' = "signal"
    BY <2>1, <2>4 DEF Heard, Client, Enter, Fill, StoreReady, LoadRunning,
         CondWait, Relock, ClearCmd, SyncExecute, SyncDone, SyncSignal,
         SignalDone, Woken, Goto
  <2>5. ASSUME NEW d \in Clients, SpuriousReturn(d)
        PROVE  status' = "READY" \/ rpc' = "signal"
    BY <2>1, <2>5 DEF Heard, SpuriousReturn, Goto
  <2> QED
    BY <2>2, <2>3, <2>4, <2>5 DEF Next
<1>3. Heard => HangsOnlyIfMissed
  BY DEF Heard, HangsOnlyIfMissed
<1> QED
  BY <1>1, <1>2, <1>3, AloneCorrect, PTL DEF Spec

(* While only c issues commands, each step spends what c's command is owed.  *)
LEMMA BudgetStep ==
  ASSUME Inv, Places, [Next]_vars, Solo, NEW c \in Clients, quota[c] > 0, Budget(c)
  PROVE  Budget(c)'
<1> USE DEF Inv, TypeOK, Budget, Owed, Ticket
<1>0. /\ sub[c] \in Nat
      /\ \A n \in 1..MaxCmds : <<c, n>> \in Tickets /\ runs[<<c, n>>] \in Nat
      /\ sub[c] # 0 => sub[c] \in 1..MaxCmds
  BY MaxCmdsAssumption DEF Tickets
<1>1. ASSUME NEW d \in Clients, Client(d), d # c
      PROVE  Budget(c)'
  <2>1. Enter(d)
    BY <1>1, Entitled DEF Solo
  <2> QED
    BY <1>1, <2>1 DEF Enter, Goto
<1>2. CASE Client(c)
  <2>1. CASE Enter(c)
    BY <1>0, <2>1 DEF Enter, Goto
  <2>2. CASE Fill(c)
    BY <1>0, <2>2, MaxCmdsAssumption DEF Fill, Goto
  <2>3. CASE StoreReady(c)
    BY <1>0, <2>3 DEF StoreReady, Goto
  <2>4. CASE LoadRunning(c)
    BY <1>0, <2>4 DEF LoadRunning, Goto, Phases
  <2>5. CASE CondWait(c)
    BY <1>0, <2>5 DEF CondWait, Goto
  <2>6. CASE Relock(c)
    BY <1>0, <2>6 DEF Relock, Goto
  <2>7. CASE ClearCmd(c)
    BY <1>0, <2>7 DEF ClearCmd, Goto
  <2>8. CASE SyncExecute(c)
    BY <1>0, <2>8 DEF SyncExecute, Execute, Goto, Tickets
  <2>9. CASE SyncDone(c)
    BY <1>0, <2>9 DEF SyncDone, Goto
  <2>10. CASE SyncSignal(c)
    BY <1>0, <2>10 DEF SyncSignal, SignalDone, Woken, Places
  <2> QED
    BY Zenon, <1>2, <2>1, <2>2, <2>3, <2>4, <2>5, <2>6, <2>7, <2>8, <2>9, <2>10
    DEF Client
<1>3. CASE RunnerTest
  BY <1>0, <1>3 DEF RunnerTest
<1>4. CASE RunnerExecute
  <2>1. CASE sub[c] = 0
    <3>1. cmd \notin Tickets
      BY <2>1 DEF Tickets, NoTicket
    <3> QED
      BY <1>0, <1>4, <2>1, <3>1 DEF RunnerExecute, Execute
  <2>2. CASE sub[c] # 0
    <3>1. runs' = [runs EXCEPT ![<<c, sub[c]>>] = @ + 1]
      BY Zenon, <1>0, <1>4, <2>2 DEF RunnerExecute, Execute
    <3>2. runs'[<<c, sub[c]>>] = runs[<<c, sub[c]>>] + 1 /\ runs[<<c, sub[c]>>] <= 1
      BY <1>0, <1>4, <2>2, <3>1 DEF RunnerExecute
    <3>3. \A n \in 1..MaxCmds : n # sub[c] => runs'[<<c, n>>] = runs[<<c, n>>]
      BY <1>0, <3>1
    <3> QED
      BY <1>0, <1>4, <2>2, <3>2, <3>3, SMTT(30) DEF RunnerExecute, Phases
  <2> QED
    BY <2>1, <2>2
<1>5. CASE RunnerDone
  BY <1>0, <1>5 DEF RunnerDone
<1>6. CASE RunnerSignal
  BY <1>0, <1>6 DEF RunnerSignal, SignalDone, Woken, Places
<1>7. CASE SwitchOn
  BY <1>0, <1>7 DEF SwitchOn
<1>8. CASE UNCHANGED vars
  BY <1>0, <1>8 DEF vars
<1>9. ASSUME NEW d \in Clients, SpuriousReturn(d)
      PROVE  Budget(c)'
  BY <1>0, <1>9 DEF SpuriousReturn, Goto
<1> QED
  BY Zenon, <1>1, <1>2, <1>3, <1>4, <1>5, <1>6, <1>7, <1>8, <1>9 DEF Next, Runner

(* Nothing is executed for a client that issues no commands.                 *)
LEMMA OthersStep ==
  ASSUME Inv, Places, Budgets, [Next]_vars, Solo,
         NEW d \in Clients, quota[d] = 0, NEW n \in 1..MaxCmds
  PROVE  runs'[<<d, n>>] = 0
<1>1. runs[<<d, n>>] = 0
  BY Zenon DEF Budgets
<1>2. cmd # <<d, n>>
  <2>1. CASE \E c \in Clients : quota[c] # 0
    <3>1. PICK c \in Clients : quota[c] # 0
      BY <2>1
    <3>2. quota[c] > 0 /\ c # d
      BY <3>1 DEF Inv, TypeOK
    <3>3. Budget(c)
      BY Zenon, <3>2 DEF Budgets
    <3> QED
      BY <3>2, <3>3 DEF Budget, Ticket, NoTicket
  <2> QED
    BY <2>1 DEF Budgets, NoTicket
<1>3. runs' = runs \/ Execute
  BY Zenon DEF Next, vars, Runner, RunnerTest, RunnerExecute, RunnerDone,
       RunnerSignal, SwitchOn, Client, Enter, Fill, StoreReady, LoadRunning,
       CondWait, Relock, ClearCmd, SyncExecute, SyncDone, SyncSignal,
       SpuriousReturn
<1> QED
  BY <1>1, <1>2, <1>3 DEF Execute, Inv, TypeOK, Tickets

(* A single caller's command is executed at most twice, even when the switch *)
(* to the running state catches it and later passes lag one command behind.  *)
THEOREM TwiceCorrect == Spec => []AtMostTwice
<1>1. Init => Budgets
  BY MaxCmdsAssumption DEF Init, Budgets, Budget, Owed, Tickets
<1>2. Inv /\ Places /\ Budgets /\ [Next]_vars => Budgets'
  <2> SUFFICES ASSUME Inv, Places, Budgets, [Next]_vars, Solo'
               PROVE  Budgets'
    BY DEF Budgets
  <2>1. quota' = quota
    BY HistoryStep DEF Inv
  <2>2. Solo
    BY <2>1 DEF Solo
  <2>3. \A c \in Clients : quota[c] > 0 => Budget(c)'
    BY <2>2, BudgetStep DEF Budgets
  <2>4. (\A c \in Clients : quota[c] = 0) => cmd' = cmd
    <3> SUFFICES ASSUME \A c \in Clients : quota[c] = 0, cmd' # cmd
                 PROVE  FALSE
      OBVIOUS
    <3>1. PICK c \in Clients : Fill(c)
      BY Zenon DEF Next, vars, Runner, RunnerTest, RunnerExecute, RunnerDone,
           RunnerSignal, SwitchOn, Client, Enter, StoreReady, LoadRunning,
           CondWait, Relock, ClearCmd, SyncExecute, SyncDone, SyncSignal,
           SpuriousReturn
    <3> QED
      BY <3>1 DEF Fill, Inv, TypeOK
  <2>5. \A c \in Clients, n \in 1..MaxCmds : quota[c] = 0 => runs'[<<c, n>>] = 0
    BY <2>2, OthersStep
  <2> QED
    BY <2>1, <2>2, <2>3, <2>4, <2>5 DEF Budgets
<1>3. Inv /\ Budgets => AtMostTwice
  BY DEF Inv, TypeOK, Budgets, Budget, AtMostTwice, Tickets
<1> QED
  BY <1>1, <1>2, <1>3, AloneCorrect, PTL DEF Spec

-----------------------------------------------------------------------------
(* A step that moves no caller into or out of its call, and neither executes *)
(* a command nor starts one inside a call, is invisible to the service.      *)
LEMMA PhaseUnchanged ==
  ASSUME runs' = runs,
         \A c \in Clients : /\ InCall(c)' = InCall(c)
                            /\ InCall(c) => sub'[c] = sub[c]
                            /\ Issued(c)' = Issued(c)
  PROVE  UNCHANGED Service!vars
  BY DEF Service!vars, Phase, Ticket

(* The slot implements the service of CommandService for a single caller:    *)
(* each step is one of the service's, which executes a command once, in its  *)
(* call, or leaves phases, calls and executions alone.                       *)
THEOREM ServiceCorrect == Spec => ImplementsService
<1> DEFINE All == Inv /\ Places /\ Alone
           phase == [c \in Clients |-> Phase(c)]
           calls == [c \in Clients |-> Issued(c)]
<1>1. Init => Service!Init
  BY DEF Init, Service!Init, Phase, InCall, Issued, Tickets
<1>2. All /\ [Next]_vars => [Orderly' => Service!Next]_(Service!vars)
  <2> SUFFICES ASSUME All, [Next]_vars, Orderly'
               PROVE  Service!Next \/ UNCHANGED Service!vars
    OBVIOUS
  <2> USE DEF Inv, TypeOK
  <2>1. ASSUME NEW c \in Clients, quota[c] > 0
        PROVE  View(c) /\ \A d \in Clients : d # c => pc[d] \in {"start", "idle"}
    BY <2>1, HistoryStep DEF Alone, Orderly, Solo, Places
  <2>2. ASSUME NEW c \in Clients, NEW from, NEW to,
               Phase(c) = from, Phase(c)' = to,
               \A d \in Clients : d # c => Phase(d)' = Phase(d)
        PROVE  phase[c] = from /\ phase' = [phase EXCEPT ![c] = to]
    BY Zenon, <2>2
  <2>3. ASSUME NEW c \in Clients, cmd = Ticket(c), cmd \in Tickets,
               runs[Ticket(c)] = 0, Execute, sub' = sub,
               InCall(c), InCall(c)',
               \A d \in Clients : d # c => ~InCall(d) /\ ~InCall(d)',
               \A d \in Clients : Issued(d)' = Issued(d)
        PROVE  Service!Next
    <3>1. runs' = [runs EXCEPT ![Ticket(c)] = @ + 1] /\ runs'[Ticket(c)] = 1
      BY <2>3 DEF Execute
    <3>2. Phase(c) = "called" /\ Phase(c)' = "served"
      BY <2>3, <3>1 DEF Phase, Ticket
    <3>3. \A d \in Clients : d # c => Phase(d)' = Phase(d)
      BY Zenon, <2>3 DEF Phase
    <3>4. phase[c] = "called" /\ phase' = [phase EXCEPT ![c] = "served"]
      BY Zenon, <2>2, <3>2, <3>3
    <3>5. calls' = calls /\ Ticket(c) = <<c, calls[c]>>
      BY <2>3 DEF InCall, Issued, Ticket
    <3> QED
      BY Zenon, <3>1, <3>4, <3>5
      DEF Service!Next, Service!Serve, Service!Move, Service!Execute
  <2>4. ASSUME NEW c \in Clients, Client(c)
        PROVE  Service!Next \/ UNCHANGED Service!vars
    <3>1. CASE Enter(c)
      BY <3>1, PhaseUnchanged DEF Enter, Goto, InCall, Issued
    <3>2. CASE Fill(c)
      BY <3>2, PhaseUnchanged DEF Fill, Goto, InCall, Issued
    <3>3. CASE StoreReady(c)
      <4>1. quota[c] > 0 /\ runs[Ticket(c)] = 0
        BY <2>1, <3>3 DEF StoreReady, Goto, Places, View
      <4>2. Phase(c) = "idle" /\ Phase(c)' = "called"
        BY <3>3, <4>1 DEF StoreReady, Goto, Phase, InCall, Ticket
      <4>3. \A d \in Clients : d # c => Phase(d)' = Phase(d)
        BY <3>3 DEF StoreReady, Goto, Phase, InCall, Ticket
      <4>4. calls' = [calls EXCEPT ![c] = @ + 1]
        <5>1. Issued(c)' = Issued(c) + 1
          BY <3>3 DEF StoreReady, Goto, Issued
        <5>2. \A d \in Clients : d # c => Issued(d)' = Issued(d)
          BY <3>3 DEF StoreReady, Goto, Issued
        <5> QED
          BY Zenon, <5>1, <5>2
      <4>5. phase[c] = "idle" /\ phase' = [phase EXCEPT ![c] = "called"]
        BY Zenon, <2>2, <4>2, <4>3
      <4>6. runs' = runs
        BY <3>3 DEF StoreReady
      <4> QED
        BY Zenon, <4>4, <4>5, <4>6
        DEF Service!Next, Service!Call, Service!Move, Service!Count
    <3>4. CASE LoadRunning(c)
      BY <3>4, PhaseUnchanged DEF LoadRunning, Goto, InCall, Issued
    <3>5. CASE CondWait(c)
      BY <3>5, PhaseUnchanged DEF CondWait, Goto, InCall, Issued
    <3>6. CASE Relock(c)
      BY <3>6, PhaseUnchanged DEF Relock, Goto, InCall, Issued
    <3>7. CASE ClearCmd(c)
      <4>1. quota[c] > 0 /\ runs[Ticket(c)] = 1
        BY <2>1, <3>7 DEF ClearCmd, Goto, Places, View
      <4>2. Phase(c) = "served" /\ Phase(c)' = "idle"
        BY <3>7, <4>1 DEF ClearCmd, Goto, Phase, InCall, Ticket
      <4>3. \A d \in Clients : d # c => Phase(d)' = Phase(d)
        BY <3>7 DEF ClearCmd, Goto, Phase, InCall, Ticket
      <4>4. calls' = calls /\ runs' = runs
        BY <3>7 DEF ClearCmd, Goto, Issued
      <4>5. phase[c] = "served" /\ phase' = [phase EXCEPT ![c] = "idle"]
        BY Zenon, <2>2, <4>2, <4>3
      <4> QED
        BY Zenon, <4>4, <4>5 DEF Service!Next, Service!Return, Service!Move
    <3>8. CASE SyncExecute(c)
      <4>1. /\ quota[c] > 0 /\ cmd = Ticket(c) /\ cmd \in Tickets
            /\ runs[Ticket(c)] = 0
        BY <2>1, <3>8 DEF SyncExecute, Goto, Places, View, Ticket, Tickets
      <4>2. /\ Execute /\ sub' = sub /\ InCall(c) /\ InCall(c)'
            /\ \A d \in Clients : Issued(d)' = Issued(d)
        BY <3>8 DEF SyncExecute, Goto, InCall, Issued
      <4>3. \A d \in Clients : d # c => ~InCall(d) /\ ~InCall(d)'
        BY <2>1, <3>8, <4>1 DEF SyncExecute, Goto, InCall
      <4> QED
        BY Zenon, <2>3, <4>1, <4>2, <4>3
    <3>9. CASE SyncDone(c)
      BY <3>9, PhaseUnchanged DEF SyncDone, Goto, InCall, Issued
    <3>10. CASE SyncSignal(c)
      BY <3>10, PhaseUnchanged DEF SyncSignal, SignalDone, Woken, InCall, Places, Issued
    <3> QED
      BY <2>4, <3>1, <3>2, <3>3, <3>4, <3>5, <3>6, <3>7, <3>8, <3>9, <3>10
      DEF Client
  <2>5. CASE Runner
    <3>1. CASE RunnerTest
      BY <3>1, PhaseUnchanged DEF RunnerTest, InCall, Issued
    <3>2. CASE RunnerExecute
      <4>1. PICK c \in Clients : quota[c] > 0
        BY <3>2 DEF RunnerExecute, Places
      <4>2. /\ cmd = Ticket(c) /\ cmd \in Tickets /\ runs[Ticket(c)] = 0
            /\ pc[c] \in {"ready", "towait", "blocked"}
        BY <2>1, <3>2, <4>1
        DEF RunnerExecute, View, Handed, Ticket, Tickets, ClientStates
      <4>3. /\ Execute /\ sub' = sub /\ InCall(c) /\ InCall(c)'
            /\ \A d \in Clients : Issued(d)' = Issued(d)
        BY <3>2, <4>2 DEF RunnerExecute, InCall, Issued
      <4>4. \A d \in Clients : d # c => ~InCall(d) /\ ~InCall(d)'
        BY <2>1, <3>2, <4>1 DEF RunnerExecute, InCall
      <4> QED
        BY Zenon, <2>3, <4>2, <4>3, <4>4
    <3>3. CASE RunnerDone
      BY <3>3, PhaseUnchanged DEF RunnerDone, InCall, Issued
    <3>4. CASE RunnerSignal
      BY <3>4, PhaseUnchanged DEF RunnerSignal, SignalDone, Woken, InCall, Places, Issued
    <3> QED
      BY <2>5, <3>1, <3>2, <3>3, <3>4 DEF Runner
  <2>6. CASE SwitchOn \/ UNCHANGED vars
    BY Zenon, <2>6, PhaseUnchanged DEF SwitchOn, vars, InCall, Issued
  <2>7. ASSUME NEW c \in Clients, SpuriousReturn(c)
        PROVE  UNCHANGED Service!vars
    BY <2>7, PhaseUnchanged DEF SpuriousReturn, Goto, InCall, Issued
  <2> QED
    BY <2>4, <2>5, <2>6, <2>7 DEF Next
<1> QED
  BY <1>1, <1>2, AloneCorrect, PTL DEF Spec, ImplementsService
============================================================================
