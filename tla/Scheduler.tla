------------------------------ MODULE Scheduler ------------------------------
(***************************************************************************)
(* The kernel threads of umka_os on the main host thread: the timer        *)
(* interrupt irq0, which is the handler of SIGALRM (umka.asm), the system  *)
(* calls of applications, which are SIGSEGV caught by handle_i40           *)
(* (umka_os.c), the idle thread, the OS thread, which is main itself and   *)
(* ends in osloop, and the thread cmd_runner with the commands that wait   *)
(* (wait_for_idle, wait_for_os_idle, csleep in shell.c).                   *)
(*                                                                         *)
(* A thread that is switched out leaves a frame on its stack: it called    *)
(* the scheduler, or it was interrupted by irq0, and then the signal mask  *)
(* to go back to lies in the frame too.  The interrupt flag is faked with  *)
(* EFLAGS.ID, which a return from a signal does not restore.               *)
(***************************************************************************)
EXTENDS Naturals, FiniteSets

CONSTANTS
  Apps,       \* threads started by main before the system runs
  Hosted,     \* those loaded from a file, whose int 0x40 is a SIGSEGV
  MaxCmds,    \* bound: commands sent to cmd_runner
  MaxSleep,   \* bound: ticks slept at a time
  MaxCalls,   \* bound: system calls of each application
  MaxWork     \* bound: times something wakes osloop

ASSUME AppsAssumption ==
  /\ IsFiniteSet(Apps) /\ Hosted \subseteq Apps
  /\ Apps \cap {"os", "idle", "runner"} = {}
  /\ {MaxCmds, MaxSleep, MaxWork} \subseteq Nat
  /\ MaxCalls \in [Apps -> Nat]

VARIABLES
  cur,            \* current_slot
  pc, waits,      \* per thread: where it is, the wait_test it waits for
  left,           \* per thread: ticks until its sleep is over
  saved,          \* per thread: the frame it left when it was switched out
  segv,           \* per thread: the mask in the frame of handle_i40
  mask, ifl,      \* signals blocked in main, and the faked IF
  irq,            \* irq0: "no", "entered", or "open" after reset_procmask
  frame,          \* what irq0 saved of the thread it interrupted
  timer,          \* setitimer was called
  cmd,            \* the command in the slot, "none" when there is none
  idle_scheduled, os_scheduled, work,
  cmds, calls, works,         \* counters for the bounds
  early, passed, quiet        \* history, see the properties

threads == <<cur, pc, waits, left, saved, segv, mask, ifl>>
irqs == <<irq, frame, timer>>
flags == <<cmd, idle_scheduled, os_scheduled, work>>
history == <<early, passed, quiet>>
vars == <<threads, irqs, flags, cmds, calls, works, history>>

Threads == Apps \cup {"os", "idle", "runner"}
Kinds == {"idle", "os", "sleep"}
Live == [how |-> "live", ifl |-> FALSE, mask |-> {}]
New == [how |-> "new", ifl |-> FALSE, mask |-> {}]

-----------------------------------------------------------------------------
(* The kernel's scheduler, as the code uses it.                            *)

Priority(t) == IF t = "os" THEN 0 ELSE IF t = "idle" THEN 2 ELSE 1

\* The wait_tests of the threads: shell_run_cmd_wait_test,
\* umka_wait_for_idle_test, umka_wait_for_os_test, osloop_has_work?.
WaitTest(t, w, l) ==
  \/ w[t] = "none"
  \/ w[t] = "ready" /\ cmd # "none"
  \/ w[t] = "idle" /\ idle_scheduled
  \/ w[t] = "os" /\ os_scheduled
  \/ w[t] = "work" /\ work
  \/ w[t] = "time" /\ l[t] = 0

Runnable(w, l) == {t \in Threads : pc[t] # "unborn" /\ WaitTest(t, w, l)}

\* find_next_task with SCHEDULE_ANY_PRIORITY; cur itself may be found.
find_next_task(w, l) ==
  {t \in Runnable(w, l) : \A u \in Runnable(w, l) : Priority(t) <= Priority(u)}

\* pause() returns when a signal was handled.
Awake(p, t) == IF p[t] = "pause" THEN [p EXCEPT ![t] = "mark"] ELSE p

\* _do_change_task from cur, which leaves the frame f, and the return into
\* the frame of t.  A new thread starts with the flag as cli left it.
_do_change_task(t, f, w, p, m) ==
  /\ cur' = t
  /\ waits' = [w EXCEPT ![t] = "none"]
  /\ saved' = [saved EXCEPT ![cur] = f, ![t] = Live]
  /\ ifl' = saved[t].ifl
  /\ IF saved[t].how = "irq"
       THEN mask' = saved[t].mask /\ pc' = Awake(p, t)
       ELSE mask' = m /\ pc' = p

Noted(t, w, l) ==
  quiet' = (quiet \/ /\ t = "idle" /\ Runnable(w, l) = {"idle"}
                     /\ cmd = "idle" \/ (cmd = "os" /\ passed))

\* kos_wait_events: cur waits for the test and goes on at label p.
kos_wait_events(test, n, p) ==
  LET w == [waits EXCEPT ![cur] = test]
      l == [left EXCEPT ![cur] = n]
      at == [pc EXCEPT ![cur] = p]
  IN \E t \in find_next_task(w, l) :
       /\ left' = l
       /\ Noted(t, w, l)
       /\ IF t = cur
            THEN pc' = at /\ UNCHANGED <<cur, waits, saved, mask, ifl>>
            ELSE _do_change_task(
                   t, [how |-> "call", ifl |-> ifl, mask |-> {}], w, at, mask)

Step(t, from) == cur = t /\ irq = "no" /\ pc[t] = from

Goto(t, p) ==
  /\ pc' = [pc EXCEPT ![t] = p]
  /\ UNCHANGED <<cur, waits, left, saved>>

Wake(b) == b => works < MaxWork

Woken(b) ==
  /\ works' = works + (IF b THEN 1 ELSE 0)
  /\ work' = (work \/ b)

-----------------------------------------------------------------------------
(* main: the startup script, then the switch to the running system.        *)

\* A blocking command of the startup script: umka_os is not running yet, so
\* main fills the slot and executes the command itself.
EarlyCommand(k) ==
  /\ Step("os", "script") /\ cmd = "none"
  /\ cmd' = k /\ early' = TRUE
  /\ Goto("os", "exec")
  /\ UNCHANGED <<segv, mask, ifl, irqs, idle_scheduled, os_scheduled, work,
                 cmds, calls, works, passed, quiet>>

\* The board thread and the applications are created.
StartThreads ==
  /\ Step("os", "script")
  /\ pc' = [t \in Threads |-> IF t \in Apps THEN "user"
                              ELSE IF t = "os" THEN "switch" ELSE pc[t]]
  /\ UNCHANGED <<cur, waits, left, saved, segv, mask, ifl, irqs, flags,
                 cmds, calls, works, history>>

\* running = UMKA_RUNNING_YES.
SwitchOn ==
  /\ Step("os", "switch") /\ Goto("os", "arm")
  /\ UNCHANGED <<segv, mask, ifl, irqs, flags, cmds, calls, works, history>>

\* Faulty: the timer is not started.
SetitimerMissing ==
  /\ Step("os", "arm") /\ Goto("os", "osloop")
  /\ UNCHANGED <<segv, mask, ifl, irqs, flags, cmds, calls, works, history>>

Setitimer ==
  /\ Step("os", "arm") /\ Goto("os", "osloop")
  /\ timer' = TRUE
  /\ UNCHANGED <<segv, mask, ifl, irq, frame, flags, cmds, calls, works,
                 history>>

\* osloop waits until it has work, takes it, and at its end the jump back
\* stores os_scheduled.
OsWait ==
  /\ Step("os", "osloop")
  /\ kos_wait_events("work", 0, "pass")
  /\ UNCHANGED <<segv, irqs, flags, cmds, calls, works, early, passed>>

OsPass ==
  /\ Step("os", "pass") /\ Goto("os", "jmp")
  /\ work' = FALSE
  /\ UNCHANGED <<segv, mask, ifl, irqs, cmd, idle_scheduled, os_scheduled,
                 cmds, calls, works, history>>

JmpOsloop ==
  /\ Step("os", "jmp") /\ Goto("os", "osloop")
  /\ os_scheduled' = TRUE /\ passed' = (cmd = "os")
  /\ UNCHANGED <<segv, mask, ifl, irqs, cmd, idle_scheduled, work,
                 cmds, calls, works, early, quiet>>

-----------------------------------------------------------------------------
(* irq0.                                                                   *)

\* Faulty: SA_NODEFER is missing for SIGSEGV as well.
SaMaskDeferring(sig) == {sig}

\* The signals blocked while a handler runs: SIGALRM is installed without,
\* SIGSEGV with SA_NODEFER.
SaMask(sig) == IF sig = "ALRM" THEN {"ALRM"} ELSE {}

\* timer_ticks is incremented: every sleep is a tick shorter.
Ticked == [t \in Threads |-> IF left[t] = 0 THEN 0 ELSE left[t] - 1]

\* SIGALRM is taken by main: pushfd, cli, the tick.
Tick(b) ==
  /\ timer /\ irq = "no" /\ "ALRM" \notin mask /\ Wake(b)
  /\ irq' = "entered"
  /\ frame' = [how |-> "irq", ifl |-> ifl, mask |-> mask]
  /\ mask' = mask \cup SaMask("ALRM")
  /\ ifl' = FALSE
  /\ left' = Ticked
  /\ Woken(b)
  /\ UNCHANGED <<cur, pc, waits, saved, segv, timer, cmd, idle_scheduled,
                 os_scheduled, cmds, calls, history>>

\* Faulty: the handler keeps SIGALRM blocked.
KeepProcmask ==
  /\ irq = "entered" /\ irq' = "open"
  /\ UNCHANGED <<threads, frame, timer, flags, cmds, calls, works, history>>

\* reset_procmask.
ResetProcmask ==
  /\ irq = "entered" /\ irq' = "open"
  /\ mask' = mask \ {"ALRM"}
  /\ UNCHANGED <<cur, pc, waits, left, saved, segv, ifl, frame, timer, flags,
                 cmds, calls, works, history>>

\* A tick inside irq0: it counts, finds the flag off and returns.
NestedTick(b) ==
  /\ irq = "open" /\ "ALRM" \notin mask /\ Wake(b)
  /\ left' = Ticked
  /\ Woken(b)
  /\ UNCHANGED <<cur, pc, waits, saved, segv, mask, ifl, irqs, cmd,
                 idle_scheduled, os_scheduled, cmds, calls, history>>

\* irq0 returns to the thread it interrupted.
Iret ==
  /\ ifl' = frame.ifl /\ mask' = frame.mask
  /\ pc' = Awake(pc, cur)
  /\ UNCHANGED <<cur, waits, saved, quiet>>

\* get_fake_if: interrupted with the flag off.
IrqCli ==
  /\ irq = "open" /\ ~frame.ifl
  /\ irq' = "no" /\ frame' = Live
  /\ Iret
  /\ UNCHANGED <<left, segv, timer, flags, cmds, calls, works, early, passed>>

\* find_next_task, and the change of the task if it finds another one.
IrqSchedule ==
  /\ irq = "open" /\ frame.ifl
  /\ irq' = "no" /\ frame' = Live
  /\ \E t \in find_next_task(waits, left) :
       IF t = cur THEN Iret
       ELSE /\ _do_change_task(t, frame, waits, pc, mask)
            /\ Noted(t, waits, left)
  /\ UNCHANGED <<left, segv, timer, flags, cmds, calls, works, early, passed>>

-----------------------------------------------------------------------------
(* The idle thread.                                                        *)

\* Faulty: the thread keeps the flag it was started with.
IdleNoSti ==
  /\ Step("idle", "new") /\ Goto("idle", "mark")
  /\ UNCHANGED <<segv, mask, ifl, irqs, flags, cmds, calls, works, history>>

IdleSti ==
  /\ Step("idle", "new") /\ Goto("idle", "mark")
  /\ ifl' = TRUE
  /\ UNCHANGED <<segv, mask, irqs, flags, cmds, calls, works, history>>

IdleMark ==
  /\ Step("idle", "mark") /\ Goto("idle", "pause")
  /\ idle_scheduled' = TRUE
  /\ UNCHANGED <<segv, mask, ifl, irqs, cmd, os_scheduled, work, cmds, calls,
                 works, history>>

-----------------------------------------------------------------------------
(* cmd_runner, and the commands, which main executes too in the script.    *)

RunnerSti ==
  /\ Step("runner", "new") /\ Goto("runner", "await")
  /\ ifl' = TRUE
  /\ UNCHANGED <<segv, mask, irqs, flags, cmds, calls, works, history>>

RunnerAwait ==
  /\ Step("runner", "await")
  /\ kos_wait_events("ready", 0, "exec")
  /\ UNCHANGED <<segv, irqs, flags, cmds, calls, works, early, passed>>

\* The monitor sends a command to the running system.
Send(k) ==
  /\ pc["os"] \in {"arm", "osloop", "pass", "jmp"}
  /\ cmd = "none" /\ ~early /\ cmds < MaxCmds
  /\ cmd' = k /\ cmds' = cmds + 1
  /\ UNCHANGED <<threads, irqs, idle_scheduled, os_scheduled, work, calls,
                 works, history>>

\* Faulty: the flag is not cleared before the wait.
wait_for_idle_stale(t) ==
  /\ Step(t, "exec") /\ cmd = "idle"
  /\ Goto(t, "idlewait")
  /\ passed' = FALSE /\ quiet' = FALSE
  /\ UNCHANGED <<segv, mask, ifl, irqs, flags, cmds, calls, works, early>>

\* umka_wait_for_idle: the store and, from idlewait on, the wait.
umka_wait_for_idle(t) ==
  /\ Step(t, "exec") /\ cmd = "idle"
  /\ idle_scheduled' = FALSE
  /\ Goto(t, "idlewait")
  /\ passed' = FALSE /\ quiet' = FALSE
  /\ UNCHANGED <<segv, mask, ifl, irqs, cmd, os_scheduled, work, cmds, calls,
                 works, early>>

IdleWait(t) ==
  /\ Step(t, "idlewait")
  /\ kos_wait_events("idle", 0, "done")
  /\ UNCHANGED <<segv, irqs, flags, cmds, calls, works, early, passed>>

\* umka_wait_for_os_idle: a pass of osloop, then the idle thread.
umka_wait_for_os_idle(t) ==
  /\ Step(t, "exec") /\ cmd = "os"
  /\ os_scheduled' = FALSE
  /\ Goto(t, "oswait")
  /\ passed' = FALSE /\ quiet' = FALSE
  /\ UNCHANGED <<segv, mask, ifl, irqs, cmd, idle_scheduled, work, cmds,
                 calls, works, early>>

OsIdleWait(t) ==
  /\ Step(t, "oswait")
  /\ kos_wait_events("os", 0, "clear")
  /\ UNCHANGED <<segv, irqs, flags, cmds, calls, works, early, passed>>

OsIdleClear(t) ==
  /\ Step(t, "clear") /\ Goto(t, "idlewait")
  /\ idle_scheduled' = FALSE
  /\ UNCHANGED <<segv, mask, ifl, irqs, cmd, os_scheduled, work, cmds, calls,
                 works, history>>

umka_sys_csleep(t) ==
  /\ Step(t, "exec") /\ cmd = "sleep"
  /\ \E n \in 1..MaxSleep : kos_wait_events("time", n, "done")
  /\ UNCHANGED <<segv, irqs, flags, cmds, calls, works, early, passed>>

\* status DONE, cmd_done; the caller then clears the slot.
CommandDone(t) ==
  /\ Step(t, "done") /\ Goto(t, IF t = "os" THEN "script" ELSE "await")
  /\ cmd' = "none" /\ passed' = FALSE /\ quiet' = FALSE
  /\ UNCHANGED <<segv, mask, ifl, irqs, idle_scheduled, os_scheduled, work,
                 cmds, calls, works, early>>

-----------------------------------------------------------------------------
(* The applications and the board thread.                                  *)

\* int 0x40: SIGSEGV and handle_i40 in an application, a call in the board
\* thread.  The kernel's i40 starts with sti.
int40(a) ==
  /\ Step(a, "user") /\ Goto(a, "i40")
  /\ calls[a] < MaxCalls[a] /\ calls' = [calls EXCEPT ![a] = @ + 1]
  /\ IF a \in Hosted
       THEN /\ segv' = [segv EXCEPT ![a] = mask]
            /\ mask' = mask \cup SaMask("SEGV")
       ELSE UNCHANGED <<segv, mask>>
  /\ ifl' = TRUE
  /\ UNCHANGED <<irqs, flags, cmds, works, history>>

\* The service: it may wake osloop and return, or it sleeps; the last call
\* of an application waits for an event that does not come.
Service(a) ==
  /\ Step(a, "i40")
  /\ \/ /\ \E b \in BOOLEAN : Wake(b) /\ Woken(b)
        /\ Goto(a, "iret")
        /\ calls[a] < MaxCalls[a]
        /\ UNCHANGED <<segv, mask, ifl, irqs, cmd, idle_scheduled,
                       os_scheduled, cmds, calls, history>>
     \/ /\ IF calls[a] < MaxCalls[a]
             THEN \E n \in 1..MaxSleep : kos_wait_events("time", n, "iret")
             ELSE kos_wait_events("never", 0, "iret")
        /\ UNCHANGED <<segv, irqs, flags, cmds, calls, works, early, passed>>

\* The return from the handler restores the mask.
SigReturn(a) ==
  /\ Step(a, "iret") /\ Goto(a, "user")
  /\ IF a \in Hosted
       THEN /\ mask' = segv[a]
            /\ segv' = [segv EXCEPT ![a] = {}]
       ELSE UNCHANGED <<segv, mask>>
  /\ UNCHANGED <<ifl, irqs, flags, cmds, calls, works, history>>

-----------------------------------------------------------------------------
Init ==
  /\ cur = "os"
  /\ pc = [t \in Threads |-> IF t = "os" THEN "script"
                             ELSE IF t \in Apps THEN "unborn" ELSE "new"]
  /\ waits = [t \in Threads |-> "none"]
  /\ left = [t \in Threads |-> 0]
  /\ saved = [t \in Threads |-> IF t = "os" THEN Live ELSE New]
  /\ segv = [t \in Threads |-> {}]
  /\ mask = {} /\ ifl = TRUE
  /\ irq = "no" /\ frame = Live /\ timer = FALSE
  /\ cmd = "none" /\ idle_scheduled = FALSE /\ os_scheduled = FALSE
  /\ work = TRUE
  /\ cmds = 0 /\ calls = [t \in Threads |-> 0] /\ works = 0
  /\ early = FALSE /\ passed = FALSE /\ quiet = FALSE

Irq0 == ResetProcmask \/ IrqCli \/ IrqSchedule

Main ==
  \/ \E k \in Kinds : EarlyCommand(k)
  \/ StartThreads \/ SwitchOn \/ Setitimer
  \/ OsWait \/ OsPass \/ JmpOsloop

Command(t) ==
  \/ umka_wait_for_idle(t) \/ IdleWait(t)
  \/ umka_wait_for_os_idle(t) \/ OsIdleWait(t) \/ OsIdleClear(t)
  \/ umka_sys_csleep(t) \/ CommandDone(t)

App(a) == int40(a) \/ Service(a) \/ SigReturn(a)

Cpu ==
  \/ Main \/ IdleSti \/ IdleMark \/ RunnerSti \/ RunnerAwait
  \/ \E t \in {"os", "runner"} : Command(t)
  \/ \E a \in Apps : App(a)

Ticks == \E b \in BOOLEAN : Tick(b)

Next ==
  \/ Cpu \/ Irq0 \/ Ticks
  \/ \E b \in BOOLEAN : NestedTick(b)
  \/ \E k \in Kinds : Send(k)

Spec == Init /\ [][Next]_vars

\* SIGALRM comes every 10 ms, and between two of them the thread executes.
FairSpec == Spec /\ SF_vars(Cpu) /\ WF_vars(Irq0) /\ WF_vars(Ticks)

-----------------------------------------------------------------------------
Masks == SUBSET {"ALRM", "SEGV"}
Frames == [how : {"live", "new", "call", "irq"}, ifl : BOOLEAN, mask : Masks]

TypeOK ==
  /\ cur \in Threads
  /\ pc \in [Threads -> {"unborn", "new", "script", "exec", "switch", "arm",
                         "osloop", "pass", "jmp", "mark", "pause", "await",
                         "idlewait", "oswait", "clear", "done", "user", "i40",
                         "iret"}]
  /\ waits \in [Threads -> {"none", "ready", "idle", "os", "work", "time",
                            "never"}]
  /\ left \in [Threads -> Nat]
  /\ saved \in [Threads -> Frames]
  /\ segv \in [Threads -> Masks]
  /\ mask \in Masks /\ ifl \in BOOLEAN
  /\ irq \in {"no", "entered", "open"} /\ frame \in Frames
  /\ timer \in BOOLEAN
  /\ cmd \in Kinds \cup {"none"}
  /\ {idle_scheduled, os_scheduled, work, early, passed, quiet}
       \subseteq BOOLEAN
  /\ cmds \in Nat /\ works \in Nat /\ calls \in [Threads -> Nat]

(***************************************************************************)
(* Outside the first instructions of irq0 main has SIGALRM unblocked,      *)
(* whatever frames the threads left and return to: the ticks go on, and    *)
(* the timer's signal is not handed to another host thread, which would    *)
(* then switch kernel threads on its own stack (umka.asm:965,              *)
(* linux/thread.c:17).                                                     *)
(***************************************************************************)
TimerNotLost == irq # "entered" => "ALRM" \notin mask

(***************************************************************************)
(* An application that executes int 0x40 finds SIGSEGV unblocked, although *)
(* the handlers of other applications' calls may still be unfinished       *)
(* (umka_os.c:450).  A blocked SIGSEGV would end the process.              *)
(***************************************************************************)
SyscallsTaken == \A a \in Hosted : Step(a, "user") => "SEGV" \notin mask

(***************************************************************************)
(* wait_for_idle has returned only if, since it was called, there was a    *)
(* moment when no other thread could run; wait_for_os_idle, if osloop made *)
(* a pass since the call and such a moment came after it (shell.c:531-564, *)
(* umka.asm:899).                                                          *)
(***************************************************************************)
IdleIsQuiet ==
  \A t \in {"os", "runner"} :
    pc[t] = "done" /\ waits[t] = "none" /\ cur = t =>
      /\ cmd \in {"idle", "os"} => quiet
      /\ cmd = "os" => passed

(***************************************************************************)
(* The system stands still, the idle thread pausing and no timer to wake   *)
(* it, only if the startup script executed a command that waits            *)
(* (shell.c:4288, umka_os.c:481,546).                                      *)
(***************************************************************************)
StandsStillOnlyEarly ==
  cur = "idle" /\ pc["idle"] = "pause" /\ ~timer => early

(***************************************************************************)
(* In the running system wait_for_idle and csleep return once the          *)
(* applications have come to rest; wait_for_os_idle returns if there is    *)
(* something for osloop to do while it waits (shell.c:531-564).            *)
(***************************************************************************)
WaitsReturn ==
  /\ (timer /\ cmd \in {"idle", "sleep"}) ~> (cmd = "none")
  /\ (timer /\ waits["runner"] = "os" /\ work) ~> (cmd = "none")

=============================================================================
