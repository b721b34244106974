-------------------------- MODULE Scheduler_proofs --------------------------
(***************************************************************************)
(* Proofs about the kernel threads, for any set of applications, any       *)
(* number of commands, system calls and ticks.                             *)
(***************************************************************************)
EXTENDS Scheduler, TLAPS

\* Frames that return with nothing blocked.
OpenFrames == [how : {"live", "new", "call", "irq"}, ifl : BOOLEAN, mask : {{}}]

Labels == {"unborn", "new", "script", "exec", "switch", "arm", "osloop", "pass",
           "jmp", "mark", "pause", "await", "idlewait", "oswait", "clear",
           "done", "user", "i40", "iret"}
Tests == {"none", "ready", "idle", "os", "work", "time", "never"}

\* Every frame left on a stack, of irq0 or of handle_i40, returns to an
\* empty mask; SIGALRM is blocked only in the first instructions of irq0.
Unblocked ==
  /\ cur \in Threads
  /\ saved \in [Threads -> OpenFrames]
  /\ segv = [t \in Threads |-> {}]
  /\ frame \in OpenFrames /\ ifl \in BOOLEAN
  /\ irq \in {"no", "entered", "open"}
  /\ mask = IF irq = "entered" THEN {"ALRM"} ELSE {}

-----------------------------------------------------------------------------
(* The threads main starts with.                                           *)
LEMMA ThreadsFacts ==
  /\ Apps \subseteq Threads
  /\ "os" \in Threads /\ "idle" \in Threads /\ "runner" \in Threads
  /\ "os" \notin Apps /\ "idle" \notin Apps /\ "runner" \notin Apps
  BY AppsAssumption DEF Threads

(* The frames a thread starts with, or leaves, or irq0 saves.              *)
LEMMA FrameFacts ==
  /\ Live \in OpenFrames /\ New \in OpenFrames
  /\ \A b \in BOOLEAN : [how |-> "call", ifl |-> b, mask |-> {}] \in OpenFrames
  /\ \A b \in BOOLEAN : [how |-> "irq", ifl |-> b, mask |-> {}] \in OpenFrames
  /\ \A f \in OpenFrames : f.mask = {} /\ f.ifl \in BOOLEAN
  BY DEF Live, New, OpenFrames

(* A change of the task returns to an empty mask.                          *)
LEMMA ChangeMasks ==
  ASSUME Unblocked, NEW t \in Threads, NEW f \in OpenFrames, NEW w, NEW p,
         NEW m \in {{}}, _do_change_task(t, f, w, p, m)
  PROVE  /\ cur' = t /\ cur' \in Threads
         /\ saved' \in [Threads -> OpenFrames]
         /\ ifl' \in BOOLEAN /\ mask' = {}
<1>1. saved[t] \in OpenFrames /\ cur \in Threads
  BY DEF Unblocked
<1>2. saved[t].mask = {} /\ saved[t].ifl \in BOOLEAN
  BY <1>1, FrameFacts
<1>3. saved' = [saved EXCEPT ![cur] = f, ![t] = Live]
  BY DEF _do_change_task
<1>4. saved' \in [Threads -> OpenFrames]
  BY <1>1, <1>3, FrameFacts DEF Unblocked
<1> QED BY <1>2, <1>4 DEF _do_change_task

(* find_next_task finds a thread that may run, and the idle thread only if *)
(* no other thread may.                                                    *)
LEMMA FindFacts ==
  ASSUME NEW w, NEW l, NEW t \in find_next_task(w, l)
  PROVE  /\ t \in Threads /\ t \in Runnable(w, l) /\ WaitTest(t, w, l)
         /\ t = "idle" => Runnable(w, l) = {"idle"}
<1>1. t \in Threads /\ t \in Runnable(w, l) /\ WaitTest(t, w, l)
  BY DEF find_next_task, Runnable
<1>2. ASSUME t = "idle", NEW u \in Runnable(w, l)
      PROVE  u = "idle"
  <2>1. Priority(t) <= Priority(u)
    BY <1>2 DEF find_next_task
  <2> QED BY <1>2, <2>1 DEF Priority
<1> QED BY <1>1, <1>2

(* So does a wait, whether the thread goes on or another one is found.     *)
LEMMA WaitMasks ==
  ASSUME Unblocked, irq = "no", NEW test, NEW n, NEW p,
         kos_wait_events(test, n, p)
  PROVE  /\ cur' \in Threads /\ saved' \in [Threads -> OpenFrames]
         /\ ifl' \in BOOLEAN /\ mask' = {}
<1> DEFINE w == [waits EXCEPT ![cur] = test]
           l == [left EXCEPT ![cur] = n]
           at == [pc EXCEPT ![cur] = p]
           f == [how |-> "call", ifl |-> ifl, mask |-> {}]
<1>1. PICK t \in find_next_task(w, l) :
        IF t = cur THEN pc' = at /\ UNCHANGED <<cur, waits, saved, mask, ifl>>
        ELSE _do_change_task(t, f, w, at, mask)
  BY DEF kos_wait_events
<1>2. t \in Threads
  BY FindFacts
<1>3. mask = {} /\ f \in OpenFrames
  BY FrameFacts DEF Unblocked
<1> HIDE DEF w, l, at, f
<1>4. CASE t = cur
  BY <1>1, <1>3, <1>4 DEF Unblocked
<1>5. CASE t # cur
  <2>1. _do_change_task(t, f, w, at, mask)
    BY <1>1, <1>5
  <2> QED BY <1>2, <1>3, <2>1, ChangeMasks
<1> QED BY <1>4, <1>5

-----------------------------------------------------------------------------
\* A step in which cur waits.
Waiting(t) ==
  /\ Step(t, pc[t])
  /\ \E test \in Tests, n \in Nat, p \in Labels : kos_wait_events(test, n, p)
  /\ UNCHANGED <<segv, irqs, flags, cmds, calls, works, early, passed>>

\* A step that leaves the frames and the masks alone.
Unmasking == UNCHANGED <<cur, saved, segv, mask, irq, frame>> /\ ifl' \in BOOLEAN

(* Every step of the processor outside irq0 waits, leaves the masks alone, *)
(* or enters or leaves a system call.                                      *)
LEMMA CpuSteps ==
  ASSUME Unblocked, Cpu
  PROVE  \/ \E t \in Threads : Waiting(t)
         \/ Unmasking
         \/ \E a \in Apps : int40(a) \/ SigReturn(a)
<1>0. MaxSleep \in Nat /\ ifl \in BOOLEAN
  BY AppsAssumption DEF Unblocked
<1>1. CASE Main
  <2>1. CASE OsWait
    BY <1>0, <2>1, ThreadsFacts DEF OsWait, Waiting, Step, Tests, Labels
  <2>2. CASE ~OsWait
    BY <1>0, <1>1, <2>2
       DEF Main, EarlyCommand, StartThreads, SwitchOn, Setitimer, OsPass,
           JmpOsloop, Goto, irqs, Unmasking
  <2> QED BY <2>1, <2>2
<1>2. CASE IdleSti \/ IdleMark \/ RunnerSti
  BY Zenon, <1>0, <1>2 DEF IdleSti, IdleMark, RunnerSti, Goto, irqs, Unmasking
<1>3. CASE RunnerAwait
  BY <1>0, <1>3, ThreadsFacts DEF RunnerAwait, Waiting, Step, Tests, Labels
<1>4. ASSUME NEW t \in {"os", "runner"}, Command(t)
      PROVE  Unmasking \/ Waiting(t)
  <2>1. CASE IdleWait(t)
    BY <2>1 DEF IdleWait, Waiting, Step, Tests, Labels
  <2>2. CASE OsIdleWait(t)
    BY <2>2 DEF OsIdleWait, Waiting, Step, Tests, Labels
  <2>3. CASE umka_sys_csleep(t)
    BY <1>0, <2>3 DEF umka_sys_csleep, Waiting, Step, Tests, Labels
  <2>4. CASE umka_wait_for_idle(t) \/ umka_wait_for_os_idle(t) \/ OsIdleClear(t)
             \/ CommandDone(t)
    BY <1>0, <2>4 DEF umka_wait_for_idle, umka_wait_for_os_idle, OsIdleClear,
                      CommandDone, Goto, irqs, Unmasking
  <2> QED BY <1>4, <2>1, <2>2, <2>3, <2>4 DEF Command
<1>5. ASSUME NEW a \in Apps, Service(a)
      PROVE  Unmasking \/ Waiting(a)
  <2>1. CASE \E n \in 1..MaxSleep : /\ kos_wait_events("time", n, "iret")
                                    /\ UNCHANGED <<segv, irqs, flags, cmds, calls,
                                                   works, early, passed>>
    BY <1>0, <1>5, <2>1 DEF Service, Waiting, Step, Tests, Labels
  <2>2. CASE kos_wait_events("never", 0, "iret")
             /\ UNCHANGED <<segv, irqs, flags, cmds, calls, works, early, passed>>
    BY <1>5, <2>2 DEF Service, Waiting, Step, Tests, Labels
  <2>3. CASE Goto(a, "iret") /\ UNCHANGED <<segv, mask, ifl, irqs>>
    BY <1>0, <2>3 DEF Goto, irqs, Unmasking
  <2> QED BY <1>5, <2>1, <2>2, <2>3 DEF Service
<1> QED BY <1>1, <1>2, <1>3, <1>4, <1>5, ThreadsFacts DEF Cpu, App

(* Every step keeps the frames open and the mask empty outside the first   *)
(* instructions of irq0.                                                   *)
LEMMA UnblockedStep ==
  ASSUME Unblocked, [Next]_vars
  PROVE  Unblocked'
<1>1. ASSUME NEW t \in Threads, Waiting(t)
      PROVE  Unblocked'
  <2>1. PICK test \in Tests, n \in Nat, p \in Labels : kos_wait_events(test, n, p)
    BY <1>1 DEF Waiting
  <2>2. irq = "no" /\ irq' = irq /\ segv' = segv /\ frame' = frame
    BY <1>1 DEF Waiting, Step, irqs
  <2>3. /\ cur' \in Threads /\ saved' \in [Threads -> OpenFrames]
        /\ ifl' \in BOOLEAN /\ mask' = {}
    BY <2>1, <2>2, WaitMasks
  <2> QED BY <2>2, <2>3 DEF Unblocked
<1>2. CASE Unmasking
  BY <1>2 DEF Unmasking, Unblocked
<1>3. ASSUME NEW a \in Apps, int40(a)
      PROVE  Unblocked'
  <2>1. irq = "no" /\ mask = {} /\ a \in Threads /\ segv = [t \in Threads |-> {}]
    BY <1>3, ThreadsFacts DEF int40, Step, Unblocked
  <2>2. mask' = {} /\ segv' = segv
    BY <1>3, <2>1 DEF int40, SaMask
  <2> QED BY <1>3, <2>1, <2>2 DEF int40, Goto, irqs, Unblocked
<1>4. ASSUME NEW a \in Apps, SigReturn(a)
      PROVE  Unblocked'
  <2>1. irq = "no" /\ mask = {} /\ a \in Threads /\ segv = [t \in Threads |-> {}]
    BY <1>4, ThreadsFacts DEF SigReturn, Step, Unblocked
  <2>2. mask' = {} /\ segv' = segv
    BY <1>4, <2>1 DEF SigReturn
  <2> QED BY <1>4, <2>1, <2>2 DEF SigReturn, Goto, irqs, Unblocked
<1>5. CASE Cpu
  BY <1>1, <1>2, <1>3, <1>4, <1>5, CpuSteps
<1>6. ASSUME NEW b \in BOOLEAN, Tick(b)
      PROVE  Unblocked'
  <2>1. mask = {} /\ ifl \in BOOLEAN
    BY <1>6 DEF Tick, Unblocked
  <2>2. frame' = [how |-> "irq", ifl |-> ifl, mask |-> {}]
    BY <1>6, <2>1 DEF Tick
  <2>3. frame' \in OpenFrames
    BY <2>1, <2>2, FrameFacts
  <2>4. mask' = {"ALRM"}
    BY <1>6, <2>1 DEF Tick, SaMask
  <2> QED BY Zenon, <1>6, <2>3, <2>4 DEF Tick, Unblocked
<1>7. CASE ResetProcmask
  BY <1>7 DEF ResetProcmask, Unblocked
<1>8. ASSUME irq = "open", irq' = "no", frame' = Live, Iret, segv' = segv
      PROVE  Unblocked'
  <2>1. frame.mask = {} /\ frame.ifl \in BOOLEAN
    BY FrameFacts DEF Unblocked
  <2> QED BY <1>8, <2>1, FrameFacts DEF Iret, Unblocked
<1>9. CASE IrqCli
  BY <1>8, <1>9 DEF IrqCli
<1>10. CASE IrqSchedule
  <2>1. irq = "open" /\ irq' = "no" /\ frame' = Live /\ segv' = segv
    BY <1>10 DEF IrqSchedule
  <2>2. PICK t \in find_next_task(waits, left) :
          IF t = cur THEN Iret ELSE _do_change_task(t, frame, waits, pc, mask)
    BY <1>10 DEF IrqSchedule
  <2>3. CASE t = cur
    BY <1>8, <2>1, <2>2, <2>3
  <2>4. CASE t # cur
    <3>1. t \in Threads /\ frame \in OpenFrames /\ mask = {}
      BY <2>1, FindFacts DEF Unblocked
    <3>2. _do_change_task(t, frame, waits, pc, mask)
      BY <2>2, <2>4
    <3>3. /\ cur' \in Threads /\ saved' \in [Threads -> OpenFrames]
          /\ ifl' \in BOOLEAN /\ mask' = {}
      BY <3>1, <3>2, ChangeMasks
    <3> QED BY <2>1, <3>3, FrameFacts DEF Unblocked
  <2> QED BY <2>3, <2>4
<1>11. CASE (\E b \in BOOLEAN : NestedTick(b)) \/ (\E k \in Kinds : Send(k))
  BY <1>11 DEF NestedTick, Send, threads, irqs, Unblocked
<1>12. CASE UNCHANGED vars
  BY <1>12 DEF vars, threads, irqs, Unblocked
<1> QED BY <1>5, <1>6, <1>7, <1>9, <1>10, <1>11, <1>12 DEF Next, Irq0, Ticks

(* main starts with nothing blocked.                                       *)
LEMMA UnblockedInit == Init => Unblocked
  BY ThreadsFacts, FrameFacts DEF Init, Unblocked

(* Whatever the applications do, outside the first instructions of irq0    *)
(* SIGALRM is not blocked (umka.asm:965, linux/thread.c:17).               *)
THEOREM TimerCorrect == Spec => []TimerNotLost
<1>1. Unblocked => TimerNotLost
  BY DEF Unblocked, TimerNotLost
<1> QED BY <1>1, UnblockedInit, UnblockedStep, PTL DEF Spec

(* Whatever calls of other applications are unfinished, an application     *)
(* that executes int 0x40 finds SIGSEGV unblocked (umka_os.c:450).         *)
THEOREM SyscallsCorrect == Spec => []SyscallsTaken
<1>1. Unblocked => SyscallsTaken
  BY DEF Unblocked, SyscallsTaken, Step
<1> QED BY <1>1, UnblockedInit, UnblockedStep, PTL DEF Spec

-----------------------------------------------------------------------------
(* The rest of the type invariant.                                         *)
Typed ==
  /\ pc \in [Threads -> Labels] /\ waits \in [Threads -> Tests]
  /\ left \in [Threads -> Nat]
  /\ timer \in BOOLEAN /\ cmd \in Kinds \cup {"none"}
  /\ idle_scheduled \in BOOLEAN /\ os_scheduled \in BOOLEAN /\ work \in BOOLEAN
  /\ early \in BOOLEAN /\ passed \in BOOLEAN /\ quiet \in BOOLEAN
  /\ cmds \in Nat /\ works \in Nat /\ calls \in [Threads -> Nat]

CommandLabels == {"exec", "idlewait", "oswait", "clear", "done"}

\* Before the timer runs only main does, unless the script executed a
\* command that waits: then main waits, cmd_runner waits too, and the idle
\* thread pauses for good.
Begun ==
  /\ waits[cur] = "none"
  /\ ~timer => irq = "no"
  /\ ~timer /\ ~early =>
       /\ cur = "os" /\ pc["os"] \in {"script", "switch", "arm"}
       /\ pc["runner"] = "new" /\ ~idle_scheduled /\ ~os_scheduled
       /\ pc["os"] = "script" => \A a \in Apps : pc[a] = "unborn"
  /\ timer => pc["os"] \in {"osloop", "pass", "jmp"}
  /\ early =>
       /\ ~timer
       /\ \A a \in Apps : pc[a] = "unborn"
       /\ \/ cur = "idle"
          \/ /\ cur = "os" /\ pc["os"] \in {"exec", "idlewait", "oswait"}
             /\ pc["runner"] = "new" /\ ~idle_scheduled /\ ~os_scheduled
          \/ /\ cur = "runner" /\ ~idle_scheduled /\ ~os_scheduled
             /\ pc["runner"] \in {"new", "await", "exec", "idlewait", "oswait"}
             /\ waits["os"] \in {"idle", "os", "time"}
             /\ waits["os"] = "time" => left["os"] # 0

\* How far cmd_runner is with its command, and what has happened since.
Running ==
  /\ pc["runner"] \in {"new", "await"} \cup CommandLabels
  /\ cmd = "none" => pc["runner"] \in {"new", "await", "exec"}
  /\ pc["runner"] = "oswait" => cmd = "os" /\ (os_scheduled => passed)
  /\ pc["runner"] = "clear" =>
       /\ cmd = "os" /\ waits["runner"] \in {"none", "os"}
       /\ os_scheduled \/ waits["runner"] = "none" => passed
  /\ pc["runner"] = "idlewait" =>
       /\ cmd \in {"idle", "os"} /\ (cmd = "os" => passed)
       /\ idle_scheduled \/ cur = "idle" => quiet
  /\ pc["runner"] = "done" /\ cmd \in {"idle", "os"} =>
       /\ waits["runner"] \in {"none", "idle"} /\ (cmd = "os" => passed)
       /\ idle_scheduled \/ cur = "idle" \/ waits["runner"] = "none" => quiet

-----------------------------------------------------------------------------
TestHolds(x, n) ==
  \/ x = "none"
  \/ x = "ready" /\ cmd # "none"
  \/ x = "idle" /\ idle_scheduled
  \/ x = "os" /\ os_scheduled
  \/ x = "work" /\ work
  \/ x = "time" /\ n = 0

\* cur, which is at p now and waits for the test, makes room for t.
Switched(t, test, n, p) ==
  LET W(u) == IF u = cur THEN test ELSE waits[u]
      L(u) == IF u = cur THEN n ELSE left[u]
      P(u) == IF u = cur THEN p ELSE pc[u]
  IN /\ cur' = t
     /\ pc' \in [Threads -> Labels] /\ waits' \in [Threads -> Tests]
     /\ left' \in [Threads -> Nat]
     /\ \A u \in Threads :
          /\ waits'[u] = IF u = t THEN "none" ELSE W(u)
          /\ left'[u] = L(u)
          /\ pc'[u] = P(u) \/ (u = t /\ P(u) = "pause" /\ pc'[u] = "mark")
     /\ t # cur => pc[t] # "unborn"
     /\ TestHolds(W(t), L(t))
     /\ quiet' \in BOOLEAN /\ (quiet => quiet')
     /\ t = "idle" /\ cur # "idle" /\ (cmd = "idle" \/ (cmd = "os" /\ passed))
          => quiet'

(* Awake changes at most the label of a pausing thread.                    *)
LEMMA AwakeIs ==
  ASSUME NEW p \in [Threads -> Labels], NEW t \in Threads
  PROVE  /\ Awake(p, t) \in [Threads -> Labels]
         /\ \A u \in Threads :
              \/ Awake(p, t)[u] = p[u]
              \/ u = t /\ p[u] = "pause" /\ Awake(p, t)[u] = "mark"
  BY DEF Awake, Labels

(* A change of the task found by find_next_task.                           *)
LEMMA ChangeIs ==
  ASSUME Typed, cur \in Threads, waits[cur] = "none",
         NEW test \in Tests, NEW n \in Nat, NEW p \in Labels,
         NEW t \in find_next_task([waits EXCEPT ![cur] = test],
                                  [left EXCEPT ![cur] = n]),
         cur' = t,
         waits' = [[waits EXCEPT ![cur] = test] EXCEPT ![t] = "none"],
         left' = [left EXCEPT ![cur] = n],
         \/ pc' = [pc EXCEPT ![cur] = p]
         \/ pc' = Awake([pc EXCEPT ![cur] = p], t),
         \/ Noted(t, [waits EXCEPT ![cur] = test], [left EXCEPT ![cur] = n])
         \/ t = cur /\ quiet' = quiet
  PROVE  t \in Threads /\ Switched(t, test, n, p)
<1> DEFINE w == [waits EXCEPT ![cur] = test]
           l == [left EXCEPT ![cur] = n]
           at == [pc EXCEPT ![cur] = p]
<1>1. /\ t \in Threads /\ t \in Runnable(w, l) /\ WaitTest(t, w, l)
      /\ t = "idle" => Runnable(w, l) = {"idle"}
  BY Zenon, FindFacts
<1>2. pc[t] # "unborn"
  BY <1>1 DEF Runnable
<1>3. at \in [Threads -> Labels] /\ \A u \in Threads : at[u] = IF u = cur THEN p ELSE pc[u]
  BY DEF Typed
<1>4. /\ w \in [Threads -> Tests] /\ l \in [Threads -> Nat]
      /\ \A u \in Threads : /\ w[u] = IF u = cur THEN test ELSE waits[u]
                            /\ l[u] = IF u = cur THEN n ELSE left[u]
  BY DEF Typed
<1>5. TestHolds(w[t], l[t])
  BY <1>1 DEF WaitTest, TestHolds
<1> HIDE DEF at
<1>6. /\ pc' \in [Threads -> Labels]
      /\ \A u \in Threads :
           pc'[u] = at[u] \/ (u = t /\ at[u] = "pause" /\ pc'[u] = "mark")
  <2>1. CASE pc' = at
    BY <1>3, <2>1
  <2>2. CASE pc' = Awake(at, t)
    BY <1>1, <1>3, <2>2, AwakeIs
  <2> QED BY <2>1, <2>2 DEF at
<1> HIDE DEF w, l
<1>7. /\ waits' = [w EXCEPT ![t] = "none"] /\ left' = l
      /\ Noted(t, w, l) \/ (t = cur /\ quiet' = quiet)
  BY DEF w, l
<1>8. /\ quiet' \in BOOLEAN /\ (quiet => quiet')
      /\ t = "idle" /\ cur # "idle" /\ (cmd = "idle" \/ (cmd = "os" /\ passed))
           => quiet'
  BY Zenon, <1>1, <1>7 DEF Noted, Typed
<1>9. /\ waits' \in [Threads -> Tests]
      /\ \A u \in Threads : waits'[u] = IF u = t THEN "none" ELSE w[u]
  BY <1>1, <1>4, <1>7 DEF Tests
<1>10. /\ w[t] = IF t = cur THEN test ELSE waits[t]
       /\ l[t] = IF t = cur THEN n ELSE left[t]
  BY <1>1, <1>4
<1>11. TestHolds(IF t = cur THEN test ELSE waits[t], IF t = cur THEN n ELSE left[t])
  BY <1>5, <1>10
<1>12. \A u \in Threads :
         /\ waits'[u] = IF u = t THEN "none" ELSE IF u = cur THEN test ELSE waits[u]
         /\ left'[u] = IF u = cur THEN n ELSE left[u]
  BY <1>4, <1>7, <1>9
<1>13. \A u \in Threads :
         LET x == IF u = cur THEN p ELSE pc[u]
         IN pc'[u] = x \/ (u = t /\ x = "pause" /\ pc'[u] = "mark")
  BY <1>3, <1>6
<1> HIDE DEF TestHolds
<1> QED BY Zenon, <1>1, <1>2, <1>4, <1>6, <1>7, <1>8, <1>9, <1>11, <1>12, <1>13 DEF Switched

(* kos_wait_events switches, possibly to cur itself.                       *)
LEMMA WaitIs ==
  ASSUME Typed, cur \in Threads, waits[cur] = "none",
         NEW test \in Tests, NEW n \in Nat, NEW p \in Labels,
         kos_wait_events(test, n, p)
  PROVE  \E t \in Threads : Switched(t, test, n, p)
<1> DEFINE w == [waits EXCEPT ![cur] = test]
           l == [left EXCEPT ![cur] = n]
           at == [pc EXCEPT ![cur] = p]
<1>1. PICK t \in find_next_task(w, l) :
        /\ left' = l
        /\ Noted(t, w, l)
        /\ IF t = cur THEN pc' = at /\ UNCHANGED <<cur, waits, saved, mask, ifl>>
           ELSE _do_change_task(t, [how |-> "call", ifl |-> ifl, mask |-> {}],
                                w, at, mask)
  BY DEF kos_wait_events
<1>2. cur' = t /\ waits' = [w EXCEPT ![t] = "none"] /\ (pc' = at \/ pc' = Awake(at, t))
  <2>1. CASE t = cur
    <3>1. [w EXCEPT ![cur] = "none"] = waits
      BY Zenon DEF Typed
    <3> QED BY <1>1, <2>1, <3>1
  <2>2. CASE t # cur
    BY <1>1, <2>2 DEF _do_change_task
  <2> QED BY <2>1, <2>2
<1> QED BY Zenon, <1>1, <1>2, ChangeIs

(* irq0, too, where cur does not wait.                                     *)
LEMMA IrqIs ==
  ASSUME Typed, cur \in Threads, waits[cur] = "none",
         IrqCli \/ IrqSchedule
  PROVE  \E t \in Threads : Switched(t, "none", left[cur], pc[cur])
<1>1. ASSUME Iret, left' = left
      PROVE  Switched(cur, "none", left[cur], pc[cur])
  <2>1. /\ pc' \in [Threads -> Labels]
        /\ \A u \in Threads :
             pc'[u] = pc[u] \/ (u = cur /\ pc[u] = "pause" /\ pc'[u] = "mark")
    BY <1>1, AwakeIs DEF Iret, Typed
  <2> QED BY <1>1, <2>1 DEF Iret, Switched, TestHolds, Typed
<1>2. CASE IrqCli
  BY <1>1, <1>2 DEF IrqCli
<1>3. CASE IrqSchedule
  <2>1. PICK t \in find_next_task(waits, left) :
          IF t = cur THEN Iret
          ELSE _do_change_task(t, frame, waits, pc, mask) /\ Noted(t, waits, left)
    BY <1>3 DEF IrqSchedule
  <2>2. left' = left
    BY <1>3 DEF IrqSchedule
  <2>3. CASE t = cur
    BY <1>1, <2>1, <2>2, <2>3
  <2>4. CASE t # cur
    <3>1. /\ [waits EXCEPT ![cur] = "none"] = waits
          /\ [left EXCEPT ![cur] = left[cur]] = left
          /\ [pc EXCEPT ![cur] = pc[cur]] = pc
          /\ left[cur] \in Nat /\ pc[cur] \in Labels /\ "none" \in Tests
      BY DEF Typed, Tests
    <3>2. /\ cur' = t /\ waits' = [waits EXCEPT ![t] = "none"]
          /\ pc' = pc \/ pc' = Awake(pc, t)
          /\ Noted(t, waits, left)
      BY <2>1, <2>4 DEF _do_change_task
    <3> QED BY Zenon, <2>2, <3>1, <3>2, ChangeIs
  <2> QED BY <2>3, <2>4
<1> QED BY <1>2, <1>3

-----------------------------------------------------------------------------
(* The actions in which cur waits, with what it waits for.                 *)
Waits(test, p) ==
  \/ /\ test = "work" /\ p = "pass" /\ cur = "os" /\ pc["os"] = "osloop"
  \/ /\ test = "ready" /\ p = "exec" /\ cur = "runner" /\ pc["runner"] = "await"
  \/ /\ test = "idle" /\ p = "done" /\ cur \in {"os", "runner"}
     /\ pc[cur] = "idlewait"
  \/ /\ test = "os" /\ p = "clear" /\ cur \in {"os", "runner"}
     /\ pc[cur] = "oswait"
  \/ /\ test = "time" /\ p = "done" /\ cur \in {"os", "runner"}
     /\ pc[cur] = "exec" /\ cmd = "sleep"
  \/ /\ test \in {"time", "never"} /\ p = "iret" /\ cur \in Apps
     /\ pc[cur] = "i40"

\* A step of the processor in which it switches.
Blocks ==
  /\ \E t \in Threads, test \in Tests, n \in Nat, p \in Labels :
       /\ Switched(t, test, n, p)
       /\ Waits(test, p) /\ (test = "time" => n # 0)
  /\ irq = "no" /\ UNCHANGED <<irq, timer, flags, cmds, calls, works, early, passed>>

(* Those actions block.                                                    *)
LEMMA BlockSteps ==
  ASSUME Typed, Unblocked, Begun,
         \/ OsWait \/ RunnerAwait
         \/ \E t \in {"os", "runner"} :
              IdleWait(t) \/ OsIdleWait(t) \/ umka_sys_csleep(t)
  PROVE  Blocks
<1>0. cur \in Threads /\ waits[cur] = "none" /\ MaxSleep \in Nat
  BY AppsAssumption DEF Unblocked, Begun
<1>1. ASSUME NEW test \in Tests, NEW n \in Nat, NEW p \in Labels,
             kos_wait_events(test, n, p), Waits(test, p), test = "time" => n # 0,
             irq = "no", UNCHANGED <<irqs, flags, cmds, calls, works, early, passed>>
      PROVE  Blocks
  <2>1. \E t \in Threads : Switched(t, test, n, p)
    BY <1>0, <1>1, WaitIs
  <2>2. UNCHANGED <<irq, timer, flags, cmds, calls, works, early, passed>>
    BY <1>1 DEF irqs
  <2> QED BY <1>1, <2>1, <2>2 DEF Blocks
<1>2. CASE OsWait
  BY <1>1, <1>2 DEF OsWait, Step, Waits, Tests, Labels
<1>3. CASE RunnerAwait
  BY <1>1, <1>3 DEF RunnerAwait, Step, Waits, Tests, Labels
<1>4. ASSUME NEW t \in {"os", "runner"}, IdleWait(t)
      PROVE  Blocks
  BY <1>1, <1>4 DEF IdleWait, Step, Waits, Tests, Labels
<1>5. ASSUME NEW t \in {"os", "runner"}, OsIdleWait(t)
      PROVE  Blocks
  BY <1>1, <1>5 DEF OsIdleWait, Step, Waits, Tests, Labels
<1>6. ASSUME NEW t \in {"os", "runner"}, umka_sys_csleep(t)
      PROVE  Blocks
  <2>1. PICK n \in 1..MaxSleep : kos_wait_events("time", n, "done")
    BY <1>6 DEF umka_sys_csleep
  <2>2. n \in Nat /\ n # 0
    BY <1>0
  <2> QED BY <1>1, <1>6, <2>1, <2>2 DEF umka_sys_csleep, Step, Waits, Tests, Labels
<1> QED BY <1>2, <1>3, <1>4, <1>5, <1>6

(* A system call returns or blocks.                                        *)
LEMMA ServiceSteps ==
  ASSUME Typed, Unblocked, Begun, NEW a \in Apps, Service(a)
  PROVE  \/ Blocks
         \/ /\ Step(a, "i40") /\ Goto(a, "iret")
            /\ \E b \in BOOLEAN : Woken(b)
            /\ UNCHANGED <<irqs, cmd, idle_scheduled, os_scheduled, cmds, calls,
                           history>>
<1>0. cur \in Threads /\ waits[cur] = "none" /\ MaxSleep \in Nat /\ a \in Threads
  BY AppsAssumption, ThreadsFacts DEF Unblocked, Begun
<1>1. ASSUME NEW test \in {"time", "never"}, NEW n \in Nat,
             kos_wait_events(test, n, "iret"), test = "time" => n # 0,
             UNCHANGED <<segv, irqs, flags, cmds, calls, works, early, passed>>
      PROVE  Blocks
  <2>0. test \in Tests /\ "iret" \in Labels
    BY DEF Tests, Labels
  <2>1. PICK t \in Threads : Switched(t, test, n, "iret")
    BY <1>0, <1>1, <2>0, WaitIs
  <2>2. UNCHANGED <<irq, timer, flags, cmds, calls, works, early, passed>>
    BY <1>1 DEF irqs
  <2>3. Waits(test, "iret") /\ irq = "no"
    BY DEF Service, Step, Waits
  <2> QED BY <1>1, <2>0, <2>1, <2>2, <2>3 DEF Blocks
<1>2. CASE \E n \in 1..MaxSleep : /\ kos_wait_events("time", n, "iret")
                                  /\ UNCHANGED <<segv, irqs, flags, cmds, calls,
                                                 works, early, passed>>
  <2>1. PICK n \in 1..MaxSleep : /\ kos_wait_events("time", n, "iret")
                                 /\ UNCHANGED <<segv, irqs, flags, cmds, calls,
                                                works, early, passed>>
    BY <1>2
  <2>2. n \in Nat /\ n # 0
    BY <1>0
  <2> QED BY <1>1, <2>1, <2>2
<1>3. CASE kos_wait_events("never", 0, "iret")
           /\ UNCHANGED <<segv, irqs, flags, cmds, calls, works, early, passed>>
  BY <1>1, <1>3
<1> QED BY <1>2, <1>3 DEF Service

-----------------------------------------------------------------------------
(* Every step keeps the types.                                             *)
LEMMA TypedStep ==
  ASSUME Typed, Unblocked, Begun, [Next]_vars
  PROVE  Typed'
<1> USE ThreadsFacts DEF Labels, Tests, Kinds
<1>0. cur \in Threads /\ waits[cur] = "none"
  BY DEF Unblocked, Begun
<1>1. CASE Blocks
  BY <1>1 DEF Blocks, Switched, flags, Typed
<1>2. ASSUME NEW t \in Threads, NEW p \in Labels, Goto(t, p),
             UNCHANGED <<timer, cmd, cmds, calls, early>>,
             work' \in BOOLEAN, works' \in Nat,
             idle_scheduled' \in BOOLEAN, os_scheduled' \in BOOLEAN,
             passed' \in BOOLEAN, quiet' \in BOOLEAN
      PROVE  Typed'
  BY <1>2 DEF Goto, Typed
<1>3. ASSUME NEW b \in BOOLEAN, Woken(b)
      PROVE  work' \in BOOLEAN /\ works' \in Nat
  BY <1>3 DEF Woken, Typed
<1>4. CASE Main /\ ~OsWait
  <2>1. CASE \E k \in Kinds : EarlyCommand(k)
    BY <2>1 DEF EarlyCommand, Goto, irqs, Typed
  <2>2. CASE StartThreads
    <3>1. pc' \in [Threads -> Labels]
      BY <2>2 DEF StartThreads, Typed
    <3> QED BY <2>2, <3>1 DEF StartThreads, irqs, flags, history, Typed
  <2>3. CASE SwitchOn \/ Setitimer
    <3>1. CASE SwitchOn
      BY <1>2, <3>1 DEF SwitchOn, irqs, flags, history, Typed
    <3>2. CASE Setitimer
      <4>1. pc' \in [Threads -> Labels]
        BY <3>2 DEF Setitimer, Goto, Typed
      <4> QED BY <3>2, <4>1 DEF Setitimer, Goto, flags, history, Typed
    <3> QED BY <2>3, <3>1, <3>2
  <2>4. CASE OsPass \/ JmpOsloop
    BY Zenon, <1>2, <2>4 DEF OsPass, JmpOsloop, irqs, history, Typed
  <2> QED BY <1>4, <2>1, <2>2, <2>3, <2>4 DEF Main
<1>5. CASE IdleSti \/ IdleMark \/ RunnerSti
  BY Zenon, <1>2, <1>5 DEF IdleSti, IdleMark, RunnerSti, irqs, flags, history, Typed
<1>6. ASSUME NEW t \in {"os", "runner"},
             \/ umka_wait_for_idle(t) \/ umka_wait_for_os_idle(t) \/ OsIdleClear(t)
             \/ CommandDone(t)
      PROVE  Typed'
  <2>1. CASE CommandDone(t)
    BY Zenon, <2>1 DEF CommandDone, Goto, irqs, Typed
  <2>2. CASE umka_wait_for_idle(t) \/ umka_wait_for_os_idle(t) \/ OsIdleClear(t)
    BY Zenon, <1>2, <2>2 DEF umka_wait_for_idle, umka_wait_for_os_idle, OsIdleClear,
                      irqs, history, Typed
  <2> QED BY <1>6, <2>1, <2>2
<1>7. ASSUME NEW a \in Apps, App(a)
      PROVE  Typed'
  <2>0. a \in Threads
    OBVIOUS
  <2>1. CASE Service(a)
    <3>1. CASE /\ Goto(a, "iret") /\ \E b \in BOOLEAN : Woken(b)
               /\ UNCHANGED <<irqs, cmd, idle_scheduled, os_scheduled, cmds, calls,
                              history>>
      BY <1>2, <1>3, <2>0, <3>1 DEF irqs, history, Typed
    <3> QED BY <1>1, <2>1, <3>1, ServiceSteps
  <2>2. CASE int40(a)
    <3>1. calls' \in [Threads -> Nat]
      BY <2>0, <2>2 DEF int40, Typed
    <3> QED BY <2>0, <2>2, <3>1 DEF int40, Goto, irqs, flags, history, Typed
  <2>3. CASE SigReturn(a)
    BY <2>0, <2>3 DEF SigReturn, Goto, irqs, flags, history, Typed
  <2> QED BY <1>7, <2>1, <2>2, <2>3 DEF App
<1>8. CASE Cpu
  BY <1>1, <1>4, <1>5, <1>6, <1>7, <1>8, BlockSteps DEF Cpu, Command, Main
<1>9. Ticked \in [Threads -> Nat]
  <2>1. \A t \in Threads : (IF left[t] = 0 THEN 0 ELSE left[t] - 1) \in Nat
    BY DEF Typed
  <2> QED BY <2>1 DEF Ticked
<1>10. ASSUME NEW b \in BOOLEAN, Tick(b) \/ NestedTick(b)
       PROVE  Typed'
  BY <1>3, <1>9, <1>10 DEF Tick, NestedTick, irqs, history, Typed
<1>11. CASE ResetProcmask
  BY <1>11 DEF ResetProcmask, flags, history, Typed
<1>12. CASE IrqCli \/ IrqSchedule
  <2>1. PICK t \in Threads : Switched(t, "none", left[cur], pc[cur])
    BY <1>0, <1>12, IrqIs
  <2>2. UNCHANGED <<timer, flags, cmds, calls, works, early, passed>>
    BY <1>12 DEF IrqCli, IrqSchedule
  <2> QED BY <2>1, <2>2 DEF Switched, flags, Typed
<1>13. ASSUME NEW k \in Kinds, Send(k)
       PROVE  Typed'
  BY <1>13 DEF Send, threads, irqs, history, Typed
<1>14. CASE UNCHANGED vars
  BY <1>14 DEF vars, threads, irqs, flags, history, Typed
<1> QED BY <1>8, <1>10, <1>11, <1>12, <1>13, <1>14 DEF Next, Irq0, Ticks

(* A switch keeps what is known of the start of the system.                *)
LEMMA BlocksBegun ==
  ASSUME Typed, Unblocked, Begun, Running, Blocks
  PROVE  Begun'
<1> USE ThreadsFacts
<1>0. cur \in Threads
  BY DEF Unblocked
<1>1. PICK t \in Threads, test \in Tests, n \in Nat, p \in Labels :
        /\ Switched(t, test, n, p)
        /\ Waits(test, p) /\ (test = "time" => n # 0)
  BY DEF Blocks
<1>2. /\ irq' = irq /\ irq = "no" /\ timer' = timer /\ early' = early
      /\ cmd' = cmd /\ idle_scheduled' = idle_scheduled
      /\ os_scheduled' = os_scheduled
  BY DEF Blocks, flags
<1>3. cur' = t /\ waits'[t] = "none"
  BY <1>1 DEF Switched
<1>4. \A u \in Threads :
        pc'[u] = (IF u = cur THEN p ELSE pc[u])
        \/ (u = t /\ (IF u = cur THEN p ELSE pc[u]) = "pause" /\ pc'[u] = "mark")
  BY <1>1 DEF Switched
<1>5. p # "pause"
  BY <1>1 DEF Waits
<1>6. CASE ~early
  <2>1. timer
    BY <1>1, <1>6 DEF Begun, Waits
  <2>2. pc'["os"] \in {"osloop", "pass", "jmp"}
    BY <1>1, <1>4, <1>5, <2>1 DEF Begun, Waits
  <2> QED BY <1>2, <1>3, <1>6, <2>1, <2>2 DEF Begun
<1>7. CASE early
  <2>0. /\ ~timer /\ \A a \in Apps : pc[a] = "unborn" /\ cur # a
    BY <1>7 DEF Begun
  <2>1. \A a \in Apps : pc'[a] = "unborn"
    BY <1>4, <2>0
  <2>2. t \notin Apps
    BY <1>1, <2>0 DEF Switched
  <2>3. cur # "idle"
    BY <1>1 DEF Waits
  <2>4. CASE t = "idle"
    BY <1>2, <1>3, <1>7, <2>0, <2>1, <2>4 DEF Begun
  <2>5. CASE cur = "os" /\ t # "idle"
    <3>1. /\ pc["os"] \in {"exec", "idlewait", "oswait"} /\ pc["runner"] = "new"
          /\ ~idle_scheduled /\ ~os_scheduled
      BY <1>7, <2>5 DEF Begun
    <3>2. test \in {"idle", "os", "time"} /\ (test = "time" => n # 0)
      BY <1>1, <2>5, <3>1 DEF Waits
    <3>3. ~TestHolds(test, n)
      BY <3>1, <3>2 DEF TestHolds
    <3>4. t # "os"
      BY <1>1, <2>5, <3>3 DEF Switched
    <3>5. t = "runner"
      BY <2>2, <2>5, <3>4 DEF Threads
    <3>6. pc'["runner"] = "new"
      BY <1>4, <2>5, <3>1, <3>5
    <3>7. waits'["os"] = test /\ left'["os"] = n
      BY <1>1, <2>5, <3>4 DEF Switched
    <3> QED BY <1>2, <1>3, <1>7, <2>0, <2>1, <3>1, <3>2, <3>5, <3>6, <3>7 DEF Begun
  <2>6. CASE cur = "runner" /\ t # "idle"
    <3>1. /\ pc["runner"] \in {"new", "await", "exec", "idlewait", "oswait"}
          /\ ~idle_scheduled /\ ~os_scheduled
          /\ waits["os"] \in {"idle", "os", "time"}
          /\ waits["os"] = "time" => left["os"] # 0
      BY <1>7, <2>6 DEF Begun
    <3>2. /\ test \in {"ready", "idle", "os", "time"} /\ (test = "time" => n # 0)
          /\ test = "ready" => p = "exec"
      BY <1>1, <2>6, <3>1 DEF Waits
    <3>3. ~TestHolds(waits["os"], left["os"])
      BY <3>1 DEF TestHolds
    <3>4. t # "os"
      BY <1>1, <2>6, <3>3 DEF Switched
    <3>5. t = "runner"
      BY <2>2, <2>6, <3>4 DEF Threads
    <3>6. TestHolds(test, n)
      BY <1>1, <2>6, <3>5 DEF Switched
    <3>7. test = "ready"
      BY <3>1, <3>2, <3>6 DEF TestHolds
    <3>8. pc'["runner"] = "exec"
      BY <1>4, <2>6, <3>2, <3>5, <3>7
    <3>9. waits'["os"] = waits["os"] /\ left'["os"] = left["os"]
      BY <1>1, <2>6, <3>5 DEF Switched
    <3> QED BY <1>2, <1>3, <1>7, <2>0, <2>1, <3>1, <3>5, <3>8, <3>9 DEF Begun
  <2> QED BY <1>7, <2>3, <2>4, <2>5, <2>6 DEF Begun
<1> QED BY <1>6, <1>7 DEF Typed

(* Every step does.                                                        *)
LEMMA BegunStep ==
  ASSUME Typed, Unblocked, Begun, Running, [Next]_vars
  PROVE  Begun'
<1> USE ThreadsFacts DEF CommandLabels
<1>0. cur \in Threads /\ waits[cur] = "none"
  BY DEF Unblocked, Begun
<1>1. CASE Blocks
  BY <1>1, BlocksBegun
<1>2. ASSUME NEW k \in Kinds, EarlyCommand(k)
      PROVE  Begun'
  <2>1. /\ cur = "os" /\ pc["os"] = "script" /\ pc' = [pc EXCEPT !["os"] = "exec"]
        /\ early' = TRUE
        /\ UNCHANGED <<cur, waits, timer, irq, idle_scheduled, os_scheduled>>
    BY <1>2 DEF EarlyCommand, Step, Goto, irqs
  <2>2. ~early /\ ~timer
    BY <2>1 DEF Begun
  <2> QED BY <2>1, <2>2 DEF Begun, Typed

<1>3. CASE StartThreads \/ SwitchOn \/ Setitimer
  <2>1. /\ cur = "os" /\ pc["os"] \in {"script", "switch", "arm"}
        /\ UNCHANGED <<cur, waits, irq, early, idle_scheduled, os_scheduled>>
    BY <1>3 DEF StartThreads, SwitchOn, Setitimer, Step, Goto, irqs, flags, history
  <2>2. ~early /\ ~timer /\ irq = "no" /\ pc["runner"] = "new"
        /\ ~idle_scheduled /\ ~os_scheduled
    BY <2>1 DEF Begun
  <2>3. CASE StartThreads
    <3>1. pc'["os"] = "switch" /\ pc'["runner"] = "new" /\ timer' = timer
      BY <2>2, <2>3 DEF StartThreads, irqs
    <3> QED BY <2>1, <2>2, <3>1 DEF Begun
  <2>4. CASE SwitchOn
    <3>1. pc'["os"] = "arm" /\ pc'["runner"] = "new" /\ timer' = timer
      BY <2>2, <2>4 DEF SwitchOn, Goto, irqs, Typed
    <3> QED BY <2>1, <2>2, <3>1 DEF Begun
  <2>5. CASE Setitimer
    <3>1. pc'["os"] = "osloop" /\ timer' = TRUE
      BY <2>5 DEF Setitimer, Goto, Typed
    <3> QED BY <2>1, <2>2, <3>1 DEF Begun
  <2> QED BY <1>3, <2>3, <2>4, <2>5
<1>4. CASE OsPass \/ JmpOsloop
  <2>1. /\ cur = "os" /\ pc["os"] \in {"pass", "jmp"}
        /\ pc'["os"] \in {"osloop", "jmp"}
        /\ UNCHANGED <<cur, waits, irq, early, timer>>
    BY <1>4 DEF OsPass, JmpOsloop, Step, Goto, irqs, history, Typed
  <2>2. timer /\ ~early
    BY <2>1 DEF Begun, Typed
  <2> QED BY <2>1, <2>2 DEF Begun
<1>5. CASE IdleSti \/ IdleMark
  <2>1. /\ cur = "idle" /\ \E p \in Labels : pc' = [pc EXCEPT !["idle"] = p]
        /\ UNCHANGED <<cur, waits, irq, early, timer>>
    BY <1>5 DEF IdleSti, IdleMark, Step, Goto, irqs, flags, history, Labels
  <2>2. \A u \in Threads : u # "idle" => pc'[u] = pc[u]
    BY <2>1 DEF Typed
  <2> QED BY <2>1, <2>2 DEF Begun
<1>6. ASSUME NEW t \in {"os", "runner"}, NEW p \in Labels,
             cur = t, pc' = [pc EXCEPT ![t] = p],
             UNCHANGED <<cur, waits, left, irq, early, timer>>,
             idle_scheduled' => idle_scheduled, os_scheduled' => os_scheduled,
             t = "os" => pc[t] = "exec" /\ p \in {"idlewait", "oswait"},
             t = "runner" /\ early => p \in {"await", "idlewait", "oswait"}
      PROVE  Begun'
  <2>1. \A u \in Threads : pc'[u] = IF u = t THEN p ELSE pc[u]
    BY <1>6 DEF Typed
  <2>2. CASE early
    BY <1>6, <2>1, <2>2 DEF Begun
  <2>3. CASE ~early
    <3>1. timer /\ t = "runner"
      BY <1>6, <2>3 DEF Begun, Typed
    <3> QED BY <1>6, <2>1, <2>3, <3>1 DEF Begun
  <2> QED BY <2>2, <2>3 DEF Typed
<1>7. CASE RunnerSti
  BY <1>6, <1>7 DEF RunnerSti, Step, Goto, irqs, flags, history, Labels
<1>8. ASSUME NEW t \in {"os", "runner"}, umka_wait_for_idle(t) \/ umka_wait_for_os_idle(t)
      PROVE  Begun'
  BY <1>6, <1>8 DEF umka_wait_for_idle, umka_wait_for_os_idle, Step, Goto, irqs, Labels
<1>9. ASSUME NEW t \in {"os", "runner"}, OsIdleClear(t) \/ CommandDone(t)
      PROVE  Begun'
  <2>1. cur = t /\ pc[t] \in {"clear", "done"}
    BY <1>9 DEF OsIdleClear, CommandDone, Step
  <2>2. t = "runner" /\ ~early
    BY <2>1 DEF Begun, Typed
  <2> QED BY <1>6, <1>9, <2>1, <2>2
          DEF OsIdleClear, CommandDone, Goto, irqs, history, Labels
<1>10. ASSUME NEW a \in Apps, NEW p \in Labels, cur = a, pc' = [pc EXCEPT ![a] = p],
              UNCHANGED <<cur, waits, irq, early, timer>>
       PROVE  Begun'
  <2>1. timer /\ ~early
    BY <1>10 DEF Begun, Typed
  <2>2. pc'["os"] = pc["os"]
    BY <1>10 DEF Typed
  <2> QED BY <1>10, <2>1, <2>2 DEF Begun
<1>11. ASSUME NEW a \in Apps, App(a)
       PROVE  Begun'
  <2>1. CASE Service(a)
    <3>1. CASE /\ Step(a, "i40") /\ Goto(a, "iret")
               /\ UNCHANGED <<irqs, history>>
      BY Zenon, <1>10, <3>1 DEF Step, Goto, irqs, history, Labels
    <3> QED BY <1>1, <2>1, <3>1, ServiceSteps
  <2>2. CASE int40(a) \/ SigReturn(a)
    BY <1>10, <2>2 DEF int40, SigReturn, Step, Goto, irqs, history, Labels
  <2> QED BY <1>11, <2>1, <2>2 DEF App
<1>12. CASE Cpu
  BY <1>1, <1>2, <1>3, <1>4, <1>5, <1>7, <1>8, <1>9, <1>11, <1>12, BlockSteps
     DEF Cpu, Command, Main
<1>13. ASSUME timer, UNCHANGED <<cur, pc, waits, early, timer>>
       PROVE  Begun'
  BY <1>13 DEF Begun
<1>14. ASSUME NEW b \in BOOLEAN, Tick(b) \/ NestedTick(b)
       PROVE  Begun'
  <2>1. timer
    BY <1>14 DEF Tick, NestedTick, Begun
  <2> QED BY Zenon, <1>13, <1>14, <2>1 DEF Tick, NestedTick, irqs, history
<1>15. CASE ResetProcmask
  <2>1. timer
    BY <1>15 DEF ResetProcmask, Begun
  <2> QED BY <1>13, <1>15, <2>1 DEF ResetProcmask, history
<1>16. CASE IrqCli \/ IrqSchedule
  <2>1. PICK t \in Threads : Switched(t, "none", left[cur], pc[cur])
    BY <1>0, <1>16, IrqIs
  <2>2. timer /\ ~early
    BY <1>16 DEF IrqCli, IrqSchedule, Begun
  <2>3. timer' = timer /\ early' = early
    BY <1>16 DEF IrqCli, IrqSchedule
  <2>4. cur' = t /\ waits'[t] = "none"
    BY <2>1 DEF Switched
  <2>5. pc'["os"] = pc["os"]
    BY <2>1, <2>2 DEF Switched, Begun
  <2> QED BY <2>2, <2>3, <2>4, <2>5 DEF Begun
<1>17. CASE \E k \in Kinds : Send(k)
  BY <1>17 DEF Send, threads, irqs, history, Begun
<1>18. CASE UNCHANGED vars
  BY <1>18 DEF vars, threads, irqs, flags, history, Begun
<1> QED BY <1>12, <1>14, <1>15, <1>16, <1>17, <1>18 DEF Next, Irq0, Ticks

-----------------------------------------------------------------------------
(* A switch keeps what cmd_runner knows.                                   *)
LEMMA BlocksRunning ==
  ASSUME Typed, Unblocked, Begun, Running, Blocks
  PROVE  Running'
<1> USE ThreadsFacts DEF CommandLabels
<1>1. PICK t \in Threads, test \in Tests, n \in Nat, p \in Labels :
        /\ Switched(t, test, n, p)
        /\ Waits(test, p) /\ (test = "time" => n # 0)
  BY DEF Blocks
<1>2. /\ cmd' = cmd /\ idle_scheduled' = idle_scheduled
      /\ os_scheduled' = os_scheduled /\ passed' = passed
  BY DEF Blocks, flags
<1>3. /\ cur' = t /\ (quiet => quiet')
      /\ t = "idle" /\ cur # "idle" /\ (cmd = "idle" \/ (cmd = "os" /\ passed))
           => quiet'
  BY <1>1 DEF Switched
<1>4. CASE cur # "runner"
  <2>1. pc'["runner"] = pc["runner"]
    BY <1>1, <1>4 DEF Switched, Running
  <2>2. waits'["runner"] = IF t = "runner" THEN "none" ELSE waits["runner"]
    BY <1>1, <1>4 DEF Switched
  <2>3. t = "runner" => TestHolds(waits["runner"], left["runner"])
    BY <1>1, <1>4 DEF Switched
  <2>4. cur # "idle"
    BY <1>1 DEF Waits
  <2> QED BY <1>2, <1>3, <2>1, <2>2, <2>3, <2>4 DEF Running, TestHolds
<1>5. CASE cur = "runner"
  <2>1. pc'["runner"] = p
    BY <1>1, <1>5 DEF Switched, Waits
  <2>2. waits'["runner"] = IF t = "runner" THEN "none" ELSE test
    BY <1>1, <1>5 DEF Switched
  <2>3. t = "runner" => TestHolds(test, n)
    BY <1>1, <1>5 DEF Switched
  <2>4. \/ test = "ready" /\ p = "exec"
        \/ test = "idle" /\ p = "done" /\ pc["runner"] = "idlewait"
        \/ test = "os" /\ p = "clear" /\ pc["runner"] = "oswait"
        \/ test = "time" /\ p = "done" /\ cmd = "sleep"
    BY <1>1, <1>5 DEF Waits
  <2> QED BY <1>2, <1>3, <1>5, <2>1, <2>2, <2>3, <2>4 DEF Running, TestHolds
<1> QED BY <1>4, <1>5

(* Every step does.                                                        *)
LEMMA RunningStep ==
  ASSUME Typed, Unblocked, Begun, Running, [Next]_vars
  PROVE  Running'
<1> USE ThreadsFacts DEF CommandLabels
<1>0. cur \in Threads /\ waits[cur] = "none"
  BY DEF Unblocked, Begun
<1>1. CASE Blocks
  BY <1>1, BlocksRunning
<1>2. ASSUME UNCHANGED <<cur, waits, cmd, idle_scheduled, os_scheduled, passed, quiet>>,
             pc'["runner"] = pc["runner"]
      PROVE  Running'
  BY <1>2 DEF Running
<1>3. ASSUME NEW k \in Kinds, EarlyCommand(k)
      PROVE  Running'
  <2>1. cmd = "none" /\ pc'["runner"] = pc["runner"]
    BY <1>3 DEF EarlyCommand, Goto, Typed
  <2> QED BY <2>1 DEF Running
<1>4. CASE StartThreads \/ SwitchOn \/ Setitimer \/ OsPass
  <2>1. pc'["runner"] = pc["runner"]
    BY <1>4 DEF StartThreads, SwitchOn, Setitimer, OsPass, Goto, Typed
  <2> QED BY <1>2, <1>4, <2>1
          DEF StartThreads, SwitchOn, Setitimer, OsPass, Goto, flags, history
<1>5. CASE JmpOsloop
  <2>1. /\ pc'["runner"] = pc["runner"] /\ passed' = (cmd = "os")
        /\ UNCHANGED <<cur, waits, cmd, idle_scheduled, quiet>>
    BY <1>5 DEF JmpOsloop, Goto, Typed
  <2> QED BY Zenon, <2>1 DEF Running
<1>6. CASE IdleSti \/ IdleMark
  <2>1. /\ pc'["runner"] = pc["runner"] /\ cur = "idle"
        /\ UNCHANGED <<cur, waits, cmd, os_scheduled, passed, quiet>>
    BY <1>6 DEF IdleSti, IdleMark, Step, Goto, flags, history, Typed
  <2> QED BY <2>1 DEF Running
<1>7. CASE RunnerSti
  <2>1. pc'["runner"] = "await"
    BY <1>7 DEF RunnerSti, Goto, Typed
  <2> QED BY <2>1 DEF Running
<1>8. CASE Command("os") /\ ~Blocks
  <2>1. \/ umka_wait_for_idle("os") \/ umka_wait_for_os_idle("os")
        \/ OsIdleClear("os") \/ CommandDone("os")
    BY <1>8, BlockSteps DEF Command
  <2>2. cur = "os" /\ pc["os"] \in {"exec", "clear", "done"} /\ pc'["runner"] = pc["runner"]
    BY <2>1 DEF umka_wait_for_idle, umka_wait_for_os_idle, OsIdleClear, CommandDone,
                Step, Goto, Typed
  <2>3. pc["runner"] = "new"
    BY <2>2 DEF Begun, Typed
  <2> QED BY <2>2, <2>3 DEF Running
<1>9. CASE umka_wait_for_idle("runner")
  <2>1. /\ pc'["runner"] = "idlewait" /\ cmd = "idle" /\ cmd' = cmd
        /\ idle_scheduled' = FALSE /\ cur' = "runner"
    BY <1>9 DEF umka_wait_for_idle, Step, Goto, Typed
  <2> QED BY <2>1 DEF Running
<1>10. CASE umka_wait_for_os_idle("runner")
  <2>1. /\ pc'["runner"] = "oswait" /\ cmd = "os" /\ cmd' = cmd
        /\ os_scheduled' = FALSE
    BY <1>10 DEF umka_wait_for_os_idle, Step, Goto, Typed
  <2> QED BY <2>1 DEF Running
<1>11. CASE OsIdleClear("runner")
  <2>1. /\ pc'["runner"] = "idlewait" /\ pc["runner"] = "clear" /\ cur = "runner"
        /\ idle_scheduled' = FALSE
        /\ UNCHANGED <<cur, cmd, passed>>
    BY <1>11 DEF OsIdleClear, Step, Goto, history, Typed
  <2> QED BY <1>0, <2>1 DEF Running
<1>12. CASE CommandDone("runner")
  <2>1. pc'["runner"] = "await" /\ cmd' = "none"
    BY <1>12 DEF CommandDone, Goto, Typed
  <2> QED BY <2>1 DEF Running
<1>13. ASSUME NEW a \in Apps, App(a)
       PROVE  Running'
  <2>1. CASE Service(a)
    <3>1. CASE /\ Goto(a, "iret")
               /\ UNCHANGED <<cmd, idle_scheduled, os_scheduled, history>>
      BY <1>2, <3>1 DEF Goto, history, Typed
    <3> QED BY <1>1, <2>1, <3>1, ServiceSteps
  <2>2. CASE int40(a) \/ SigReturn(a)
    BY <1>2, <2>2 DEF int40, SigReturn, Goto, flags, history, Typed
  <2> QED BY <1>13, <2>1, <2>2 DEF App
<1>14. CASE Cpu
  BY <1>1, <1>3, <1>4, <1>5, <1>6, <1>7, <1>8, <1>9, <1>10, <1>11, <1>12, <1>13,
     <1>14, BlockSteps DEF Cpu, Command, Main
<1>15. ASSUME NEW b \in BOOLEAN, Tick(b) \/ NestedTick(b)
       PROVE  Running'
  BY <1>2, <1>15 DEF Tick, NestedTick, history
<1>16. CASE ResetProcmask
  BY <1>2, <1>16 DEF ResetProcmask, flags, history
<1>17. CASE IrqCli \/ IrqSchedule
  <2>1. PICK t \in Threads : Switched(t, "none", left[cur], pc[cur])
    BY <1>0, <1>17, IrqIs
  <2>2. UNCHANGED <<cmd, idle_scheduled, os_scheduled, passed>>
    BY <1>17 DEF IrqCli, IrqSchedule, flags
  <2>3. /\ cur' = t /\ (quiet => quiet')
        /\ t = "idle" /\ cur # "idle" /\ (cmd = "idle" \/ (cmd = "os" /\ passed))
             => quiet'
    BY <2>1 DEF Switched
  <2>4. pc'["runner"] = pc["runner"]
    BY <2>1 DEF Switched, Running
  <2>5. /\ waits'["runner"] = IF t = "runner" THEN "none" ELSE waits["runner"]
        /\ t = "runner" => TestHolds(waits["runner"], left["runner"])
    BY <1>0, <2>1 DEF Switched
  <2> QED BY <2>2, <2>3, <2>4, <2>5 DEF Running, TestHolds
<1>18. ASSUME NEW k \in Kinds, Send(k)
       PROVE  Running'
  BY <1>18 DEF Send, threads, Running
<1>19. CASE UNCHANGED vars
  BY <1>2, <1>19 DEF vars, threads, flags, history
<1> QED BY <1>14, <1>15, <1>16, <1>17, <1>18, <1>19 DEF Next, Irq0, Ticks

-----------------------------------------------------------------------------
Inductive == Unblocked /\ Typed /\ Begun /\ Running

(* The state main starts in.                                               *)
LEMMA InitInductive == Init => Inductive
<1> SUFFICES ASSUME Init PROVE Inductive
  OBVIOUS
<1>1. Unblocked
  BY UnblockedInit
<1>2. Typed
  BY Zenon, ThreadsFacts DEF Init, Typed, Labels, Tests
<1>3. Begun /\ Running
  BY ThreadsFacts DEF Init, Begun, Running, CommandLabels
<1> QED BY <1>1, <1>2, <1>3 DEF Inductive

(* Every step keeps the invariant.                                         *)
LEMMA NextInductive == Inductive /\ [Next]_vars => Inductive'
<1> SUFFICES ASSUME Unblocked, Typed, Begun, Running, [Next]_vars
             PROVE  Inductive'
  BY DEF Inductive
<1> QED BY UnblockedStep, TypedStep, BegunStep, RunningStep DEF Inductive

(* The state of the threads keeps its types, for any applications          *)
(* (umka.asm:957-999, umka_os.c:132-144).                                  *)
THEOREM TypeCorrect == Spec => []TypeOK
<1>1. OpenFrames \subseteq Frames
  BY DEF OpenFrames, Frames, Masks
<1>2. Inductive => TypeOK
  <2> SUFFICES ASSUME Inductive PROVE TypeOK
    OBVIOUS
  <2>1. saved \in [Threads -> Frames] /\ frame \in Frames
    BY <1>1 DEF Inductive, Unblocked
  <2>2. segv \in [Threads -> Masks] /\ mask \in Masks
    BY DEF Inductive, Unblocked, Masks
  <2> QED BY <2>1, <2>2 DEF Inductive, Unblocked, Typed, TypeOK, Labels, Tests
<1> QED BY <1>2, InitInductive, NextInductive, PTL DEF Spec

(* wait_for_idle and wait_for_os_idle return only after the moments they   *)
(* wait for, whatever the applications do and whenever the timer ticks     *)
(* (shell.c:531-564, umka.asm:899).                                        *)
THEOREM IdleCorrect == Spec => []IdleIsQuiet
<1>1. Inductive => IdleIsQuiet
  BY DEF Inductive, Begun, Running, Typed, IdleIsQuiet
<1> QED BY <1>1, InitInductive, NextInductive, PTL DEF Spec

(* The system stands still only after a waiting command of the script      *)
(* (shell.c:4288, umka_os.c:481,546).                                      *)
THEOREM StandsStillCorrect == Spec => []StandsStillOnlyEarly
<1>1. Inductive => StandsStillOnlyEarly
  BY DEF Inductive, Begun, StandsStillOnlyEarly
<1> QED BY <1>1, InitInductive, NextInductive, PTL DEF Spec

=============================================================================
