------------------------------ MODULE RunTests ------------------------------
(***************************************************************************)
(* The test runner (runtests.c): -j threads take the entries of one        *)
(* directory stream in turn; each runs a test in a child process, waits    *)
(* for it in a helper thread, kills it at its deadline and compares what   *)
(* it wrote with the references.                                           *)
(*                                                                         *)
(* readdir returns a pointer into the buffer of the stream, which the next *)
(* refill overwrites; the threads use the name after the unlock.  A        *)
(* deadline may pass at any time: without timeout.txt it is the present.   *)
(* fork does not fail; exec may.                                           *)
(***************************************************************************)
EXTENDS Naturals, FiniteSets, Sequences

CONSTANTS
  Workers,     \* threads started for -j
  Entries,     \* the directory: a sequence of [name, script] records
  Batches      \* how many entries may fit the stream's buffer

Free == "free"          \* readdir_mutex is not locked

ASSUME WorkersAssumption == Free \notin Workers /\ Workers # {}

\* Every directory has the entries of itself and its parent.
ASSUME EntriesAssumption ==
  /\ Entries \in Seq([name : Seq({"t", "digit", "other"}), script : BOOLEAN])
  /\ Len(Entries) > 0

ASSUME BatchesAssumption == Batches \subseteq Nat \ {0}

Tests == 1..Len(Entries)

VARIABLES
  batch,       \* entries one refill brings
  dir,         \* the stream: file offset, buffer, entries in it, next one
  mutex,       \* readdir_mutex
  pc,          \* control state of each worker
  slot,        \* slot[w]: the place in the buffer w's dent points to
  child,       \* child[w]: w's child process, what it runs and how it ended
  wpc,         \* control state of w's thread_wait
  out,         \* out[t]: what t's directory has as output
  reports,     \* history: what was printed, about which run
  spurious     \* history: a wait returned without signal or timeout

stream == <<batch, dir, mutex, slot>>
procs == <<child, wpc, out>>
history == <<reports, spurious>>

vars == <<stream, pc, procs, history>>

Name(w) == dir.buf[slot[w]]

Alive == {"running", "astray", "stuck"}

Outputs == {"none", "oldgood", "good", "bad"}

(* The types of the stream, the threads, the children and the reports.       *)
TypeOK ==
  /\ batch \in Batches
  /\ dir \in [pos : 0..Len(Entries), buf : [1..batch -> Tests],
              n : 0..batch, next : 0..batch]
  /\ mutex \in Workers \cup {Free}
  /\ pc \in [Workers -> {"lock", "readdir", "unlock", "valid", "fork", "spawn",
                         "deadline", "waiting", "kill", "join", "check", "done"}]
  /\ slot \in [Workers -> 1..batch]
  /\ child \in [Workers ->
       [state : Alive \cup {"none", "zombie", "reaped"}, run : Tests,
        exec : BOOLEAN, status : {"unset", "zero", "nonzero", "killed"}]]
  /\ wpc \in [Workers -> {"none", "waitpid", "signal", "ended"}]
  /\ out \in [Tests -> Outputs]
  /\ reports \subseteq [run : Tests, as : Tests, ok : BOOLEAN, exec : BOOLEAN,
                        status : {"zero", "nonzero", "killed"}]
  /\ spurious \in BOOLEAN

NoChild == [state |-> "none", run |-> 1, exec |-> TRUE, status |-> "unset"]

\* Nothing is read yet; outputs of an earlier session may be around.  For an
\* entry that is no test "oldgood" says that it is a directory: it has no
\* references that could differ.
Init ==
  /\ batch \in Batches
  /\ dir = [pos |-> 0, buf |-> [i \in 1..batch |-> 1], n |-> 0, next |-> 0]
  /\ mutex = Free
  /\ pc = [w \in Workers |-> "lock"]
  /\ slot = [w \in Workers |-> 1]
  /\ child = [w \in Workers |-> NoChild]
  /\ wpc = [w \in Workers |-> "none"]
  /\ out \in [Tests -> {"none", "oldgood"}]
  /\ reports = {}
  /\ spurious = FALSE

-----------------------------------------------------------------------------
\* thread_run_test: the next entry, under readdir_mutex.

Goto(w, l) == pc' = [pc EXCEPT ![w] = l]

\* Faulty: the mutex is not waited for.
LockAnyhow(w) ==
  /\ pc[w] = "lock"
  /\ mutex' = w
  /\ Goto(w, "readdir")
  /\ UNCHANGED <<batch, dir, slot, procs, history>>

Lock(w) ==
  /\ pc[w] = "lock" /\ mutex = Free
  /\ mutex' = w
  /\ Goto(w, "readdir")
  /\ UNCHANGED <<batch, dir, slot, procs, history>>

\* How many entries the next refill brings.
Ahead == IF Len(Entries) - dir.pos < batch THEN Len(Entries) - dir.pos ELSE batch

\* readdir: an exhausted buffer is overwritten from its start; past the last
\* entry dent is NULL and the thread ends.
Readdir(w) ==
  /\ pc[w] = "readdir"
  /\ \/ /\ dir.next < dir.n
        /\ slot' = [slot EXCEPT ![w] = dir.next + 1]
        /\ Goto(w, "unlock")
        /\ UNCHANGED <<dir, mutex>>
     \/ /\ dir.next = dir.n /\ Ahead > 0
        /\ dir' = [pos |-> dir.pos + Ahead, n |-> Ahead, next |-> 0,
                   buf |-> [i \in 1..batch |-> IF i <= Ahead THEN dir.pos + i
                                                             ELSE dir.buf[i]]]
        /\ slot' = [slot EXCEPT ![w] = 1]
        /\ Goto(w, "unlock")
        /\ UNCHANGED mutex
     \/ /\ dir.next = dir.n /\ Ahead = 0
        /\ mutex' = Free
        /\ Goto(w, "done")
        /\ UNCHANGED <<dir, slot>>
  /\ UNCHANGED <<batch, procs, history>>

Unlock(w) ==
  /\ pc[w] = "unlock"
  /\ dir' = [dir EXCEPT !.next = slot[w]]
  /\ mutex' = Free
  /\ Goto(w, "valid")
  /\ UNCHANGED <<batch, slot, procs, history>>

\* is_valid_test: t, and a digit after it if anything is; run.us exists.
IsValidTest(t) ==
  LET name == Entries[t].name
  IN  /\ Len(name) > 0 /\ name[1] = "t"
      /\ Len(name) > 1 => name[2] = "digit"
      /\ Entries[t].script

Valid(w) ==
  /\ pc[w] = "valid"
  /\ Goto(w, IF IsValidTest(Name(w)) THEN "fork" ELSE "lock")
  /\ UNCHANGED <<stream, procs, history>>

-----------------------------------------------------------------------------
\* run_test.

\* A child whose exec fails returns into thread_run_test's loop: it waits for
\* its copy of readdir_mutex, for ever if another thread held the original.
Fork(w) ==
  /\ pc[w] = "fork"
  /\ \E s \in {"running", IF mutex = Free THEN "astray" ELSE "stuck"} :
       child' = [child EXCEPT ![w] = [state |-> s, run |-> Name(w),
                                      exec |-> s = "running", status |-> "unset"]]
  /\ Goto(w, "spawn")
  /\ UNCHANGED <<stream, wpc, out, history>>

\* pthread_create of thread_wait, then the deadline is computed.
Spawn(w) ==
  /\ pc[w] = "spawn"
  /\ wpc' = [wpc EXCEPT ![w] = "waitpid"]
  /\ Goto(w, "deadline")
  /\ UNCHANGED <<stream, child, out, history>>

BeginWait(w) ==
  /\ pc[w] = "deadline"
  /\ Goto(w, "waiting")
  /\ UNCHANGED <<stream, procs, history>>

Timeout(w) ==
  /\ pc[w] = "waiting"
  /\ Goto(w, "kill")
  /\ UNCHANGED <<stream, procs, history>>

SpuriousWakeup(w) ==
  /\ pc[w] = "waiting"
  /\ spurious' = TRUE
  /\ Goto(w, "join")
  /\ UNCHANGED <<stream, procs, reports>>

\* Faulty: the child is not killed.
KillNot(w) ==
  /\ pc[w] = "kill"
  /\ Goto(w, "join")
  /\ UNCHANGED <<stream, procs, history>>

\* A child that has ended is not affected; one that runs leaves what it wrote.
Kill(w) ==
  /\ pc[w] = "kill"
  /\ IF child[w].state \in Alive
       THEN /\ child' = [child EXCEPT ![w].state = "zombie", ![w].status = "killed"]
            /\ \/ UNCHANGED out
               \/ child[w].exec /\ out' = [out EXCEPT ![child[w].run] = "bad"]
       ELSE UNCHANGED <<child, out>>
  /\ Goto(w, "join")
  /\ UNCHANGED <<stream, wpc, history>>

\* Faulty: the helper thread is not waited for.
JoinNot(w) ==
  /\ pc[w] = "join"
  /\ wpc' = [wpc EXCEPT ![w] = "none"]
  /\ Goto(w, "check")
  /\ UNCHANGED <<stream, child, out, history>>

\* pthread_join: the result is the child's status, whatever the wait returned.
Join(w) ==
  /\ pc[w] = "join" /\ wpc[w] = "ended"
  /\ wpc' = [wpc EXCEPT ![w] = "none"]
  /\ Goto(w, "check")
  /\ UNCHANGED <<stream, child, out, history>>

Compare(w) == out[Name(w)] \in {"oldgood", "good"}

Report(w, ok) ==
  /\ reports' = reports \cup
       {[run |-> child[w].run, as |-> Name(w), ok |-> ok,
         exec |-> child[w].exec, status |-> child[w].status]}
  /\ child' = [child EXCEPT ![w] = NoChild]
  /\ Goto(w, "lock")
  /\ UNCHANGED <<stream, wpc, out, spurious>>

\* Faulty: only the artefacts are looked at.
CheckArtefacts(w) == pc[w] = "check" /\ Report(w, Compare(w))

\* Faulty: a nonzero result makes the thread go on without a verdict.
CheckSilent(w) ==
  /\ pc[w] = "check"
  /\ \/ child[w].status = "zero" /\ Report(w, Compare(w))
     \/ /\ child[w].status # "zero"
        /\ child' = [child EXCEPT ![w] = NoChild]
        /\ Goto(w, "lock")
        /\ UNCHANGED <<stream, wpc, out, history>>

\* A nonzero result fails the test; otherwise check_test_artefacts decides.
Check(w) == pc[w] = "check" /\ Report(w, child[w].status = "zero" /\ Compare(w))

-----------------------------------------------------------------------------
\* thread_wait.

Reap(w) ==
  /\ wpc[w] = "waitpid" /\ child[w].state = "zombie"
  /\ child' = [child EXCEPT ![w].state = "reaped"]
  /\ wpc' = [wpc EXCEPT ![w] = "signal"]
  /\ UNCHANGED <<stream, pc, out, history>>

\* pthread_cond_signal, lost unless the worker is waiting already.
Signal(w) ==
  /\ wpc[w] = "signal"
  /\ wpc' = [wpc EXCEPT ![w] = "ended"]
  /\ IF pc[w] = "waiting" THEN Goto(w, "join") ELSE UNCHANGED pc
  /\ UNCHANGED <<stream, child, out, history>>

-----------------------------------------------------------------------------
\* The child processes.

\* umka_shell ends by itself, if it does; it may fail before it opens out.log.
Exit(w) ==
  /\ child[w].state = "running"
  /\ \E s \in {"zero", "nonzero"}, o \in {"good", "bad", out[child[w].run]} :
       /\ s = "zero" => o \in {"good", "bad"}
       /\ child' = [child EXCEPT ![w].state = "zombie", ![w].status = s]
       /\ out' = [out EXCEPT ![child[w].run] = o]
  /\ UNCHANGED <<stream, pc, wpc, history>>

\* A child that could not exec reads the stream to its end, whose file offset
\* it shares, finds no test from where it is, and exits with its only thread.
Stray(w) ==
  /\ child[w].state = "astray"
  /\ IF Ahead > 0
       THEN dir' = [dir EXCEPT !.pos = dir.pos + Ahead] /\ UNCHANGED child
       ELSE /\ child' = [child EXCEPT ![w].state = "zombie", ![w].status = "zero"]
            /\ UNCHANGED dir
  /\ UNCHANGED <<batch, mutex, slot, pc, wpc, out, history>>

-----------------------------------------------------------------------------
Worker(w) ==
  \/ Lock(w) \/ Readdir(w) \/ Unlock(w) \/ Valid(w)
  \/ Fork(w) \/ Spawn(w) \/ BeginWait(w) \/ Timeout(w) \/ Kill(w) \/ Join(w)
  \/ Check(w)

Waiter(w) == Reap(w) \/ Signal(w)

Next ==
  \E w \in Workers :
    Worker(w) \/ Waiter(w) \/ SpuriousWakeup(w) \/ Exit(w) \/ Stray(w)

Spec == Init /\ [][Next]_vars

\* Threads are scheduled and deadlines pass; a test need never end.
FairSpec == Spec /\ \A w \in Workers : WF_vars(Worker(w)) /\ WF_vars(Waiter(w))

-----------------------------------------------------------------------------
\* One refill brings the whole directory: no name is overwritten in use.
Fits == Len(Entries) <= batch

Busy(w) == pc[w] \in {"spawn", "deadline", "waiting", "kill", "join", "check"}

Done == \A w \in Workers : pc[w] = "done"

(* However the deadline, the end of the test and the signal of thread_wait   *)
(* race, ok is printed only for a child that ended by itself with status 0;  *)
(* if it could be executed and the directory fits the buffer of the stream,  *)
(* only for right output that it wrote itself.                               *)
OkIsEarned ==
  \A r \in reports :
    r.ok => r.status = "zero" /\ (Fits /\ r.exec => out[r.as] = "good")

(* A test is reported under its own name, and no other thread runs or has    *)
(* run it: the name outlives the unlock, and entries are handed out once.    *)
RunOnce ==
  Fits =>
    /\ \A r \in reports : r.as = r.run
    /\ \A w \in Workers : Busy(w) =>
         /\ child[w].run = Name(w)
         /\ \A r \in reports : r.run # child[w].run
         /\ \A v \in Workers \ {w} : Busy(v) => child[v].run # child[w].run

(* When all threads have ended, every valid test has been reported, whatever *)
(* the children did.                                                         *)
AllReported ==
  Fits /\ Done => {r.run : r \in reports} = {t \in Tests : IsValidTest(t)}

(* From the moment the output of a test is compared on, nothing writes it    *)
(* any more: whether the wait of run_test ended by the signal, the deadline  *)
(* or without cause, its child is gone by then, and no other child runs the  *)
(* same test (runtests.c:207-213).                                           *)
OutputSettled ==
  [][Fits => \A t \in Tests : out'[t] # out[t] =>
       /\ \A w \in Workers : pc[w] = "check" => child[w].run # t
       /\ \A r \in reports : r.run # t]_vars

(* The runner ends although tests may run for ever: run_test kills them. The *)
(* exception is a wait that returns without cause, after which nobody does.  *)
Ends == <>(Done \/ spurious)
============================================================================
