------------------------------ MODULE UmkaIo ------------------------------
(***************************************************************************)
(* Asynchronous reads of disk images (umkaio.c).                           *)
(*                                                                         *)
(* While the system runs, a kernel thread that reads an image places its   *)
(* request in iot_cmd_buf[0] and sleeps until the host thread thread_io,   *)
(* woken by iot_cond, has performed the read.  The wait of thread_io is in *)
(* no loop over the status, so a return without a signal makes it read     *)
(* whatever the buffer holds.  Kernel threads sleep in kos_wait_events,    *)
(* whose scheduler calls a test function again and again until it returns  *)
(* nonzero.  The submit test returns the value of pthread_mutex_trylock,   *)
(* which is zero when it has taken the mutex.                              *)
(*                                                                         *)
(* A request is the ticket <<k, n>>, the n-th read of reader k.  The result*)
(* shares memory with the first argument: word0 holds the descriptor of a  *)
(* request or what the read of a request returned.  The type of a request  *)
(* is always IOT_CMD_READ, which is 0, the value of a buffer not used yet. *)
(***************************************************************************)
EXTENDS Naturals

CONSTANTS
  Readers,     \* kernel threads that read disk images
  MaxReads,    \* bound on the reads of one thread
  Quotas,      \* how many reads each thread makes: 0 if it makes none
  MaxSpurious  \* bound on the returns of thread_io's wait without a signal

ASSUME MaxReadsAssumption == MaxReads \in Nat

ASSUME QuotasAssumption == Quotas \subseteq [Readers -> 0..MaxReads]

ASSUME MaxSpuriousAssumption == MaxSpurious \in Nat

VARIABLES
  running,     \* whether umka->running is UMKA_RUNNING_YES
  status,      \* cmd->status
  mutex,       \* whether cmd->mutex is locked
  word0,       \* cmd->read.arg.fd, or cmd->read.ret.val after the read
  rest,        \* cmd->read.arg.buf and count: the ticket they belong to
  pc,          \* control state of each reader
  quota,       \* quota[k]: the reads k makes in this behaviour
  sub,         \* sub[k]: number of k's current or last read
  res,         \* res[k]: what k's current read returned
  iopc,        \* control state of thread_io
  ret,         \* thread_io's local variable ret
  reads,       \* history: how often each ticket was read
  nread,       \* history: reads performed by thread_io
  nsignal,     \* history: signals that woke thread_io
  nspurious,   \* history: returns of its wait without a signal
  missed,      \* history: readers whose signal found thread_io not waiting
  late         \* history: the system ran before thread_io was initialised

vars == <<running, status, mutex, word0, rest, pc, quota, sub, res, iopc, ret,
          reads, nread, nsignal, nspurious, missed, late>>

Tickets == Readers \X (1..MaxReads)

None == <<>>

\* What the word shared by descriptor and result can hold.
Fd(t) == [kind |-> "fd", of |-> t]

Value(t) == [kind |-> "value", of |-> t]

\* A read with another request's buffer, or with a result for a descriptor.
Garbage == [kind |-> "garbage", of |-> None]

Words == [kind : {"fd", "value"}, of : Tickets] \cup {Garbage}

Statuses == {"EMPTY", "READY", "DONE"}

ReaderStates == {"idle", "submit", "fill", "filled", "ready", "signal",
                 "complete", "take", "empty", "unlock"}

IoStates == {"init", "initmutex", "towait", "blocked", "woken", "reading", "done"}

Ticket(k) == <<k, sub[k]>>

\* Inside the part of io_async_read that the mutex is meant to protect.
Holding(k) == pc[k] \notin {"idle", "submit"}

TypeOK ==
  /\ running \in BOOLEAN
  /\ status \in Statuses
  /\ mutex \in BOOLEAN
  /\ word0 \in Words
  /\ rest \in Tickets \cup {None}
  /\ pc \in [Readers -> ReaderStates]
  /\ quota \in [Readers -> 0..MaxReads]
  /\ sub \in [Readers -> 0..MaxReads]
  /\ res \in [Readers -> Words]
  /\ iopc \in IoStates
  /\ ret \in Words
  /\ reads \in [Tickets -> Nat]
  /\ nread \in Nat
  /\ nsignal \in Nat
  /\ nspurious \in 0..MaxSpurious
  /\ missed \subseteq Readers
  /\ late \in BOOLEAN

\* io_init has created thread_io; the buffer is static and zero.
Init ==
  /\ running = FALSE
  /\ status = "EMPTY"
  /\ mutex = FALSE
  /\ word0 = Garbage /\ rest = None
  /\ pc = [k \in Readers |-> "idle"]
  /\ quota \in Quotas
  /\ sub = [k \in Readers |-> 0]
  /\ res = [k \in Readers |-> Garbage]
  /\ iopc = "init" /\ ret = Garbage
  /\ reads = [t \in Tickets |-> 0]
  /\ nread = 0 /\ nsignal = 0 /\ nspurious = 0
  /\ missed = {}
  /\ late = FALSE

-----------------------------------------------------------------------------
io == <<iopc, ret, nread, nspurious>>
slot == <<status, mutex, word0, rest>>
fixed == <<quota, late>>

Goto(k, from, to) == pc[k] = from /\ pc' = [pc EXCEPT ![k] = to]

\* io_read while the system does not run yet: a plain read(2) by the caller.
ReadNow(k) ==
  /\ ~running /\ pc[k] = "idle" /\ sub[k] < quota[k]
  /\ sub' = [sub EXCEPT ![k] = @ + 1]
  /\ reads' = [reads EXCEPT ![<<k, sub[k] + 1>>] = @ + 1]
  /\ res' = [res EXCEPT ![k] = Value(<<k, sub[k] + 1>>)]
  /\ UNCHANGED <<running, fixed, slot, pc, io, nsignal, missed>>

\* io_read while the system runs: io_async_read up to its first wait.
Begin(k) ==
  /\ running /\ Goto(k, "idle", "submit") /\ sub[k] < quota[k]
  /\ sub' = [sub EXCEPT ![k] = @ + 1]
  /\ UNCHANGED <<running, fixed, slot, res, io, reads, nsignal, missed>>

\* io_async_submit_wait_test, called by the scheduler: a taken mutex is zero,
\* so the thread goes on sleeping with the mutex locked; EBUSY ends the wait.
SubmitTest(k) ==
  /\ pc[k] = "submit"
  /\ mutex' = TRUE
  /\ pc' = IF mutex THEN [pc EXCEPT ![k] = "fill"] ELSE pc
  /\ UNCHANGED <<running, fixed, status, word0, rest, sub, res, io, reads,
                 nsignal, missed>>

\* type and fd, then buf and count: the thread may be preempted in between.
SetFd(k) ==
  /\ Goto(k, "fill", "filled")
  /\ word0' = Fd(Ticket(k))
  /\ UNCHANGED <<running, fixed, status, mutex, rest, sub, res, io, reads,
                 nsignal, missed>>

SetBuf(k) ==
  /\ Goto(k, "filled", "ready")
  /\ rest' = Ticket(k)
  /\ UNCHANGED <<running, fixed, status, mutex, word0, sub, res, io, reads,
                 nsignal, missed>>

\* Faulty: the READY store is missing.
StoreReadyNone(k) ==
  /\ Goto(k, "ready", "signal")
  /\ missed' = missed \ {k}
  /\ UNCHANGED <<running, fixed, slot, sub, res, io, reads, nsignal>>

StoreReady(k) ==
  /\ Goto(k, "ready", "signal")
  /\ status' = "READY"
  /\ missed' = missed \ {k}
  /\ UNCHANGED <<running, fixed, mutex, word0, rest, sub, res, io, reads,
                 nsignal>>

\* pthread_cond_signal: lost unless thread_io is blocked on iot_cond.
Signal(k) ==
  /\ Goto(k, "signal", "complete")
  /\ IF iopc = "blocked"
       THEN iopc' = "woken" /\ nsignal' = nsignal + 1 /\ UNCHANGED missed
       ELSE missed' = missed \cup {k} /\ UNCHANGED <<iopc, nsignal>>
  /\ UNCHANGED <<running, fixed, slot, sub, res, ret, nread, nspurious, reads>>

\* Faulty: the test ends the wait at once.
CompleteTestAlways(k) ==
  /\ Goto(k, "complete", "take")
  /\ UNCHANGED <<running, fixed, slot, sub, res, io, reads, nsignal, missed>>

\* Faulty: the test waits for another status.
CompleteTestEmpty(k) ==
  /\ Goto(k, "complete", "take")
  /\ status = "EMPTY"
  /\ UNCHANGED <<running, fixed, slot, sub, res, io, reads, nsignal, missed>>

CompleteTest(k) ==
  /\ Goto(k, "complete", "take")
  /\ status = "DONE"
  /\ UNCHANGED <<running, fixed, slot, sub, res, io, reads, nsignal, missed>>

TakeResult(k) ==
  /\ Goto(k, "take", "empty")
  /\ res' = [res EXCEPT ![k] = word0]
  /\ UNCHANGED <<running, fixed, slot, sub, io, reads, nsignal, missed>>

StoreEmpty(k) ==
  /\ Goto(k, "empty", "unlock")
  /\ status' = "EMPTY"
  /\ UNCHANGED <<running, fixed, mutex, word0, rest, sub, res, io, reads,
                 nsignal, missed>>

Unlock(k) ==
  /\ Goto(k, "unlock", "idle")
  /\ mutex' = FALSE
  /\ UNCHANGED <<running, fixed, status, word0, rest, sub, res, io, reads,
                 nsignal, missed>>

-----------------------------------------------------------------------------
others == <<running, fixed, pc, sub, res, nsignal, missed>>

\* What only the read of thread_io changes.
reading == <<ret, reads, nread>>

\* thread_io initialises the buffer itself, whenever the host first runs it:
\* the status, and after the condition variable the mutex.
IoInitStatus ==
  /\ iopc = "init" /\ iopc' = "initmutex"
  /\ status' = "EMPTY"
  /\ UNCHANGED <<others, mutex, word0, rest, reading, nspurious>>

IoInitMutex ==
  /\ iopc = "initmutex" /\ iopc' = "towait"
  /\ mutex' = FALSE
  /\ UNCHANGED <<others, status, word0, rest, reading, nspurious>>

\* pthread_cond_wait blocks; a signal ends it, or nothing at all.
IoWait ==
  /\ iopc = "towait" /\ iopc' = "blocked"
  /\ UNCHANGED <<others, slot, reading, nspurious>>

IoSpurious ==
  /\ iopc = "blocked" /\ iopc' = "woken"
  /\ nspurious < MaxSpurious /\ nspurious' = nspurious + 1
  /\ UNCHANGED <<others, slot, reading>>

\* read(fd, buf, count) with the arguments found in the buffer.
IoRead ==
  /\ iopc = "woken" /\ iopc' = "reading"
  /\ nread' = nread + 1
  /\ IF rest \in Tickets /\ word0 = Fd(rest)
       THEN ret' = Value(rest) /\ reads' = [reads EXCEPT ![rest] = @ + 1]
       ELSE ret' = Garbage /\ UNCHANGED reads
  /\ UNCHANGED <<others, slot, nspurious>>

\* Faulty: the result is not stored.
IoStoreRetNone ==
  /\ iopc = "reading" /\ iopc' = "done"
  /\ UNCHANGED <<others, slot, reading, nspurious>>

IoStoreRet ==
  /\ iopc = "reading" /\ iopc' = "done"
  /\ word0' = ret
  /\ UNCHANGED <<others, status, mutex, rest, reading, nspurious>>

IoDone ==
  /\ iopc = "done" /\ iopc' = "towait"
  /\ status' = "DONE"
  /\ UNCHANGED <<others, mutex, word0, rest, reading, nspurious>>

\* umka_os main; its own reads of the startup script are over by then.
SwitchOn ==
  /\ ~running /\ running' = TRUE
  /\ late' = (iopc \in {"init", "initmutex"})
  /\ UNCHANGED <<slot, quota, pc, sub, res, io, reads, nsignal, missed>>

-----------------------------------------------------------------------------
Reader(k) ==
  \/ Begin(k) \/ SubmitTest(k) \/ SetFd(k) \/ SetBuf(k) \/ StoreReady(k)
  \/ Signal(k) \/ CompleteTest(k) \/ TakeResult(k) \/ StoreEmpty(k) \/ Unlock(k)

ThreadIo ==
  IoInitStatus \/ IoInitMutex \/ IoWait \/ IoRead \/ IoStoreRet \/ IoDone

Next ==
  \/ ThreadIo \/ IoSpurious \/ SwitchOn
  \/ \E k \in Readers : ReadNow(k) \/ Reader(k)

Spec == Init /\ [][Next]_vars

\* The host runs thread_io; the kernel's scheduler calls the tests and runs
\* the readers; nobody forces a thread to start another read.
Fairness ==
  /\ WF_vars(ThreadIo)
  /\ \A k \in Readers : WF_vars(Reader(k) /\ pc[k] # "idle")

FairSpec == Spec /\ Fairness

-----------------------------------------------------------------------------
\* Only one kernel thread reads disk images.
Solo == \A j, k \in Readers : quota[j] > 0 /\ quota[k] > 0 => j = k

\* And so far every return of thread_io's wait was due to a signal.
Orderly == Solo /\ nspurious = 0

(* The comment of io_async_read after its first wait, "status must be empty": *)
(* a thread that has passed the submit test owns an empty buffer.             *)
EmptyAtFill == \A k \in Readers : pc[k] = "fill" => status = "EMPTY"

(* It holds for the only thread that reads, as long as thread_io's wait does  *)
(* not return without a signal.                                               *)
EmptyAtFillAlone == Orderly => EmptyAtFill

(* The comment of thread_io after its wait, "status must be ready", holds for *)
(* the only thread that reads, if thread_io was initialised in time and its   *)
(* wait has not returned without a signal.                                    *)
ReadyAtWake == Orderly /\ ~late /\ iopc = "woken" => status = "READY"

(* A thread whose io_async_read is about to return has the result of its own  *)
(* request, and that request was read once: if it is the only one that reads, *)
(* and no return without a signal has made thread_io read a buffer that was   *)
(* half filled, stale or already answered.                                    *)
OwnResult ==
  Orderly => \A k \in Readers :
               pc[k] \in {"empty", "unlock"} =>
                 res[k] = Value(Ticket(k)) /\ reads[Ticket(k)] = 1

(* thread_io writes into the buffer of a thread only while that thread sleeps *)
(* in io_async_read: the buffer is not touched after the call has returned,   *)
(* unless thread_io's wait has returned without a signal.                     *)
BufferOwned ==
  Orderly /\ iopc \in {"woken", "reading"} =>
    \E k \in Readers : pc[k] = "complete" /\ rest = Ticket(k)

(* A request waits for a thread_io that is itself waiting only when its signal*)
(* was sent while thread_io was not blocked on iot_cond; returns without a    *)
(* signal do not change that.                                                 *)
HangsOnlyIfMissed ==
  Solo => \A k \in Readers :
            pc[k] = "complete" /\ status # "DONE" /\ iopc \in {"towait", "blocked"}
              => k \in missed

(* thread_io performs one read per return of its wait, by a signal or without *)
(* one, for any number of readers: a request may be read in place of another, *)
(* and no signal that was received is dropped.                                *)
ReadsMatchReturns ==
  nread + (IF iopc = "woken" THEN 1 ELSE 0) = nsignal + nspurious

(* A read whose signal was received returns, even if thread_io's wait also    *)
(* returns without a signal.                                                  *)
ReadReturns ==
  \A k \in Readers :
    Solo /\ pc[k] = "complete" /\ k \notin missed ~> pc[k] = "idle"

Phase(k) ==
  IF pc[k] = "idle" THEN "idle"
  ELSE IF reads[Ticket(k)] = 0 THEN "called" ELSE "served"

Service == INSTANCE CommandService
             WITH Clients <- Readers, MaxCalls <- MaxReads,
                  phase <- [k \in Readers |-> Phase(k)], calls <- sub, execs <- reads

(* As long as no other thread reads, and thread_io's wait does not return     *)
(* without a signal, every step is a step of the service: a request is read   *)
(* exactly once, between call and return.  A second read of a request, in its *)
(* call or after it, would be no step of the service.                         *)
ImplementsService ==
  Service!Init /\ [][Orderly' => Service!Next]_(Service!vars)
============================================================================
