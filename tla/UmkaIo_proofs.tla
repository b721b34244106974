--------------------------- MODULE UmkaIo_proofs ---------------------------
(***************************************************************************)
(* Proofs about asynchronous reads, for any readers and any quotas.        *)
(*                                                                         *)
(* That thread_io reads once per return of its wait needs no more than the *)
(* types.  The properties of a single reader rest on View, which lists, for*)
(* each control state of the reader, what the buffer and thread_io hold as *)
(* long as the wait returns by signals only; a thread_io that is           *)
(* initialised late may empty a request that is READY.  Heard, behind      *)
(* HangsOnlyIfMissed, does without View: it survives returns without a     *)
(* signal.                                                                 *)
(***************************************************************************)
EXTENDS UmkaIo, TLAPS

Starting == iopc \in {"init", "initmutex"}

Resting == iopc \in {"init", "initmutex", "towait", "blocked"}

\* The buffer holds k's request, not read yet.
Placed(k) == word0 = Fd(Ticket(k)) /\ rest = Ticket(k) /\ reads[Ticket(k)] = 0

\* The buffer holds what k's request returned.
Answered(k) == word0 = Value(Ticket(k)) /\ reads[Ticket(k)] = 1

\* The stages of a request that was signalled.
Signalled(k) ==
  \/ Placed(k) /\ status # "DONE" /\ Resting /\ k \in missed
  \/ Placed(k) /\ status # "DONE" /\ iopc = "woken"
  \/ /\ status # "DONE" /\ iopc = "reading" /\ rest = Ticket(k)
     /\ ret = Value(Ticket(k)) /\ reads[Ticket(k)] = 1
  \/ Answered(k) /\ status # "DONE" /\ iopc = "done"
  \/ Answered(k) /\ status = "DONE" /\ iopc \in {"towait", "blocked"}

\* The buffer and thread_io as the only reader k sees them.
View(k) ==
  /\ pc[k] # "idle" => sub[k] \in 1..MaxReads
  /\ \A n \in 1..MaxReads : n > sub[k] => reads[<<k, n>>] = 0
  /\ pc[k] \in {"submit", "fill", "filled", "ready"} => reads[Ticket(k)] = 0
  /\ pc[k] \in {"idle", "submit", "fill", "filled", "ready"} =>
       status = "EMPTY" /\ Resting
  /\ pc[k] \in {"filled", "ready"} => word0 = Fd(Ticket(k))
  /\ pc[k] = "ready" => rest = Ticket(k)
  /\ pc[k] = "signal" => Placed(k) /\ status # "DONE" /\ Resting
  /\ pc[k] = "complete" => Signalled(k)
  /\ pc[k] \in {"take", "empty"} =>
       Answered(k) /\ status = "DONE" /\ iopc \in {"towait", "blocked"}
  /\ pc[k] \in {"empty", "unlock"} => res[k] = Value(Ticket(k))
  /\ pc[k] = "unlock" =>
       status = "EMPTY" /\ iopc \in {"towait", "blocked"} /\ reads[Ticket(k)] = 1

\* Threads that read nothing, and a thread_io that nobody signals.
Places ==
  /\ \A k \in Readers : quota[k] = 0 => pc[k] = "idle"
  /\ nspurious = 0 /\ (\A k \in Readers : quota[k] = 0) => Resting

Alone == Orderly => \A k \in Readers : quota[k] > 0 => View(k)

\* A thread_io initialised in time empties no request.
InTime ==
  /\ running /\ Starting => late
  /\ ~running => \A k \in Readers : pc[k] = "idle"
  /\ Orderly /\ ~late =>
       \A k \in Readers : pc[k] = "signal" \/ (pc[k] = "complete" /\ iopc = "woken")
                          => status = "READY"

\* A reader that missed no signal is being served.
Heard ==
  Solo => \A k \in Readers :
            pc[k] = "complete" /\ k \notin missed =>
              ~Starting /\ (Resting => status = "DONE")

\* A thread inside io_async_read has a request.
Typed == TypeOK /\ \A k \in Readers : pc[k] # "idle" => sub[k] # 0

-----------------------------------------------------------------------------
(* A thread inside io_async_read goes on having a request.                   *)
LEMMA TypedStep ==
  Typed /\ [Next]_vars => \A k \in Readers : pc'[k] # "idle" => sub'[k] # 0
<1> SUFFICES ASSUME Typed, [Next]_vars
             PROVE  \A k \in Readers : pc'[k] # "idle" => sub'[k] # 0
  OBVIOUS
<1> USE DEF Typed, TypeOK, slot, io, fixed, others, reading
<1>1. ASSUME NEW j \in Readers, ReadNow(j) \/ Reader(j)
      PROVE  \A k \in Readers : pc'[k] # "idle" => sub'[k] # 0
  BY <1>1 DEF ReadNow, Reader, Begin, SubmitTest, SetFd, SetBuf, StoreReady,
       Signal, CompleteTest, TakeResult, StoreEmpty, Unlock, Goto
<1>2. CASE ThreadIo
  BY <1>2 DEF ThreadIo, IoInitStatus, IoInitMutex, IoWait, IoRead, IoStoreRet, IoDone
<1>3. CASE IoSpurious \/ SwitchOn \/ UNCHANGED vars
  BY <1>3 DEF IoSpurious, SwitchOn, vars
<1> QED
  BY <1>1, <1>2, <1>3 DEF Next

(* No step of a reader, of thread_io or of main leaves the types.            *)
LEMMA TypeStep == Typed /\ [Next]_vars => TypeOK'
<1> SUFFICES ASSUME Typed, [Next]_vars
             PROVE  TypeOK'
  OBVIOUS
<1>0. TypeOK
  BY DEF Typed
<1> USE <1>0, MaxReadsAssumption DEF slot, io, fixed, others, reading
<1>1. ASSUME NEW k \in Readers, ReadNow(k)
      PROVE  TypeOK'
  <2>1. <<k, sub[k] + 1>> \in Tickets /\ sub[k] + 1 \in 0..MaxReads
    BY <1>1 DEF TypeOK, ReadNow, Tickets
  <2>2. Value(<<k, sub[k] + 1>>) \in Words
    BY <2>1 DEF Value, Words
  <2> QED
    BY <1>1, <2>1, <2>2 DEF TypeOK, ReadNow
<1>2. ASSUME NEW k \in Readers, Reader(k)
      PROVE  TypeOK'
  <2>1. CASE Begin(k)
    BY <2>1 DEF TypeOK, Begin, Goto, ReaderStates
  <2>2. CASE SubmitTest(k)
    BY <2>2 DEF TypeOK, SubmitTest, ReaderStates
  <2>3. CASE SetFd(k) \/ SetBuf(k)
    <3>1. Ticket(k) \in Tickets
      BY <2>3 DEF Typed, TypeOK, SetFd, SetBuf, Goto, Ticket, Tickets
    <3>2. Fd(Ticket(k)) \in Words
      BY <3>1 DEF Fd, Words
    <3> QED
      BY <2>3, <3>1, <3>2 DEF TypeOK, SetFd, SetBuf, Goto, ReaderStates
  <2>4. CASE StoreReady(k)
    BY <2>4 DEF TypeOK, StoreReady, Goto, ReaderStates, Statuses
  <2>5. CASE Signal(k)
    BY <2>5 DEF TypeOK, Signal, Goto, ReaderStates, IoStates
  <2>6. CASE CompleteTest(k)
    BY <2>6 DEF TypeOK, CompleteTest, Goto, ReaderStates
  <2>7. CASE TakeResult(k)
    BY <2>7 DEF TypeOK, TakeResult, Goto, ReaderStates
  <2>8. CASE StoreEmpty(k)
    BY <2>8 DEF TypeOK, StoreEmpty, Goto, ReaderStates, Statuses
  <2>9. CASE Unlock(k)
    BY Zenon, <2>9 DEF TypeOK, Unlock, Goto, ReaderStates
  <2> QED
    BY <1>2, <2>1, <2>2, <2>3, <2>4, <2>5, <2>6, <2>7, <2>8, <2>9 DEF Reader
<1>3. CASE IoInitStatus \/ IoInitMutex
  BY Zenon, <1>3 DEF TypeOK, IoInitStatus, IoInitMutex, IoStates, Statuses
<1>4. CASE IoWait
  BY <1>4 DEF TypeOK, IoWait, IoStates
<1>5. CASE IoRead
  <2>1. ret' \in Words
    BY <1>5 DEF IoRead, Value, Garbage, Words
  <2>2. reads' \in [Tickets -> Nat]
    BY <1>5 DEF IoRead, TypeOK
  <2> QED
    BY <1>5, <2>1, <2>2 DEF TypeOK, IoRead, IoStates
<1>6. CASE IoStoreRet
  BY <1>6 DEF TypeOK, IoStoreRet, IoStates
<1>7. CASE IoDone
  BY <1>7 DEF TypeOK, IoDone, IoStates, Statuses
<1>8. CASE SwitchOn
  BY <1>8 DEF TypeOK, SwitchOn
<1>9. CASE UNCHANGED vars
  BY <1>9 DEF TypeOK, vars
<1>10. CASE IoSpurious
  BY <1>10, MaxSpuriousAssumption DEF TypeOK, IoSpurious, IoStates
<1> QED
  BY <1>1, <1>2, <1>3, <1>4, <1>5, <1>6, <1>7, <1>8, <1>9, <1>10 DEF Next, ThreadIo

(* The strengthened types are inductive.                                     *)
LEMMA TypedCorrect == Spec => []Typed
<1>1. Init => Typed
  <2> SUFFICES ASSUME Init PROVE Typed
    OBVIOUS
  <2>1. quota \in [Readers -> 0..MaxReads] /\ Garbage \in Words
    BY QuotasAssumption DEF Init, Words
  <2>2. /\ pc \in [Readers -> ReaderStates] /\ sub \in [Readers -> 0..MaxReads]
        /\ res \in [Readers -> Words] /\ reads \in [Tickets -> Nat]
    BY <2>1, MaxReadsAssumption DEF Init, ReaderStates
  <2> QED
    <3>1. nspurious \in 0..MaxSpurious
      BY MaxSpuriousAssumption DEF Init
    <3> QED
      BY Zenon, <2>1, <2>2, <3>1 DEF Init, Typed, TypeOK, Statuses, IoStates
<1>2. Typed /\ [Next]_vars => Typed'
  BY TypeStep, TypedStep DEF Typed
<1> QED
  BY <1>1, <1>2, PTL DEF Spec

(* The variables of the request buffer keep their types.                     *)
THEOREM TypeCorrect == Spec => []TypeOK
<1>1. Typed => TypeOK
  BY DEF Typed
<1> QED
  BY <1>1, TypedCorrect, PTL

(* thread_io performs exactly one read per return of its wait, by a signal   *)
(* or without one, for any number of readers and however their requests      *)
(* overwrite each other.                                                     *)
THEOREM ReadsCorrect == Spec => []ReadsMatchReturns
<1>1. Init => ReadsMatchReturns
  BY DEF Init, ReadsMatchReturns
<1>2. Typed /\ ReadsMatchReturns /\ [Next]_vars => ReadsMatchReturns'
  <2> SUFFICES ASSUME Typed, ReadsMatchReturns, [Next]_vars
               PROVE  ReadsMatchReturns'
    OBVIOUS
  <2> USE DEF Typed, TypeOK, ReadsMatchReturns, slot, io, fixed, others, reading
  <2>1. ASSUME NEW k \in Readers, ReadNow(k) \/ Reader(k)
        PROVE  ReadsMatchReturns'
    BY <2>1 DEF ReadNow, Reader, Begin, SubmitTest, SetFd, SetBuf, StoreReady,
         Signal, CompleteTest, TakeResult, StoreEmpty, Unlock
  <2>2. CASE ThreadIo
    BY <2>2 DEF ThreadIo, IoInitStatus, IoInitMutex, IoWait, IoRead, IoStoreRet, IoDone
  <2>3. CASE IoSpurious \/ SwitchOn \/ UNCHANGED vars
    BY <2>3 DEF IoSpurious, SwitchOn, vars
  <2> QED
    BY <2>1, <2>2, <2>3 DEF Next
<1> QED
  BY <1>1, <1>2, TypedCorrect, PTL DEF Spec

-----------------------------------------------------------------------------
(* A thread without reads stays out of io_async_read.                        *)
LEMMA PlacesStep == Typed /\ Places /\ [Next]_vars => Places'
<1> SUFFICES ASSUME Typed, Places, [Next]_vars
             PROVE  Places'
  OBVIOUS
<1> USE DEF Typed, TypeOK, Places, Resting, slot, io, fixed, others, reading
<1>1. ASSUME NEW k \in Readers, ReadNow(k) \/ Reader(k)
      PROVE  Places'
  BY <1>1 DEF ReadNow, Reader, Begin, SubmitTest, SetFd, SetBuf, StoreReady,
       Signal, CompleteTest, TakeResult, StoreEmpty, Unlock, Goto
<1>2. CASE ThreadIo
  BY <1>2 DEF ThreadIo, IoInitStatus, IoInitMutex, IoWait, IoRead, IoStoreRet, IoDone
<1>3. CASE IoSpurious \/ SwitchOn \/ UNCHANGED vars
  BY <1>3 DEF IoSpurious, SwitchOn, vars
<1> QED
  BY <1>1, <1>2, <1>3 DEF Next

(* A thread that takes a step has reads to make.                             *)
LEMMA Entitled ==
  ASSUME TypeOK, Places, NEW k \in Readers, ReadNow(k) \/ Reader(k)
  PROVE  quota[k] > 0
<1>1. quota[k] \in Nat /\ sub[k] \in Nat
  BY DEF TypeOK
<1>2. pc[k] # "idle" \/ sub[k] < quota[k]
  BY DEF ReadNow, Reader, Begin, SubmitTest, SetFd, SetBuf, StoreReady, Signal,
         CompleteTest, TakeResult, StoreEmpty, Unlock, Goto
<1> QED BY <1>1, <1>2 DEF Places

(* While only k reads, each step keeps the buffer as k expects it.           *)
LEMMA ViewStep ==
  ASSUME Typed, Places, [Next]_vars, Solo, nspurious' = 0,
         NEW k \in Readers, quota[k] > 0, View(k)
  PROVE  View(k)'
<1> USE DEF Typed, TypeOK, View, Resting, slot, io, fixed, others, reading
<1>0. \A j \in Readers : j # k => quota[j] = 0 /\ pc[j] = "idle"
  BY DEF Solo, Places
<1>1. ASSUME NEW j \in Readers, ReadNow(j) \/ Reader(j), j # k
      PROVE  FALSE
  <2>1. quota[j] > 0
    BY Zenon, <1>1, Entitled DEF Typed
  <2> QED BY <1>0, <1>1, <2>1
<1>2. CASE ReadNow(k)
  BY <1>2 DEF ReadNow, Tickets
<1>3. CASE Reader(k)
  <2>1. CASE Begin(k)
    BY <2>1, MaxReadsAssumption DEF Begin, Goto, Ticket
  <2>2. CASE SubmitTest(k)
    BY <2>2 DEF SubmitTest, Ticket
  <2>3. CASE SetFd(k)
    BY <2>3 DEF SetFd, Goto, Ticket
  <2>4. CASE SetBuf(k)
    BY <2>4 DEF SetBuf, Goto, Ticket
  <2>5. CASE StoreReady(k)
    BY <2>5 DEF StoreReady, Goto, Ticket, Placed
  <2>6. CASE Signal(k)
    BY <2>6 DEF Signal, Goto, Ticket, Placed, Signalled
  <2>7. CASE CompleteTest(k)
    BY <2>7 DEF CompleteTest, Goto, Ticket, Signalled, Answered
  <2>8. CASE TakeResult(k)
    BY <2>8 DEF TakeResult, Goto, Ticket, Answered
  <2>9. CASE StoreEmpty(k)
    BY <2>9 DEF StoreEmpty, Goto, Ticket, Answered
  <2>10. CASE Unlock(k)
    BY <2>10 DEF Unlock, Goto
  <2> QED
    BY Zenon, <1>3, <2>1, <2>2, <2>3, <2>4, <2>5, <2>6, <2>7, <2>8, <2>9, <2>10 DEF Reader
<1>4. CASE IoInitStatus \/ IoInitMutex
  BY <1>4 DEF IoInitStatus, IoInitMutex, Ticket, Placed, Answered, Signalled
<1>5. CASE IoWait
  BY <1>5 DEF IoWait, Ticket, Placed, Answered, Signalled
<1>6. CASE IoRead
  <2>1. Ticket(k) \in Tickets /\ pc[k] = "complete" /\ Placed(k)
    BY <1>6 DEF IoRead, Ticket, Tickets, Signalled, ReaderStates
  <2>2. ret' = Value(Ticket(k)) /\ reads' = [reads EXCEPT ![Ticket(k)] = 1]
    BY <1>6, <2>1 DEF IoRead, Placed
  <2> QED
    BY <1>6, <2>1, <2>2 DEF IoRead, Ticket, Placed, Signalled, Tickets
<1>7. CASE IoStoreRet
  BY <1>7 DEF IoStoreRet, Ticket, Placed, Answered, Signalled
<1>8. CASE IoDone
  BY <1>8 DEF IoDone, Ticket, Placed, Answered, Signalled
<1>9. CASE SwitchOn \/ UNCHANGED vars
  BY <1>9 DEF SwitchOn, vars, Ticket, Placed, Answered, Signalled
<1>10. ~IoSpurious
  BY DEF IoSpurious
<1> QED
  BY Zenon, <1>1, <1>2, <1>3, <1>4, <1>5, <1>6, <1>7, <1>8, <1>9, <1>10
  DEF Next, ThreadIo

(* How much a thread reads is fixed, and returns without a signal stay.      *)
LEMMA HistoryStep ==
  ASSUME TypeOK, [Next]_vars
  PROVE  quota' = quota /\ (Orderly' => Orderly)
<1>1. quota' = quota /\ (nspurious' = nspurious \/ nspurious' = nspurious + 1)
  <2>1. CASE ThreadIo \/ IoSpurious \/ SwitchOn \/ UNCHANGED vars
    BY Zenon, <2>1 DEF ThreadIo, IoInitStatus, IoInitMutex, IoWait, IoRead, IoStoreRet,
         IoDone, IoSpurious, SwitchOn, vars, others, fixed, io
  <2>2. ASSUME NEW j \in Readers, ReadNow(j) \/ Reader(j)
        PROVE  quota' = quota /\ nspurious' = nspurious
    BY <2>2 DEF fixed, io, ReadNow, Reader, Begin, SubmitTest, SetFd, SetBuf,
         StoreReady, Signal, CompleteTest, TakeResult, StoreEmpty, Unlock
  <2> QED
    BY <2>1, <2>2 DEF Next
<1> QED
  BY <1>1 DEF TypeOK, Orderly, Solo

(* The inductive invariant behind the properties of a single reader.         *)
LEMMA AloneCorrect == Spec => [](Typed /\ Places /\ Alone)
<1>1. Init => Places /\ Alone
  BY MaxReadsAssumption DEF Init, Places, Alone, View, Resting, Tickets
<1>2. Typed /\ Places /\ Alone /\ [Next]_vars => Alone'
  <2> SUFFICES ASSUME Typed, Places, Alone, [Next]_vars, Orderly',
                      NEW k \in Readers, quota'[k] > 0
               PROVE  View(k)'
    BY DEF Alone
  <2>1. Orderly /\ quota[k] > 0
    BY HistoryStep DEF Typed
  <2>2. Solo /\ nspurious' = 0
    BY <2>1 DEF Orderly
  <2> QED
    BY <2>1, <2>2, ViewStep DEF Alone
<1>3. Typed /\ Places /\ [Next]_vars => Places'
  BY PlacesStep
<1> QED
  BY <1>1, <1>2, <1>3, TypedCorrect, PTL DEF Spec

(* A single reader returns from io_async_read with the result of its own     *)
(* request, which was read exactly once, as long as thread_io is woken by    *)
(* signals only.                                                             *)
THEOREM OwnResultCorrect == Spec => []OwnResult
<1>1. Typed /\ Places /\ Alone => OwnResult
  BY DEF Typed, TypeOK, Places, Alone, View, Answered, OwnResult
<1> QED
  BY <1>1, AloneCorrect, PTL

(* thread_io touches the buffer of a single reader only while that reader    *)
(* waits for it in io_async_read, as long as thread_io is woken by signals   *)
(* only.                                                                     *)
THEOREM BufferCorrect == Spec => []BufferOwned
<1>1. Typed /\ Places /\ Alone => BufferOwned
  <2> SUFFICES ASSUME Typed, Places, Alone, Orderly, iopc \in {"woken", "reading"}
               PROVE  \E k \in Readers : pc[k] = "complete" /\ rest = Ticket(k)
    BY DEF BufferOwned
  <2>1. PICK k \in Readers : quota[k] > 0
    BY DEF Places, Orderly, Resting, Typed, TypeOK
  <2> QED
    BY <2>1 DEF Alone, View, Signalled, Placed, Resting, Typed, TypeOK, ReaderStates
<1> QED
  BY <1>1, AloneCorrect, PTL

(* A single reader waits for a resting thread_io only when its signal found  *)
(* thread_io not waiting, however often that wait returns without a signal.  *)
THEOREM HangsCorrect == Spec => []HangsOnlyIfMissed
<1>1. Init => Heard
  BY DEF Init, Heard
<1>2. Typed /\ Places /\ Heard /\ [Next]_vars => Heard'
  <2> SUFFICES ASSUME Typed, Places, Heard, [Next]_vars, Solo',
                      NEW k \in Readers, pc'[k] = "complete", k \notin missed'
               PROVE  (~Starting /\ (Resting => status = "DONE"))'
    BY DEF Heard
  <2> USE DEF Typed, TypeOK, Starting, Resting, slot, io, fixed, others, reading
  <2>1. Solo
    BY HistoryStep DEF Solo
  <2>2. ASSUME NEW j \in Readers, ReadNow(j) \/ Reader(j)
        PROVE  (~Starting /\ (Resting => status = "DONE"))'
    <3>1. quota[j] > 0
      BY Zenon, <2>2, Entitled
    <3>2. j = k
      <4>1. quota'[k] # 0
        BY PlacesStep DEF Places
      <4> QED
        BY <2>1, <3>1, <4>1, HistoryStep DEF Solo
    <3> QED
      BY <2>1, <2>2, <3>2 DEF Heard, ReadNow, Reader, Begin, SubmitTest, SetFd,
           SetBuf, StoreReady, Signal, CompleteTest, TakeResult, StoreEmpty,
           Unlock, Goto
  <2>3. CASE ThreadIo
    BY <2>1, <2>3 DEF Heard, ThreadIo, IoInitStatus, IoInitMutex, IoWait, IoRead,
         IoStoreRet, IoDone
  <2>4. CASE IoSpurious \/ SwitchOn \/ UNCHANGED vars
    BY <2>1, <2>4 DEF Heard, IoSpurious, SwitchOn, vars
  <2> QED
    BY <2>2, <2>3, <2>4 DEF Next
<1>3. Heard => HangsOnlyIfMissed
  BY DEF Heard, Resting, HangsOnlyIfMissed
<1> QED
  BY <1>1, <1>2, <1>3, AloneCorrect, PTL DEF Spec

(* "status must be empty" (io_async_read) holds for a single reader, as long *)
(* as thread_io is woken by signals only.                                    *)
THEOREM EmptyCorrect == Spec => []EmptyAtFillAlone
<1>1. Typed /\ Places /\ Alone => EmptyAtFillAlone
  BY DEF Typed, TypeOK, Places, Alone, View, EmptyAtFill, EmptyAtFillAlone
<1> QED
  BY <1>1, AloneCorrect, PTL

(* A request stays READY from its store to the wakeup of thread_io.          *)
LEMMA InTimeStep ==
  Typed /\ Places /\ Alone /\ InTime /\ [Next]_vars => InTime'
<1> SUFFICES ASSUME Typed, Places, Alone, InTime, [Next]_vars
             PROVE  InTime'
  OBVIOUS
<1>0. Orderly' => Orderly
  BY HistoryStep DEF Typed
<1> USE DEF Typed, TypeOK, InTime, Starting, slot, io, fixed, others, reading
<1>1. ASSUME NEW j \in Readers, ReadNow(j) \/ Reader(j)
      PROVE  InTime'
  <2>1. Orderly => \A k \in Readers : k # j => pc[k] = "idle"
    <3>1. quota[j] > 0
      BY Zenon, <1>1, Entitled
    <3> QED BY <3>1 DEF Orderly, Solo, Places
  <2>2. CASE ReadNow(j) \/ Begin(j) \/ SubmitTest(j)
    BY <1>0, <2>1, <2>2 DEF ReadNow, Begin, SubmitTest, Goto
  <2>3. CASE SetFd(j) \/ SetBuf(j) \/ StoreReady(j)
    BY <1>0, <2>1, <2>3 DEF SetFd, SetBuf, StoreReady, Goto
  <2>4. CASE Signal(j)
    BY <1>0, <2>1, <2>4 DEF Signal, Goto
  <2>5. CASE CompleteTest(j) \/ TakeResult(j) \/ StoreEmpty(j) \/ Unlock(j)
    BY <1>0, <2>1, <2>5 DEF CompleteTest, TakeResult, StoreEmpty, Unlock, Goto
  <2> QED
    BY Zenon, <1>1, <2>2, <2>3, <2>4, <2>5 DEF Reader
<1>2. CASE IoInitStatus \/ IoInitMutex
  BY <1>0, <1>2 DEF IoInitStatus, IoInitMutex
<1>3. CASE IoWait \/ IoRead \/ IoStoreRet
  BY <1>0, <1>3 DEF IoWait, IoRead, IoStoreRet
<1>4. CASE IoDone
  <2>1. Orderly => \A k \in Readers : pc[k] # "signal"
    BY <1>4 DEF IoDone, Alone, View, Resting, Places, Orderly, Solo
  <2> QED
    BY <1>0, <1>4, <2>1 DEF IoDone
<1>5. CASE SwitchOn
  <2>1. running' /\ pc' = pc /\ iopc' = iopc /\ (Starting => late')
    BY Zenon, <1>5 DEF SwitchOn
  <2>2. \A k \in Readers : pc[k] = "idle"
    BY Zenon, <1>5 DEF SwitchOn
  <2> QED
    BY <2>1, <2>2
<1>6. CASE UNCHANGED vars
  BY <1>0, <1>6 DEF vars
<1>7. CASE IoSpurious
  <2>1. ~Orderly'
    BY <1>7 DEF IoSpurious, Orderly
  <2> QED
    BY <1>7, <2>1 DEF IoSpurious
<1> QED
  BY <1>1, <1>2, <1>3, <1>4, <1>5, <1>6, <1>7 DEF Next, ThreadIo

(* "status must be ready" (thread_io) holds for a single reader, if thread_io*)
(* was initialised before the system ran and is woken by signals only.       *)
THEOREM ReadyCorrect == Spec => []ReadyAtWake
<1>1. Init => InTime
  BY DEF Init, InTime
<1>2. Typed /\ Places /\ Alone /\ InTime => ReadyAtWake
  <2> SUFFICES ASSUME Typed, Places, Alone, InTime, Orderly, ~late, iopc = "woken"
               PROVE  status = "READY"
    BY DEF ReadyAtWake
  <2>1. PICK k \in Readers : quota[k] > 0
    BY DEF Places, Orderly, Resting, Typed, TypeOK
  <2>2. pc[k] = "complete"
    BY <2>1 DEF Alone, View, Resting, Typed, TypeOK, ReaderStates
  <2> QED
    BY <2>2 DEF InTime
<1> QED
  BY <1>1, <1>2, InTimeStep, AloneCorrect, PTL DEF Spec

-----------------------------------------------------------------------------
(* A step that lets no thread into or out of io_async_read, performs no read *)
(* and starts no request is invisible to the service.                        *)
LEMMA PhaseUnchanged ==
  ASSUME reads' = reads, sub' = sub,
         \A k \in Readers : (pc'[k] = "idle") = (pc[k] = "idle")
  PROVE  UNCHANGED Service!vars
  BY DEF Service!vars, Phase, Ticket

(* The request buffer implements the service of CommandService for a single  *)
(* reader, as long as thread_io is woken by signals only: called in Begin,   *)
(* read once by IoRead, returned by Unlock, or read at once before the       *)
(* system runs.                                                              *)
THEOREM ServiceCorrect == Spec => ImplementsService
<1> DEFINE All == Typed /\ Places /\ Alone
           phase == [k \in Readers |-> Phase(k)]
<1>1. Init => Service!Init
  BY DEF Init, Service!Init, Phase, Tickets
<1>2. All /\ [Next]_vars => [Orderly' => Service!Next]_(Service!vars)
  <2> SUFFICES ASSUME All, [Next]_vars, Orderly'
               PROVE  Service!Next \/ UNCHANGED Service!vars
    OBVIOUS
  <2> USE DEF Typed, TypeOK, slot, io, fixed, others, reading
  <2>0. Orderly
    BY HistoryStep
  <2>1. ASSUME NEW k \in Readers, quota[k] > 0
        PROVE  View(k) /\ \A j \in Readers : j # k => pc[j] = "idle"
    BY <2>0, <2>1 DEF Alone, Orderly, Solo, Places
  <2>2. ASSUME NEW k \in Readers, NEW from, NEW to,
               Phase(k) = from, Phase(k)' = to,
               \A j \in Readers : j # k => Phase(j)' = Phase(j)
        PROVE  phase[k] = from /\ phase' = [phase EXCEPT ![k] = to]
    BY Zenon, <2>2
  <2>3. ASSUME NEW k \in Readers, ReadNow(k) \/ Reader(k)
        PROVE  Service!Next \/ UNCHANGED Service!vars
    <3>0. quota[k] > 0
      BY Zenon, <2>3, Entitled
    <3>1. CASE ReadNow(k)
      <4>1. /\ sub' = [sub EXCEPT ![k] = @ + 1]
            /\ reads' = [reads EXCEPT ![<<k, sub[k] + 1>>] = @ + 1]
            /\ pc' = pc /\ pc[k] = "idle"
        BY <3>1 DEF ReadNow
      <4>2. \A j \in Readers : pc[j] = "idle"
        BY <2>1, <3>0, <4>1
      <4>3. phase[k] = "idle" /\ phase' = phase
        BY <4>1, <4>2 DEF Phase
      <4> QED
        BY Zenon, <4>1, <4>3
        DEF Service!Next, Service!ServeNow, Service!Count, Service!Execute
    <3>2. CASE Begin(k)
      <4>1. reads[<<k, sub[k] + 1>>] = 0
        BY <2>1, <3>0, <3>2, MaxReadsAssumption DEF Begin, View
      <4>2. Phase(k) = "idle" /\ Phase(k)' = "called"
        BY <3>2, <4>1 DEF Begin, Goto, Phase, Ticket
      <4>3. \A j \in Readers : j # k => Phase(j)' = Phase(j)
        BY <3>2 DEF Begin, Goto, Phase, Ticket
      <4>4. phase[k] = "idle" /\ phase' = [phase EXCEPT ![k] = "called"]
        BY Zenon, <2>2, <4>2, <4>3
      <4>5. sub' = [sub EXCEPT ![k] = @ + 1] /\ reads' = reads
        BY <3>2 DEF Begin
      <4> QED
        BY Zenon, <4>4, <4>5
        DEF Service!Next, Service!Call, Service!Move, Service!Count
    <3>3. CASE Unlock(k)
      <4>1. Phase(k) = "served" /\ Phase(k)' = "idle"
        BY <2>1, <3>0, <3>3 DEF Unlock, Goto, Phase, Ticket, View
      <4>2. \A j \in Readers : j # k => Phase(j)' = Phase(j)
        BY <3>3 DEF Unlock, Goto, Phase, Ticket
      <4>3. phase[k] = "served" /\ phase' = [phase EXCEPT ![k] = "idle"]
        BY Zenon, <2>2, <4>1, <4>2
      <4>4. sub' = sub /\ reads' = reads
        BY <3>3 DEF Unlock
      <4> QED
        BY Zenon, <4>3, <4>4 DEF Service!Next, Service!Return, Service!Move
    <3>4. CASE Reader(k) /\ ~Begin(k) /\ ~Unlock(k)
      BY <3>4, PhaseUnchanged DEF Reader, SubmitTest, SetFd, SetBuf, StoreReady,
           Signal, CompleteTest, TakeResult, StoreEmpty, Goto
    <3> QED
      BY <2>3, <3>1, <3>2, <3>3, <3>4
  <2>4. CASE IoRead
    <3>1. PICK k \in Readers : quota[k] > 0
      BY <2>0, <2>4 DEF IoRead, Places, Resting, Orderly
    <3>2. pc[k] = "complete" /\ Placed(k) /\ Ticket(k) \in Tickets
      BY <2>1, <2>4, <3>1
      DEF IoRead, View, Signalled, Resting, ReaderStates, Ticket, Tickets
    <3>3. /\ reads' = [reads EXCEPT ![<<k, sub[k]>>] = @ + 1] /\ sub' = sub
          /\ reads'[Ticket(k)] = 1
      BY <2>4, <3>2 DEF IoRead, Placed, Ticket
    <3>4. Phase(k) = "called" /\ Phase(k)' = "served"
      BY <2>4, <3>2, <3>3 DEF IoRead, Placed, Phase, Ticket
    <3>5. \A j \in Readers : j # k => Phase(j)' = Phase(j)
      BY <2>1, <2>4, <3>1 DEF IoRead, Phase
    <3>6. phase[k] = "called" /\ phase' = [phase EXCEPT ![k] = "served"]
      BY Zenon, <2>2, <3>4, <3>5
    <3> QED
      BY Zenon, <3>3, <3>6
      DEF Service!Next, Service!Serve, Service!Move, Service!Execute
  <2>5. CASE IoInitStatus \/ IoInitMutex \/ IoWait \/ IoStoreRet \/ IoDone
    BY <2>5, PhaseUnchanged DEF IoInitStatus, IoInitMutex, IoWait, IoStoreRet, IoDone
  <2>6. CASE IoSpurious \/ SwitchOn \/ UNCHANGED vars
    BY <2>6, PhaseUnchanged DEF IoSpurious, SwitchOn, vars
  <2> QED
    BY <2>3, <2>4, <2>5, <2>6 DEF Next, ThreadIo
<1> QED
  BY <1>1, <1>2, AloneCorrect, PTL DEF Spec, ImplementsService
============================================================================
