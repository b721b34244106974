--------------------------- MODULE RunTests_proofs ---------------------------
(***************************************************************************)
(* Proofs about the test runner, for any number of threads, any directory  *)
(* and any size of the stream's buffer.                                    *)
(*                                                                         *)
(* Control relates the states of a worker, its child and its thread_wait,  *)
(* Handout says that the stream hands out every entry once (when one       *)
(* refill brings the whole directory), Verdicts that the output of a test  *)
(* is written by its own child only, and Complete that an entry handed out *)
(* is being worked on or has been reported.                                *)
(***************************************************************************)
EXTENDS RunTests, TLAPS

Control(w) ==
  /\ pc[w] \in {"readdir", "unlock"} <=> mutex = w
  /\ pc[w] \in {"deadline", "waiting", "kill", "join"} <=> wpc[w] # "none"
  /\ Busy(w) <=> child[w].state # "none"
  /\ child[w].status = "unset" <=> child[w].state \notin {"zombie", "reaped"}
  /\ child[w].state = "reaped" <=> wpc[w] \in {"signal", "ended"} \/ pc[w] = "check"

\* The worker's dent is the entry it works on.
Holds(w) == pc[w] \in {"unlock", "valid", "fork"} \/ Busy(w)

Fresh == /\ dir.pos = 0 /\ dir.n = 0
         /\ \A w \in Workers : ~Holds(w) /\ pc[w] # "done"

Filled == /\ dir.pos = Len(Entries) /\ dir.n = Len(Entries)
          /\ \A i \in Tests : dir.buf[i] = i

Handout ==
  /\ dir.next <= dir.n
  /\ Fresh \/ Filled
  /\ \A w \in Workers : Holds(w) =>
       /\ slot[w] \in Tests
       /\ IF pc[w] = "unlock" THEN slot[w] = dir.next + 1 ELSE slot[w] <= dir.next
       /\ Busy(w) => child[w].run = slot[w]
       /\ \A v \in Workers \ {w} : Holds(v) => slot[v] # slot[w]
       /\ \A r \in reports : r.run # slot[w]
  /\ \A r \in reports : r.as = r.run /\ r.run <= dir.next

Verdicts ==
  /\ \A w \in Workers : child[w].state = "astray" => ~child[w].exec
  /\ \A w \in Workers :
       Busy(w) /\ child[w].exec /\ child[w].status = "zero"
         => out[child[w].run] \in {"good", "bad"}
  /\ \A r \in reports : r.ok /\ r.exec => out[r.as] = "good"

Complete ==
  /\ \A t \in Tests : t <= dir.next /\ IsValidTest(t) =>
       \/ \E r \in reports : r.run = t
       \/ \E w \in Workers : Holds(w) /\ slot[w] = t
  /\ \A w \in Workers : pc[w] = "fork" \/ Busy(w) => IsValidTest(slot[w])
  /\ \A r \in reports : IsValidTest(r.run)
  /\ \A w \in Workers : pc[w] = "done" => dir.next = dir.n

Inductive ==
  /\ TypeOK
  /\ \A w \in Workers : Control(w)
  /\ \A r \in reports : r.ok => r.status = "zero"
  /\ Fits => Handout /\ Verdicts /\ Complete

-----------------------------------------------------------------------------
(* The directory has entries, and a refill brings at most those ahead.      *)
LEMMA Counts ==
  /\ Len(Entries) \in Nat \ {0}
  /\ Tests # {} /\ 1 \in Tests
<1> DEFINE S == [name : Seq({"t", "digit", "other"}), script : BOOLEAN]
<1>1. Entries \in Seq(S) /\ Len(Entries) > 0  BY EntriesAssumption
<1> HIDE DEF S
<1>2. Len(Entries) \in Nat  BY <1>1
<1>3. Len(Entries) \in Nat \ {0}  BY <1>1, <1>2
<1>4. QED  BY <1>3 DEF Tests

(* A refill moves the file offset no further than the end, and fits.        *)
LEMMA AheadBound ==
  ASSUME TypeOK
  PROVE  /\ Ahead \in 0..batch /\ dir.pos + Ahead \in 0..Len(Entries)
         /\ batch \in Nat \ {0} /\ dir.pos \in Nat
BY Counts, BatchesAssumption DEF TypeOK, Ahead

Children ==
  [state : Alive \cup {"none", "zombie", "reaped"}, run : Tests,
   exec : BOOLEAN, status : {"unset", "zero", "nonzero", "killed"}]

Labels == {"lock", "readdir", "unlock", "valid", "fork", "spawn",
           "deadline", "waiting", "kill", "join", "check", "done"}

(* Changing the state or the status of a child keeps it a child.            *)
LEMMA ChildType ==
  ASSUME child \in [Workers -> Children], NEW w \in Workers,
         NEW s \in Alive \cup {"none", "zombie", "reaped"},
         NEW t \in {"unset", "zero", "nonzero", "killed"}
  PROVE  /\ [child EXCEPT ![w].state = s] \in [Workers -> Children]
         /\ [child EXCEPT ![w].state = s, ![w].status = t] \in [Workers -> Children]
BY ZenonT(30) DEF Children

(* Steps preserve the types. *)
LEMMA TypeStep ==
  ASSUME TypeOK, \A x \in Workers : Control(x), NEW w \in Workers,
         Worker(w) \/ Waiter(w) \/ SpuriousWakeup(w) \/ Exit(w) \/ Stray(w)
  PROVE  TypeOK'
<1>1. CASE Lock(w)
  BY <1>1 DEF Lock, TypeOK, Goto, procs, history
<1>2. CASE Readdir(w)
  <2> DEFINE D == [pos : 0..Len(Entries), buf : [1..batch -> Tests],
                   n : 0..batch, next : 0..batch]
  <2>1. dir' \in D /\ slot' \in [Workers -> 1..batch]
    <3>1. CASE UNCHANGED <<dir, slot>>  BY <3>1 DEF TypeOK
    <3>2. CASE dir.next < dir.n /\ slot' = [slot EXCEPT ![w] = dir.next + 1]
               /\ UNCHANGED dir
      <4>1. batch \in Nat /\ dir.next \in 0..batch /\ dir.n \in 0..batch
        BY AheadBound DEF TypeOK
      <4>2. dir.next + 1 \in 1..batch
        BY <3>2, <4>1
      <4> QED BY Zenon, <3>2, <4>2 DEF TypeOK
    <3>3. CASE /\ dir' = [pos |-> dir.pos + Ahead, n |-> Ahead, next |-> 0,
                          buf |-> [i \in 1..batch |-> IF i <= Ahead THEN dir.pos + i
                                                      ELSE dir.buf[i]]]
               /\ slot' = [slot EXCEPT ![w] = 1]
      <4>1. ASSUME NEW i \in 1..batch
            PROVE  (IF i <= Ahead THEN dir.pos + i ELSE dir.buf[i]) \in Tests
        <5>1. dir.buf[i] \in Tests  BY Zenon DEF TypeOK
        <5>2. i <= Ahead => dir.pos + i \in Tests  BY AheadBound, Counts DEF Tests
        <5>3. QED  BY <5>1, <5>2
      <4> DEFINE p == dir.pos + Ahead
                 b == [i \in 1..batch |-> IF i <= Ahead THEN dir.pos + i
                                          ELSE dir.buf[i]]
      <4>a. p \in 0..Len(Entries) /\ Ahead \in 0..batch /\ 0 \in 0..batch
        BY AheadBound
      <4>b. dir' = [pos |-> p, n |-> Ahead, next |-> 0, buf |-> b]  BY <3>3
      <4>c. b \in [1..batch -> Tests]  BY <4>1
      <4> HIDE DEF p, b
      <4>2. dir' \in D  BY <4>a, <4>b, <4>c
      <4>3. QED  BY SMTT(30), <3>3, <4>2, AheadBound DEF TypeOK
    <3>4. QED  BY <1>2, <3>1, <3>2, <3>3 DEF Readdir
  <2>2. QED  BY Zenon, <1>2, <2>1 DEF Readdir, TypeOK, Goto, procs, history
<1>3. CASE Unlock(w)
  <2>1. dir' = [dir EXCEPT !.next = slot[w]] /\ slot[w] \in 0..batch
    BY <1>3, AheadBound DEF Unlock, TypeOK
  <2>2. QED  BY Zenon, <1>3, <2>1 DEF Unlock, TypeOK, Goto, procs, history
<1>4. CASE Valid(w)
  <2>1. pc' \in [Workers -> Labels]
    BY <1>4 DEF Valid, Goto, Labels, TypeOK
  <2> QED BY Zenon, <1>4, <2>1 DEF Valid, TypeOK, Labels, stream, procs, history
<1>5. CASE Fork(w)
  <2>1. PICK s \in {"running", "astray", "stuck"} :
          child' = [child EXCEPT ![w] = [state |-> s, run |-> Name(w),
                                         exec |-> s = "running", status |-> "unset"]]
    BY Zenon, <1>5 DEF Fork
  <2>2. Name(w) \in Tests /\ s \in Alive /\ (s = "running") \in BOOLEAN
    BY Zenon DEF TypeOK, Name, Alive
  <2>3. child' \in [Workers -> Children]
    BY <2>1, <2>2 DEF TypeOK, Children
  <2> QED BY <1>5, <2>3 DEF Fork, TypeOK, Goto, stream, history, Children
<1>6. CASE Spawn(w)
  BY <1>6 DEF Spawn, TypeOK, Goto, stream, history
<1>7. CASE BeginWait(w)
  BY <1>7 DEF BeginWait, TypeOK, Goto, stream, procs, history
<1>8. CASE Timeout(w)
  BY <1>8 DEF Timeout, TypeOK, Goto, stream, procs, history
<1>9. CASE Kill(w)
  <2>1. child \in [Workers -> Children] /\ child[w].run \in Tests
    BY DEF TypeOK, Children
  <2>2. child' \in [Workers -> Children]
    <3>1. [child EXCEPT ![w].state = "zombie", ![w].status = "killed"]
            \in [Workers -> Children]
      BY Zenon, <2>1, ChildType
    <3> QED BY Zenon, <1>9, <2>1, <3>1 DEF Kill
  <2>3. out' \in [Tests -> Outputs]
    BY Zenon, <1>9, <2>1 DEF Kill, TypeOK, Outputs
  <2> QED BY Zenon, <1>9, <2>2, <2>3 DEF Kill, TypeOK, Goto, stream, history, Children
<1>10. CASE Join(w)
  BY <1>10 DEF Join, TypeOK, Goto, stream, history
<1>11. CASE Check(w)
  <2> DEFINE R == [run : Tests, as : Tests, ok : BOOLEAN, exec : BOOLEAN,
                   status : {"zero", "nonzero", "killed"}]
  <2>1. child[w] \in Children /\ child[w].status # "unset" /\ Name(w) \in Tests
    BY Zenon, <1>11 DEF Check, Control, TypeOK, Children, Name
  <2>2. PICK ok \in BOOLEAN : Report(w, ok)  BY Zenon, <1>11 DEF Check, Compare
  <2>3. [run |-> child[w].run, as |-> Name(w), ok |-> ok,
         exec |-> child[w].exec, status |-> child[w].status] \in R
    BY <2>1 DEF Children
  <2>4. reports' \subseteq R  BY <2>2, <2>3 DEF Report, TypeOK
  <2>5. child' \in [Workers -> Children]
    BY <2>2, Counts DEF Report, TypeOK, Children, NoChild
  <2>6. QED  BY <2>2, <2>4, <2>5 DEF Report, TypeOK, Goto, stream, Children
<1>12. CASE Reap(w)
  <2>1. child' \in [Workers -> Children]
    BY Zenon, <1>12, ChildType DEF Reap, TypeOK, Children
  <2>2. QED  BY <1>12, <2>1 DEF Reap, TypeOK, stream, history, Children
<1>13. CASE Signal(w)
  BY <1>13 DEF Signal, TypeOK, stream, history, Goto
<1>14. CASE SpuriousWakeup(w)
  BY <1>14 DEF SpuriousWakeup, TypeOK, Goto, stream, procs
<1>15. CASE Exit(w)
  <2>1. PICK s \in {"zero", "nonzero"}, o \in {"good", "bad", out[child[w].run]} :
          /\ child' = [child EXCEPT ![w].state = "zombie", ![w].status = s]
          /\ out' = [out EXCEPT ![child[w].run] = o]
    BY Zenon, <1>15 DEF Exit
  <2>2. child[w].run \in Tests  BY DEF TypeOK
  <2>3. o \in Outputs  BY <2>1, <2>2 DEF TypeOK, Outputs
  <2>4. out' \in [Tests -> Outputs]  BY <2>1, <2>2, <2>3 DEF TypeOK
  <2>5. child' \in [Workers -> Children]
    BY Zenon, <2>1, ChildType DEF TypeOK, Children
  <2>6. QED  BY <1>15, <2>4, <2>5 DEF Exit, TypeOK, stream, history, Children
<1>16. CASE Stray(w)
  <2>1. child' \in [Workers -> Children]
    <3>1. child \in [Workers -> Children]  BY DEF TypeOK, Children
    <3>2. [child EXCEPT ![w].state = "zombie", ![w].status = "zero"]
            \in [Workers -> Children]
      BY Zenon, <3>1, ChildType
    <3>3. QED  BY Zenon, <1>16, <3>1, <3>2 DEF Stray
  <2>2. dir' \in [pos : 0..Len(Entries), buf : [1..batch -> Tests],
                  n : 0..batch, next : 0..batch]
    BY Zenon, <1>16, AheadBound DEF Stray, TypeOK
  <2>3. QED  BY <1>16, <2>1, <2>2 DEF Stray, TypeOK, history, Children
<1>q. QED  BY <1>1, <1>2, <1>3, <1>4, <1>5, <1>6, <1>7, <1>8, <1>9, <1>10, <1>11, <1>12, <1>13, <1>14, <1>15, <1>16 DEF Worker, Waiter

(* A step of worker w, its helper thread or its child keeps the states of a *)
(* worker x, its child and its helper thread in agreement.                  *)
LEMMA ControlStep ==
  ASSUME TypeOK, \A x \in Workers : Control(x), NEW w \in Workers,
         Worker(w) \/ Waiter(w) \/ SpuriousWakeup(w) \/ Exit(w) \/ Stray(w),
         NEW x \in Workers
  PROVE  Control(x)'
<1> USE DEF Control, Busy, TypeOK, Goto, Alive
<1>0. Control(x) /\ Control(w)  OBVIOUS
<1>1. CASE Lock(w)  BY <1>0, <1>1, WorkersAssumption DEF Lock, procs, history
<1>2. CASE Readdir(w)  BY <1>0, <1>2, WorkersAssumption DEF Readdir, procs, history
<1>3. CASE Unlock(w)  BY <1>0, <1>3, WorkersAssumption DEF Unlock, procs, history
<1>4. CASE Valid(w)  BY <1>0, <1>4, WorkersAssumption DEF Valid, stream, procs, history
<1>5. CASE Fork(w)  BY <1>0, <1>5, WorkersAssumption DEF Fork, stream, history
<1>6. CASE Spawn(w)  BY <1>0, <1>6, WorkersAssumption DEF Spawn, stream, history
<1>7. CASE BeginWait(w)  BY <1>0, <1>7, WorkersAssumption DEF BeginWait, stream, procs, history
<1>8. CASE Timeout(w)  BY <1>0, <1>8, WorkersAssumption DEF Timeout, stream, procs, history
<1>9. CASE Kill(w)  BY <1>0, <1>9, WorkersAssumption DEF Kill, stream, history
<1>10. CASE Join(w)  BY <1>0, <1>10, WorkersAssumption DEF Join, stream, history
<1>11. CASE Check(w)  BY <1>0, <1>11, WorkersAssumption DEF Check, Report, stream, NoChild
<1>12. CASE Reap(w)  BY <1>0, <1>12, WorkersAssumption DEF Reap, stream, history
<1>13. CASE Signal(w)  BY <1>0, <1>13, WorkersAssumption DEF Signal, stream
<1>14. CASE SpuriousWakeup(w)  BY <1>0, <1>14, WorkersAssumption DEF SpuriousWakeup, stream, procs
<1>15. CASE Exit(w)  BY <1>0, <1>15, WorkersAssumption DEF Exit, stream, history
<1>16. CASE Stray(w)  BY <1>0, <1>16, WorkersAssumption DEF Stray, history
<1>q. QED  BY Zenon, <1>1, <1>2, <1>3, <1>4, <1>5, <1>6, <1>7, <1>8,
             <1>9, <1>10, <1>11, <1>12, <1>13, <1>14, <1>15, <1>16
           DEF Worker, Waiter

-----------------------------------------------------------------------------
(* The worker that holds a buffer's entry has had it filled.                *)
LEMMA HeldFilled ==
  ASSUME TypeOK, Fits, Handout, NEW w \in Workers, Holds(w)
  PROVE  /\ Filled /\ Ahead = 0
         /\ Name(w) = slot[w] /\ slot[w] \in Tests
<1>1. Filled /\ slot[w] \in Tests  BY DEF Handout, Fresh
<1>2. Ahead = 0  BY <1>1, Counts, BatchesAssumption DEF Filled, Ahead, TypeOK, Fits
<1>3. QED  BY <1>1, <1>2 DEF Filled, Name

(* Steps that leave the stream, the places and the reports alone, and let   *)
(* no worker take an entry, keep the hand-out right.                        *)
LEMMA HandoutSame ==
  ASSUME TypeOK, Handout, UNCHANGED <<dir, slot, reports>>,
         \A x \in Workers :
           /\ Holds(x)' => Holds(x) /\ (pc'[x] = "unlock" <=> pc[x] = "unlock")
           /\ Busy(x)' => child'[x].run = slot[x]
           /\ pc'[x] = "done" => pc[x] = "done"
  PROVE  Handout'
<1>1. (Fresh \/ Filled)'  BY DEF Handout, Fresh, Filled
<1>2. ASSUME NEW x \in Workers, Holds(x)'
      PROVE  /\ slot[x] \in Tests
             /\ IF pc'[x] = "unlock" THEN slot[x] = dir.next + 1
                                     ELSE slot[x] <= dir.next
             /\ Busy(x)' => child'[x].run = slot[x]
             /\ \A v \in Workers \ {x} : Holds(v)' => slot[v] # slot[x]
             /\ \A r \in reports : r.run # slot[x]
  BY <1>2 DEF Handout
<1>3. QED  BY <1>1, <1>2 DEF Handout

(* readdir hands out the next entry.                                        *)
LEMMA HandoutReaddir ==
  ASSUME TypeOK, \A x \in Workers : Control(x), Fits, Handout,
         NEW w \in Workers, Readdir(w)
  PROVE  Handout'
<1> USE DEF Goto, procs, history
<1>0. /\ pc[w] = "readdir" /\ mutex = w
      /\ \A x \in Workers \ {w} : pc[x] \notin {"readdir", "unlock"}
  BY DEF Readdir, Control
<1>1. CASE dir.next < dir.n
  <2>1. Filled  BY <1>1 DEF Handout, Fresh, TypeOK
  <2>2. /\ slot' = [slot EXCEPT ![w] = dir.next + 1]
        /\ pc' = [pc EXCEPT ![w] = "unlock"]
        /\ UNCHANGED <<dir, child, reports>>
    BY <1>1 DEF Readdir, TypeOK
  <2>3. Filled'  BY <2>1, <2>2 DEF Filled
  <2>4. dir.next + 1 \in Tests  BY <1>1, <2>1 DEF Filled, TypeOK, Tests
  <2>5. \A x \in Workers \ {w} :
          /\ slot'[x] = slot[x] /\ pc'[x] = pc[x]
          /\ Holds(x)' <=> Holds(x)
          /\ Busy(x)' <=> Busy(x)
    BY <2>2 DEF TypeOK, Holds, Busy
  <2>6. slot'[w] = dir.next + 1 /\ pc'[w] = "unlock" /\ ~Busy(w)'
    BY <2>2 DEF TypeOK, Busy
  <2>7. \A x \in Workers \ {w} : Holds(x) => slot[x] <= dir.next /\ slot[x] \in Nat
    BY <1>0 DEF Handout, Tests
  <2>8. \A r \in reports : r.run <= dir.next /\ r.run \in Nat
    BY DEF Handout, TypeOK, Tests
  <2>9. QED
    BY <2>2, <2>3, <2>4, <2>5, <2>6, <2>7, <2>8, AheadBound DEF Handout, TypeOK
<1>2. CASE dir.next = dir.n /\ Ahead > 0
  <2>1. Fresh
    BY <1>2, Counts, AheadBound DEF Handout, Filled, Ahead
  <2>2. Ahead = Len(Entries)
    BY <2>1, Counts, AheadBound DEF Fresh, Ahead, Fits
  <2>3. /\ slot' = [slot EXCEPT ![w] = 1]
        /\ pc' = [pc EXCEPT ![w] = "unlock"]
        /\ UNCHANGED <<child, reports>>
        /\ dir'.pos = Len(Entries) /\ dir'.n = Len(Entries) /\ dir'.next = 0
        /\ dir'.buf = [i \in 1..batch |-> IF i <= Ahead THEN dir.pos + i
                                          ELSE dir.buf[i]]
    <3>1. dir' = [pos |-> dir.pos + Ahead, n |-> Ahead, next |-> 0,
                  buf |-> [i \in 1..batch |-> IF i <= Ahead THEN dir.pos + i
                                              ELSE dir.buf[i]]]
      BY <1>2, AheadBound DEF Readdir, TypeOK
    <3>2. dir.pos + Ahead = Len(Entries)  BY <2>1, <2>2, Counts DEF Fresh
    <3>3. QED  BY <1>2, <2>2, <3>1, <3>2, AheadBound DEF Readdir, TypeOK
  <2>4. \A i \in Tests : dir'.buf[i] = i
    BY <2>1, <2>2, <2>3, Counts, AheadBound DEF Fresh, Tests, Fits
  <2>5. Filled'  BY Zenon, <2>3, <2>4 DEF Filled
  <2>6. \A x \in Workers \ {w} : ~Holds(x)'
    BY <2>1, <2>3 DEF Fresh, Holds, Busy, TypeOK
  <2>7. slot'[w] = 1 /\ pc'[w] = "unlock" /\ ~Busy(w)'
    BY <2>3 DEF TypeOK, Busy
  <2>8. reports = {}
    BY <1>2, <2>1 DEF Handout, Fresh, TypeOK, Tests
  <2>9. QED  BY <2>3, <2>5, <2>6, <2>7, <2>8, Counts DEF Handout
<1>3. CASE dir.next = dir.n /\ Ahead = 0
  <2>1. ~Fresh  BY <1>3, Counts, AheadBound DEF Fresh, Ahead
  <2>2. /\ pc' = [pc EXCEPT ![w] = "done"]
        /\ UNCHANGED <<dir, slot, child, reports>>
    BY <1>3, AheadBound DEF Readdir, TypeOK
  <2>3. \A x \in Workers : Holds(x)' => Holds(x) /\ pc'[x] = pc[x] /\ Busy(x)' = Busy(x)
    BY <2>2 DEF Holds, Busy, TypeOK
  <2>4. Filled'  BY <2>1, <2>2 DEF Handout, Filled
  <2>5. QED  BY <2>2, <2>3, <2>4 DEF Handout
<1>4. QED  BY <1>1, <1>2, <1>3, AheadBound DEF Readdir, TypeOK

(* The unlock moves the stream past the entry of the worker.                *)
LEMMA HandoutUnlock ==
  ASSUME TypeOK, \A x \in Workers : Control(x), Fits, Handout,
         NEW w \in Workers, Unlock(w)
  PROVE  Handout'
<1> USE DEF Goto, procs, history
<1>1. /\ pc[w] = "unlock" /\ Holds(w)
      /\ \A x \in Workers \ {w} : pc[x] # "unlock"
  BY DEF Unlock, Control, Holds
<1>2. Filled /\ slot[w] \in Tests /\ slot[w] = dir.next + 1
  BY <1>1, HeldFilled DEF Handout
<1>3. /\ dir'.next = slot[w] /\ dir'.n = dir.n /\ dir'.pos = dir.pos
      /\ dir'.buf = dir.buf
      /\ pc' = [pc EXCEPT ![w] = "valid"]
      /\ UNCHANGED <<slot, child, reports>>
  BY DEF Unlock, TypeOK
<1>4. Filled' /\ dir'.next <= dir'.n  BY <1>2, <1>3 DEF Filled, Tests
<1>5. \A x \in Workers : /\ Holds(x)' <=> Holds(x)
                         /\ Busy(x)' <=> Busy(x)
                         /\ pc'[x] # "unlock"
  BY <1>1, <1>3 DEF Holds, Busy, TypeOK
<1>6. ASSUME NEW x \in Workers, Holds(x)  PROVE slot[x] <= dir'.next
  <2>1. CASE x = w  BY <1>2, <1>3, <2>1 DEF Tests
  <2>2. CASE x # w
    <3>1. slot[x] <= dir.next /\ slot[x] \in Tests  BY <1>1, <1>6, <2>2 DEF Handout
    <3>2. dir.next \in Nat  BY AheadBound DEF TypeOK
    <3>3. QED  BY <1>2, <1>3, <3>1, <3>2 DEF Tests
  <2>3. QED  BY <2>1, <2>2
<1>7. \A r \in reports : r.run <= dir'.next
  <2>1. \A r \in reports : r.run <= dir.next /\ r.run \in Tests
    BY Zenon DEF Handout, TypeOK
  <2>2. dir.next \in Nat  BY AheadBound DEF TypeOK
  <2>3. QED  BY <1>2, <1>3, <2>1, <2>2 DEF Tests
<1>8. QED  BY <1>3, <1>4, <1>5, <1>6, <1>7 DEF Handout

(* What a worker reports was its own entry, which no other one has.         *)
LEMMA HandoutCheck ==
  ASSUME TypeOK, Fits, Handout, NEW w \in Workers, Check(w)
  PROVE  Handout'
<1>1. pc[w] = "check" /\ Busy(w) /\ Holds(w)  BY DEF Check, Busy, Holds
<1>2. /\ Filled /\ Name(w) = slot[w] /\ child[w].run = slot[w]
      /\ slot[w] <= dir.next
  BY <1>1, HeldFilled DEF Handout
<1>3. PICK ok \in BOOLEAN : Report(w, ok)  BY Zenon DEF Check, Compare
<1>4. \A r \in reports' : r \in reports \/ (r.run = slot[w] /\ r.as = slot[w])
  <2> DEFINE R == [run |-> child[w].run, as |-> Name(w), ok |-> ok,
                   exec |-> child[w].exec, status |-> child[w].status]
  <2>1. reports' = reports \cup {R}  BY <1>3 DEF Report
  <2>2. R.run = slot[w] /\ R.as = slot[w]  BY <1>2
  <2> HIDE DEF R
  <2>3. QED  BY <2>1, <2>2
<1>5. /\ pc' = [pc EXCEPT ![w] = "lock"]
      /\ child' = [child EXCEPT ![w] = NoChild]
      /\ UNCHANGED <<dir, slot>>
  BY <1>3 DEF Report, Goto, stream
<1>6. ~Holds(w)'  BY <1>5 DEF Holds, Busy, TypeOK
<1>7. \A x \in Workers \ {w} : /\ Holds(x)' <=> Holds(x)
                               /\ Busy(x)' <=> Busy(x)
                               /\ pc'[x] = pc[x] /\ child'[x] = child[x]
                               /\ Holds(x) => slot[x] # slot[w]
  BY <1>1, <1>5 DEF Holds, Busy, TypeOK, Handout
<1>8. Filled'  BY <1>2, <1>5 DEF Filled
<1>9. \A r \in reports' : r.as = r.run /\ r.run <= dir.next
  BY <1>2, <1>4 DEF Handout
<1>10. \A x \in Workers : Holds(x)' => \A r \in reports' : r.run # slot[x]
  BY <1>4, <1>6, <1>7 DEF Handout
<1>11. QED  BY <1>5, <1>6, <1>7, <1>8, <1>9, <1>10 DEF Handout

(* Every step keeps the hand-out right.                                     *)
LEMMA HandoutStep ==
  ASSUME TypeOK, \A x \in Workers : Control(x), Fits, Handout, NEW w \in Workers,
         Worker(w) \/ Waiter(w) \/ SpuriousWakeup(w) \/ Exit(w) \/ Stray(w)
  PROVE  Handout'
<1> USE DEF Holds, Busy, TypeOK, Goto
<1>0. \A x \in Workers : Busy(x) => child[x].run = slot[x]  BY DEF Handout
<1>1. CASE Lock(w)
  BY <1>0, <1>1, HandoutSame DEF Lock, procs, history
<1>2. CASE Valid(w)
  BY <1>0, <1>2, HandoutSame DEF Valid, stream, procs, history
<1>3. CASE Fork(w)
  <2>1. Name(w) = slot[w]  BY <1>3, HeldFilled DEF Fork
  <2>2. child'[w].run = slot[w] /\ \A x \in Workers \ {w} : child'[x] = child[x]
    BY <1>3, <2>1 DEF Fork
  <2>3. QED  BY <1>0, <1>3, <2>2, HandoutSame DEF Fork, stream, history
<1>4. CASE Spawn(w) \/ Join(w)
  BY <1>0, <1>4, HandoutSame DEF Spawn, Join, stream, history
<1>5. CASE BeginWait(w) \/ Timeout(w) \/ SpuriousWakeup(w)
  BY <1>0, <1>5, HandoutSame
  DEF BeginWait, Timeout, SpuriousWakeup, stream, procs, history
<1>6. CASE Kill(w)
  <2>1. \A x \in Workers : child'[x].run = child[x].run
    <3>1. CASE child' = child  BY <3>1
    <3>2. CASE child' = [child EXCEPT ![w].state = "zombie", ![w].status = "killed"]
      BY <3>2
    <3>3. QED  BY Zenon, <1>6, <3>1, <3>2 DEF Kill
  <2>2. QED  BY <1>0, <1>6, <2>1, HandoutSame DEF Kill, stream, history
<1>7. CASE Reap(w)
  <2>1. \A x \in Workers : child'[x].run = child[x].run  BY <1>7 DEF Reap
  <2>2. QED  BY <1>0, <1>7, <2>1, HandoutSame DEF Reap, stream, history
<1>8. CASE Signal(w)
  BY <1>0, <1>8, HandoutSame DEF Signal, stream, history
<1>9. CASE Exit(w)
  <2>1. \A x \in Workers : child'[x].run = child[x].run  BY <1>9 DEF Exit
  <2>2. QED  BY <1>0, <1>9, <2>1, HandoutSame DEF Exit, stream, history
<1>10. CASE Stray(w)
  <2>1. Ahead = 0  BY <1>10, HeldFilled DEF Stray, Control
  <2>2. \A x \in Workers : child'[x].run = child[x].run
    <3>1. CASE child' = child  BY <3>1
    <3>2. CASE child' = [child EXCEPT ![w].state = "zombie", ![w].status = "zero"]
      BY <3>2
    <3>3. QED  BY Zenon, <1>10, <3>1, <3>2 DEF Stray
  <2>3. QED  BY <1>0, <1>10, <2>1, <2>2, HandoutSame DEF Stray, history
<1>11. QED
  BY <1>1, <1>2, <1>3, <1>4, <1>5, <1>6, <1>7, <1>8, <1>9, <1>10,
     HandoutReaddir, HandoutUnlock, HandoutCheck DEF Worker, Waiter

-----------------------------------------------------------------------------
(* The children of two workers run different tests, and none that was       *)
(* reported.                                                                *)
LEMMA OwnRun ==
  ASSUME TypeOK, Handout, NEW w \in Workers, Busy(w)
  PROVE  /\ child[w].run \in Tests
         /\ \A x \in Workers \ {w} : Busy(x) => child[x].run # child[w].run
         /\ \A r \in reports : r.as # child[w].run
<1>1. Holds(w) /\ \A x \in Workers : Busy(x) => Holds(x)  BY DEF Holds
<1>2. QED  BY <1>1 DEF Handout

(* Steps after which every child that ended well and every report has       *)
(* the output it had keep the verdicts earned.                              *)
LEMMA VerdictsSame ==
  ASSUME Verdicts, UNCHANGED <<out, reports>>,
         \A x \in Workers :
           /\ child'[x].state = "astray" => ~child'[x].exec
           /\ Busy(x)' /\ child'[x].exec /\ child'[x].status = "zero" =>
                /\ Busy(x) /\ child[x].exec /\ child[x].status = "zero"
                /\ child'[x].run = child[x].run
  PROVE  Verdicts'
BY DEF Verdicts

(* A child writes its own test's output only.                               *)
LEMMA VerdictsWrite ==
  ASSUME TypeOK, Handout, Verdicts, NEW w \in Workers, Busy(w),
         NEW o, out' = [out EXCEPT ![child[w].run] = o],
         UNCHANGED reports, \A x \in Workers : Busy(x)' <=> Busy(x),
         \A x \in Workers \ {w} : child'[x] = child[x],
         child'[w].run = child[w].run, child'[w].state # "astray",
         child'[w].status = "zero" => o \in {"good", "bad"}
  PROVE  Verdicts'
<1>1. \A x \in Workers \ {w} : Busy(x) => out'[child[x].run] = out[child[x].run]
  BY OwnRun DEF TypeOK
<1>2. \A r \in reports : out'[r.as] = out[r.as]  BY OwnRun DEF TypeOK
<1>3. child'[w].status = "zero" => out'[child[w].run] \in {"good", "bad"}
  BY OwnRun DEF TypeOK
<1>4. QED  BY <1>1, <1>2, <1>3 DEF Verdicts

(* Every step keeps the verdicts earned.                                    *)
LEMMA VerdictsStep ==
  ASSUME TypeOK, \A x \in Workers : Control(x), Fits, Handout, Verdicts,
         NEW w \in Workers,
         Worker(w) \/ Waiter(w) \/ SpuriousWakeup(w) \/ Exit(w) \/ Stray(w)
  PROVE  Verdicts'
<1>0. \A x \in Workers : child[x].state = "astray" => ~child[x].exec
  BY DEF Verdicts
<1>1. CASE Lock(w) \/ Unlock(w)
  BY <1>0, <1>1, VerdictsSame DEF Lock, Unlock, procs, history, Busy, Goto, TypeOK
<1>2. CASE Readdir(w)
  BY <1>0, <1>2, VerdictsSame DEF Readdir, procs, history, Busy, Goto, TypeOK
<1>3. CASE Valid(w) \/ BeginWait(w) \/ Timeout(w) \/ SpuriousWakeup(w)
  BY <1>0, <1>3, VerdictsSame
  DEF Valid, BeginWait, Timeout, SpuriousWakeup, procs, history, Busy, Goto, TypeOK
<1>4. CASE Spawn(w) \/ Join(w)
  BY <1>0, <1>4, VerdictsSame DEF Spawn, Join, history, Busy, Goto, TypeOK
<1>5. CASE Signal(w)
  BY <1>0, <1>5, VerdictsSame DEF Signal, history, Busy, Goto, TypeOK
<1>6. CASE Fork(w)
  <2>1. /\ child'[w].status = "unset"
        /\ child'[w].state = "astray" => ~child'[w].exec
        /\ \A x \in Workers \ {w} : child'[x] = child[x] /\ pc'[x] = pc[x]
    <3>1. PICK s \in {"running", IF mutex = Free THEN "astray" ELSE "stuck"} :
            child' = [child EXCEPT ![w] = [state |-> s, run |-> Name(w),
                                           exec |-> s = "running",
                                           status |-> "unset"]]
      BY Zenon, <1>6 DEF Fork
    <3>2. child'[w] = [state |-> s, run |-> Name(w), exec |-> s = "running",
                       status |-> "unset"]
      BY <3>1 DEF TypeOK
    <3>3. \A x \in Workers \ {w} : child'[x] = child[x] /\ pc'[x] = pc[x]
      BY Zenon, <1>6, <3>1 DEF Fork, TypeOK, Goto
    <3>4. /\ child'[w].status = "unset" /\ child'[w].state = s
          /\ child'[w].exec = (s = "running")
      BY <3>2
    <3>5. s = "astray" => ~(s = "running")  OBVIOUS
    <3>6. QED  BY Zenon, <3>3, <3>4, <3>5
  <2>2. QED  BY Zenon, <1>0, <1>6, <2>1, VerdictsSame DEF Fork, history, Busy
<1>7. CASE Reap(w)
  <2>1. /\ \A x \in Workers \ {w} : child'[x] = child[x]
        /\ child'[w].state = "reaped" /\ child'[w].exec = child[w].exec
        /\ child'[w].run = child[w].run /\ child'[w].status = child[w].status
    BY <1>7 DEF Reap, TypeOK
  <2>2. QED  BY <1>0, <1>7, <2>1, VerdictsSame DEF Reap, history, Busy
<1>8. CASE Exit(w)
  <2>1. Busy(w)  BY <1>8 DEF Exit, Control
  <2>2. PICK s \in {"zero", "nonzero"}, o \in {"good", "bad", out[child[w].run]} :
          /\ s = "zero" => o \in {"good", "bad"}
          /\ child' = [child EXCEPT ![w].state = "zombie", ![w].status = s]
          /\ out' = [out EXCEPT ![child[w].run] = o]
    BY Zenon, <1>8 DEF Exit
  <2>3. /\ \A x \in Workers \ {w} : child'[x] = child[x]
        /\ child'[w].run = child[w].run /\ child'[w].state = "zombie"
        /\ child'[w].status = s
    BY <2>2 DEF TypeOK
  <2>4. UNCHANGED reports /\ \A x \in Workers : Busy(x)' <=> Busy(x)
    BY <1>8 DEF Exit, history, Busy
  <2>5. QED  BY Zenon, <2>1, <2>2, <2>3, <2>4, VerdictsWrite

<1>9. CASE Kill(w)
  <2>1. /\ Busy(w) /\ UNCHANGED reports
        /\ \A x \in Workers : Busy(x)' <=> Busy(x)
    BY <1>9 DEF Kill, history, Busy, Goto, TypeOK
  <2>2. CASE UNCHANGED <<child, out>>
    BY <1>0, <2>1, <2>2, VerdictsSame
  <2>3. CASE child' = [child EXCEPT ![w].state = "zombie", ![w].status = "killed"]
    <3>1. /\ \A x \in Workers \ {w} : child'[x] = child[x]
          /\ child'[w].run = child[w].run /\ child'[w].state = "zombie"
          /\ child'[w].status = "killed"
      BY <2>3 DEF TypeOK
    <3>2. CASE UNCHANGED out  BY <1>0, <2>1, <3>1, <3>2, VerdictsSame
    <3>3. CASE out' = [out EXCEPT ![child[w].run] = "bad"]
      BY Zenon, <2>1, <3>1, <3>3, VerdictsWrite
    <3>4. QED  BY <1>9, <3>2, <3>3 DEF Kill
  <2>4. QED  BY <1>9, <2>2, <2>3 DEF Kill
<1>10. CASE Stray(w)
  <2>1. /\ UNCHANGED <<out, reports>> /\ \A x \in Workers : Busy(x)' <=> Busy(x)
        /\ child[w].state = "astray" /\ ~child[w].exec
    BY <1>0, <1>10 DEF Stray, history, Busy
  <2>2. CASE UNCHANGED child  BY <1>0, <2>1, <2>2, VerdictsSame
  <2>3. CASE child' = [child EXCEPT ![w].state = "zombie", ![w].status = "zero"]
    <3>1. /\ \A x \in Workers \ {w} : child'[x] = child[x]
          /\ child'[w].exec = child[w].exec
      BY <2>3 DEF TypeOK
    <3>2. QED  BY <1>0, <2>1, <3>1, VerdictsSame
  <2>4. QED  BY <1>10, <2>2, <2>3 DEF Stray
<1>11. CASE Check(w)
  <2>1. /\ Busy(w) /\ Holds(w) /\ child[w].run = slot[w] /\ Name(w) = slot[w]
        /\ child[w].run \in Tests
    BY <1>11, HeldFilled DEF Check, Busy, Holds, Handout
  <2> DEFINE ok == child[w].status = "zero" /\ Compare(w)
             R == [run |-> child[w].run, as |-> Name(w), ok |-> ok,
                   exec |-> child[w].exec, status |-> child[w].status]
  <2>2. R.ok /\ R.exec => out[R.as] = "good"
    <3>1. out[Name(w)] \in Outputs  BY <2>1 DEF TypeOK
    <3>2. QED  BY Zenon, <2>1, <3>1 DEF Verdicts, Compare, Outputs
  <2>3. /\ reports' = reports \cup {R} /\ UNCHANGED out
        /\ child' = [child EXCEPT ![w] = NoChild]
        /\ pc' = [pc EXCEPT ![w] = "lock"]
    BY Zenon, <1>11 DEF Check, Report, Goto
  <2>4. /\ ~Busy(w)' /\ child'[w].state # "astray"
        /\ \A x \in Workers \ {w} : child'[x] = child[x] /\ (Busy(x)' <=> Busy(x))
    BY Zenon, <2>3 DEF Busy, TypeOK, NoChild
  <2> HIDE DEF R
  <2>5. \A r \in reports' : r.ok /\ r.exec => out'[r.as] = "good"
    BY Zenon, <2>2, <2>3 DEF Verdicts
  <2>6. QED  BY <1>0, <2>3, <2>4, <2>5 DEF Verdicts
<1>12. QED
  BY <1>1, <1>2, <1>3, <1>4, <1>5, <1>6, <1>7, <1>8, <1>9, <1>10, <1>11
  DEF Worker, Waiter

-----------------------------------------------------------------------------
(* Steps that keep the stream, the places, the reports and whatever workers *)
(* hold lose no entry.                                                      *)
LEMMA CompleteSame ==
  ASSUME Complete, UNCHANGED <<slot, reports>>,
         dir'.next = dir.next, dir'.n = dir.n,
         \A x \in Workers :
           /\ Holds(x) => Holds(x)'
           /\ (pc[x] = "fork" \/ Busy(x))' => pc[x] = "fork" \/ Busy(x)
           /\ pc'[x] = "done" => pc[x] = "done" \/ dir.next = dir.n
  PROVE  Complete'
BY Zenon DEF Complete, IsValidTest

(* What is to be shown of a step that hands out or reports an entry.        *)
LEMMA CompleteGoal ==
  ASSUME \A t \in Tests : t <= dir'.next /\ IsValidTest(t) =>
           \/ \E r \in reports' : r.run = t
           \/ \E x \in Workers : Holds(x)' /\ slot'[x] = t,
         \A x \in Workers : (pc[x] = "fork" \/ Busy(x))' => IsValidTest(slot'[x]),
         \A r \in reports' : IsValidTest(r.run),
         \A x \in Workers : pc'[x] = "done" => dir'.next = dir'.n
  PROVE  Complete'
BY Zenon DEF Complete, IsValidTest

(* Every step works on or reports what was handed out.                      *)
LEMMA CompleteStep ==
  ASSUME TypeOK, \A x \in Workers : Control(x), Fits, Handout, Complete,
         NEW w \in Workers,
         Worker(w) \/ Waiter(w) \/ SpuriousWakeup(w) \/ Exit(w) \/ Stray(w)
  PROVE  Complete'
<1>1. CASE Lock(w)
  BY <1>1, CompleteSame DEF Lock, procs, history, Goto, Holds, Busy, TypeOK
<1>2. CASE Fork(w) \/ Spawn(w) \/ Join(w)
  BY Zenon, <1>2, CompleteSame
  DEF Fork, Spawn, Join, stream, history, Goto, Holds, Busy, TypeOK
<1>3. CASE BeginWait(w) \/ Timeout(w) \/ SpuriousWakeup(w)
  BY <1>3, CompleteSame
  DEF BeginWait, Timeout, SpuriousWakeup, stream, procs, history, Goto, Holds,
      Busy, TypeOK
<1>4. CASE Kill(w)
  BY <1>4, CompleteSame DEF Kill, stream, history, Goto, Holds, Busy, TypeOK
<1>5. CASE Reap(w) \/ Exit(w)
  BY Zenon, <1>5, CompleteSame DEF Reap, Exit, stream, history, Holds, Busy
<1>6. CASE Signal(w)
  BY <1>6, CompleteSame DEF Signal, stream, history, Goto, Holds, Busy, TypeOK
<1>7. CASE Stray(w)
  <2>1. dir'.next = dir.next /\ dir'.n = dir.n  BY <1>7 DEF Stray, TypeOK
  <2>2. QED  BY <1>7, <2>1, CompleteSame DEF Stray, history, Holds, Busy
<1>8. CASE Valid(w)
  <2>1. Holds(w) /\ Name(w) = slot[w]  BY Zenon, <1>8, HeldFilled DEF Valid, Holds
  <2>2. CASE IsValidTest(slot[w])
    <3>1. pc' = [pc EXCEPT ![w] = "fork"] /\ UNCHANGED <<dir, slot, reports>>
      BY <1>8, <2>1, <2>2 DEF Valid, Goto, stream, history
    <3>2. \A x \in Workers : /\ Holds(x) => Holds(x)'
                             /\ (pc[x] = "fork" \/ Busy(x))'
                                  => x = w \/ pc[x] = "fork" \/ Busy(x)
                             /\ pc'[x] = "done" => pc[x] = "done"
      BY <3>1 DEF Holds, Busy, TypeOK
    <3>3. QED  BY Zenon, <2>2, <3>1, <3>2 DEF Complete, IsValidTest
  <2>3. CASE ~IsValidTest(slot[w])
    <3>1. pc' = [pc EXCEPT ![w] = "lock"] /\ UNCHANGED <<dir, slot, reports>>
      BY <1>8, <2>1, <2>3 DEF Valid, Goto, stream, history
    <3>2. \A x \in Workers : /\ Holds(x) => x = w \/ Holds(x)'
                             /\ (pc[x] = "fork" \/ Busy(x))'
                                  => pc[x] = "fork" \/ Busy(x)
                             /\ pc'[x] = "done" => pc[x] = "done"
      BY <3>1 DEF Holds, Busy, TypeOK
    <3>3. \A t \in Tests : t <= dir'.next /\ IsValidTest(t) =>
              \/ \E r \in reports' : r.run = t
              \/ \E x \in Workers : Holds(x)' /\ slot'[x] = t
      BY <2>3, <3>1, <3>2 DEF Complete
    <3>4. \A x \in Workers : (pc[x] = "fork" \/ Busy(x))' => IsValidTest(slot'[x])
      BY <2>3, <3>1, <3>2 DEF Complete
    <3>5. \A r \in reports' : IsValidTest(r.run)
      BY <3>1 DEF Complete
    <3>6. \A x \in Workers : pc'[x] = "done" => dir'.next = dir'.n
      BY <2>3, <3>1, <3>2 DEF Complete
    <3>7. QED  BY <3>3, <3>4, <3>5, <3>6, CompleteGoal
  <2>4. QED  BY <2>2, <2>3
<1>9. CASE Unlock(w)
  <2>1. Holds(w) /\ pc[w] = "unlock" /\ slot[w] = dir.next + 1 /\ Filled
    BY <1>9, HeldFilled DEF Unlock, Holds, Handout
  <2>2. /\ dir'.next = slot[w] /\ dir'.n = dir.n
        /\ pc' = [pc EXCEPT ![w] = "valid"] /\ UNCHANGED <<slot, reports>>
    BY <1>9 DEF Unlock, Goto, history, TypeOK
  <2>3. \A x \in Workers : /\ Holds(x) => Holds(x)'
                           /\ (pc[x] = "fork" \/ Busy(x))'
                                => pc[x] = "fork" \/ Busy(x)
                           /\ pc'[x] = "done" => pc[x] = "done"
    BY <2>1, <2>2 DEF Holds, Busy, TypeOK
  <2>4. \A t \in Tests : t <= dir'.next => t <= dir.next \/ t = slot[w]
    BY <2>1, <2>2, AheadBound DEF Tests, TypeOK
  <2>5. slot[w] \in Tests /\ slot[w] <= dir.n /\ dir.next \in Nat
    <3>1. slot[w] \in Tests  BY <2>1, HeldFilled
    <3>2. dir.next \in Nat  BY AheadBound DEF TypeOK
    <3>3. QED  BY <2>1, <3>1, <3>2, Counts DEF Filled, Tests
  <2>6. \A x \in Workers : pc[x] # "done"
    BY <2>1, <2>5, AheadBound DEF Complete, TypeOK
  <2>7. QED  BY Zenon, <2>1, <2>2, <2>3, <2>4, <2>6 DEF Complete, IsValidTest
<1>10. CASE Readdir(w)
  <2>1. pc[w] = "readdir" /\ UNCHANGED <<child, reports>>
    BY <1>10 DEF Readdir, procs, history
  <2>2. \A x \in Workers \ {w} : slot'[x] = slot[x] /\ pc'[x] = pc[x]
    BY <1>10 DEF Readdir, Goto, TypeOK
  <2>3. /\ ~Holds(w) /\ ~(pc[w] = "fork" \/ Busy(w))'
        /\ \A x \in Workers \ {w} : (Holds(x)' <=> Holds(x)) /\ (Busy(x)' <=> Busy(x))
    BY <1>10, <2>1, <2>2 DEF Readdir, Goto, Holds, Busy, TypeOK
  <2>4. CASE dir.next < dir.n \/ Ahead = 0
    <3>1. /\ UNCHANGED dir
          /\ pc'[w] = "done" => dir.next = dir.n
      BY <1>10, <2>4, AheadBound DEF Readdir, Goto, TypeOK
    <3>2. \A t \in Tests : t <= dir'.next /\ IsValidTest(t) =>
              \/ \E r \in reports' : r.run = t
              \/ \E x \in Workers : Holds(x)' /\ slot'[x] = t
      BY Zenon, <2>1, <2>2, <2>3, <3>1 DEF Complete
    <3>3. \A x \in Workers : (pc[x] = "fork" \/ Busy(x))' => IsValidTest(slot'[x])
      BY Zenon, <2>1, <2>2, <2>3, <3>1 DEF Complete
    <3>4. \A r \in reports' : IsValidTest(r.run)
      BY Zenon, <2>1 DEF Complete
    <3>5. \A x \in Workers : pc'[x] = "done" => dir'.next = dir'.n
      <4>1. \A x \in Workers : pc[x] = "done" => dir.next = dir.n
        BY Zenon DEF Complete
      <4> QED BY Zenon, <2>2, <3>1, <4>1
    <3>6. QED  BY Zenon, <3>2, <3>3, <3>4, <3>5, CompleteGoal
  <2>5. CASE dir.next = dir.n /\ Ahead > 0
    <3>0. Fresh \/ Filled  BY Zenon DEF Handout
    <3>1. Fresh  BY <2>5, <3>0, Counts DEF Filled, Ahead
    <3>2. dir'.next = 0 /\ pc'[w] = "unlock"
      BY <1>10, <2>5, AheadBound DEF Readdir, Goto, TypeOK
    <3>3. \A x \in Workers : pc'[x] # "done" /\ ~(pc[x] = "fork" \/ Busy(x))'
      BY <2>2, <2>3, <3>1, <3>2 DEF Fresh, Holds
    <3>4. \A t \in Tests : ~(t <= dir'.next)  BY <3>2 DEF Tests
    <3>5. QED  BY Zenon, <2>1, <3>3, <3>4 DEF Complete, IsValidTest
  <2>6. QED  BY <1>10, <2>4, <2>5, AheadBound DEF Readdir
<1>11. CASE Check(w)
  <2>1. Holds(w) /\ Busy(w) /\ child[w].run = slot[w]
    BY Zenon, <1>11 DEF Check, Busy, Holds, Handout
  <2>2. PICK ok \in BOOLEAN : Report(w, ok)  BY Zenon, <1>11 DEF Check, Compare
  <2> DEFINE R == [run |-> child[w].run, as |-> Name(w), ok |-> ok,
                   exec |-> child[w].exec, status |-> child[w].status]
  <2>3. /\ reports' = reports \cup {R} /\ UNCHANGED <<dir, slot>>
        /\ pc' = [pc EXCEPT ![w] = "lock"]
    BY <2>2 DEF Report, Goto, stream
  <2>4. R.run = slot[w] /\ IsValidTest(slot[w])
    <3>1. IsValidTest(slot[w])  BY Zenon, <2>1 DEF Complete
    <3>2. R.run = slot[w]  BY <2>1
    <3>3. QED  BY <3>1, <3>2
  <2> HIDE DEF R
  <2>5. \A x \in Workers : /\ Holds(x) => x = w \/ Holds(x)'
                           /\ (pc[x] = "fork" \/ Busy(x))'
                                => pc[x] = "fork" \/ Busy(x)
                           /\ pc'[x] = "done" => pc[x] = "done"
    BY <2>3 DEF Holds, Busy, TypeOK
  <2>6. \A t \in Tests : t <= dir'.next /\ IsValidTest(t) =>
            \/ \E r \in reports' : r.run = t
            \/ \E x \in Workers : Holds(x)' /\ slot'[x] = t
    BY <2>3, <2>4, <2>5 DEF Complete
  <2>7. \A x \in Workers : (pc[x] = "fork" \/ Busy(x))' => IsValidTest(slot'[x])
    BY <2>3, <2>4, <2>5 DEF Complete
  <2>8. \A r \in reports' : IsValidTest(r.run)
    BY <2>3, <2>4 DEF Complete
  <2>9. \A x \in Workers : pc'[x] = "done" => dir'.next = dir'.n
    BY <2>3, <2>5 DEF Complete
  <2>10. QED  BY Zenon, <2>6, <2>7, <2>8, <2>9, CompleteGoal
<1>12. QED
  BY <1>1, <1>2, <1>3, <1>4, <1>5, <1>6, <1>7, <1>8, <1>9, <1>10, <1>11
  DEF Worker, Waiter

-----------------------------------------------------------------------------
(* The runner starts in the invariant.                                      *)
LEMMA InitInductive == Init => Inductive
<1> SUFFICES ASSUME Init  PROVE Inductive
  OBVIOUS
<1>1. TypeOK
  <2>1. batch \in Batches /\ batch \in Nat \ {0}  BY BatchesAssumption DEF Init
  <2>2. dir \in [pos : 0..Len(Entries), buf : [1..batch -> Tests],
                 n : 0..batch, next : 0..batch]
    BY <2>1, Counts DEF Init
  <2>3. child \in [Workers -> Children]  BY Counts DEF Init, NoChild, Children
  <2>4. out \in [Tests -> Outputs]  BY DEF Init, Outputs
  <2>5. slot \in [Workers -> 1..batch]  BY <2>1 DEF Init
  <2>6. QED  BY Zenon, <2>1, <2>2, <2>3, <2>4, <2>5 DEF Init, TypeOK, Children
<1>2. \A w \in Workers : Control(w)
  BY WorkersAssumption DEF Init, Control, Busy, NoChild
<1>3. \A w \in Workers : ~Holds(w) /\ pc[w] = "lock"  BY DEF Init, Holds, Busy
<1>4. Handout  BY <1>3 DEF Init, Handout, Fresh, Holds
<1>5. Verdicts  BY DEF Init, Verdicts, NoChild
<1>6. Complete
  BY <1>3 DEF Init, Complete, Holds, Tests
<1>7. QED  BY <1>1, <1>2, <1>4, <1>5, <1>6 DEF Inductive, Init

(* ok is only ever reported with status 0.                                  *)
LEMMA StatusStep ==
  ASSUME \A r \in reports : r.ok => r.status = "zero", NEW w \in Workers,
         Worker(w) \/ Waiter(w) \/ SpuriousWakeup(w) \/ Exit(w) \/ Stray(w)
  PROVE  \A r \in reports' : r.ok => r.status = "zero"
<1>1. CASE Check(w)
  <2> DEFINE ok == child[w].status = "zero" /\ Compare(w)
             R == [run |-> child[w].run, as |-> Name(w), ok |-> ok,
                   exec |-> child[w].exec, status |-> child[w].status]
  <2>1. reports' = reports \cup {R}  BY <1>1 DEF Check, Report
  <2>2. R.ok => R.status = "zero"  BY Zenon
  <2> HIDE DEF R
  <2>3. QED  BY <2>1, <2>2
<1>2. CASE ~Check(w)
  <2>1. UNCHANGED reports
    BY <1>2 DEF Worker, Waiter, Lock, Readdir, Unlock, Valid, Fork, Spawn,
                BeginWait, Timeout, Kill, Join, Reap, Signal, SpuriousWakeup,
                Exit, Stray, history
  <2>2. QED  BY <2>1
<1>3. QED  BY <1>1, <1>2

(* Every step, and every stuttering step, preserves the invariant.          *)
LEMMA NextInductive == Inductive /\ [Next]_vars => Inductive'
<1> SUFFICES ASSUME Inductive, [Next]_vars  PROVE Inductive'
  OBVIOUS
<1>1. CASE Next
  <2>1. PICK w \in Workers :
          Worker(w) \/ Waiter(w) \/ SpuriousWakeup(w) \/ Exit(w) \/ Stray(w)
    BY <1>1 DEF Next
  <2>2. TypeOK /\ \A x \in Workers : Control(x)  BY DEF Inductive
  <2>3. TypeOK'  BY <2>1, <2>2, TypeStep
  <2>4. \A x \in Workers : Control(x)'  BY <2>1, <2>2, ControlStep
  <2>5. (\A r \in reports : r.ok => r.status = "zero")'
    BY <2>1, StatusStep DEF Inductive
  <2>6. UNCHANGED batch
    BY <2>1 DEF Worker, Waiter, Lock, Readdir, Unlock, Valid, Fork, Spawn,
                BeginWait, Timeout, Kill, Join, Check, Report, Reap, Signal,
                SpuriousWakeup, Exit, Stray, stream
  <2>7. Fits' => Fits  BY <2>6 DEF Fits
  <2>8. Fits => Handout' /\ Verdicts' /\ Complete'
    BY <2>1, <2>2, HandoutStep, VerdictsStep, CompleteStep DEF Inductive
  <2>9. QED  BY <2>3, <2>4, <2>5, <2>7, <2>8 DEF Inductive
<1>2. CASE UNCHANGED vars
  <2>1. UNCHANGED <<batch, dir, mutex, slot, pc, child, wpc, out, reports,
                    spurious>>
    BY <1>2 DEF vars, stream, procs, history
  <2>2. TypeOK'  BY <2>1 DEF Inductive, TypeOK
  <2>3. \A w \in Workers : Control(w)'  BY <2>1 DEF Inductive, Control, Busy
  <2>4. Fits' => Handout'
    BY <2>1 DEF Inductive, Fits, Handout, Fresh, Filled, Holds, Busy
  <2>5. Fits' => Verdicts'  BY <2>1 DEF Inductive, Fits, Verdicts, Busy
  <2>6. Fits' => Complete'
    BY <2>1 DEF Inductive, Fits, Complete, Holds, Busy, IsValidTest
  <2>7. QED  BY <2>1, <2>2, <2>3, <2>4, <2>5, <2>6 DEF Inductive
<1>3. QED  BY <1>1, <1>2

(* The invariant holds throughout.                                          *)
LEMMA Invariance == Spec => []Inductive
BY InitInductive, NextInductive, PTL DEF Spec

(* The type invariant of the runner, for any number of threads and any      *)
(* directory.                                                               *)
THEOREM TypeCorrect == Spec => []TypeOK
<1>1. Inductive => TypeOK  BY DEF Inductive
<1>2. QED  BY <1>1, Invariance, PTL

(* thread_run_test runs every test once and reports it under its own name,  *)
(* whenever one refill of the stream brings the whole directory.            *)
THEOREM RunOnceCorrect == Spec => []RunOnce
<1>1. Inductive => RunOnce
  <2> SUFFICES ASSUME Inductive, Fits
               PROVE  /\ \A r \in reports : r.as = r.run
                      /\ \A w \in Workers : Busy(w) =>
                           /\ child[w].run = Name(w)
                           /\ \A r \in reports : r.run # child[w].run
                           /\ \A v \in Workers \ {w} :
                                Busy(v) => child[v].run # child[w].run
    BY DEF RunOnce
  <2>1. TypeOK /\ Handout  BY DEF Inductive
  <2>2. ASSUME NEW w \in Workers, Busy(w)
        PROVE  /\ child[w].run = Name(w)
               /\ \A r \in reports : r.run # child[w].run
               /\ \A v \in Workers \ {w} : Busy(v) => child[v].run # child[w].run
    <3>1. Holds(w) /\ child[w].run = slot[w]  BY <2>1, <2>2 DEF Holds, Handout
    <3>2. Name(w) = slot[w]  BY <2>1, <3>1, HeldFilled
    <3>3. QED  BY <2>1, <2>2, <3>1, <3>2, OwnRun DEF Handout
  <2>3. QED  BY <2>1, <2>2 DEF Handout
<1>2. QED  BY <1>1, Invariance, PTL

(* check_test_artefacts accepts, and the runner prints ok, only for a child *)
(* that ended with status 0; if its exec succeeded and one refill of the    *)
(* stream brings the whole directory, only for right output it wrote.       *)
THEOREM OkCorrect == Spec => []OkIsEarned
<1>1. Inductive => OkIsEarned  BY DEF Inductive, OkIsEarned, Verdicts
<1>2. QED  BY <1>1, Invariance, PTL

(* When the threads have ended, exactly the valid tests have been reported. *)
THEOREM AllReportedCorrect == Spec => []AllReported
<1>1. Inductive => AllReported
  <2> SUFFICES ASSUME Inductive, Fits, Done
               PROVE  {r.run : r \in reports} = {t \in Tests : IsValidTest(t)}
    BY DEF AllReported
  <2>1. TypeOK /\ Handout /\ Complete  BY DEF Inductive
  <2>2. PICK w \in Workers : pc[w] = "done"  BY WorkersAssumption DEF Done
  <2>3. dir.next = Len(Entries)  BY <2>1, <2>2 DEF Handout, Fresh, Filled, Complete
  <2>4. \A x \in Workers : ~Holds(x)  BY DEF Done, Holds, Busy
  <2>5. \A t \in Tests : IsValidTest(t) => \E r \in reports : r.run = t
    BY <2>1, <2>3, <2>4, Counts DEF Complete, Tests
  <2>6. \A r \in reports : r.run \in Tests /\ IsValidTest(r.run)
    BY <2>1 DEF Complete, TypeOK
  <2>7. QED  BY <2>5, <2>6
<1>2. QED  BY <1>1, Invariance, PTL

(* Once check_test_artefacts reads the output of a test, no child writes it *)
(* any more, if one refill of the stream brings the whole directory.        *)
THEOREM SettledCorrect == Spec => OutputSettled
<1>1. Inductive /\ [Next]_vars =>
        [Fits => \A t \in Tests : out'[t] # out[t] =>
           /\ \A w \in Workers : pc[w] = "check" => child[w].run # t
           /\ \A r \in reports : r.run # t]_vars
  <2> SUFFICES ASSUME Inductive, Next, Fits, NEW t \in Tests, out'[t] # out[t]
               PROVE  /\ \A w \in Workers : pc[w] = "check" => child[w].run # t
                      /\ \A r \in reports : r.run # t
    OBVIOUS
  <2>1. TypeOK /\ Handout /\ \A x \in Workers : Control(x)  BY DEF Inductive
  <2>2. PICK v \in Workers : Kill(v) \/ Exit(v)
    BY DEF Next, Worker, Waiter, Lock, Readdir, Unlock, Valid, Fork, Spawn,
           BeginWait, Timeout, Join, Check, Report, Reap, Signal,
           SpuriousWakeup, Stray, procs
  <2>3. child[v].run = t /\ child[v].state \in Alive
    <3>1. out \in [Tests -> Outputs]  BY <2>1 DEF TypeOK
    <3>2. CASE Kill(v)  BY <3>1, <3>2 DEF Kill
    <3>3. CASE Exit(v)  BY <3>1, <3>3 DEF Exit, Alive
    <3>4. QED  BY <2>2, <3>2, <3>3
  <2>4. Busy(v) /\ pc[v] # "check"  BY <2>1, <2>3 DEF Control, Alive
  <2>5. Holds(v) /\ slot[v] = t  BY <2>1, <2>3, <2>4 DEF Holds, Handout
  <2>6. ASSUME NEW w \in Workers, pc[w] = "check"  PROVE child[w].run # t
    <3>1. w # v /\ Busy(w) /\ Holds(w)  BY <2>4, <2>6 DEF Busy, Holds
    <3>2. child[w].run = slot[w] /\ slot[w] # slot[v]
      BY <2>1, <2>5, <3>1 DEF Handout
    <3>3. QED  BY <2>5, <3>2
  <2>7. \A r \in reports : r.run # t  BY <2>1, <2>5 DEF Handout
  <2>8. QED  BY <2>6, <2>7
<1>2. QED  BY <1>1, Invariance, PTL DEF Spec, OutputSettled

=============================================================================
