--------------------------- MODULE Coverage_proofs ---------------------------
(***************************************************************************)
(* Proofs about the coverage table, for any program, any entries and any   *)
(* number of commands and sessions.                                        *)
(***************************************************************************)
EXTENDS Coverage, TLAPS, SequenceTheorems, WellFoundedInduction

Todos == {<<>>, <<"on">>, <<"off">>, <<"on", "off">>, <<"off", "on">>}

\* Where the return addresses are, and where TF is set.
Places ==
  /\ at = Driver => stack # <<>>
  /\ at # Driver => todo = <<>>
  /\ at = Shell => stack = <<>>
  /\ at \in Code => stage \in {"called", "bare"}
  /\ at = Driver => stage = "called"
  /\ at = Shell => stage # "bare"
  /\ Between \/ stage = "bare" => ~tf

\* TF, as long as no network driver was reset.
Tracing ==
  ~reset =>
    /\ at \in Code => (tf <=> stage # "bare")
    /\ at = Shell => (tf <=> stage # "off")
    /\ at = Driver =>
         \/ todo = <<"off", "on">> /\ tf
         \/ todo = <<"on">> /\ ~tf
         \/ todo = <<>> /\ tf
    /\ traced = visits

\* The counters, one by one.
Counters ==
  /\ from \in [1..N -> Nat] /\ to \in [1..N -> Nat]
  /\ visits \in [1..N -> Nat] /\ jumps \in [1..N -> Nat]
  /\ traced \in [1..N -> Nat]
  /\ branches \in [{"from", "to"} -> [1..N -> Nat]]
  /\ commands \in Nat /\ sessions \in Nat

\* Falling through from an instruction is never counted backwards.
Falls == \A i \in Code : Through(i) >= 0

\* As long as no network driver was reset, the table's branches from a
\* conditional jump are the times it was taken between COVERAGE_ON and _OFF.
Jumped ==
  ~reset => \A i \in Code : Kind[i] = "cond" => Sum("from")[i] = jumps[i]

Control ==
  /\ at \in Code \cup {Shell, Driver}
  /\ stage \in {"off", "on", "called", "bare"}
  /\ stack \in Seq(Code)
  /\ todo \in Todos
  /\ tf \in BOOLEAN /\ reset \in BOOLEAN

-----------------------------------------------------------------------------
(* Inc counts at one address.                                             *)
LEMMA IncIs ==
  ASSUME NEW c \in [1..N -> Nat], NEW i \in 1..N, NEW b \in BOOLEAN
  PROVE  Inc(c, i, b) = [j \in 1..N |-> IF b /\ j = i THEN c[j] + 1 ELSE c[j]]
<1>1. CASE b
  <2>1. Inc(c, i, b) = [c EXCEPT ![i] = c[i] + 1]
    BY <1>1 DEF Inc
  <2> QED BY Zenon, <1>1, <2>1
<1>2. CASE ~b
  <2>1. Inc(c, i, b) = [c EXCEPT ![i] = c[i] + 0]
    BY <1>2 DEF Inc
  <2>2. c[i] + 0 = c[i]
    OBVIOUS
  <2> QED BY Zenon, <1>2, <2>1, <2>2
<1> QED BY <1>1, <1>2

(* The places are different, and code lies inside 1..N.                    *)
LEMMA CodeFacts ==
  /\ N \in Nat /\ Tf \in 1..N /\ Tf + 1 \in 1..N
  /\ Code \subseteq 1..N
  /\ Shell \notin Code /\ Driver \notin Code /\ Shell # Driver
  /\ Shell \notin 1..N /\ Driver \notin 1..N
  /\ Tf \notin Code /\ Tf + 1 \notin Code
  BY ProgramAssumption DEF Code, Shell, Driver

(* Counted(c, i, b) is the table Inc(c, i, b), address by address.         *)
Counted(c, i, b) == [j \in 1..N |-> IF b /\ j = i THEN c[j] + 1 ELSE c[j]]

(* Such a table is a table of numbers.                                     *)
LEMMA CountedType ==
  ASSUME NEW c \in [1..N -> Nat], NEW i, NEW b
  PROVE  Counted(c, i, b) \in [1..N -> Nat]
  BY DEF Counted

(* The two ends of a branch, counted only while TF is set.                 *)
LEMMA SigtrapCounts ==
  ASSUME Control, Counters, NEW a \in Int, NEW b \in Int, handle_sigtrap(a, b)
  PROVE  from' = Counted(from, a, tf) /\ to' = Counted(to, b, tf)
<1>0. from \in [1..N -> Nat] /\ to \in [1..N -> Nat] /\ tf \in BOOLEAN
  BY DEF Control, Counters
<1>1. from' = Counted(from, a, tf)
  <2>1. CASE tf /\ a \in 1..N
    <3>1. from' = Inc(from, a, TRUE)
      BY <2>1 DEF handle_sigtrap
    <3>2. Inc(from, a, TRUE) = Counted(from, a, TRUE)
      BY Zenon, <1>0, <2>1, IncIs DEF Counted
    <3> QED BY Zenon, <2>1, <3>1, <3>2, <1>0
  <2>2. CASE ~(tf /\ a \in 1..N)
    <3>1. from' = from
      BY Zenon, <2>2 DEF handle_sigtrap
    <3> QED BY <2>2, <3>1, <1>0 DEF Counted
  <2> QED BY <2>1, <2>2
<1>2. to' = Counted(to, b, tf)
  <2>1. CASE tf /\ b \in 1..N
    <3>1. to' = Inc(to, b, TRUE)
      BY <2>1 DEF handle_sigtrap
    <3>2. Inc(to, b, TRUE) = Counted(to, b, TRUE)
      BY Zenon, <1>0, <2>1, IncIs DEF Counted
    <3> QED BY Zenon, <2>1, <3>1, <3>2, <1>0
  <2>2. CASE ~(tf /\ b \in 1..N)
    <3>1. to' = to
      BY Zenon, <2>2 DEF handle_sigtrap
    <3> QED BY <2>2, <3>1, <1>0 DEF Counted
  <2> QED BY <2>1, <2>2
<1> QED BY <1>1, <1>2

(* An arrival at an instruction.                                           *)
LEMMA ArriveCounts ==
  ASSUME Control, Counters, NEW b \in Code, Arrive(b)
  PROVE  /\ at' = b
         /\ visits' = Counted(visits, b, Covered)
         /\ traced' = Counted(traced, b, tf)
<1>1. b \in 1..N /\ tf \in BOOLEAN /\ Covered \in BOOLEAN
  BY CodeFacts DEF Control, Covered
<1>2. visits \in [1..N -> Nat] /\ traced \in [1..N -> Nat]
  BY DEF Counters
<1>3. at' = b /\ visits' = Inc(visits, b, Covered) /\ traced' = Inc(traced, b, tf)
  BY Zenon DEF Arrive
<1>4. Inc(visits, b, Covered) = Counted(visits, b, Covered)
  BY Zenon, <1>1, <1>2, IncIs DEF Counted
<1>5. Inc(traced, b, tf) = Counted(traced, b, tf)
  BY Zenon, <1>1, <1>2, IncIs DEF Counted
<1> QED BY Zenon, <1>3, <1>4, <1>5

(* Switching TF.                                                           *)
LEMMA SwitchCounts ==
  ASSUME Control, Counters, trace_on \/ trace_off
  PROVE  /\ to' = Counted(to, Tf, tf)
         /\ from' = Counted(from, Tf + 1, tf')
         /\ tf' \in BOOLEAN
<1>0. from \in [1..N -> Nat] /\ to \in [1..N -> Nat] /\ tf \in BOOLEAN
  BY DEF Control, Counters
<1>1. Tf \in 1..N /\ Tf + 1 \in 1..N
  BY CodeFacts
<1>2. Inc(to, Tf, tf) = Counted(to, Tf, tf)
  BY Zenon, <1>0, <1>1, IncIs DEF Counted
<1>3. Inc(from, Tf + 1, TRUE) = Counted(from, Tf + 1, TRUE)
  BY Zenon, <1>0, <1>1, IncIs DEF Counted
<1>4. from = Counted(from, Tf + 1, FALSE)
  BY <1>0 DEF Counted
<1>5. CASE trace_on
  BY Zenon, <1>2, <1>3, <1>5 DEF trace_on, set_eflags_tf
<1>6. CASE trace_off
  BY Zenon, <1>2, <1>4, <1>6 DEF trace_off, set_eflags_tf
<1> QED BY <1>5, <1>6

-----------------------------------------------------------------------------
(* The sums covpreproc forms are numbers.                                  *)
LEMMA SumIs ==
  ASSUME Counters, NEW i \in 1..N
  PROVE  /\ Sum("from")[i] = branches["from"][i] + from[i]
         /\ Sum("to")[i] = branches["to"][i] + to[i]
         /\ Sum("from")[i] \in Nat /\ Sum("to")[i] \in Nat
         /\ traced[i] \in Nat
<1>1. Sum("from")[i] = branches["from"][i] + from[i]
  BY DEF Sum
<1>2. Sum("to")[i] = branches["to"][i] + to[i]
  BY DEF Sum
<1>3. branches["from"] \in [1..N -> Nat] /\ branches["to"] \in [1..N -> Nat]
  BY DEF Counters
<1>4. branches["from"][i] \in Nat /\ branches["to"][i] \in Nat
  BY Zenon, <1>3
<1>5. from[i] \in Nat /\ to[i] \in Nat /\ traced[i] \in Nat
  BY DEF Counters
<1> QED BY <1>1, <1>2, <1>4, <1>5

(* A branch from a to b, one of them possibly outside the kernel, keeps    *)
(* the flow conserved.                                                     *)
LEMMA BranchFlow ==
  ASSUME Control, Counters, Counters', FlowConserved,
         NEW a \in Code \cup {Shell, Driver}, NEW b \in Code \cup {Shell, Driver},
         at = a, at' = b, tf' = tf, branches' = branches,
         from' = Counted(from, a, tf), to' = Counted(to, b, tf),
         traced' = IF b \in Code THEN Counted(traced, b, tf) ELSE traced
  PROVE  FlowConserved' /\ (Falls => Falls')
<1> DEFINE one(x) == IF x THEN 1 ELSE 0
<1>0. tf \in BOOLEAN /\ Code \subseteq 1..N /\ Shell \notin 1..N /\ Driver \notin 1..N
  BY CodeFacts DEF Control
<1>1. \A i \in 1..N : Sum("from")'[i] = Sum("from")[i] + one(tf /\ i = a)
  <2> TAKE i \in 1..N
  <2>1. Sum("from")'[i] = branches["from"][i] + from'[i]
    BY DEF Sum
  <2>2. from'[i] = from[i] + one(tf /\ i = a)
    BY DEF Counted, Counters
  <2>3. Sum("from")[i] = branches["from"][i] + from[i]
    BY SumIs
  <2>4. branches["from"][i] \in Nat /\ from[i] \in Nat
    BY Zenon DEF Counters
  <2> QED BY <2>1, <2>2, <2>3, <2>4
<1>2. \A i \in 1..N : Sum("to")'[i] = Sum("to")[i] + one(tf /\ i = b)
  <2> TAKE i \in 1..N
  <2>1. Sum("to")'[i] = branches["to"][i] + to'[i]
    BY DEF Sum
  <2>2. to'[i] = to[i] + one(tf /\ i = b)
    BY DEF Counted, Counters
  <2>3. Sum("to")[i] = branches["to"][i] + to[i]
    BY SumIs
  <2>4. branches["to"][i] \in Nat /\ to[i] \in Nat
    BY Zenon DEF Counters
  <2> QED BY <2>1, <2>2, <2>3, <2>4
<1>3. \A i \in Code : traced'[i] = traced[i] + one(tf /\ i = b)
  BY SMTT(30), <1>0 DEF Counters, Counted
<1>4. \A i \in Code : Through(i) \in Int /\ Through(i)' = Through(i)
  <2> TAKE i \in Code
  <2>1. i \in 1..N /\ traced[i] \in Nat /\ Sum("from")[i] \in Nat
    BY <1>0, SumIs
  <2>2. /\ Through(i) = traced[i] - Sum("from")[i] - one(a = i /\ tf)
        /\ Through(i)' = traced'[i] - Sum("from")'[i] - one(b = i /\ tf)
    BY DEF Through
  <2>3. /\ traced'[i] = traced[i] + one(tf /\ i = b)
        /\ Sum("from")'[i] = Sum("from")[i] + one(tf /\ i = a)
    BY <1>1, <1>3, <2>1
  <2>4. one(a = i /\ tf) = one(tf /\ i = a) /\ one(b = i /\ tf) = one(tf /\ i = b)
    OBVIOUS
  <2>5. one(tf /\ i = a) \in Nat /\ one(tf /\ i = b) \in Nat
    OBVIOUS
  <2> HIDE DEF one
  <2> QED BY <2>1, <2>2, <2>3, <2>4, <2>5
<1>5. \A i \in Code :
        /\ traced'[i] = Sum("to")'[i] + IF i - 1 \in Code THEN Through(i - 1)'
                                                        ELSE 0
        /\ i + 1 \notin Code => Through(i)' = 0
  <2> TAKE i \in Code
  <2>1. i \in 1..N /\ traced[i] \in Nat /\ Sum("to")[i] \in Nat
    BY <1>0, SumIs
  <2>2. one(tf /\ i = b) \in Nat
    OBVIOUS
  <2> HIDE DEF one
  <2>3. traced[i] = Sum("to")[i] + IF i - 1 \in Code THEN Through(i - 1) ELSE 0
    BY DEF FlowConserved
  <2>4. traced'[i] = Sum("to")'[i] + IF i - 1 \in Code THEN Through(i - 1)'
                                                      ELSE 0
    <3>1. CASE i - 1 \in Code
      BY <1>2, <1>3, <1>4, <2>1, <2>2, <2>3, <3>1
    <3>2. CASE i - 1 \notin Code
      BY <1>2, <1>3, <2>1, <2>2, <2>3, <3>2
    <3> QED BY <3>1, <3>2
  <2>5. i + 1 \notin Code => Through(i)' = 0
    BY <1>4 DEF FlowConserved
  <2> QED BY <2>4, <2>5
<1>6. /\ Tf \in 1..N /\ Tf + 1 \in 1..N /\ a # Tf /\ a # Tf + 1 /\ b # Tf
      /\ b # Tf + 1
  BY CodeFacts
<1>7. /\ Sum("from")'[Tf + 1] = Sum("from")[Tf + 1]
      /\ Sum("from")'[Tf] = Sum("from")[Tf]
      /\ Sum("to")'[Tf + 1] = Sum("to")[Tf + 1]
      /\ Sum("to")'[Tf] = Sum("to")[Tf]
  BY <1>1, <1>2, <1>6, SumIs
<1>8. Falls => Falls'
  BY Zenon, <1>4 DEF Falls
<1> QED BY <1>5, <1>7, <1>8 DEF FlowConserved

(* So does falling through to the next instruction.                        *)
LEMMA FallFlow ==
  ASSUME Control, Counters, Counters', FlowConserved,
         NEW a \in Code, a + 1 \in Code,
         at = a, at' = a + 1, tf' = tf, branches' = branches,
         from' = from, to' = to, traced' = Counted(traced, a + 1, tf)
  PROVE  FlowConserved' /\ (Falls => Falls')
<1> DEFINE one(x) == IF x THEN 1 ELSE 0
<1>0. tf \in BOOLEAN /\ Code \subseteq 1..N
  BY CodeFacts DEF Control
<1>1. Sum("from")' = Sum("from") /\ Sum("to")' = Sum("to")
  BY DEF Sum
<1>2. \A i \in Code : traced'[i] = traced[i] + one(tf /\ i = a + 1)
  <2> TAKE i \in Code
  <2>1. i \in 1..N /\ traced[i] \in Nat
    BY <1>0, SumIs
  <2>2. traced'[i] = IF tf /\ i = a + 1 THEN traced[i] + 1 ELSE traced[i]
    BY <2>1 DEF Counted
  <2> QED BY <2>1, <2>2
<1>3. \A i \in Code :
        Through(i) \in Int /\ Through(i)' = Through(i) + one(tf /\ i = a)
  <2> TAKE i \in Code
  <2>1. i \in 1..N /\ traced[i] \in Nat /\ Sum("from")[i] \in Nat
    BY Zenon, <1>0, SumIs
  <2>2. /\ Through(i) = traced[i] - Sum("from")[i] - one(a = i /\ tf)
        /\ Through(i)' = traced'[i] - Sum("from")[i] - one(a + 1 = i /\ tf)
    BY <1>1 DEF Through
  <2>3. traced'[i] = traced[i] + one(tf /\ i = a + 1)
    BY <1>2
  <2>4. /\ one(a = i /\ tf) = one(tf /\ i = a)
        /\ one(a + 1 = i /\ tf) = one(tf /\ i = a + 1)
    OBVIOUS
  <2>5. one(tf /\ i = a) \in Nat /\ one(tf /\ i = a + 1) \in Nat
    OBVIOUS
  <2> HIDE DEF one
  <2> QED BY <2>1, <2>2, <2>3, <2>4, <2>5
<1>4. \A i \in Code :
        /\ traced'[i] = Sum("to")'[i] + IF i - 1 \in Code THEN Through(i - 1)'
                                                        ELSE 0
        /\ i + 1 \notin Code => Through(i)' = 0
  <2> TAKE i \in Code
  <2>1. i \in 1..N /\ traced[i] \in Nat /\ Sum("to")[i] \in Nat /\ a \in 1..N
    BY <1>0, SumIs
  <2>2. traced[i] = Sum("to")[i] + IF i - 1 \in Code THEN Through(i - 1) ELSE 0
    BY DEF FlowConserved
  <2>3. one(tf /\ i - 1 = a) = one(tf /\ i = a + 1) /\ one(tf /\ i = a + 1) \in Nat
    BY <2>1
  <2>4. i + 1 \notin Code => one(tf /\ i = a) = 0
    OBVIOUS
  <2>5. i - 1 \notin Code => one(tf /\ i = a + 1) = 0
    BY <2>1
  <2> HIDE DEF one
  <2>6. traced'[i] = Sum("to")'[i] + IF i - 1 \in Code THEN Through(i - 1)'
                                                      ELSE 0
    <3>1. CASE i - 1 \in Code
      BY <1>1, <1>2, <1>3, <2>1, <2>2, <2>3, <3>1
    <3>2. CASE i - 1 \notin Code
      BY <1>1, <1>2, <2>1, <2>2, <2>5, <3>2
    <3> QED BY <3>1, <3>2
  <2>7. i + 1 \notin Code => Through(i)' = 0
    BY <1>3, <2>4 DEF FlowConserved
  <2> QED BY <2>6, <2>7
<1>5. Falls => Falls'
  BY <1>3 DEF Falls
<1> QED BY <1>1, <1>4, <1>5 DEF FlowConserved

(* And so does switching TF, outside the kernel.                           *)
LEMMA SwitchFlow ==
  ASSUME Control, Counters, Counters', FlowConserved, at \notin Code,
         at' = at, branches' = branches, traced' = traced, tf' \in BOOLEAN,
         to' = Counted(to, Tf, tf), from' = Counted(from, Tf + 1, tf')
  PROVE  FlowConserved' /\ (Falls => Falls')
<1>0. /\ tf \in BOOLEAN /\ Code \subseteq 1..N
      /\ Tf \in 1..N /\ Tf + 1 \in 1..N /\ Tf \notin Code /\ Tf + 1 \notin Code
  BY CodeFacts DEF Control
<1>1. \A i \in 1..N : i # Tf + 1 => Sum("from")'[i] = Sum("from")[i]
  BY DEF Sum, Counted, Counters
<1>2. \A i \in 1..N : i # Tf => Sum("to")'[i] = Sum("to")[i]
  BY DEF Sum, Counted, Counters
<1>3. Sum("from")'[Tf + 1] = Sum("from")[Tf + 1] + IF tf' THEN 1 ELSE 0
  <2>1. from'[Tf + 1] = from[Tf + 1] + (IF tf' THEN 1 ELSE 0)
    BY <1>0 DEF Counted, Counters
  <2>2. branches["from"][Tf + 1] \in Nat /\ from[Tf + 1] \in Nat
    BY Zenon, <1>0 DEF Counters
  <2>3. /\ Sum("from")'[Tf + 1] = branches["from"][Tf + 1] + from'[Tf + 1]
        /\ Sum("from")[Tf + 1] = branches["from"][Tf + 1] + from[Tf + 1]
    BY <1>0 DEF Sum
  <2> QED BY <2>1, <2>2, <2>3
<1>4. Sum("to")'[Tf] = Sum("to")[Tf] + IF tf THEN 1 ELSE 0
  <2>1. to'[Tf] = to[Tf] + (IF tf THEN 1 ELSE 0)
    BY SMTT(30), <1>0 DEF Counted, Counters
  <2>2. branches["to"][Tf] \in Nat /\ to[Tf] \in Nat
    BY Zenon, <1>0 DEF Counters
  <2>3. /\ Sum("to")'[Tf] = branches["to"][Tf] + to'[Tf]
        /\ Sum("to")[Tf] = branches["to"][Tf] + to[Tf]
    BY <1>0 DEF Sum
  <2> QED BY <2>1, <2>2, <2>3
<1>5. \A i \in Code : Through(i)' = Through(i)
  <2> TAKE i \in Code
  <2>1. Sum("from")'[i] = Sum("from")[i]
    BY <1>0, <1>1
  <2> QED BY <2>1 DEF Through
<1>6. \A i \in Code :
        /\ traced'[i] = Sum("to")'[i] + IF i - 1 \in Code THEN Through(i - 1)'
                                                        ELSE 0
        /\ i + 1 \notin Code => Through(i)' = 0
  <2> TAKE i \in Code
  <2>1. Sum("to")'[i] = Sum("to")[i]
    BY <1>0, <1>2
  <2> QED BY <1>5, <2>1 DEF FlowConserved
<1>7. /\ Sum("from")[Tf + 1] = Sum("to")[Tf] + IF tf THEN 1 ELSE 0
      /\ Sum("from")'[Tf] = 0 /\ Sum("to")'[Tf + 1] = 0
  <2>1. Tf # Tf + 1
    BY <1>0
  <2> QED BY <1>0, <1>1, <1>2, <2>1 DEF FlowConserved
<1>8. Sum("from")'[Tf + 1] = Sum("to")'[Tf] + IF tf' THEN 1 ELSE 0
  BY <1>3, <1>4, <1>7
<1>9. Falls => Falls'
  BY Zenon, <1>5 DEF Falls
<1> QED BY <1>6, <1>7, <1>8, <1>9 DEF FlowConserved

-----------------------------------------------------------------------------
(* A step of the kernel goes to an instruction of the kernel.              *)
LEMMA KernelSteps ==
  ASSUME Control, at \in Code
  PROVE  /\ Kind[at] \in {"plain", "cond", "call", "driver"} => at + 1 \in Code
         /\ Target[at] \in Code
         /\ stack # <<>> => Head(stack) \in Code /\ Tail(stack) \in Seq(Code)
         /\ <<at + 1>> \o stack # <<>>
         /\ at + 1 \in Code => <<at + 1>> \o stack \in Seq(Code)
<1>1. Kind[at] \in {"plain", "cond", "call", "driver"} => at + 1 \in Code
  BY ProgramAssumption
<1>2. Target[at] \in Code
  BY ProgramAssumption
<1>3. stack \in Seq(Code)
  BY DEF Control
<1>4. stack # <<>> => Head(stack) \in Code /\ Tail(stack) \in Seq(Code)
  BY <1>3
<1>5. at + 1 \in Code => <<at + 1>> \o stack \in Seq(Code)
  BY <1>3
<1>6. Len(<<at + 1>> \o stack) = 1 + Len(stack) /\ Len(stack) \in Nat
  BY <1>3
<1>7. <<at + 1>> \o stack # <<>>
  BY <1>6
<1> QED BY <1>1, <1>2, <1>4, <1>5, <1>7

(* What is left of a driver's list.                                        *)
LEMMA TodoTails ==
  /\ Tail(<<"on">>) = <<>> /\ Tail(<<"off">>) = <<>>
  /\ Tail(<<"on", "off">>) = <<"off">> /\ Tail(<<"off", "on">>) = <<"on">>
  /\ Head(<<"on">>) = "on" /\ Head(<<"off">>) = "off"
  /\ Head(<<"on", "off">>) = "on" /\ Head(<<"off", "on">>) = "off"
  OBVIOUS

(* Every step keeps the control state, the places and where TF is set.     *)
LEMMA ControlStep ==
  ASSUME Control, Places, [Next]_vars
  PROVE  Control' /\ Places'
<1> USE DEF Control, Places, Between, Todos
<1>0. Shell \notin Code /\ Driver \notin Code /\ Shell # Driver
  BY CodeFacts
<1>1. CASE CommandOn
  BY <1>0, <1>1 DEF CommandOn, trace_on, set_eflags_tf
<1>2. CASE \E e \in Entries : CallKernel(e)
  BY <1>0, <1>2, ProgramAssumption DEF CallKernel, Arrive
<1>2b. CASE \E e \in Bare : CallBare(e)
  BY <1>0, <1>2b, ProgramAssumption DEF CallBare, Arrive
<1>3. CASE CommandOff
  BY Zenon, <1>0, <1>3 DEF CommandOff, trace_off, set_eflags_tf
<1>4. CASE NewSession
  BY Zenon, <1>0, <1>4 DEF NewSession, control
<1>5. CASE Plain \/ CondTaken \/ CondNotTaken \/ Jump
  <2>1. at \in Code /\ at' \in Code
    BY Zenon, <1>5, KernelSteps DEF Plain, CondTaken, CondNotTaken, Jump, Arrive
  <2>2. UNCHANGED <<stage, stack, todo, tf, reset>>
    BY Zenon, <1>5 DEF Plain, CondTaken, CondNotTaken, Jump, control
  <2> QED BY <1>0, <2>1, <2>2
<1>6. CASE Call
  BY <1>0, <1>6, KernelSteps DEF Call, Arrive
<1>7. CASE Return
  BY <1>0, <1>7, KernelSteps DEF Return, Arrive
<1>8. CASE ReturnToShell
  BY <1>0, <1>8 DEF ReturnToShell, Leave
<1>9. CASE CallDriver
  <2>1. at \in Code /\ at + 1 \in Code /\ at' = Driver
    BY <1>9, KernelSteps DEF CallDriver, Leave
  <2>2. stack' \in Seq(Code) /\ stack' # <<>>
    BY <1>9, <2>1, KernelSteps DEF CallDriver
  <2>3. todo' \in Todos
    BY <1>9 DEF CallDriver, Disks, AdjustCacheSize, Resets
  <2>4. UNCHANGED <<stage, tf>> /\ stage = "called" /\ reset' \in BOOLEAN
    BY <1>9 DEF CallDriver
  <2> QED BY <1>0, <2>1, <2>2, <2>3, <2>4
<1>10. CASE DriverOn
  <2>1. todo' \in Todos
    BY Zenon, <1>10, TodoTails DEF DriverOn
  <2> QED BY <1>0, <1>10, <2>1 DEF DriverOn, trace_on, set_eflags_tf
<1>11. CASE DriverOff
  <2>1. todo' \in Todos
    BY Zenon, <1>11, TodoTails DEF DriverOff
  <2> QED BY Zenon, <1>0, <1>11, <2>1 DEF DriverOff, trace_off, set_eflags_tf
<1>12. CASE DriverReturn
  <2>1. Head(stack) \in Code /\ Tail(stack) \in Seq(Code)
    BY <1>12 DEF DriverReturn
  <2> QED BY <1>0, <1>12, <2>1 DEF DriverReturn, Arrive
<1>13. CASE UNCHANGED vars
  BY <1>13 DEF vars
<1> QED BY <1>1, <1>2, <1>2b, <1>3, <1>4, <1>5, <1>6, <1>7, <1>8, <1>9, <1>10,
           <1>11, <1>12, <1>13 DEF Next

(* Tables are added address by address.                                    *)
LEMMA AddType ==
  ASSUME NEW f \in [1..N -> Nat], NEW g \in [1..N -> Nat]
  PROVE  [i \in 1..N |-> f[i] + g[i]] \in [1..N -> Nat]
  OBVIOUS

(* The counters stay numbers.                                              *)
LEMMA CountersStep ==
  ASSUME Control, Places, Counters, [Next]_vars
  PROVE  Counters'
<1>0. /\ from \in [1..N -> Nat] /\ to \in [1..N -> Nat]
      /\ visits \in [1..N -> Nat] /\ traced \in [1..N -> Nat]
      /\ jumps \in [1..N -> Nat]
  BY DEF Counters
<1>1. ASSUME NEW a \in Int, NEW b \in Int, handle_sigtrap(a, b)
      PROVE  from' \in [1..N -> Nat] /\ to' \in [1..N -> Nat]
  BY <1>0, <1>1, SigtrapCounts, CountedType
<1>2. ASSUME NEW b \in Code, Arrive(b)
      PROVE  visits' \in [1..N -> Nat] /\ traced' \in [1..N -> Nat]
  <2>1. visits' = Counted(visits, b, Covered) /\ traced' = Counted(traced, b, tf)
    BY Zenon, <1>2, ArriveCounts
  <2>2. Counted(visits, b, Covered) \in [1..N -> Nat]
    BY Zenon, <1>0, CountedType
  <2>3. Counted(traced, b, tf) \in [1..N -> Nat]
    BY <1>0, CountedType
  <2> QED BY Zenon, <2>1, <2>2, <2>3
<1>3. ASSUME trace_on \/ trace_off
      PROVE  from' \in [1..N -> Nat] /\ to' \in [1..N -> Nat]
  BY <1>0, <1>3, SwitchCounts, CountedType
<1>4. Code \subseteq Int /\ Code \subseteq 1..N /\ Shell \in Int /\ Driver \in Int
  <2>1. Code \subseteq 1..N /\ N \in Nat
    BY CodeFacts
  <2>2. Shell \in Int /\ Driver \in Int
    BY DEF Shell, Driver
  <2> QED BY <2>1, <2>2
<1>5. CASE CommandOn \/ CommandOff \/ DriverOn \/ DriverOff
  BY <1>3, <1>5 DEF CommandOn, CommandOff, DriverOn, DriverOff, Counters, files
<1>6. CASE \E e \in Entries : CallKernel(e)
  <2> PICK e \in Entries : CallKernel(e)
    BY <1>6
  <2>1. e \in Code /\ handle_sigtrap(Shell, e) /\ Arrive(e)
    BY ProgramAssumption DEF CallKernel
  <2> QED BY <1>1, <1>2, <1>4, <2>1 DEF CallKernel, Counters, files
<1>6b. CASE \E e \in Bare : CallBare(e)
  <2> PICK e \in Bare : CallBare(e)
    BY <1>6b
  <2>1. e \in Code /\ handle_sigtrap(Shell, e) /\ Arrive(e)
    BY ProgramAssumption DEF CallBare
  <2> QED BY <1>1, <1>2, <1>4, <2>1 DEF CallBare, Counters
<1>7. CASE NewSession
  <2>1. branches'["from"] \in [1..N -> Nat] /\ branches'["to"] \in [1..N -> Nat]
    <3>1. branches["from"] \in [1..N -> Nat] /\ branches["to"] \in [1..N -> Nat]
      BY DEF Counters
    <3>2. /\ branches'["from"] = [i \in 1..N |-> branches["from"][i] + from[i]]
          /\ branches'["to"] = [i \in 1..N |-> branches["to"][i] + to[i]]
      BY <1>7 DEF NewSession
    <3>3. [i \in 1..N |-> branches["from"][i] + from[i]] \in [1..N -> Nat]
      BY Zenon, <1>0, <3>1, AddType
    <3>4. [i \in 1..N |-> branches["to"][i] + to[i]] \in [1..N -> Nat]
      BY Zenon, <1>0, <3>1, AddType
    <3> QED BY <3>2, <3>3, <3>4
  <2>2. branches' \in [{"from", "to"} -> [1..N -> Nat]]
    BY <1>7, <2>1 DEF NewSession
  <2> QED BY <1>7, <2>2 DEF NewSession, Counters, Zero
<1>8. CASE Plain \/ CondNotTaken
  <2>1. at \in Code /\ at + 1 \in Code /\ Arrive(at + 1)
    BY <1>8, KernelSteps DEF Plain, CondNotTaken
  <2> QED BY <1>2, <1>8, <2>1 DEF Plain, CondNotTaken, Counters, files
<1>9. CASE CondTaken
  <2>1. /\ at \in Code /\ Target[at] \in Code /\ Arrive(Target[at])
        /\ handle_sigtrap(at, Target[at])
    BY <1>9, KernelSteps DEF CondTaken
  <2>2. jumps' = Counted(jumps, at, Covered)
    <3>1. Covered \in BOOLEAN
      BY DEF Covered
    <3> QED BY Zenon, <1>0, <1>4, <1>9, <2>1, <3>1, IncIs DEF CondTaken, Counted
  <2>3. jumps' \in [1..N -> Nat]
    BY Zenon, <1>0, <2>2, CountedType
  <2> QED BY Zenon, <1>1, <1>2, <1>4, <1>9, <2>1, <2>3 DEF CondTaken, Counters, files
<1>10. CASE Jump \/ Call
  <2>1. /\ at \in Code /\ Target[at] \in Code /\ Arrive(Target[at])
        /\ handle_sigtrap(at, Target[at])
    BY <1>10, KernelSteps DEF Jump, Call
  <2> QED BY Zenon, <1>1, <1>2, <1>4, <1>10, <2>1 DEF Jump, Call, Counters, files
<1>11. CASE Return
  <2>1. /\ at \in Code /\ Head(stack) \in Code /\ Arrive(Head(stack))
        /\ handle_sigtrap(at, Head(stack))
    BY <1>11, KernelSteps DEF Return
  <2> QED BY Zenon, <1>1, <1>2, <1>4, <1>11, <2>1 DEF Return, Counters, files
<1>12. CASE ReturnToShell
  <2>1. at \in Code /\ handle_sigtrap(at, Shell)
    BY <1>12 DEF ReturnToShell
  <2> QED BY <1>1, <1>4, <1>12, <2>1 DEF ReturnToShell, Leave, Counters, files
<1>13. CASE CallDriver
  <2>1. at \in Code /\ handle_sigtrap(at, Driver)
    BY <1>13 DEF CallDriver
  <2> QED BY <1>1, <1>4, <1>13, <2>1 DEF CallDriver, Leave, Counters, files
<1>14. CASE DriverReturn
  <2>1. stack # <<>> /\ stack \in Seq(Code)
    BY <1>14 DEF DriverReturn, Places, Control
  <2>2. /\ Head(stack) \in Code /\ Arrive(Head(stack))
        /\ handle_sigtrap(Driver, Head(stack))
    BY <1>14, <2>1 DEF DriverReturn
  <2> QED BY Zenon, <1>1, <1>2, <1>4, <1>14, <2>2 DEF DriverReturn, Counters, files
<1>15. CASE UNCHANGED vars
  BY <1>15 DEF vars, Counters
<1> QED BY <1>5, <1>6, <1>6b, <1>7, <1>8, <1>9, <1>10, <1>11, <1>12, <1>13,
           <1>14, <1>15 DEF Next

(* Every step keeps the flow conserved.                                    *)
LEMMA FlowStep ==
  ASSUME Control, Places, Counters, FlowConserved, Falls, [Next]_vars
  PROVE  FlowConserved' /\ Falls'
<1>0. Counters'
  BY CountersStep
<1>1. /\ Code \subseteq Int /\ Shell \in Int /\ Driver \in Int
      /\ Shell \notin Code /\ Driver \notin Code
  <2>1. Code \subseteq 1..N /\ N \in Nat /\ Shell \notin Code /\ Driver \notin Code
    BY CodeFacts
  <2>2. Shell \in Int /\ Driver \in Int
    BY DEF Shell, Driver
  <2> QED BY <2>1, <2>2
<1>2. ASSUME NEW a \in Code \cup {Shell, Driver}, NEW b \in Code,
             at = a, handle_sigtrap(a, b), Arrive(b), tf' = tf, branches' = branches
      PROVE  FlowConserved' /\ Falls'
  <2>1. from' = Counted(from, a, tf) /\ to' = Counted(to, b, tf)
    BY <1>1, <1>2, SigtrapCounts
  <2>2. at' = b /\ traced' = Counted(traced, b, tf)
    BY Zenon, <1>2, ArriveCounts
  <2> QED BY <1>0, <1>2, <2>1, <2>2, BranchFlow
<1>3. ASSUME NEW a \in Code, NEW b \in {Shell, Driver},
             at = a, handle_sigtrap(a, b), Leave(b), tf' = tf, branches' = branches
      PROVE  FlowConserved' /\ Falls'
  <2>1. from' = Counted(from, a, tf) /\ to' = Counted(to, b, tf)
    BY <1>1, <1>3, SigtrapCounts
  <2>2. at' = b /\ traced' = traced /\ b \notin Code
    BY <1>1, <1>3 DEF Leave
  <2> QED BY <1>0, <1>3, <2>1, <2>2, BranchFlow
<1>4. CASE CommandOn \/ CommandOff \/ DriverOn \/ DriverOff
  <2>1. /\ trace_on \/ trace_off
        /\ at' = at /\ at \notin Code /\ branches' = branches /\ traced' = traced
    BY <1>1, <1>4 DEF CommandOn, CommandOff, DriverOn, DriverOff, files
  <2>2. /\ to' = Counted(to, Tf, tf) /\ from' = Counted(from, Tf + 1, tf')
        /\ tf' \in BOOLEAN
    BY <2>1, SwitchCounts
  <2> QED BY <1>0, <2>1, <2>2, SwitchFlow
<1>5. CASE \E e \in Entries : CallKernel(e)
  <2> PICK e \in Entries : CallKernel(e)
    BY <1>5
  <2>1. /\ e \in Code /\ at = Shell /\ handle_sigtrap(Shell, e) /\ Arrive(e)
        /\ tf' = tf /\ branches' = branches
    BY ProgramAssumption DEF CallKernel, files
  <2> QED BY <1>2, <2>1
<1>5b. CASE \E e \in Bare : CallBare(e)
  <2> PICK e \in Bare : CallBare(e)
    BY <1>5b
  <2>1. /\ e \in Code /\ at = Shell /\ handle_sigtrap(Shell, e) /\ Arrive(e)
        /\ tf' = tf /\ branches' = branches
    BY ProgramAssumption DEF CallBare
  <2> QED BY <1>2, <2>1
<1>6. CASE NewSession
  <2>1. /\ tf' = FALSE /\ tf = FALSE /\ at' = at /\ traced' = traced
        /\ from' = Zero /\ to' = Zero
    BY <1>6 DEF NewSession, Places, Between, Control
  <2>2. ASSUME NEW i \in 1..N
        PROVE  Sum("from")'[i] = Sum("from")[i] /\ Sum("to")'[i] = Sum("to")[i]
    <3>1. /\ branches'["from"][i] = branches["from"][i] + from[i]
          /\ branches'["to"][i] = branches["to"][i] + to[i]
      BY <1>6, <2>2 DEF NewSession
    <3>2. from'[i] = 0 /\ to'[i] = 0
      BY <2>1, <2>2 DEF Zero
    <3>3. /\ Sum("from")'[i] = branches'["from"][i] + from'[i]
          /\ Sum("to")'[i] = branches'["to"][i] + to'[i]
      BY <2>2 DEF Sum
    <3>4. /\ Sum("from")[i] = branches["from"][i] + from[i]
          /\ Sum("to")[i] = branches["to"][i] + to[i]
          /\ Sum("from")[i] \in Nat /\ Sum("to")[i] \in Nat
      BY <2>2, SumIs
    <3> QED BY <3>1, <3>2, <3>3, <3>4
  <2>3. Code \subseteq 1..N /\ Tf \in 1..N /\ Tf + 1 \in 1..N
    BY CodeFacts
  <2>4. \A i \in Code : Through(i)' = Through(i)
    BY <2>1, <2>2, <2>3 DEF Through
  <2>5. \A i \in Code :
          /\ traced'[i] = Sum("to")'[i] + IF i - 1 \in Code THEN Through(i - 1)'
                                                          ELSE 0
          /\ i + 1 \notin Code => Through(i)' = 0
    BY <2>1, <2>2, <2>3, <2>4 DEF FlowConserved
  <2>6. /\ Sum("from")'[Tf + 1] = Sum("from")[Tf + 1]
        /\ Sum("from")'[Tf] = Sum("from")[Tf]
        /\ Sum("to")'[Tf + 1] = Sum("to")[Tf + 1]
        /\ Sum("to")'[Tf] = Sum("to")[Tf]
    BY <2>2, <2>3
  <2>7. Falls'
    BY Zenon, <2>4 DEF Falls
  <2> QED BY <2>1, <2>5, <2>6, <2>7 DEF FlowConserved
<1>7. CASE Plain \/ CondNotTaken
  <2>1. /\ at \in Code /\ at + 1 \in Code /\ Arrive(at + 1) /\ tf' = tf
        /\ branches' = branches /\ from' = from /\ to' = to
    BY <1>7, KernelSteps DEF Plain, CondNotTaken, files
  <2>2. at' = at + 1 /\ traced' = Counted(traced, at + 1, tf)
    BY Zenon, <2>1, ArriveCounts
  <2> QED BY <1>0, <2>1, <2>2, FallFlow
<1>8. CASE CondTaken \/ Jump \/ Call
  <2>1. /\ at \in Code /\ Target[at] \in Code /\ Arrive(Target[at])
        /\ handle_sigtrap(at, Target[at]) /\ tf' = tf /\ branches' = branches
    BY Zenon, <1>8, KernelSteps DEF CondTaken, Jump, Call, files
  <2> QED BY <1>2, <2>1
<1>9. CASE Return
  <2>1. /\ at \in Code /\ Head(stack) \in Code /\ Arrive(Head(stack))
        /\ handle_sigtrap(at, Head(stack)) /\ tf' = tf /\ branches' = branches
    BY <1>9, KernelSteps DEF Return, files
  <2> QED BY <1>2, <2>1
<1>10. CASE ReturnToShell
  <2>1. /\ at \in Code /\ handle_sigtrap(at, Shell) /\ Leave(Shell)
        /\ tf' = tf /\ branches' = branches
    BY <1>10 DEF ReturnToShell, files
  <2> QED BY <1>3, <2>1
<1>11. CASE CallDriver
  <2>1. /\ at \in Code /\ handle_sigtrap(at, Driver) /\ Leave(Driver)
        /\ tf' = tf /\ branches' = branches
    BY <1>11 DEF CallDriver, files
  <2> QED BY <1>3, <2>1
<1>12. CASE DriverReturn
  <2>1. stack # <<>> /\ stack \in Seq(Code) /\ at = Driver
    BY <1>12 DEF DriverReturn, Places, Control
  <2>2. /\ Head(stack) \in Code /\ Arrive(Head(stack))
        /\ handle_sigtrap(Driver, Head(stack)) /\ tf' = tf /\ branches' = branches
    BY <1>12, <2>1 DEF DriverReturn, files
  <2> QED BY <1>2, <2>1, <2>2
<1>13. CASE UNCHANGED vars
  <2>1. UNCHANGED <<at, tf, from, to, branches, traced>>
    BY <1>13 DEF vars
  <2>2. Sum("from")' = Sum("from") /\ Sum("to")' = Sum("to")
    BY <2>1 DEF Sum
  <2>3. \A i \in Code : Through(i)' = Through(i)
    BY <2>1, <2>2 DEF Through
  <2>4. Falls'
    BY Zenon, <2>3 DEF Falls
  <2> QED BY <2>1, <2>2, <2>3, <2>4 DEF FlowConserved
<1> QED BY <1>4, <1>5, <1>5b, <1>6, <1>7, <1>8, <1>9, <1>10, <1>11, <1>12,
           <1>13 DEF Next

(* As long as no network driver was reset, TF is set in the kernel exactly *)
(* in the calls between COVERAGE_ON and COVERAGE_OFF, and every step keeps *)
(* it so.                                                                  *)
LEMMA TracingStep ==
  ASSUME Control, Places, Counters, Tracing, [Next]_vars
  PROVE  Tracing'
<1> SUFFICES ASSUME ~reset'
             PROVE  Tracing'
  BY DEF Tracing
<1>0. Shell \notin Code /\ Driver \notin Code /\ Shell # Driver
  BY CodeFacts
<1>1. ~reset
  BY Zenon DEF CommandOn, CallKernel, CallBare, CommandOff, NewSession, Plain, CondTaken,
         CondNotTaken, Jump, Call, Return, ReturnToShell, CallDriver, DriverOn,
         DriverOff, DriverReturn, Next, vars, Control
<1>2. /\ at \in Code => (tf <=> stage # "bare")
      /\ at = Shell => (tf <=> stage # "off")
      /\ at = Driver => \/ todo = <<"off", "on">> /\ tf
                        \/ todo = <<"on">> /\ ~tf
                        \/ todo = <<>> /\ tf
      /\ traced = visits
  BY <1>1 DEF Tracing
<1>3. ASSUME NEW b \in Code, Arrive(b), tf <=> Covered, tf <=> stage' # "bare",
             tf' = tf
      PROVE  Tracing'
  <2>1. /\ at' = b /\ visits' = Counted(visits, b, Covered)
        /\ traced' = Counted(traced, b, tf)
    BY Zenon, <1>3, ArriveCounts
  <2>2. traced' = visits'
    <3>1. CASE tf
      BY Zenon, <1>2, <1>3, <2>1, <3>1 DEF Counted
    <3>2. CASE ~tf
      BY Zenon, <1>2, <1>3, <2>1, <3>2 DEF Counted
    <3> QED BY <3>1, <3>2
  <2>3. tf' <=> stage' # "bare"
    BY <1>3
  <2> QED BY Zenon, <1>0, <2>1, <2>2, <2>3 DEF Tracing
<1>4. CASE CommandOn \/ CommandOff
  BY Zenon, <1>0, <1>2, <1>4 DEF CommandOn, CommandOff, trace_on, trace_off,
                              set_eflags_tf, Tracing
<1>5. CASE \E e \in Entries : CallKernel(e)
  <2> PICK e \in Entries : CallKernel(e)
    BY <1>5
  <2>1. e \in Code /\ Arrive(e) /\ tf' = tf
    BY ProgramAssumption DEF CallKernel
  <2>2. tf /\ stage = "on" /\ stage' = "called"
    BY <1>2 DEF CallKernel
  <2> QED BY <1>3, <2>1, <2>2 DEF Covered
<1>5b. CASE \E e \in Bare : CallBare(e)
  <2> PICK e \in Bare : CallBare(e)
    BY <1>5b
  <2>1. e \in Code /\ Arrive(e) /\ tf' = tf
    BY ProgramAssumption DEF CallBare
  <2>2. ~tf /\ stage = "off" /\ stage' = "bare"
    BY <1>2 DEF CallBare
  <2> QED BY <1>3, <2>1, <2>2 DEF Covered
<1>6. CASE NewSession
  BY <1>0, <1>2, <1>6 DEF NewSession, control, Tracing
<1>7. CASE Plain \/ CondTaken \/ CondNotTaken \/ Jump \/ Call \/ Return
  <2>1. at \in Code /\ tf' = tf /\ stage' = stage
    BY Zenon, <1>7 DEF Plain, CondTaken, CondNotTaken, Jump, Call, Return, control
  <2>2. \E b \in Code : Arrive(b)
    BY Zenon, <1>7, <2>1, KernelSteps
       DEF Plain, CondTaken, CondNotTaken, Jump, Call, Return
  <2>3. (tf <=> Covered) /\ (tf <=> stage' # "bare")
    BY <1>2, <2>1 DEF Covered, Places
  <2> QED BY <1>3, <2>1, <2>2, <2>3
<1>8. CASE ReturnToShell
  <2>1. at' = Shell /\ tf' = tf /\ traced' = visits'
    BY <1>2, <1>8 DEF ReturnToShell, Leave
  <2>2. tf <=> stage' # "off"
    BY <1>2, <1>8 DEF ReturnToShell, Places
  <2>3. tf' <=> stage' # "off"
    BY <2>1, <2>2
  <2> QED BY Zenon, <1>0, <2>1, <2>3 DEF Tracing
<1>9. CASE CallDriver
  <2>1. at' = Driver /\ tf /\ tf' = tf /\ traced' = visits'
    BY <1>2, <1>9 DEF CallDriver, Leave
  <2>2. todo' = <<"off", "on">> \/ todo' = <<>>
    BY Zenon, <1>9 DEF CallDriver, Disks, AdjustCacheSize, Resets
  <2> QED BY <1>0, <2>1, <2>2 DEF Tracing
<1>10. CASE DriverOn
  <2>1. /\ at = Driver /\ at' = Driver /\ todo # <<>> /\ Head(todo) = "on"
        /\ todo' = Tail(todo) /\ tf' = TRUE /\ traced' = visits'
    BY <1>2, <1>10 DEF DriverOn, trace_on, set_eflags_tf
  <2>2. todo' = <<>>
    BY Zenon, <1>2, <2>1, TodoTails
  <2> QED BY <1>0, <2>1, <2>2 DEF Tracing
<1>11. CASE DriverOff
  <2>1. /\ at = Driver /\ at' = Driver /\ todo # <<>> /\ Head(todo) = "off"
        /\ todo' = Tail(todo) /\ tf' = FALSE /\ traced' = visits'
    BY <1>2, <1>11 DEF DriverOff, trace_off, set_eflags_tf
  <2>2. todo' = <<"on">>
    BY Zenon, <1>2, <2>1, TodoTails
  <2> QED BY Zenon, <1>0, <2>1, <2>2 DEF Tracing
<1>12. CASE DriverReturn
  <2>1. /\ stack # <<>> /\ stack \in Seq(Code) /\ at = Driver /\ todo = <<>>
        /\ Arrive(Head(stack)) /\ tf' = tf
    BY <1>12 DEF DriverReturn, Places, Control
  <2>2. Head(stack) \in Code
    BY <2>1
  <2>3. <<"on">> # <<>>
    OBVIOUS
  <2>4. tf
    BY <1>2, <2>1, <2>3
  <2>5. stage = "called" /\ stage' = stage
    BY <1>12 DEF DriverReturn, Places
  <2> QED BY <1>3, <2>1, <2>2, <2>4, <2>5 DEF Covered
<1>13. CASE UNCHANGED vars
  BY <1>13 DEF vars, Tracing
<1> QED BY <1>4, <1>5, <1>5b, <1>6, <1>7, <1>8, <1>9, <1>10, <1>11, <1>12,
           <1>13 DEF Next

(* How the sum of the branches from an instruction changes in a step.      *)
LEMMA FromSums ==
  ASSUME Control, Counters, branches' = branches, NEW i \in Code
  PROVE  /\ from' = from => Sum("from")'[i] = Sum("from")[i]
         /\ trace_on \/ trace_off => Sum("from")'[i] = Sum("from")[i]
         /\ \A a, b \in Int :
              handle_sigtrap(a, b) =>
                Sum("from")'[i] = Sum("from")[i] + (IF tf /\ i = a THEN 1 ELSE 0)
<1>0. i \in 1..N /\ i # Tf + 1
  BY CodeFacts
<1>1. Sum("from")'[i] = branches["from"][i] + from'[i]
  BY <1>0 DEF Sum
<1>2. Sum("from")[i] = branches["from"][i] + from[i]
  BY <1>0, SumIs
<1>3. branches["from"][i] \in Nat /\ from[i] \in Nat
  BY Zenon, <1>0 DEF Counters
<1>4. trace_on \/ trace_off => from'[i] = from[i]
  BY Zenon, <1>0, SwitchCounts DEF Counted
<1>5. ASSUME NEW a \in Int, NEW b \in Int, handle_sigtrap(a, b)
      PROVE  Sum("from")'[i] = Sum("from")[i] + (IF tf /\ i = a THEN 1 ELSE 0)
  <2>1. from' = Counted(from, a, tf)
    BY <1>5, SigtrapCounts
  <2>2. from'[i] = IF tf /\ i = a THEN from[i] + 1 ELSE from[i]
    BY Zenon, <1>0, <2>1 DEF Counted
  <2> QED BY <1>1, <1>2, <1>3, <2>2
<1> QED BY <1>1, <1>2, <1>4, <1>5

(* Only the taking of a conditional jump adds to the branches from it, and *)
(* it does so in the calls between COVERAGE_ON and COVERAGE_OFF.           *)
LEMMA JumpedStep ==
  ASSUME Control, Places, Counters, Tracing, Jumped, [Next]_vars
  PROVE  Jumped'
<1> SUFFICES ASSUME ~reset', NEW i \in Code, Kind[i] = "cond"
             PROVE  Sum("from")'[i] = jumps'[i]
  BY DEF Jumped
<1>0. /\ i \in Int /\ Code \subseteq Int /\ Shell \in Int /\ Driver \in Int
      /\ i # Shell /\ i # Driver /\ i \in 1..N
  <2>1. Code \subseteq 1..N /\ N \in Nat /\ Shell \notin Code /\ Driver \notin Code
    BY CodeFacts
  <2>2. Shell \in Int /\ Driver \in Int
    BY DEF Shell, Driver
  <2> QED BY <2>1, <2>2
<1>1. ~reset
  BY Zenon DEF CommandOn, CallKernel, CallBare, CommandOff, NewSession, Plain, CondTaken,
         CondNotTaken, Jump, Call, Return, ReturnToShell, CallDriver, DriverOn,
         DriverOff, DriverReturn, Next, vars, Control
<1>2. Sum("from")[i] = jumps[i] /\ jumps \in [1..N -> Nat]
  BY Zenon, <1>1 DEF Jumped, Counters
<1>3. ASSUME NEW a \in Int, NEW b \in Int, handle_sigtrap(a, b), a # i,
             branches' = branches, jumps' = jumps
      PROVE  Sum("from")'[i] = jumps'[i]
  <2>1. Sum("from")'[i] = Sum("from")[i] + (IF tf /\ i = a THEN 1 ELSE 0)
    BY Zenon, <1>3, FromSums
  <2> QED BY <1>0, <1>2, <1>3, <2>1
<1>4. CASE CommandOn \/ CommandOff \/ DriverOn \/ DriverOff
  <2>1. (trace_on \/ trace_off) /\ branches' = branches /\ jumps' = jumps
    BY Zenon, <1>4 DEF CommandOn, CommandOff, DriverOn, DriverOff, files
  <2> QED BY Zenon, <1>2, <2>1, FromSums
<1>5. CASE \E e \in Entries : CallKernel(e)
  <2> PICK e \in Entries : CallKernel(e)
    BY <1>5
  <2>1. /\ e \in Code /\ handle_sigtrap(Shell, e)
        /\ branches' = branches /\ jumps' = jumps
    BY ProgramAssumption DEF CallKernel, files
  <2> QED BY <1>0, <1>3, <2>1
<1>5b. CASE \E e \in Bare : CallBare(e)
  <2> PICK e \in Bare : CallBare(e)
    BY <1>5b
  <2>1. /\ e \in Code /\ handle_sigtrap(Shell, e)
        /\ branches' = branches /\ jumps' = jumps
    BY ProgramAssumption DEF CallBare
  <2> QED BY <1>0, <1>3, <2>1
<1>6. CASE NewSession
  <2>1. /\ branches'["from"][i] = branches["from"][i] + from[i]
        /\ from'[i] = 0 /\ jumps' = jumps
    BY <1>0, <1>6 DEF NewSession, Zero
  <2>2. Sum("from")'[i] = branches'["from"][i] + from'[i]
    BY <1>0 DEF Sum
  <2>3. Sum("from")[i] = branches["from"][i] + from[i] /\ Sum("from")[i] \in Nat
    BY <1>0, SumIs
  <2> QED BY <1>2, <2>1, <2>2, <2>3
<1>7. CASE Plain \/ CondNotTaken
  <2>1. from' = from /\ branches' = branches /\ jumps' = jumps
    BY <1>7 DEF Plain, CondNotTaken, files
  <2> QED BY Zenon, <1>2, <2>1, FromSums
<1>8. CASE CondTaken
  <2>1. /\ at \in Code /\ Target[at] \in Code /\ handle_sigtrap(at, Target[at])
        /\ branches' = branches /\ jumps' = Inc(jumps, at, Covered)
    BY <1>8, KernelSteps DEF CondTaken, files
  <2>2. (tf <=> Covered) /\ Covered \in BOOLEAN
    BY <1>1, <2>1 DEF Tracing, Places, Covered
  <2>3. Sum("from")'[i] = Sum("from")[i] + (IF tf /\ i = at THEN 1 ELSE 0)
    BY Zenon, <1>0, <2>1, FromSums
  <2>4. at \in 1..N
    BY <2>1, CodeFacts
  <2>5. jumps' = [j \in 1..N |-> IF Covered /\ j = at THEN jumps[j] + 1 ELSE jumps[j]]
    BY Zenon, <1>2, <2>1, <2>2, <2>4, IncIs
  <2>6. jumps'[i] = jumps[i] + (IF Covered /\ i = at THEN 1 ELSE 0)
    BY <1>0, <1>2, <2>5
  <2> QED BY <1>2, <2>2, <2>3, <2>6
<1>9. CASE Jump \/ Call
  <2>1. /\ at \in Code /\ at # i /\ Target[at] \in Code
        /\ handle_sigtrap(at, Target[at]) /\ branches' = branches /\ jumps' = jumps
    BY <1>9, KernelSteps DEF Jump, Call, files
  <2> QED BY Zenon, <1>0, <1>3, <2>1
<1>10. CASE Return
  <2>1. /\ at \in Code /\ at # i /\ Head(stack) \in Code
        /\ handle_sigtrap(at, Head(stack)) /\ branches' = branches /\ jumps' = jumps
    BY <1>10, KernelSteps DEF Return, files
  <2> QED BY Zenon, <1>0, <1>3, <2>1
<1>11. CASE ReturnToShell \/ CallDriver
  <2>1. /\ at \in Code /\ at # i /\ branches' = branches /\ jumps' = jumps
        /\ handle_sigtrap(at, Shell) \/ handle_sigtrap(at, Driver)
    BY <1>11 DEF ReturnToShell, CallDriver, files
  <2> QED BY Zenon, <1>0, <1>3, <2>1
<1>12. CASE DriverReturn
  <2>1. stack # <<>> /\ stack \in Seq(Code)
    BY <1>12 DEF DriverReturn, Places, Control
  <2>2. /\ Head(stack) \in Code /\ handle_sigtrap(Driver, Head(stack))
        /\ branches' = branches /\ jumps' = jumps
    BY <1>12, <2>1 DEF DriverReturn, files
  <2> QED BY Zenon, <1>0, <1>3, <2>2
<1>13. CASE UNCHANGED vars
  <2>1. from' = from /\ branches' = branches /\ jumps' = jumps
    BY <1>13 DEF vars
  <2> QED BY Zenon, <1>2, <2>1, FromSums
<1> QED BY <1>4, <1>5, <1>5b, <1>6, <1>7, <1>8, <1>9, <1>10, <1>11, <1>12,
           <1>13 DEF Next

-----------------------------------------------------------------------------
Inductive ==
  Control /\ Places /\ Counters /\ Tracing /\ FlowConserved /\ Falls /\ Jumped

(* A session starts with an empty table and TF clear.                      *)
LEMMA InitInductive == Init => Inductive
<1> SUFFICES ASSUME Init PROVE Inductive
  OBVIOUS
<1>0. Shell \notin Code /\ Driver \notin Code /\ Shell # Driver /\ Code \subseteq 1..N
      /\ Tf \in 1..N /\ Tf + 1 \in 1..N
  BY CodeFacts
<1>1. Control /\ Places /\ Tracing
  <2>1. stack \in Seq(Code) /\ stack = <<>> /\ todo = <<>>
    BY DEF Init
  <2>2. at = Shell /\ stage = "off" /\ tf = FALSE /\ reset = FALSE /\ traced = visits
    BY DEF Init
  <2> QED BY Zenon, <1>0, <2>1, <2>2 DEF Control, Places, Tracing, Todos, Between
<1>2. Zero \in [1..N -> Nat]
  BY DEF Zero
<1>3. Counters
  <2>1. branches \in [{"from", "to"} -> [1..N -> Nat]]
    BY <1>2 DEF Init
  <2> QED BY <1>2, <2>1 DEF Init, Counters
<1>4. \A i \in 1..N : Sum("from")[i] = 0 /\ Sum("to")[i] = 0 /\ traced[i] = 0
  <2> TAKE i \in 1..N
  <2>1. /\ Sum("from")[i] = branches["from"][i] + from[i]
        /\ Sum("to")[i] = branches["to"][i] + to[i]
    BY <1>3, SumIs
  <2>2. branches["from"] = Zero /\ branches["to"] = Zero
    BY DEF Init
  <2>3. from[i] = 0 /\ to[i] = 0 /\ traced[i] = 0 /\ Zero[i] = 0
    BY DEF Init, Zero
  <2> QED BY <2>1, <2>2, <2>3
<1>5. ~tf
  BY DEF Init
<1>6. \A i \in Code : Through(i) = 0
  BY <1>0, <1>4, <1>5 DEF Through
<1>7. FlowConserved
  BY <1>0, <1>4, <1>5, <1>6 DEF FlowConserved
<1>8. Falls
  BY <1>6 DEF Falls
<1>9. Jumped
  BY <1>0, <1>4 DEF Jumped, Init, Zero
<1> QED BY <1>1, <1>3, <1>7, <1>8, <1>9 DEF Inductive

(* Every step keeps the invariant.                                         *)
LEMMA NextInductive == Inductive /\ [Next]_vars => Inductive'
<1> SUFFICES ASSUME Control, Places, Counters, Tracing, FlowConserved, Falls,
                    Jumped, [Next]_vars
             PROVE  Inductive'
  BY DEF Inductive
<1>1. Control' /\ Places'
  BY ControlStep
<1>2. Counters'
  BY CountersStep
<1>3. Tracing'
  BY TracingStep
<1>4. FlowConserved' /\ Falls'
  BY FlowStep
<1>5. Jumped'
  BY JumpedStep
<1> QED BY <1>1, <1>2, <1>3, <1>4, <1>5 DEF Inductive

(* The counters, the return addresses and the drivers' lists keep their    *)
(* types in every session of every program (trace_lbr.c:70-89).            *)
THEOREM TypeCorrect == Spec => []TypeOK
<1>1. Inductive => TypeOK
  BY DEF Inductive, Control, Counters, TypeOK, Todos
<1> QED BY <1>1, InitInductive, NextInductive, PTL DEF Spec

(* For every program the table of branch ends accounts for the traced flow *)
(* of control, across sessions and whatever the drivers do with TF         *)
(* (trace_lbr.c:70-89, umka.asm:628-641).                                  *)
THEOREM FlowCorrect == Spec => []FlowConserved
<1>1. Inductive => FlowConserved
  BY DEF Inductive
<1> QED BY <1>1, InitInductive, NextInductive, PTL DEF Spec

(* For every program, as long as no network driver was reset or unloaded,  *)
(* kernel code is executed with TF set exactly in the calls made between   *)
(* COVERAGE_ON and COVERAGE_OFF; the shell's own code between commands     *)
(* never is (trace.h:12, shell.c:927, vnet/null.c:26-29).                  *)
THEOREM TracedCorrect == Spec => []KernelTraced
<1>1. Inductive => KernelTraced
  BY DEF Inductive, Places, Tracing, KernelTraced
<1> QED BY <1>1, InitInductive, NextInductive, PTL DEF Spec

-----------------------------------------------------------------------------
(* A nonempty set of numbers has a least one.                              *)
LEMMA Least ==
  ASSUME NEW T, T \subseteq Nat, T # {}
  PROVE  \E m \in T : \A n \in T : m <= n
<1> DEFINE R == OpToRel(<, Nat)
<1>1. IsWellFoundedOn(R, Nat)
  BY Zenon, NatLessThanWellFounded
<1> HIDE DEF R
<1>2. PICK m \in T : \A n \in T : ~(<<n, m>> \in R)
  BY Zenon, <1>1, WFMin
<1>3. \A n \in T : n < m => <<n, m>> \in R
  BY <1>2 DEF R, OpToRel
<1>4. m \in Nat /\ \A n \in T : n \in Nat /\ ~(n < m)
  BY Zenon, <1>2, <1>3
<1> QED BY <1>4

\* What cur should be: the traced executions of an instruction, and for the
\* two halves of set_eflags_tf the calls of it.
Executed == [i \in 0..N |-> IF i \in Code THEN traced[i]
                            ELSE IF i = 0 THEN 0 ELSE Sum("to")[Tf]]

\* The value at i that the value c at i - 1 leads to.
Line(i, c) ==
  IF i = 0 THEN 0
  ELSE c - (IF i = 1 THEN 0 ELSE Sum("from")[i - 1]) + Sum("to")[i]

(* Between two commands the executions satisfy the equation of cur.        *)
LEMMA ExecutedIs ==
  ASSUME Inductive, Between, NEW i \in 1..N
  PROVE  /\ Executed[0] = 0
         /\ Executed[i] \in Int
         /\ Executed[i] = Line(i, Executed[i - 1])
<1> USE DEF Inductive
<1>0. /\ N \in Nat /\ Code \subseteq 1..N /\ 0 \notin Code /\ i \in Int
      /\ Tf \in 1..N /\ Tf + 1 \in 1..N /\ Code = (1..N) \ {Tf, Tf + 1}
  <2>1. N \in Nat /\ Tf \in 1..N /\ Tf + 1 \in 1..N
    BY CodeFacts
  <2> QED BY <2>1 DEF Code
<1>1. ~tf /\ at \notin Code
  BY CodeFacts DEF Between, Places
<1>2. \A j \in 1..N : Sum("from")[j] \in Nat /\ Sum("to")[j] \in Nat /\ traced[j] \in Nat
  BY Zenon, SumIs
<1>3. \A j \in Code : Through(j) = traced[j] - Sum("from")[j]
  BY <1>0, <1>1, <1>2 DEF Through
<1>4. /\ \A j \in Code : j + 1 \notin Code => Through(j) = 0
      /\ Sum("from")[Tf + 1] = Sum("to")[Tf]
      /\ Sum("from")[Tf] = 0 /\ Sum("to")[Tf + 1] = 0
  BY <1>0, <1>1, <1>2 DEF FlowConserved
<1>5. Executed[0] = 0 /\ Executed[i] = IF i \in Code THEN traced[i] ELSE Sum("to")[Tf]
  BY <1>0 DEF Executed
<1>6. i # 1 => Executed[i - 1] = IF i - 1 \in Code THEN traced[i - 1] ELSE Sum("to")[Tf]
  BY <1>0 DEF Executed
<1>7. CASE i \in Code
  <2>1. traced[i] = Sum("to")[i] + IF i - 1 \in Code THEN Through(i - 1) ELSE 0
    BY <1>7 DEF FlowConserved
  <2>2. CASE i - 1 \in Code
    BY <1>0, <1>2, <1>3, <1>5, <1>6, <1>7, <2>1, <2>2 DEF Line
  <2>3. CASE i - 1 \notin Code
    <3>1. i = 1 \/ i - 1 = Tf + 1
      BY <1>0, <1>7, <2>3
    <3> QED BY <1>0, <1>2, <1>4, <1>5, <1>6, <1>7, <2>1, <2>3, <3>1 DEF Line
  <2> QED BY <2>2, <2>3
<1>8. CASE i = Tf
  <2>1. CASE i = 1
    BY <1>0, <1>2, <1>5, <1>8, <2>1 DEF Line
  <2>2. CASE i # 1
    <3>1. i - 1 \in Code /\ (i - 1) + 1 \notin Code
      BY <1>0, <1>8, <2>2
    <3>2. traced[i - 1] = Sum("from")[i - 1]
      BY <1>0, <1>2, <1>3, <1>4, <3>1
    <3> QED BY <1>0, <1>2, <1>5, <1>6, <1>8, <2>2, <3>1, <3>2 DEF Line
  <2> QED BY <2>1, <2>2
<1>9. CASE i = Tf + 1
  <2>1. i - 1 = Tf /\ i # 1 /\ i \notin Code /\ Tf \notin Code
    BY <1>0, <1>9
  <2> QED BY <1>0, <1>2, <1>4, <1>5, <1>6, <1>9, <2>1 DEF Line
<1> QED BY <1>0, <1>7, <1>8, <1>9

(* Between two commands cur, which covpreproc computes from the branches   *)
(* alone, is the executions: any other solution of its equation would have *)
(* a first address at which it differs.                                    *)
LEMMA CurIs ==
  ASSUME Inductive, Between
  PROVE  cur = Executed
<1> DEFINE Solves(f) == f = [i \in 0..N |-> Line(i, f[i - 1])]
<1>0. N \in Nat
  BY CodeFacts
<1>1. Solves(Executed)
  <2>1. \A i \in 0..N : Executed[i] = Line(i, Executed[i - 1])
    <3> TAKE i \in 0..N
    <3>1. CASE i = 0
      BY <1>0, <3>1 DEF Line, Executed, Code
    <3>2. CASE i # 0
      BY <1>0, <3>2, ExecutedIs
    <3> QED BY <3>1, <3>2
  <2> QED BY Zenon, <2>1 DEF Executed
<1>2. cur = CHOOSE f : Solves(f)
  BY DEF cur, Line
<1>3. Solves(cur)
  <2> HIDE DEF Solves
  <2> QED BY <1>1, <1>2
<1>4. ASSUME NEW k \in 0..N, cur[k] # Executed[k]
      PROVE  FALSE
  <2> DEFINE T == {i \in 0..N : cur[i] # Executed[i]}
  <2>1. T \subseteq Nat /\ T # {}
    BY <1>0, <1>4
  <2>2. PICK m \in T : \A n \in T : m <= n
    BY Zenon, <2>1, Least
  <2>3. m \in 0..N /\ cur[m] # Executed[m]
    BY <2>2
  <2>4. CASE m = 0
    BY <1>0, <1>1, <1>3, <2>3, <2>4 DEF Line
  <2>5. CASE m # 0
    <3>1. m - 1 \in 0..N /\ m - 1 \notin T
      BY <1>0, <2>2, <2>3, <2>5
    <3>2. cur[m - 1] = Executed[m - 1]
      BY <3>1
    <3> QED BY Zenon, <1>1, <1>3, <2>3, <3>2
  <2> QED BY <2>4, <2>5
<1>5. DOMAIN cur = 0..N /\ DOMAIN Executed = 0..N
  BY <1>3 DEF Executed
<1> QED BY <1>1, <1>3, <1>4, <1>5

(* For every program the report covpreproc makes between two commands is   *)
(* right: its count of an instruction is the times it was executed with TF *)
(* set; as long as no network driver was reset or unloaded, a conditional  *)
(* jump executed between COVERAGE_ON and COVERAGE_OFF is told apart into   *)
(* taken and not taken (tools/covpreproc.c:126-153).                       *)
THEOREM CountsCorrect == Spec => []CountsRight
<1>1. Inductive => CountsRight
  <2> SUFFICES ASSUME Inductive, Between, NEW i \in Code
               PROVE  /\ cur[i] = traced[i]
                      /\ Kind[i] = "cond" => taken(i) >= 0 /\ not_taken(i) >= 0
                      /\ Kind[i] = "cond" /\ ~reset =>
                           taken(i) = jumps[i] /\ not_taken(i) = visits[i] - jumps[i]
    BY DEF CountsRight
  <2> USE DEF Inductive
  <2>0. i \in 1..N /\ i \in 0..N
    BY CodeFacts
  <2>1. cur[i] = traced[i]
    BY <2>0, CurIs DEF Executed
  <2>2. Sum("from")[i] \in Nat /\ traced[i] \in Nat
    BY <2>0, SumIs
  <2>3. Through(i) >= 0 /\ Through(i) = traced[i] - Sum("from")[i]
    <3>1. at # i
      BY CodeFacts DEF Between
    <3> QED BY <2>2, <3>1 DEF Falls, Through
  <2>4. Kind[i] = "cond" => taken(i) >= 0 /\ not_taken(i) >= 0
    BY <2>1, <2>2, <2>3 DEF taken, not_taken
  <2>5. Kind[i] = "cond" /\ ~reset => Sum("from")[i] = jumps[i] /\ traced = visits
    BY DEF Jumped, Tracing
  <2> QED BY <2>1, <2>4, <2>5 DEF taken, not_taken
<1> QED BY <1>1, InitInductive, NextInductive, PTL DEF Spec

=============================================================================
