---------------------------- MODULE Shell_proofs ----------------------------
(***************************************************************************)
(* Proofs about the shell: its variables (ShellVars) and a session on a    *)
(* script (ShellSession, with the handlers of ShellCommands).              *)
(*                                                                         *)
(* Variables, for any names and values and lists of any length: that $name *)
(* stands for the value most recently named so rests on two facts kept by  *)
(* every command: only the head may be unnamed, and the walk of            *)
(* shell_var_get, which starts at the head, has a first match whenever it  *)
(* has one.                                                                *)
(*                                                                         *)
(* Sessions, for any script, any directories and any size of argv: which   *)
(* words a handler meets rests on the table of the handlers, looked at row *)
(* by row, and on what split_args leaves in argv; what handlers give back, *)
(* on the paths of each row, which come down to some twenty; what the      *)
(* prompt shows, on the shell's copy of the directory following the        *)
(* kernel's.                                                               *)
(***************************************************************************)
EXTENDS ShellVars, ShellSession, TLAPS

\* i is where shell_var_get stops when it looks for n.
Newest(n, i) == i \in Matches(n) /\ \A j \in Matches(n) : j <= i

Found == \A n \in Names : Matches(n) # {} => \E i \in Matches(n) : Newest(n, i)

VarsInv == VarsTypeOK /\ OnlyHeadUnnamed /\ Found

New(t, v) == [type |-> t, name |-> Unnamed, value |-> v]

-----------------------------------------------------------------------------
(* What shell_var_add leaves: the new value at the head, unnamed, and every  *)
(* named entry where it was.                                                 *)
LEMMA AddedShape ==
  ASSUME VarsInv, NEW t \in Types, NEW v \in Values
  PROVE  /\ Added(t, v) \in Seq(Entry)
         /\ Len(Added(t, v)) = IF HeadTaken THEN Len(list) + 1 ELSE Len(list)
         /\ Len(Added(t, v)) > 0
         /\ Added(t, v)[Len(Added(t, v))] = New(t, v)
         /\ \A i \in 1..(Len(Added(t, v)) - 1) :
              i \in 1..Len(list) /\ Added(t, v)[i] = list[i]
<1>1. New(t, v) \in Entry
  BY DEF New, Entry
<1>2. list \in Seq(Entry) /\ Len(list) \in Nat
  BY DEF VarsInv, VarsTypeOK
<1>3. CASE HeadTaken
  BY <1>1, <1>2, <1>3 DEF Added, New
<1>4. CASE ~HeadTaken
  <2>1. Len(list) \in 1..Len(list)
    BY <1>2, <1>4 DEF HeadTaken
  <2> QED
    BY <1>1, <1>2, <1>4, <2>1 DEF Added, New
<1> QED
  BY <1>3, <1>4

(* What "var $name" leaves when there is a value to name.                    *)
LEMMA NamedShape ==
  ASSUME VarsInv, ~HeadTaken, NEW n \in Names,
         NEW l, l = [list EXCEPT ![Len(list)].name = n]
  PROVE  /\ l \in Seq(Entry) /\ Len(l) = Len(list) /\ Len(list) \in 1..Len(list)
         /\ l[Len(list)].name = n /\ l[Len(list)].value = list[Len(list)].value
         /\ \A i \in 1..(Len(list) - 1) : l[i] = list[i]
<1>1. list \in Seq(Entry) /\ Len(list) \in Nat
  BY DEF VarsInv, VarsTypeOK
<1>2. Len(list) \in 1..Len(list)
  BY <1>1 DEF HeadTaken
<1>3. list[Len(list)] \in Entry
  BY <1>1, <1>2
<1>4. [list[Len(list)] EXCEPT !.name = n] \in Entry
  BY <1>3 DEF Entry
<1> QED
  BY <1>1, <1>2, <1>3, <1>4 DEF Entry

(* Adding a value hides no named one and moves none.                         *)
LEMMA AddedMatches ==
  ASSUME VarsInv, NEW t \in Types, NEW v \in Values, list' = Added(t, v),
         NEW n \in Names
  PROVE  Matches(n)' = Matches(n) /\ \A i \in Matches(n) : list'[i] = list[i]
<1>1. list \in Seq(Entry) /\ Len(list) \in Nat
  BY DEF VarsInv, VarsTypeOK
<1>2. list'[Len(list')].name \notin Names
  <2>1. list'[Len(list')] = New(t, v)
    BY AddedShape
  <2>2. New(t, v).name = Unnamed
    BY DEF New
  <2> QED
    BY <2>1, <2>2, NamesAssumption
<1>3. ASSUME NEW i \in Matches(n)
      PROVE  i \in 1..(Len(list') - 1)
  <2>1. i \in 1..Len(list) /\ list[i].name # Unnamed
    BY <1>3, NamesAssumption DEF Matches
  <2>2. CASE HeadTaken
    BY <1>1, <2>1, <2>2, AddedShape
  <2>3. CASE ~HeadTaken
    <3>1. i # Len(list)
      BY <2>1, <2>3 DEF HeadTaken
    <3> QED
      BY <1>1, <2>1, <2>3, <3>1, AddedShape
  <2> QED
    BY <2>2, <2>3
<1>4. Len(list') \in Nat /\ \A i \in 1..(Len(list') - 1) : i \in 1..Len(list) /\ list'[i] = list[i]
  BY <1>1, AddedShape
<1>5. ASSUME NEW i \in Matches(n)'
      PROVE  i \in Matches(n)
  <2>1. i \in 1..Len(list') /\ i # Len(list')
    BY <1>2, <1>5 DEF Matches
  <2>2. i \in 1..(Len(list') - 1)
    BY <1>4, <2>1
  <2> QED
    BY <1>4, <1>5, <2>2 DEF Matches
<1>6. ASSUME NEW i \in Matches(n)
      PROVE  i \in Matches(n)' /\ list'[i] = list[i]
  <2>1. i \in 1..Len(list') /\ list'[i] = list[i]
    BY <1>3, <1>4
  <2> QED
    BY <2>1 DEF Matches
<1> QED
  BY <1>5, <1>6

(* Naming the head makes it a match of its name and of no other.             *)
LEMMA NamedMatches ==
  ASSUME VarsInv, ~HeadTaken, NEW n \in Names, NEW m \in Names,
         list' = [list EXCEPT ![Len(list)].name = n]
  PROVE  /\ Matches(m)' = IF m = n THEN Matches(m) \cup {Len(list)} ELSE Matches(m)
         /\ \A i \in Matches(m) : list'[i] = list[i]
<1>1. list \in Seq(Entry) /\ Len(list) \in Nat
  BY DEF VarsInv, VarsTypeOK
<1>2. /\ Len(list') = Len(list) /\ Len(list) \in 1..Len(list)
      /\ list'[Len(list)].name = n
      /\ \A i \in 1..(Len(list) - 1) : list'[i] = list[i]
  BY NamedShape
<1>3. Len(list) \notin Matches(m)
  BY NamesAssumption DEF HeadTaken, Matches
<1>4. \A i \in 1..Len(list) : i # Len(list) => list'[i] = list[i]
  BY <1>1, <1>2
<1> QED
  BY <1>2, <1>3, <1>4 DEF Matches

(* Every command keeps the shape of the list.                                *)
LEMMA InvStep == VarsInv /\ [VarsNext]_shell_vars => VarsInv'
<1> SUFFICES ASSUME VarsInv, [VarsNext]_shell_vars
             PROVE  VarsInv'
  OBVIOUS
<1>0. list \in Seq(Entry) /\ Len(list) \in Nat /\ arg \in Values
  BY DEF VarsInv, VarsTypeOK
<1>1. ASSUME NEW n \in Names
      PROVE  Parsed(n) \subseteq Values
  <2>1. ASSUME Get(n) # 0
        PROVE  list[Get(n)] \in Entry
    <3>1. Matches(n) # {}
      BY <2>1 DEF Get
    <3>2. Get(n) \in Matches(n)
      BY <3>1 DEF Get, VarsInv, Found, Newest
    <3> QED
      BY <1>0, <3>2 DEF Matches
  <2> QED
    BY <2>1 DEF Parsed, Entry
<1>2. ASSUME NEW t \in Types, NEW v \in Values, list' = Added(t, v), arg' \in Values
      PROVE  VarsInv'
  <2>1. VarsTypeOK'
    BY <1>2, AddedShape DEF VarsTypeOK
  <2>2. OnlyHeadUnnamed'
    <3> SUFFICES ASSUME NEW i \in 1..Len(list'), i < Len(list')
                 PROVE  list'[i].name # Unnamed
      BY DEF OnlyHeadUnnamed
    <3>1. i \in 1..Len(list) /\ list'[i] = list[i]
      BY <1>0, <1>2, AddedShape
    <3>2. CASE HeadTaken
      BY <1>0, <1>2, <3>1, <3>2, AddedShape DEF VarsInv, OnlyHeadUnnamed, HeadTaken
    <3>3. CASE ~HeadTaken
      BY <1>0, <1>2, <3>1, <3>3, AddedShape DEF VarsInv, OnlyHeadUnnamed
    <3> QED
      BY <3>2, <3>3
  <2>3. Found'
    BY <1>2, AddedMatches DEF VarsInv, Found, Newest
  <2> QED
    BY <2>1, <2>2, <2>3 DEF VarsInv
<1>3. ASSUME NEW n \in Names, ~HeadTaken, UNCHANGED arg,
             list' = [list EXCEPT ![Len(list)].name = n]
      PROVE  VarsInv'
  <2>1. VarsTypeOK'
    BY <1>0, <1>3, NamedShape DEF VarsTypeOK
  <2>2. OnlyHeadUnnamed'
    BY <1>0, <1>3, NamedShape, NamesAssumption DEF VarsInv, OnlyHeadUnnamed
  <2>3. Found'
    <3> SUFFICES ASSUME NEW m \in Names, Matches(m)' # {}
                 PROVE  \E i \in Matches(m)' : \A j \in Matches(m)' : j <= i
      BY DEF Found, Newest
    <3>1. CASE m = n
      <4>1. Matches(m)' = Matches(m) \cup {Len(list)}
        BY Zenon, <1>3, <3>1, NamedMatches
      <4>2. \A j \in Matches(m) : j <= Len(list)
        BY <1>0 DEF Matches
      <4> QED
        BY <1>0, <4>1, <4>2
    <3>2. CASE m # n
      BY Zenon, <1>3, <3>2, NamedMatches DEF VarsInv, Found, Newest
    <3> QED
      BY <3>1, <3>2
  <2> QED
    BY <2>1, <2>2, <2>3 DEF VarsInv
<1>4. ASSUME UNCHANGED list, arg' \in Values
      PROVE  VarsInv'
  BY <1>4 DEF VarsInv, VarsTypeOK, OnlyHeadUnnamed, Found, Newest, Matches
<1>5. CASE UNCHANGED shell_vars
  BY <1>0, <1>4, <1>5 DEF shell_vars
<1>6. ASSUME NEW t \in Types, NEW v \in Values, Produce(t, v)
      PROVE  VarsInv'
  BY <1>0, <1>2, <1>6 DEF Produce
<1>7. ASSUME NEW n \in Names \cup BadNames, Var(n)
      PROVE  VarsInv'
  BY <1>0, <1>3, <1>4, <1>7 DEF Var
<1>8. ASSUME NEW n \in Names, Consume(n)
      PROVE  VarsInv'
  BY <1>1, <1>4, <1>8 DEF Consume
<1>9. ASSUME NEW n \in Names, NEW v \in Values, SetCursor(n, v)
      PROVE  VarsInv'
  BY <1>1, <1>2, <1>9 DEF SetCursor, Types
<1> QED
  BY <1>5, <1>6, <1>7, <1>8, <1>9 DEF VarsNext

(* The inductive invariant of the list.                                      *)
LEMMA VarsInvariant == VarsSpec => []VarsInv
<1>1. VarsInit => VarsInv
  BY DEF VarsInit, VarsInv, VarsTypeOK, OnlyHeadUnnamed, Found, Matches
<1> QED
  BY <1>1, InvStep, PTL DEF VarsSpec

(* The list of variables keeps its type.                                     *)
THEOREM VarsTypesCorrect == VarsSpec => []VarsTypeOK
<1>1. VarsInv => VarsTypeOK
  BY DEF VarsInv
<1> QED
  BY <1>1, VarsInvariant, PTL

(* Only the head of the list is ever unnamed, whatever the script does.      *)
THEOREM UnnamedCorrect == VarsSpec => []OnlyHeadUnnamed
<1>1. VarsInv => OnlyHeadUnnamed
  BY DEF VarsInv
<1> QED
  BY <1>1, VarsInvariant, PTL

(* No command changes, moves or drops an entry that has a name.              *)
THEOREM NamedStayCorrect == VarsSpec => NamedStay
<1> DEFINE Stay == \A i \in 1..Len(list) :
             list[i].name # Unnamed => i <= Len(list') /\ list'[i] = list[i]
<1>1. VarsInv /\ [VarsNext]_shell_vars => [Stay]_shell_vars
  <2> SUFFICES ASSUME VarsInv, VarsNext, NEW i \in 1..Len(list), list[i].name # Unnamed
               PROVE  i <= Len(list') /\ list'[i] = list[i]
    OBVIOUS
  <2>0. list \in Seq(Entry) /\ Len(list) \in Nat
    BY DEF VarsInv, VarsTypeOK
  <2>1. ASSUME NEW t \in Types, NEW v \in Values, list' = Added(t, v)
        PROVE  i <= Len(list') /\ list'[i] = list[i]
    <3>1. i \in 1..(Len(list') - 1)
      <4>1. CASE HeadTaken
        BY <2>0, <2>1, <4>1, AddedShape
      <4>2. CASE ~HeadTaken
        <5>1. i # Len(list)
          BY <4>2 DEF HeadTaken
        <5> QED
          BY <2>0, <2>1, <4>2, <5>1, AddedShape
      <4> QED
        BY <4>1, <4>2
    <3> QED
      BY <2>0, <2>1, <3>1, AddedShape
  <2>2. ASSUME NEW n \in Names, ~HeadTaken,
               list' = [list EXCEPT ![Len(list)].name = n]
        PROVE  i <= Len(list') /\ list'[i] = list[i]
    <3>1. i # Len(list)
      BY <2>2 DEF HeadTaken
    <3> QED
      BY <2>0, <2>2, <3>1, NamedShape
  <2>3. CASE UNCHANGED list
    BY <2>0, <2>3
  <2> QED
    BY <2>1, <2>2, <2>3 DEF VarsNext, Produce, Var, Consume, SetCursor, Types
<1> QED
  BY <1>1, VarsInvariant, PTL DEF VarsSpec, NamedStay

-----------------------------------------------------------------------------
(* shell_var_get returns the match nearest to the head, or NULL.             *)
LEMMA GetNewest ==
  ASSUME VarsInv, NEW n \in Names
  PROVE  /\ Matches(n) = {} => Get(n) = 0
         /\ Matches(n) # {} => Get(n) # 0 /\ Newest(n, Get(n))
<1>1. 0 \notin Matches(n)
  BY DEF Matches
<1> QED
  BY <1>1 DEF VarsInv, Found, Newest, Get

(* A name whose matches stay in place keeps its value.                       *)
LEMMA LookupSame ==
  ASSUME VarsInv, NEW n \in Names, Matches(n)' = Matches(n),
         \A i \in Matches(n) : list'[i] = list[i]
  PROVE  Lookup(n)' = Lookup(n)
<1>1. Get(n)' = Get(n)
  BY DEF Get
<1>2. Get(n) = 0 \/ Get(n) \in Matches(n)
  BY GetNewest DEF Newest
<1> QED
  BY <1>1, <1>2 DEF Lookup

(* A name that was just given stands for the value it was given to.          *)
LEMMA LookupNamed ==
  ASSUME VarsInv, VarsInv', ~HeadTaken, NEW n \in Names,
         list' = [list EXCEPT ![Len(list)].name = n]
  PROVE  Lookup(n)' = list[Len(list)].value
<1>0. Len(list) \in Nat
  BY DEF VarsInv, VarsTypeOK
<1>1. Matches(n)' = Matches(n) \cup {Len(list)}
  BY Zenon, NamedMatches
<1>2. \A j \in Matches(n)' : j \in Nat /\ j <= Len(list)
  BY <1>0, <1>1 DEF Matches
<1>3. Get(n)' = Len(list) /\ Get(n)' # 0
  <2>1. Newest(n, Len(list))'
    BY <1>1, <1>2 DEF Newest
  <2>2. Newest(n, Get(n))' /\ Get(n)' # 0
    <3>1. Matches(n)' # {}
      BY <1>1
    <3>2. (0 \notin Matches(n))'
      BY DEF Matches
    <3> QED
      BY <3>1, <3>2 DEF VarsInv, Found, Newest, Get
  <2>3. Get(n)' <= Len(list) /\ Len(list) <= Get(n)'
    BY <2>1, <2>2 DEF Newest
  <2> QED
    BY <1>0, <1>1, <1>2, <2>2, <2>3 DEF Newest
<1> QED
  BY <1>3, NamedShape DEF Lookup

(* What a command that looks $name up may get is what the dictionary holds.  *)
LEMMA ParsedValue ==
  ASSUME VarsInv, NEW n \in Names
  PROVE  Parsed(n) \subseteq Dict!Value(n)
<1>1. CASE Get(n) = 0
  BY <1>1 DEF Parsed, Dict!Value, Lookup
<1>2. CASE Get(n) # 0
  <2>1. Lookup(n) = list[Get(n)].value
    BY <1>2 DEF Lookup
  <2>2. list[Get(n)].value \in Values
    <3>1. Get(n) \in Matches(n)
      BY <1>2, GetNewest DEF Newest
    <3>2. list[Get(n)] \in Entry
      BY <3>1 DEF Matches, VarsInv, VarsTypeOK
    <3> QED
      BY <3>2 DEF Entry
  <2> QED
    BY <1>2, <2>1, <2>2, ValuesAssumption DEF Parsed, Dict!Value
<1> QED
  BY <1>1, <1>2

(* The list implements the dictionary: for scripts of any length, over any   *)
(* names, $name stands for the value most recently named so.                 *)
THEOREM DictCorrect == VarsSpec => ImplementsDict
<1> DEFINE dict == [n \in Names |-> Lookup(n)]
           pending == IF HeadTaken THEN None ELSE list[Len(list)].value
<1>1. VarsInit => Dict!Init
  BY DEF VarsInit, Dict!Init, Lookup, Get, Matches, HeadTaken
<1>2. VarsInv /\ VarsInv' /\ [VarsNext]_shell_vars => [Dict!Next]_<<dict, pending, arg>>
  <2> SUFFICES ASSUME VarsInv, VarsInv', [VarsNext]_shell_vars
               PROVE  Dict!Next \/ UNCHANGED <<dict, pending, arg>>
    OBVIOUS
  <2>1. ASSUME NEW t \in Types, NEW v \in Values, list' = Added(t, v)
        PROVE  UNCHANGED dict /\ pending' = v
    <3>1. \A n \in Names : Lookup(n)' = Lookup(n)
      BY <2>1, AddedMatches, LookupSame
    <3>2. Len(list') > 0 /\ list'[Len(list')] = New(t, v)
      BY <2>1, AddedShape
    <3>3. list' # <<>>
      BY <3>2
    <3> QED
      BY <3>1, <3>2, <3>3 DEF HeadTaken, New
  <2>2. ASSUME UNCHANGED list
        PROVE  UNCHANGED <<dict, pending>>
    BY <2>2 DEF Lookup, Get, Matches, HeadTaken
  <2>3. ASSUME NEW t \in Types, NEW v \in Values, Produce(t, v)
        PROVE  Dict!Next
    BY <2>1, <2>3 DEF Produce, Dict!Next, Dict!Produce
  <2>4. ASSUME NEW n \in Names \cup BadNames, Var(n)
        PROVE  Dict!Next \/ UNCHANGED <<dict, pending, arg>>
    <3>1. CASE HeadTaken \/ n \notin Names
      BY <2>2, <2>4, <3>1 DEF Var
    <3>2. ASSUME ~HeadTaken, n \in Names
          PROVE  Dict!Name(n)
      <4>0. list' = [list EXCEPT ![Len(list)].name = n] /\ UNCHANGED arg
        BY <2>4, <3>2 DEF Var
      <4>1. Lookup(n)' = pending
        BY Zenon, <3>2, <4>0, LookupNamed
      <4>2. \A m \in Names : m # n => Lookup(m)' = Lookup(m)
        BY Zenon, <3>2, <4>0, NamedMatches, LookupSame
      <4>3. pending' = None
        BY <3>2, <4>0, NamedShape, NamesAssumption DEF HeadTaken
      <4>4. pending # None
        <5>1. list[Len(list)] \in Entry
          BY <3>2 DEF VarsInv, VarsTypeOK, HeadTaken
        <5> QED
          BY <3>2, <5>1, ValuesAssumption DEF Entry
      <4>5. dict' = [dict EXCEPT ![n] = pending]
        <5> HIDE DEF pending
        <5> QED
          BY Zenon, <3>2, <4>1, <4>2
      <4> QED
        BY <4>0, <4>3, <4>4, <4>5 DEF Dict!Name
    <3> QED
      BY <3>1, <3>2 DEF Dict!Next
  <2>5. ASSUME NEW n \in Names, Consume(n)
        PROVE  Dict!Next
    BY <2>2, <2>5, ParsedValue DEF Consume, Dict!Next, Dict!Consume
  <2>6. ASSUME NEW n \in Names, NEW v \in Values, SetCursor(n, v)
        PROVE  Dict!Next
    <3>1. arg' \in Dict!Value(n)
      BY <2>6, ParsedValue DEF SetCursor
    <3>2. UNCHANGED dict /\ pending' = v
      BY <2>1, <2>6 DEF SetCursor, Types
    <3> QED
      BY <3>1, <3>2 DEF Dict!Next, Dict!Exchange
  <2>7. CASE UNCHANGED shell_vars
    BY <2>2, <2>7 DEF shell_vars
  <2> QED
    BY <2>3, <2>4, <2>5, <2>6, <2>7 DEF VarsNext
<1> QED
  BY <1>1, <1>2, VarsInvariant, PTL DEF VarsSpec, ImplementsDict, Dict!Spec

-----------------------------------------------------------------------------
\* Paths that give back what they take.
Tidy == Nothing \cup Calls \cup Bare \cup Sets \cup Submits \cup Lends \cup NoFile
        \cup Boots \cup Cards \cup Tables \cup Saves \cup Loads \cup Lists
        \cup Buffers \cup Copies \cup Dumps \cup Stats

\* Those of command c: the handlers of the commands named take others, too.
TidyFor(c) ==
  Tidy \cup {s \in Images : c = "ramdisk_init"} \cup {s \in Disks : c = "disk_add"}
  \cup {s \in Pictures : c = "bg_put_img"}
  \cup {s \in NullFile : c \in {"put_image", "put_image_palette", "bg_put_img"}}

\* What the guards, the words used and the paths of a handler h of command c are
\* like: no words are taken for some, the words used are among those the guard
\* counted, at most word 1 is tested for NULL, and the documented counts are
\* taken; what is taken from the host is given back.
Good(c, h) ==
  /\ 0 \in h.takes =>
       c \in {"get_key", "dump_key_buff", "dump_win_stack", "dump_win_map",
              "board_get", "net_add_device", "umka_set_boot_params"}
  /\ c \notin {"exec", "set_keyboard_layout", "i40"} =>
       \A n \in h.takes : n # 0 =>
         \A p \in h.paths : \A i \in p.words : i \in 0..(n - 1)
  /\ c # "i40" => \A i \in h.tests : i = 1
  /\ c \notin {"csleep", "bg_set_mode", "bg_put_img", "blit_bitmap",
               "acpi_call", "board_get"} =>
       \A n \in h.doc : n \in h.takes
  /\ \A p \in h.paths : p.steps \in TidyFor(c)

Sane(rows) == \A r \in rows : Good(r[1], r[2])

-----------------------------------------------------------------------------
\* Files used are open, memory the kernel is called on is not freed, a file
\* stays open only if it was refused, and the slot is cleared.
Neat(s) ==
  /\ ~NoFileUsed(s) /\ ~Dangles(s)
  /\ LeavesFile(s) => Has(s, "refuse")
  /\ Has(s, "slot") => Has(s, "clear")

\* A path after which nothing is left.
Clean(s) == Neat(s) /\ ~LeavesFile(s) /\ ~LeavesMemory(s)

(* Paths of one or two steps that take nothing.                              *)
LEMMA ShortClean ==
  \A s \in Nothing \cup Calls \cup Bare \cup Sets \cup NoFile \cup Stats \cup Submits
          \cup Copies : Clean(s)
<1> USE DEF Clean, Neat, NoFileUsed, Dangles, LeavesFile, LeavesMemory, Has, Before
<1>1. \A s \in Nothing : Clean(s)  BY DEF Nothing
<1>2. \A s \in Calls : Clean(s)  BY DEF Calls
<1>3. \A s \in Bare : Clean(s)  BY DEF Bare
<1>4. \A s \in Sets : Clean(s)  BY DEF Sets
<1>5. \A s \in NoFile : Clean(s)  BY DEF NoFile
<1>6. \A s \in Stats : Clean(s)  BY DEF Stats
<1>7. \A s \in Submits : Clean(s)  BY DEF Submits
<1>8. \A s \in Copies : Clean(s)  BY DEF Copies
<1> HIDE DEF Clean
<1> QED
  BY Zenon, <1>1, <1>2, <1>3, <1>4, <1>5, <1>6, <1>7, <1>8

(* Paths that open a file close it, and paths that allocate memory free it   *)
(* or leave it to the kernel.                                                *)
LEMMA LongClean ==
  \A s \in Lends \cup Boots \cup Cards \cup Tables \cup Saves \cup Loads \cup Lists
          \cup Buffers \cup Dumps : Clean(s)
<1> USE DEF Clean, Neat, NoFileUsed, Dangles, LeavesFile, LeavesMemory, Has, Before
<1>1. \A s \in Lends : Clean(s)  BY DEF Lends
<1>2. \A s \in Boots : Clean(s)  BY DEF Boots
<1>3. \A s \in Cards : Clean(s)  BY DEF Cards
<1>4. \A s \in Tables : Clean(s)  BY DEF Tables
<1>5. \A s \in Saves : Clean(s)  BY DEF Saves
<1>6. \A s \in Loads : Clean(s)  BY DEF Loads
<1>7. \A s \in Lists : Clean(s)  BY DEF Lists
<1>8. \A s \in Buffers : Clean(s)  BY DEF Buffers
<1>9. \A s \in Dumps : Clean(s)  BY DEF Dumps
<1> HIDE DEF Clean
<1> QED
  BY Zenon, <1>1, <1>2, <1>3, <1>4, <1>5, <1>6, <1>7, <1>8, <1>9

(* The paths that leave something, and the one that uses a file that is not  *)
(* there.                                                                    *)
LEMMA OtherPaths ==
  /\ \A s \in Images \cup Disks \cup Pictures : Neat(s)
  /\ \A s \in NullFile : NoFileUsed(s)
<1> USE DEF Neat, NoFileUsed, Dangles, LeavesFile, LeavesMemory, Has, Before
<1>1. \A s \in Images : Neat(s)  BY DEF Images
<1>2. \A s \in Disks : Neat(s)  BY DEF Disks
<1>3. \A s \in Pictures : Neat(s)  BY DEF Pictures
<1>4. \A s \in NullFile : NoFileUsed(s)  BY DEF NullFile
<1> HIDE DEF Neat, NoFileUsed
<1> QED
  BY Zenon, <1>1, <1>2, <1>3, <1>4

(* The guards, the words used and the usage texts of all handlers are such.  *)
LEMMA TableSane == Sane(Table)
<1> USE DEF Sane, Rows, Each, Exact, From, Handler, Ways, Good, MaxWords,
            TidyFor, Tidy
<1>1. Sane(SlotCommands)
  BY DEF SlotCommands
<1>2. Sane(BootCommands)
  BY DEF BootCommands
<1>3. Sane(I40Command)
  BY DEF I40Command
<1>4. Sane(DiskCommands)
  BY DEF DiskCommands
<1>5. Sane(TextCommands)
  BY DEF TextCommands
<1>6. Sane(DumpCommands)
  BY DEF DumpCommands
<1>7. Sane(ThreadCommands)
  BY DEF ThreadCommands
<1>8. Sane(MouseMoveCommand)
  BY DEF MouseMoveCommand
<1>9. Sane(ProcessCommands)
  BY DEF ProcessCommands
<1>10. Sane(ColorCommands)
  BY DEF ColorCommands
<1>11. Sane(SkinCommands)
  BY DEF SkinCommands
<1>12. Sane(LayoutCommands)
  BY DEF LayoutCommands
<1>13. Sane(LanguageCommands)
  BY DEF LanguageCommands
<1>14. Sane(FontCommands)
  BY DEF FontCommands
<1>15. Sane(MouseCommands)
  BY DEF MouseCommands
<1>16. Sane(ButtonCommands)
  BY DEF ButtonCommands
<1>17. Sane(CursorCommands)
  BY DEF CursorCommands
<1>18. Sane(ImageCommands)
  BY DEF ImageCommands
<1>19. Sane(WindowCommands)
  BY DEF WindowCommands
<1>20. Sane(BlitCommands)
  BY DEF BlitCommands
<1>21. Sane(ExecCommand)
  BY DEF ExecCommand
<1>22. Sane(LsCommands)
  BY DEF LsCommands
<1>23. Sane(StatCommands)
  BY DEF StatCommands
<1>24. Sane(ReadCommands)
  BY DEF ReadCommands
<1>25. Sane(AcpiCommands)
  BY DEF AcpiCommands
<1>26. Sane(NetStackCommands)
  BY DEF NetStackCommands
<1>27. Sane(NetDeviceCommands)
  BY DEF NetDeviceCommands
<1>28. Sane(NetCounterCommands)
  BY DEF NetCounterCommands
<1>29. Sane(SocketCommands)
  BY DEF SocketCommands
<1>30. Sane(Ipv4Commands)
  BY DEF Ipv4Commands
<1>31. Sane(RouteCommands)
  BY DEF RouteCommands
<1>32. Sane(ArpCommands)
  BY DEF ArpCommands
<1>33. Sane(BackgroundCommands)
  BY DEF BackgroundCommands
<1>34. Sane(BoardCommands)
  BY DEF BoardCommands
<1>35. Sane(HelpCommand)
  BY DEF HelpCommand
<1>36. Sane(LinkCommand)
  BY DEF LinkCommand
<1> HIDE DEF Good, Rows, Each, Exact, From, Handler, Ways, MaxWords, TidyFor, Tidy
<1> QED
  BY Zenon, <1>1, <1>2, <1>3, <1>4, <1>5, <1>6, <1>7, <1>8, <1>9, <1>10,
     <1>11, <1>12, <1>13, <1>14, <1>15, <1>16, <1>17, <1>18, <1>19, <1>20,
     <1>21, <1>22, <1>23, <1>24, <1>25, <1>26, <1>27, <1>28, <1>29, <1>30,
     <1>31, <1>32, <1>33, <1>34, <1>35, <1>36 DEF Table

(* The handler that a line or help calls is that of a row of cmd_cmds.       *)
LEMMA HandlerGood ==
  ASSUME NEW c \in Commands
  PROVE  Good(c, Handlers[c])
<1>1. c \in DOMAIN Handlers
  BY CommandsAssumption
<1>2. PICK r \in Table : r[1] = c
  BY <1>1 DEF Handlers
<1> DEFINE q == CHOOSE r0 \in Table : r0[1] = c
<1>3. q \in Table /\ q[1] = c
  BY Zenon, <1>2
<1>4. Handlers[c] = q[2]
  BY Zenon, <1>1 DEF Handlers
<1> QED
  BY Zenon, <1>3, <1>4, TableSane DEF Sane

\* The shell's copy of the directory follows the kernel's, except between cd
\* and the next prompt, and on another thread until the next cd.
Following ==
  /\ ~booted => cwd = Root /\ cur_dir = Root
  /\ ~behind /\ ~changed => cur_dir = cwd /\ last_dir = LastDir(cwd)

\* What directories and pointers into them are.
DirsOK ==
  /\ booted \in BOOLEAN /\ changed \in BOOLEAN /\ behind \in BOOLEAN
  /\ cwd \in Paths /\ cur_dir \in Paths
  /\ last_dir \in {Len(p) : p \in Paths}
  /\ \E p \in Paths, q \in Paths : shown = Text(p, Len(q))

\* split_args ends the words of a line with NULL.
Ended(a) ==
  /\ a \in [Slots -> {"null", "own", "stale"}]
  /\ \A i \in Slots : a[i] = "stale" => \E j \in 0..(i - 1) : a[j] = "null"

\* What a line may come to.
LineOK ==
  /\ last.result \in Results /\ UsesOwnWords /\ DocumentedAccepted
  /\ last.result = "left" => last.cmd \in {"ramdisk_init", "bg_put_img", "disk_add"}
  /\ last.result = "null" =>
       last.cmd \in {"put_image", "put_image_palette", "bg_put_img"}
  /\ last.result # "dangling"

\* Between two lines.
HostOK ==
  /\ files \in 0..MaxFiles /\ refused \in Nat /\ files <= refused
  /\ slot = "EMPTY"

SessionInv ==
  /\ state \in {"reading", "ended", "crashed"}
  /\ Ended(argv)
  /\ DirsOK
  /\ Following
  /\ HostOK
  /\ LineOK

-----------------------------------------------------------------------------
(* What split_args leaves in argv for a line of n words.                     *)
LEMMA SplitIs ==
  ASSUME Ended(argv), NEW n \in Nat, n <= MaxCommandArgs
  PROVE  /\ Ended(Split(n))
         /\ n \in Slots /\ DOMAIN Split(n) = Slots /\ Split(n) # <<>>
         /\ \A i \in 0..(n - 1) : i \in Slots /\ Split(n)[i] = "own"
         /\ Split(n)[n] = "null"
<1>1. n \in Slots /\ 0 \in Slots
  BY MaxCommandArgsAssumption DEF Slots
<1>2. DOMAIN Split(n) = Slots
  BY DEF Split
<1>3. \A i \in 0..(n - 1) : i \in Slots /\ Split(n)[i] = "own"
  BY MaxCommandArgsAssumption DEF Split, Slots
<1>4. Split(n)[n] = "null"
  BY <1>1 DEF Split
<1>5. Split(n) \in [Slots -> {"null", "own", "stale"}]
  BY DEF Split
<1>6. \A i \in Slots : Split(n)[i] = "stale" => n < i
  BY DEF Split, Slots
<1>7. \A i \in Slots : n < i => n \in 0..(i - 1)
  BY MaxCommandArgsAssumption DEF Slots
<1>8. Split(n) # <<>>
  BY <1>1, <1>2
<1> QED
  BY Zenon, <1>1, <1>2, <1>3, <1>4, <1>5, <1>6, <1>7, <1>8 DEF Ended

(* The prompt prints the last name of a directory or, on another thread,     *)
(* what follows where a longer one had its last name.                        *)
LEMMA PromptTyped ==
  ASSUME DirsOK
  PROVE  /\ PromptDir \in Paths
         /\ PromptPtr \in {Len(p) : p \in Paths}
         /\ \E p \in Paths, q \in Paths : Text(PromptDir, PromptPtr) = Text(p, Len(q))
<1>1. PromptDir \in Paths
  BY DEF DirsOK, PromptDir
<1>2. PromptPtr \in {Len(p) : p \in Paths}
  BY <1>1 DEF DirsOK, PromptPtr, LastDir
<1> QED
  BY Zenon, <1>1, <1>2

(* Where the prompt takes the directory from, it is the kernel's.            *)
LEMMA PromptFollows ==
  ASSUME DirsOK, Following, ~behind
  PROVE  PromptDir = cwd /\ PromptPtr = LastDir(cwd)
BY DEF DirsOK, Following, PromptDir, PromptPtr, Root

(* A line that does not reach a handler changes no directory.                *)
LEMMA OnlyPromptStep ==
  ASSUME DirsOK, Following, OnlyPrompt
  PROVE  DirsOK' /\ Following'
<1>1. DirsOK'
  BY Zenon, PromptTyped DEF DirsOK, OnlyPrompt, Prompt
<1>2. ~booted => PromptDir = Root
  BY DEF Following, PromptDir
<1> QED
  BY <1>1, <1>2, PromptFollows DEF Following, OnlyPrompt, Prompt

(* Nor do handlers that run lose track of the kernel's directory.            *)
LEMMA EffectStep ==
  ASSUME DirsOK, Following, NEW c, c \in DirCommands => booted, Prompt, Effect(c)
  PROVE  DirsOK' /\ Following'
<1>1. DirsOK'
  BY PromptTyped DEF DirsOK, Prompt, Effect
<1>2. ~booted => PromptDir = Root
  BY DEF Following, PromptDir
<1>3. ~booted' => cwd' = Root /\ cur_dir' = Root
  BY Zenon, <1>2 DEF Effect, DirCommands, Following
<1>4. ASSUME ~behind', ~changed'
      PROVE  cur_dir' = cwd' /\ last_dir' = LastDir(cwd)'
  <2>1. ~behind /\ cwd' = cwd
    BY Zenon, <1>4 DEF Effect
  <2> QED
    BY <1>4, <2>1, PromptFollows DEF Effect, Prompt, LastDir
<1> QED
  BY <1>1, <1>3, <1>4 DEF Following

-----------------------------------------------------------------------------
(* What comes of a path of the handler of c.                                 *)
LEMMA FateIs ==
  ASSUME NEW c, NEW s \in TidyFor(c)
  PROVE  /\ Fate(s) \in {"ran", "left", "null"}
         /\ Fate(s) = "left" => c \in {"ramdisk_init", "bg_put_img", "disk_add"}
         /\ Fate(s) = "null" => c \in {"put_image", "put_image_palette", "bg_put_img"}
         /\ Fate(s) # "null" => Neat(s)
<1>1. CASE s \in Tidy
  <2>1. Clean(s)
    BY Zenon, <1>1, ShortClean, LongClean DEF Tidy
  <2> QED
    BY Zenon, <2>1 DEF Clean, Neat, Fate
<1>2. CASE s \in Images \cup Disks \cup Pictures /\ s \notin Tidy /\ s \notin NullFile
  <2>1. Neat(s)
    BY Zenon, <1>2, OtherPaths
  <2>2. c \in {"ramdisk_init", "bg_put_img", "disk_add"}
    BY Zenon, <1>2 DEF TidyFor
  <2> QED
    BY Zenon, <2>1, <2>2 DEF Neat, Fate
<1>3. CASE s \in NullFile /\ s \notin Tidy
  <2>1. Fate(s) = "null"
    BY Zenon, <1>3, OtherPaths DEF Fate
  <2>2. s \notin Images \cup Disks \cup Pictures
    BY Zenon, <1>3, OtherPaths DEF Neat
  <2> QED
    BY Zenon, <1>3, <2>1, <2>2 DEF TidyFor
<1> QED
  BY Zenon, <1>1, <1>2, <1>3 DEF TidyFor

(* A handler prints its usage,                                               *)
LEMMA CalledUsage ==
  ASSUME NEW c, NEW n, NEW a, NEW o \in Called(c, n, a), n \notin Handlers[c].takes
  PROVE  o.result = "usage" /\ o.steps = <<>>
<1>1. o = [result |-> "usage", steps |-> <<>>]
  BY Zenon DEF Called
<1> QED
  BY Zenon, <1>1

(* or takes one of its paths.                                                *)
LEMMA CalledPath ==
  ASSUME NEW c, NEW n, NEW a, NEW o \in Called(c, n, a), n \in Handlers[c].takes
  PROVE  \E p \in Handlers[c].paths :
           /\ Possible(p.steps) /\ o.steps = p.steps
           /\ o.result = Result(Handlers[c], p, a)
<1>1. PICK p \in Handlers[c].paths :
        Possible(p.steps)
        /\ o = [result |-> Result(Handlers[c], p, a), steps |-> p.steps]
  BY Zenon DEF Called
<1>2. o.steps = p.steps /\ o.result = Result(Handlers[c], p, a)
  BY Zenon, <1>1
<1> QED
  BY Zenon, <1>1, <1>2

(* Whatever the words, a path comes to one of these.                         *)
LEMMA ResultIs ==
  ASSUME NEW h, NEW p, NEW a
  PROVE  Result(h, p, a) \in {"wild", "stale", Fate(p.steps)}
BY Zenon DEF Result

(* What becomes of a line of n words that reaches the handler of c: it runs  *)
(* on its own words and gives back what it takes, except for the commands    *)
(* named.                                                                    *)
LEMMA CalledIs ==
  ASSUME Ended(argv), NEW c \in Commands, NEW n \in Nat, 0 < n, n <= MaxCommandArgs,
         NEW o \in Called(c, n, Split(n))
  PROVE  /\ o.result \in {"usage", "wild", "stale", "ran", "left", "null"}
         /\ o.result = "usage" => n \notin Handlers[c].takes
         /\ o.result = "wild" => c \in {"exec", "set_keyboard_layout", "i40"}
         /\ o.result = "stale" => c = "i40"
<1> DEFINE h == Handlers[c]
<1>1. CASE n \notin h.takes
  BY Zenon, <1>1, CalledUsage
<1>2. CASE n \in h.takes
  <2>1. PICK p \in h.paths : o.result = Result(h, p, Split(n))
    BY <1>2, CalledPath
  <2>2. Fate(p.steps) \in {"ran", "left", "null"}
    BY Zenon, HandlerGood, FateIs DEF Good
  <2>3. ASSUME c \notin {"exec", "set_keyboard_layout", "i40"}
        PROVE  \A i \in p.words : Is(Split(n), i, {"own"})
    <3>1. \A i \in p.words : i \in 0..(n - 1)
      BY <1>2, <2>3, HandlerGood DEF Good
    <3> QED
      BY Zenon, <3>1, SplitIs DEF Is
  <2>4. ASSUME c # "i40"
        PROVE  \A i \in h.tests : ~Is(Split(n), i, {"stale"})
    <3>1. \A i \in h.tests : i = 1
      BY <2>4, HandlerGood DEF Good
    <3>2. Split(n)[1] # "stale"
      <4>1. CASE n = 1
        BY <4>1, SplitIs
      <4>2. CASE n # 1
        BY <4>2, SplitIs
      <4> QED BY <4>1, <4>2
    <3> QED
      BY Zenon, <3>1, <3>2 DEF Is
  <2>5. Split(n) # <<>>
    BY SplitIs
  <2>6. o.result \in {"wild", "stale", "ran", "left", "null"}
    BY Zenon, <2>1, <2>2, ResultIs
  <2>7. o.result = "wild" => c \in {"exec", "set_keyboard_layout", "i40"}
    BY Zenon, <2>1, <2>2, <2>3, <2>5 DEF Result
  <2>8. o.result = "stale" => c = "i40"
    BY Zenon, <2>1, <2>2, <2>4, <2>5 DEF Result
  <2> QED
    BY Zenon, <1>2, <2>6, <2>7, <2>8
<1> QED
  BY <1>1, <1>2

(* The path taken, with words or without.                                    *)
LEMMA PathIs ==
  ASSUME NEW c \in Commands, NEW n, NEW a, NEW o \in Called(c, n, a)
  PROVE  /\ o.result = "left" => c \in {"ramdisk_init", "bg_put_img", "disk_add"}
         /\ o.result = "null" => c \in {"put_image", "put_image_palette", "bg_put_img"}
         /\ o.result # "dangling"
         /\ o.result \in Runs => Possible(o.steps)
         /\ o.result \in {"ran", "left"} => Neat(o.steps)
         /\ o.result = "stale" => o.steps \in TidyFor(c)
<1>1. CASE n \notin Handlers[c].takes
  BY Zenon, <1>1, CalledUsage DEF Runs
<1>2. CASE n \in Handlers[c].takes
  <2>1. PICK p \in Handlers[c].paths :
          /\ Possible(p.steps) /\ o.steps = p.steps
          /\ o.result = Result(Handlers[c], p, a)
    BY <1>2, CalledPath
  <2>2. p.steps \in TidyFor(c)
    BY Zenon, HandlerGood DEF Good
  <2>3. o.result \in {"wild", "stale", Fate(p.steps)}
    BY Zenon, <2>1, ResultIs
  <2> QED
    BY Zenon, <2>1, <2>2, <2>3, FateIs DEF Runs
<1> QED
  BY <1>1, <1>2

(* What is remembered of a line that was not lost on its handler.            *)
LEMMA FineKept ==
  ASSUME last' = Fine, Ended(argv)'
  PROVE  LineOK'
<1>1. last'.result = "fine" /\ last'.cmd = "" /\ last'.words = 0
  BY Zenon DEF Fine
<1> QED
  BY Zenon, <1>1 DEF LineOK, Results, UsesOwnWords, DocumentedAccepted, Ended

(* The same of a line whose handler was called.                              *)
LEMMA CommandKept ==
  ASSUME Ended(argv), NEW c \in Commands, NEW n \in Nat, 0 < n, n <= MaxCommandArgs,
         NEW o \in Called(c, n, Split(n)), Outcome(c, n, o.result), Ended(argv)'
  PROVE  LineOK'
<1> DEFINE res == o.result
<1>1. CASE last' = Fine
  BY <1>1, FineKept
<1>2. CASE last' # Fine
  <2>1. last' = [cmd |-> c, words |-> n, result |-> res]
    BY <1>2 DEF Outcome
  <2>2. res = "usage" => n \in Handlers[c].doc
    BY <1>2 DEF Outcome
  <2>3. res = "usage" => c \in {"csleep", "bg_set_mode", "bg_put_img", "blit_bitmap",
                                "acpi_call", "board_get"}
    BY <2>2, CalledIs, HandlerGood DEF Good
  <2>4. last'.cmd = c /\ last'.words = n /\ last'.result = res
    BY Zenon, <2>1
  <2>5. n # 0
    OBVIOUS
  <2>6. /\ res \in {"usage", "wild", "stale", "ran", "left", "null"}
        /\ res = "wild" => c \in {"exec", "set_keyboard_layout", "i40"}
        /\ res = "stale" => c = "i40"
    BY CalledIs
  <2>7. /\ res = "left" => c \in {"ramdisk_init", "bg_put_img", "disk_add"}
        /\ res = "null" => c \in {"put_image", "put_image_palette", "bg_put_img"}
    BY Zenon, PathIs
  <2> HIDE DEF res
  <2> QED
    BY Zenon, <2>3, <2>4, <2>5, <2>6, <2>7
    DEF LineOK, Results, Runs, Crashes, UsesOwnWords, DocumentedAccepted, Ended
<1> QED
  BY <1>1, <1>2

(* The same of help, which calls the handler of c without words.             *)
LEMMA HelpKept ==
  ASSUME NEW c \in Commands, NEW o \in Called(c, 0, <<>>), Outcome(c, 0, o.result),
         Ended(argv)'
  PROVE  LineOK'
<1> DEFINE res == o.result
<1>1. CASE res = "usage"
  BY <1>1, FineKept DEF Outcome
<1>2. CASE res # "usage"
  <2>1. 0 \in Handlers[c].takes
    BY Zenon, <1>2, CalledUsage
  <2>2. PICK p \in Handlers[c].paths : res = Result(Handlers[c], p, <<>>)
    BY <2>1, CalledPath
  <2>3. res \in {"wild", "stale", "ran", "left", "null"}
    <3>1. Fate(p.steps) \in {"ran", "left", "null"}
      BY Zenon, HandlerGood, FateIs DEF Good
    <3> QED
      BY Zenon, <2>2, <3>1, ResultIs
  <2>4. last' = [cmd |-> c, words |-> 0, result |-> res]
    BY <1>2 DEF Outcome
  <2>5. c \in {"get_key", "dump_key_buff", "dump_win_stack", "dump_win_map",
               "board_get", "net_add_device", "umka_set_boot_params"}
    BY <2>1, HandlerGood DEF Good
  <2>6. /\ res = "left" => c \in {"ramdisk_init", "bg_put_img", "disk_add"}
        /\ res = "null" => c \in {"put_image", "put_image_palette", "bg_put_img"}
    BY Zenon, PathIs
  <2>7. last'.cmd = c /\ last'.words = 0 /\ last'.result = res
    BY Zenon, <2>4
  <2> HIDE DEF res
  <2> QED
    BY Zenon, <2>3, <2>5, <2>6, <2>7
    DEF LineOK, Results, Runs, Crashes, UsesOwnWords, DocumentedAccepted, Ended
<1> QED
  BY <1>1, <1>2

(* Handlers that run leave the slot empty, and a file only if they refused   *)
(* it.                                                                       *)
LEMMA HostStep ==
  ASSUME HostOK, NEW c \in Commands, NEW n, NEW a, NEW o \in Called(c, n, a),
         HostEffect(o.result, o.steps), o.result = "stale" => c = "i40"
  PROVE  HostOK'
<1>1. CASE o.result \notin Runs
  BY <1>1 DEF HostEffect, host, HostOK
<1>2. CASE o.result \in Runs
  <2>1. Possible(o.steps)
    BY Zenon, <1>2, PathIs
  <2>2. Neat(o.steps)
    <3>1. CASE o.result = "stale"
      <4>1. o.steps \in TidyFor(c) /\ c = "i40"
        BY Zenon, <3>1, PathIs
      <4>2. o.steps \in Tidy
        BY Zenon, <4>1 DEF TidyFor
      <4> QED
        BY Zenon, <4>2, ShortClean, LongClean DEF Tidy, Clean
    <3>2. CASE o.result # "stale"
      BY Zenon, <1>2, <3>2, PathIs DEF Runs
    <3> QED
      BY Zenon, <3>1, <3>2
  <2>3. LeavesFile(o.steps) => files < MaxFiles /\ Has(o.steps, "refuse")
    BY Zenon, <2>1, <2>2 DEF Possible, LeavesFile, Neat
  <2>4. slot' = "EMPTY"
    BY Zenon, <1>2, <2>2 DEF HostEffect, HostOK, Neat
  <2>5. /\ files' = IF LeavesFile(o.steps) THEN files + 1 ELSE files
        /\ refused' = IF Has(o.steps, "refuse") THEN refused + 1 ELSE refused
    BY Zenon, <1>2 DEF HostEffect
  <2> QED
    BY <2>3, <2>4, <2>5, MaxFilesAssumption DEF HostOK
<1> QED
  BY Zenon, <1>1, <1>2

-----------------------------------------------------------------------------
(* The invariant holds when the shell starts.                                *)
LEMMA SessionInit == Init => SessionInv
<1> SUFFICES ASSUME Init
             PROVE  SessionInv
  OBVIOUS
<1>1. Ended(argv)
  BY DEF Init, Ended
<1>2. Len(Root) = 0
  BY DEF Root
<1>3. DirsOK
  BY Zenon, <1>2, PathsAssumption DEF Init, DirsOK
<1>4. HostOK
  BY MaxFilesAssumption DEF Init, HostOK
<1>5. LineOK
  BY Zenon, <1>1 DEF Init, LineOK, Fine, Results, UsesOwnWords, DocumentedAccepted, Ended
<1> QED
  BY Zenon, <1>1, <1>3, <1>4, <1>5 DEF Init, SessionInv, Following

(* A line that ends the session, or that none of the handlers sees.          *)
LEMMA NoHandlerKept ==
  ASSUME NEW n, NEW r \in {"quit", "eof", "wild", "overflow"}, r = "wild" => n = 0,
         last' = [cmd |-> "", words |-> n, result |-> r], Ended(argv)'
  PROVE  LineOK'
<1>1. last'.result = r /\ last'.cmd = "" /\ last'.words = n
  BY Zenon
<1> QED
  BY Zenon, <1>1
  DEF LineOK, Results, Runs, Crashes, UsesOwnWords, DocumentedAccepted, Ended

(* A line that touches no file.                                              *)
LEMMA HostSame ==
  ASSUME HostOK, UNCHANGED host
  PROVE  HostOK'
BY Zenon DEF host, HostOK

(* The result of a handler that help calls is never that of a stale word.    *)
LEMMA HelpNotStale ==
  ASSUME NEW c \in Commands, NEW o \in Called(c, 0, <<>>)
  PROVE  o.result # "stale"
<1>1. CASE 0 \notin Handlers[c].takes
  BY Zenon, <1>1, CalledUsage
<1>2. CASE 0 \in Handlers[c].takes
  <2>1. PICK p \in Handlers[c].paths : o.result = Result(Handlers[c], p, <<>>)
    BY <1>2, CalledPath
  <2>2. Fate(p.steps) \in {"ran", "left", "null"}
    BY Zenon, HandlerGood, FateIs DEF Good
  <2>3. \A i : ~Is(<<>>, i, {"stale"})
    BY DEF Is
  <2> QED
    BY Zenon, <2>1, <2>2, <2>3 DEF Result
<1> QED
  BY Zenon, <1>1, <1>2

(* Every line of a script preserves the invariant.                           *)
LEMMA SessionStep == SessionInv /\ [Next]_vars => SessionInv'
<1> SUFFICES ASSUME SessionInv, [Next]_vars
             PROVE  SessionInv'
  OBVIOUS
<1> USE DEF SessionInv
<1>0. 0 \in Nat /\ 2 \in Nat /\ 0 <= MaxCommandArgs /\ 2 <= MaxCommandArgs
  BY MaxCommandArgsAssumption
<1>a. ASSUME UNCHANGED argv
      PROVE  Ended(argv)'
  BY Zenon, <1>a DEF Ended
<1>b. ASSUME NEW n \in Nat, n <= MaxCommandArgs, argv' = Split(n)
      PROVE  Ended(argv)'
  <2>1. Ended(Split(n))
    BY <1>b, SplitIs
  <2> QED
    BY Zenon, <1>b, <2>1 DEF Ended
<1>1. CASE Skip
  BY Zenon, <1>1, <1>a, OnlyPromptStep, FineKept, HostSame DEF Skip
<1>2. CASE Quit
  <2>1. LineOK'
    BY Zenon, <1>2, <1>a, NoHandlerKept DEF Quit
  <2> QED
    BY Zenon, <1>2, <1>a, <2>1, OnlyPromptStep, HostSame DEF Quit
<1>3. CASE Eof
  <2>1. DirsOK' /\ Following'
    BY Zenon, <1>3 DEF Eof, dirs, DirsOK, Following, LastDir
  <2>2. LineOK'
    BY Zenon, <1>3, <1>a, NoHandlerKept DEF Eof
  <2> QED
    BY Zenon, <1>3, <1>a, <2>1, <2>2, HostSame DEF Eof
<1>4. CASE Spaces
  <2>1. Ended(argv)'
    BY Zenon, <1>0, <1>4, <1>b DEF Spaces
  <2>2. LineOK'
    BY Zenon, <1>4, <2>1, NoHandlerKept DEF Spaces, Outcome
  <2>3. (state \in {"reading", "ended", "crashed"})'
    BY Zenon, <1>4 DEF Spaces, Outcome
  <2> QED
    BY Zenon, <1>4, <2>1, <2>2, <2>3, OnlyPromptStep, HostSame DEF Spaces
<1>5. ASSUME NEW n \in WordCounts
      PROVE  n \in Nat /\ 0 < n
  BY WordCountsAssumption DEF MaxWords
<1>6. ASSUME NEW n \in WordCounts, TooLong(n)
      PROVE  SessionInv'
  <2>1. LineOK'
    BY Zenon, <1>6, <1>a, NoHandlerKept DEF TooLong, Outcome
  <2>2. (state \in {"reading", "ended", "crashed"})'
    BY Zenon, <1>6 DEF TooLong, Outcome
  <2> QED
    BY Zenon, <1>6, <1>a, <2>1, <2>2, OnlyPromptStep, HostSame DEF TooLong
<1>7. ASSUME NEW n \in WordCounts, Unknown(n)
      PROVE  SessionInv'
  <2>1. Ended(argv)'
    BY Zenon, <1>5, <1>7, <1>b DEF Unknown
  <2> QED
    BY Zenon, <1>7, <2>1, OnlyPromptStep, FineKept, HostSame DEF Unknown
<1>8. ASSUME NEW n \in WordCounts, NEW c \in Commands, Command(c, n)
      PROVE  SessionInv'
  <2>0. argv' = Split(n)
    BY Zenon, <1>8 DEF Command
  <2>1. PICK o \in Called(c, n, Split(n)) :
          /\ Outcome(c, n, o.result)
          /\ HostEffect(o.result, o.steps)
          /\ IF o.result \in Runs
               THEN Effect(c)
               ELSE /\ cur_dir' = PromptDir /\ changed' = FALSE
                    /\ UNCHANGED <<booted, cwd, behind>>
    BY Zenon, <1>8, <2>0 DEF Command
  <2>2. n \in Nat /\ 0 < n /\ n <= MaxCommandArgs
    BY <1>5, <1>8 DEF Command
  <2>3. Ended(argv)'
    BY Zenon, <2>0, <2>2, <1>b
  <2>4. LineOK'
    BY Zenon, <2>1, <2>2, <2>3, CommandKept
  <2>5. HostOK'
    <3>1. o.result = "stale" => c = "i40"
      BY Zenon, <2>2, CalledIs
    <3> QED
      BY Zenon, <2>1, <3>1, HostStep
  <2>6. DirsOK' /\ Following'
    <3>1. Prompt /\ (c \in DirCommands => booted)
      BY Zenon, <1>8 DEF Command
    <3>2. CASE o.result \in Runs
      BY Zenon, <2>1, <3>1, <3>2, EffectStep
    <3>3. CASE o.result \notin Runs
      BY Zenon, <2>1, <3>1, <3>3, OnlyPromptStep DEF OnlyPrompt
    <3> QED
      BY Zenon, <3>2, <3>3
  <2>7. (state \in {"reading", "ended", "crashed"})'
    BY Zenon, <2>1 DEF Outcome
  <2> QED
    BY Zenon, <2>3, <2>4, <2>5, <2>6, <2>7
<1>9. ASSUME NEW c \in Commands, Help(c)
      PROVE  SessionInv'
  <2>1. Ended(argv)'
    BY Zenon, <1>0, <1>9, <1>b DEF Help
  <2>2. PICK o \in Called(c, 0, <<>>) :
          Outcome(c, 0, o.result) /\ HostEffect(o.result, o.steps)
    BY Zenon, <1>9 DEF Help
  <2>3. (state \in {"reading", "ended", "crashed"})'
    BY Zenon, <2>2 DEF Outcome
  <2>4. LineOK'
    BY Zenon, <2>1, <2>2, HelpKept
  <2>5. HostOK'
    BY Zenon, <2>2, HelpNotStale, HostStep
  <2>6. DirsOK' /\ Following'
    BY Zenon, <1>9, OnlyPromptStep DEF Help
  <2> QED
    BY Zenon, <2>1, <2>3, <2>4, <2>5, <2>6
<1>10. CASE UNCHANGED vars
  <2>1. DirsOK' /\ Following'
    BY Zenon, <1>10 DEF vars, DirsOK, Following, LastDir
  <2>2. HostOK'
    BY Zenon, <1>10, HostSame DEF vars
  <2>3. LineOK' /\ Ended(argv)'
    BY Zenon, <1>10 DEF vars, LineOK, Ended, UsesOwnWords, DocumentedAccepted
  <2> QED
    BY Zenon, <1>10, <2>1, <2>2, <2>3 DEF vars
<1> QED
  BY Zenon, <1>1, <1>2, <1>3, <1>4, <1>6, <1>7, <1>8, <1>9, <1>10 DEF Next

(* The invariant of a session holds throughout.                              *)
LEMMA SessionInvariant == Spec => []SessionInv
BY SessionInit, SessionStep, PTL DEF Spec

(* For scripts of any length, with any commands, words and directories, the  *)
(* state of the session has its type; in particular, what is open never      *)
(* exceeds what the host allows.                                             *)
THEOREM SessionTypesCorrect == Spec => []TypeOK
<1>1. SessionInv => TypeOK
  BY DEF SessionInv, TypeOK, Ended, DirsOK, HostOK, LineOK
<1> QED
  BY <1>1, SessionInvariant, PTL

(* For any script, the words of a line end with NULL, and handlers run on    *)
(* the words of their own line, except the commands UsesOwnWords names; help *)
(* executes seven commands.                                                  *)
THEOREM OwnWordsCorrect == Spec => []UsesOwnWords
<1>1. SessionInv => UsesOwnWords
  BY DEF SessionInv, LineOK
<1> QED
  BY <1>1, SessionInvariant, PTL

(* For any script, a line of documented length is answered with the usage    *)
(* text only by the commands DocumentedAccepted names.                       *)
THEOREM DocumentedCorrect == Spec => []DocumentedAccepted
<1>1. SessionInv => DocumentedAccepted
  BY DEF SessionInv, LineOK
<1> QED
  BY <1>1, SessionInvariant, PTL

(* For any script and any number of files the host allows, handlers give     *)
(* back what they take: the command slot is empty between two lines, no more *)
(* files are open than images were refused, only ramdisk_init, bg_put_img    *)
(* and disk_add leave something behind, only the three handlers that do not  *)
(* look at what fopen returned use a file that is not there, and none calls  *)
(* the kernel on memory it has freed.                                        *)
THEOREM GivesBackCorrect == Spec => []GivesBack
<1>1. SessionInv => GivesBack
  BY DEF SessionInv, HostOK, LineOK, GivesBack
<1> QED
  BY <1>1, SessionInvariant, PTL

(* For any script and any directories, the prompt of a booted kernel shows   *)
(* where its current thread is, unless another thread was switched to since  *)
(* the last cd.                                                              *)
THEOREM PromptCorrect == Spec => PromptShowsCwd
<1>1. SessionInv /\ [Next]_vars
        => [booted /\ ~behind /\ last'.result # "eof"
              => shown' = Text(cwd, LastDir(cwd))]_vars
  <2> SUFFICES ASSUME SessionInv, Next, ~behind, last'.result # "eof"
               PROVE  shown' = Text(cwd, LastDir(cwd))
    BY Zenon
  <2>1. ASSUME Eof
        PROVE  FALSE
    <3>1. last' = [cmd |-> "", words |-> 0, result |-> "eof"]
      BY Zenon, <2>1 DEF Eof
    <3> QED
      BY Zenon, <3>1
  <2>2. shown' = Text(PromptDir, PromptPtr)
    BY Zenon, <2>1 DEF Next, Skip, Quit, Spaces, TooLong, Unknown, Command, Help,
           OnlyPrompt, Prompt
  <2> QED
    BY Zenon, <2>2, PromptFollows DEF SessionInv
<1> QED
  BY <1>1, SessionInvariant, PTL DEF Spec, PromptShowsCwd
=============================================================================
