----------------------------- MODULE ShellVars -----------------------------
(***************************************************************************)
(* Shell variables (shell.c): commands that produce a value push it on the *)
(* list ctx->var unnamed, "var $name" names the head of the list, and      *)
(* commands that take a number, a pointer or a handle look $name up.       *)
(*                                                                         *)
(* The list is kept here oldest first: its head, the entry ctx->var points *)
(* to, is the last element of the sequence, and a walk of the list goes    *)
(* from the last element to the first.                                     *)
(***************************************************************************)
EXTENDS Naturals, Sequences

CONSTANTS
  Names,      \* names that start with $ and fit SHELL_VAR_NAME_LEN
  BadNames,   \* other words a script may pass to the var command
  Values,     \* values commands produce
  None,       \* no value
  MaxVars     \* bound on the length of the list

Unnamed == "unnamed"      \* var->name[0] == '\0'

ASSUME NamesAssumption == Unnamed \notin Names /\ BadNames \cap Names = {}

ASSUME ValuesAssumption == Values # {} /\ None \notin Values

ASSUME MaxVarsAssumption == MaxVars \in Nat

VARIABLES
  list,       \* the list from its oldest entry to ctx->var
  arg         \* what the last consuming command passed to the kernel

shell_vars == <<list, arg>>

Types == {"SINT", "UINT", "POINTER"}

Entry == [type : Types, name : Names \cup {Unnamed}, value : Values]

VarsTypeOK == list \in Seq(Entry) /\ arg \in Values

VarsInit == list = <<>> /\ arg \in Values

-----------------------------------------------------------------------------
\* ctx->var is NULL or has a name: a new entry is needed.
HeadTaken == list = <<>> \/ list[Len(list)].name # Unnamed

\* Faulty: the head is reused whether it has a name or not.
AddedReuse(t, v) ==
  LET e == [type |-> t, name |-> Unnamed, value |-> v]
  IN  IF list = <<>> THEN <<e>> ELSE [list EXCEPT ![Len(list)] = e]

\* shell_var_add and shell_var_add_sint, _uint or _ptr: an unnamed head is reused.
Added(t, v) ==
  LET e == [type |-> t, name |-> Unnamed, value |-> v]
  IN  IF HeadTaken THEN Append(list, e) ELSE [list EXCEPT ![Len(list)] = e]

\* shell_var_get: the match closest to the head, or 0.
Matches(n) == {i \in 1..Len(list) : list[i].name = n}

\* Faulty: the match farthest from the head.
GetOldest(n) ==
  IF Matches(n) = {} THEN 0
  ELSE CHOOSE i \in Matches(n) : \A j \in Matches(n) : i <= j

Get(n) ==
  IF Matches(n) = {} THEN 0
  ELSE CHOOSE i \in Matches(n) : \A j \in Matches(n) : j <= i

\* shell_parse_sint, _uint and _ptr, whose result the callers do not check:
\* of an unknown name the callers use their uninitialised variable.
Parsed(n) == IF Get(n) # 0 THEN {list[Get(n)].value} ELSE Values

-----------------------------------------------------------------------------
\* Whether the list may grow: the model's bound, not the program's.
Room == HeadTaken => Len(list) < MaxVars

\* get_keyboard_lang, get_system_lang, load_file, load_cursor_from_*.
Produce(t, v) ==
  /\ Room
  /\ list' = Added(t, v)
  /\ UNCHANGED arg

\* cmd_var and shell_var_name: refused without an unnamed head or on a bad name.
Var(n) ==
  /\ list' = IF ~HeadTaken /\ n \in Names
               THEN [list EXCEPT ![Len(list)].name = n]
               ELSE list
  /\ UNCHANGED arg

\* process_info, button and the like.
Consume(n) ==
  /\ arg' \in Parsed(n)
  /\ UNCHANGED list

\* set_cursor: parses the handle, then adds the previous one.
SetCursor(n, v) ==
  /\ Room
  /\ arg' \in Parsed(n)
  /\ list' = Added("POINTER", v)

VarsNext ==
  \/ \E t \in Types, v \in Values : Produce(t, v)
  \/ \E n \in Names \cup BadNames : Var(n)
  \/ \E n \in Names : Consume(n) \/ \E v \in Values : SetCursor(n, v)

VarsSpec == VarsInit /\ [][VarsNext]_shell_vars

-----------------------------------------------------------------------------
(* Only the head of the list may be unnamed, which is what shell_var_name    *)
(* and the reuse in shell_var_add rely on.                                   *)
OnlyHeadUnnamed == \A i \in 1..Len(list) : i < Len(list) => list[i].name # Unnamed

(* A named value is never changed or lost: whatever commands follow, an      *)
(* entry that has a name stays in the list as it is.                         *)
NamedStay ==
  [][\A i \in 1..Len(list) :
       list[i].name # Unnamed => i <= Len(list') /\ list'[i] = list[i]]_shell_vars

Lookup(n) == IF Get(n) = 0 THEN None ELSE list[Get(n)].value

Dict == INSTANCE ShellDict
          WITH dict <- [n \in Names |-> Lookup(n)],
               pending <- IF HeadTaken THEN None ELSE list[Len(list)].value

(* The list behaves like a dictionary with one value waiting for a name:     *)
(* $name stands for the value most recently named so.                        *)
ImplementsDict == Dict!Spec
============================================================================
