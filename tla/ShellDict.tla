----------------------------- MODULE ShellDict -----------------------------
(***************************************************************************)
(* What the shell's variables promise a script: a dictionary from names to *)
(* values, and the value of the last command that produced one, waiting    *)
(* to be named.  ShellVars is shown to implement it.                       *)
(***************************************************************************)
CONSTANTS
  Names,      \* names a variable can be given
  Values,     \* values commands produce
  None        \* no value

VARIABLES
  dict,       \* the value of each name, or None
  pending,    \* the value not named yet, or None
  arg         \* the value the last consuming command passed to the kernel

Init ==
  /\ dict = [n \in Names |-> None]
  /\ pending = None
  /\ arg \in Values

\* A command such as load_cursor_from_file produces v.
Produce(v) == pending' = v /\ UNCHANGED <<dict, arg>>

\* "var $name" names the pending value; an older one of that name is hidden.
Name(n) ==
  /\ pending # None
  /\ dict' = [dict EXCEPT ![n] = pending]
  /\ pending' = None
  /\ UNCHANGED arg

\* A command takes $name as an argument; of an unknown name nothing is promised.
Value(n) == IF dict[n] # None THEN {dict[n]} ELSE Values

Consume(n) == arg' \in Value(n) /\ UNCHANGED <<dict, pending>>

\* set_cursor takes a handle and produces the previous one.
Exchange(n, v) == arg' \in Value(n) /\ pending' = v /\ UNCHANGED dict

Next ==
  \/ \E v \in Values : Produce(v)
  \/ \E n \in Names : Name(n) \/ Consume(n) \/ \E v \in Values : Exchange(n, v)

Spec == Init /\ [][Next]_<<dict, pending, arg>>
============================================================================
