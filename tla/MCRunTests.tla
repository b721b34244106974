----------------------------- MODULE MCRunTests -----------------------------
(* Small test directories. *)
EXTENDS RunTests

Numbered == <<"t", "digit", "digit", "digit">>

\* Two tests with something else between them.
TwoTests ==
  << [name |-> Numbered, script |-> TRUE],
     [name |-> <<"other">>, script |-> FALSE],
     [name |-> Append(Numbered, "other"), script |-> TRUE] >>
============================================================================
