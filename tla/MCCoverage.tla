----------------------------- MODULE MCCoverage -----------------------------
(* A function with a loop around a call of a driver, one behind            *)
(* set_eflags_tf that calls the first one and a driver, and one that calls *)
(* no driver and shares its way out with the second.                       *)
EXTENDS Coverage, TLC

CodeN == 12
CodeTf == 5
CodeKind ==
  (1 :> "cond") @@ (2 :> "driver") @@ (3 :> "cond") @@ (4 :> "ret")
  @@ (7 :> "call") @@ (8 :> "plain") @@ (9 :> "driver") @@ (10 :> "jump")
  @@ (11 :> "cond") @@ (12 :> "ret")
CodeTarget ==
  (1 :> 3) @@ (2 :> 1) @@ (3 :> 1) @@ (4 :> 1)
  @@ (7 :> 1) @@ (8 :> 1) @@ (9 :> 1) @@ (10 :> 4)
  @@ (11 :> 10) @@ (12 :> 1)
=============================================================================
