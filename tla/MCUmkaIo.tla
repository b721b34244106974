----------------------------- MODULE MCUmkaIo -----------------------------
(* Model-checking instance of UmkaIo. *)
EXTENDS UmkaIo, TLC

CONSTANTS k1, k2

OneOrTwo == {k1 :> 3 @@ k2 :> 0, k1 :> 1 @@ k2 :> 1}
============================================================================
