------------------------------ MODULE MCQcow2 ------------------------------
(* Images with one or two clusters of every kind. *)
EXTENDS Qcow2

\* An image with a cluster of each kind and a second plain one.
MixedClusters == {"a", "b", "c", "h", "u", "z"}

MixedKind ==
  [x \in MixedClusters |->
     CASE x \in {"a", "b"} -> "plain"
       [] x = "c" -> "compressed"
       [] x = "h" -> "hole"
       [] x = "u" -> "nol2"
       [] x = "z" -> "zeroed"]
============================================================================
