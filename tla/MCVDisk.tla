------------------------------- MODULE MCVDisk -------------------------------
(***************************************************************************)
(* Small files for VDisk: a raw image with a part of a sector at its end,  *)
(* one of 2048-byte sectors, a missing one, one of no known format, and    *)
(* three qcow2 images: two good ones, with clusters of one and of eight    *)
(* blocks, and one that fails a check.  The headers of the others stand    *)
(* for what else the stack may hold when a header cannot be read: one more *)
(* fails a check, of the version.                                          *)
(***************************************************************************)
EXTENDS VDisk

MCFiles == {"plain", "s2k", "missing", "text", "q512", "q4k", "q256"}
MCSuffix == [f \in MCFiles |->
  CASE f \in {"plain", "missing"} -> "raw"
    [] f = "s2k" -> "iso"
    [] f = "text" -> "other"
    [] OTHER -> "qcow2"]
MCSectSize == [f \in MCFiles |-> IF f \in {"s2k", "q4k"} THEN 2048 ELSE 512]
MCExists == [f \in MCFiles |-> f # "missing"]
MCSize == [f \in MCFiles |->
  CASE f = "plain" -> 1300 [] f = "s2k" -> 4096 [] OTHER -> 0]

Good(bits, bytes, l1) ==
  [magic |-> "QFI", version |-> 3, cluster_bits |-> bits, size |-> bytes,
   crypt_method |-> 0, incompatible_features |-> 0, refcount_order |-> 4,
   l1_size |-> l1]
MCHeader == [f \in MCFiles |->
  CASE f = "q4k" -> Good(12, 10240, 1)
    [] f = "q256" -> Good(8, 8192, 1)
    [] f = "text" -> [Good(9, 2048, 1) EXCEPT !.version = 2]
    [] OTHER -> Good(9, 34816, 2)]

=============================================================================
