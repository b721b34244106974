------------------------------- MODULE Qcow2 -------------------------------
(***************************************************************************)
(* Reading a qcow2 image (vdisk/qcow2.c): the one-cluster cache of         *)
(* qcow2_read_guest_sector.                                                *)
(*                                                                         *)
(* A sector is served from the buffer d->cluster when its cluster is       *)
(* d->prev_cluster_index.  The index is updated before the cluster is      *)
(* looked up, on every path; the buffer only when a cluster is loaded.     *)
(* Every io_read may put the calling kernel thread to sleep, so other      *)
(* kernel threads may enter the function meanwhile.  A sector stands for   *)
(* its cluster; contents are compared, never computed.                     *)
(***************************************************************************)
CONSTANTS
  Readers,     \* kernel threads that read the disk
  Clusters,    \* guest clusters
  Kind,        \* Kind[x]: how the image stores cluster x
  IoErrors     \* the failures io_read may report: a subset of {"eof", "error"}

\* no L2 table; L2 entry marked zeroed; L2 entry 0; plain and compressed data.
Kinds == {"nol2", "zeroed", "hole", "plain", "compressed"}

NoCluster == "none"          \* ~(uint64_t)0: no sector has this cluster

ASSUME ReadersAssumption == Readers # {}

ASSUME ClustersAssumption == NoCluster \notin Clusters

ASSUME KindAssumption == Kind \in [Clusters -> Kinds]

ASSUME IoErrorsAssumption == IoErrors \subseteq {"eof", "error"}

VARIABLES
  prev,        \* d->prev_cluster_index
  cluster,     \* contents of d->cluster
  pc,          \* control state of each reader
  want,        \* want[k]: the cluster k's sector lies in
  entry,       \* entry[k]: what k's local l2_entry says
  out,         \* out[k]: what k's last sector was filled with
  spoilt       \* history: clusters whose last lookup met an I/O failure

cache_vars == <<prev, cluster, pc, want, entry, out, spoilt>>

Zeros == [data |-> "zeros"]
Junk == [data |-> "junk"]              \* malloc'ed, inflated or read garbage
FileHeader == [data |-> "header"]          \* the image file from offset 0
Untouched == [data |-> "untouched"]    \* the caller's buffer as it was
Data(x) == [data |-> x]

Contents == {Zeros, Junk, FileHeader} \cup {Data(x) : x \in Clusters}

Backed(x) == Kind[x] \in {"plain", "compressed"}

\* What the image says the guest's cluster holds.
Guest(x) == IF Backed(x) THEN Data(x) ELSE Zeros

CacheTypeOK ==
  /\ prev \in Clusters \cup {NoCluster}
  /\ cluster \in Contents
  /\ pc \in [Readers -> {"idle", "l2", "load", "copy"}]
  /\ want \in [Readers -> Clusters \cup {NoCluster}]
  /\ entry \in [Readers -> Kinds]
  /\ out \in [Readers -> Contents \cup {Untouched}]
  /\ spoilt \subseteq Clusters

CacheInit ==
  /\ prev = NoCluster
  /\ cluster = Junk
  /\ pc = [k \in Readers |-> "idle"]
  /\ want = [k \in Readers |-> NoCluster]
  /\ entry = [k \in Readers |-> "nol2"]
  /\ out = [k \in Readers |-> Untouched]
  /\ spoilt = {}

-----------------------------------------------------------------------------
\* The sector's buffer gets value v and the function returns.
Deliver(k, v) ==
  /\ out' = [out EXCEPT ![k] = v]
  /\ pc' = [pc EXCEPT ![k] = "idle"]

\* Faulty: any cached cluster is taken for the one asked for.
HitAny(k, x) ==
  /\ pc[k] = "idle" /\ prev # NoCluster
  /\ want' = [want EXCEPT ![k] = x]
  /\ Deliver(k, cluster)
  /\ UNCHANGED <<prev, cluster, entry, spoilt>>

\* vdisk_qcow2_read asks for the next sector, one of cluster x.
Hit(k, x) ==
  /\ pc[k] = "idle" /\ prev = x
  /\ want' = [want EXCEPT ![k] = x]
  /\ Deliver(k, cluster)
  /\ UNCHANGED <<prev, cluster, entry, spoilt>>

Miss(k, x) ==
  /\ pc[k] = "idle" /\ prev # x
  /\ want' = [want EXCEPT ![k] = x]
  /\ prev' = x
  /\ spoilt' = spoilt \ {x}
  /\ IF Kind[x] = "nol2"
       THEN Deliver(k, Zeros)
       ELSE pc' = [pc EXCEPT ![k] = "l2"] /\ UNCHANGED out
  /\ UNCHANGED <<cluster, entry>>

\* Faulty: the flag of zeroed clusters is ignored.
UseEntryNoZeros(k, e) ==
  /\ entry' = [entry EXCEPT ![k] = e]
  /\ pc' = [pc EXCEPT ![k] = "load"]
  /\ UNCHANGED out

\* The L2 entry e decides: a zeroed cluster is delivered, another is loaded.
UseEntry(k, e) ==
  /\ entry' = [entry EXCEPT ![k] = e]
  /\ IF e = "zeroed"
       THEN Deliver(k, Zeros)
       ELSE pc' = [pc EXCEPT ![k] = "load"] /\ UNCHANGED out

ReadL2(k) ==
  /\ pc[k] = "l2"
  /\ UseEntry(k, Kind[want[k]])
  /\ UNCHANGED <<prev, cluster, want, spoilt>>

\* End of file is reported and ends the function; -1 is taken for success and
\* leaves l2_entry uninitialised.
ReadL2Fails(k) ==
  /\ pc[k] = "l2"
  /\ spoilt' = spoilt \cup {want[k]}
  /\ \/ "eof" \in IoErrors /\ Deliver(k, Untouched) /\ UNCHANGED entry
     \/ "error" \in IoErrors /\ \E e \in Kinds \ {"nol2"} : UseEntry(k, e)
  /\ UNCHANGED <<prev, cluster, want>>

\* What a successful read at the entry's offset, or its inflation, leaves in
\* d->cluster; a wrong entry points anywhere in the file.
Loaded(k) ==
  IF entry[k] = "hole" THEN FileHeader
  ELSE IF entry[k] = Kind[want[k]] /\ want[k] \notin spoilt THEN Data(want[k])
  ELSE Junk

\* Faulty: the cluster is not read into d->cluster.
LoadElsewhere(k) ==
  /\ pc[k] = "load" /\ pc' = [pc EXCEPT ![k] = "copy"]
  /\ UNCHANGED <<prev, cluster, want, entry, out, spoilt>>

Load(k) ==
  /\ pc[k] = "load" /\ pc' = [pc EXCEPT ![k] = "copy"]
  /\ cluster' = Loaded(k)
  /\ UNCHANGED <<prev, want, entry, out, spoilt>>

\* The same two failures; after -1 or a short read the buffer, or what is
\* inflated into it, is copied all the same.
LoadFails(k) ==
  /\ pc[k] = "load"
  /\ spoilt' = spoilt \cup {want[k]}
  /\ \/ "eof" \in IoErrors /\ Deliver(k, Untouched) /\ UNCHANGED cluster
     \/ /\ "error" \in IoErrors
        /\ pc' = [pc EXCEPT ![k] = "copy"]
        /\ cluster' \in {cluster, Junk}
        /\ UNCHANGED out
  /\ UNCHANGED <<prev, want, entry>>

Copy(k) ==
  /\ pc[k] = "copy"
  /\ Deliver(k, cluster)
  /\ UNCHANGED <<prev, cluster, want, entry, spoilt>>

Step(k) ==
  \/ \E x \in Clusters : Hit(k, x) \/ Miss(k, x)
  \/ ReadL2(k) \/ ReadL2Fails(k) \/ Load(k) \/ LoadFails(k) \/ Copy(k)

CacheNext == \E k \in Readers : Step(k)

CacheSpec == CacheInit /\ [][CacheNext]_cache_vars

-----------------------------------------------------------------------------
Solo == \A j, k \in Readers : j = k

Quiet == \A k \in Readers : pc[k] = "idle"

(* While no lookup is under way, d->cluster holds the cluster that           *)
(* prev_cluster_index names, unless the image has no data for it or its last *)
(* lookup failed.                                                            *)
CacheCoherent ==
  Solo /\ Quiet =>
    \A x \in Clusters : prev = x /\ Backed(x) /\ x \notin spoilt => cluster = Data(x)

(* A sector the image stores data for is delivered as stored, unless a read  *)
(* of the image failed when its cluster was looked up.                       *)
BackedSectorsRight ==
  Solo => \A k \in Readers :
            /\ pc[k] = "idle" /\ want[k] \in Clusters
            /\ Backed(want[k]) /\ want[k] \notin spoilt
            => out[k] = Guest(want[k])

(* A lookup of another cluster than the last one is right whenever the L2    *)
(* entry is not a hole and no read failed: only repeated reads go wrong.     *)
LookupsRight ==
  [][\A k \in Readers :
       /\ Solo /\ Quiet' /\ pc[k] # "idle"
       /\ Kind[want[k]] # "hole" /\ want[k] \notin spoilt'
       => out'[k] = Guest(want[k])]_cache_vars

(* The images of the tests are conversions of raw disks ("qemu-img convert   *)
(* -m 2 -O qcow2", img/gen.sh), whose unwritten parts read as zeros: every   *)
(* sector is delivered as the guest's.                                       *)
SectorsRight ==
  \A k \in Readers :
    pc[k] = "idle" /\ want[k] \in Clusters /\ spoilt = {} => out[k] = Guest(want[k])
============================================================================
