-------------------------------- MODULE VDisk --------------------------------
(***************************************************************************)
(* Virtual disks: the commands disk_add and disk_del (shell.c), the choice *)
(* of a driver by the name of the file (vdisk.c), the raw driver           *)
(* (vdisk/raw.c) and the initialisation, the geometry and the release of   *)
(* the qcow2 driver (vdisk/qcow2.c), whose lookups are the subject of      *)
(* Qcow2.                                                                  *)
(*                                                                         *)
(* The raw driver seeks and reads in two steps.  In the running system the *)
(* read sleeps (umkaio.c), and another kernel thread may seek in between;  *)
(* before, all of it is one host thread's.                                 *)
(*                                                                         *)
(* A file is a record: the driver its suffix selects, the sector size its  *)
(* name asks for, whether it exists, its size in bytes and, for a qcow2    *)
(* image, its header.  Contents are blocks of 512 bytes.                   *)
(***************************************************************************)
EXTENDS Integers, Sequences, FiniteSetsExt

CONSTANTS
  Files, Header,  \* names; Header[f] for the images
  Suffix, SectSize, Exists, Size,
  Names,          \* names of disks
  Callers,        \* threads that use the disks
  MaxAdds,        \* bound: disk_add commands
  MaxCalls        \* bound: calls of the drivers

ASSUME FilesAssumption ==
  /\ Suffix \in [Files -> {"raw", "iso", "qcow2", "other"}]
  /\ SectSize \in [Files -> {512, 2048, 4096}]
  /\ Exists \in [Files -> BOOLEAN] /\ Size \in [Files -> Nat]
  /\ {MaxAdds, MaxCalls} \subseteq Nat

Headers == [magic : {"QFI", "other"}, version : Nat, cluster_bits : Nat, size : Nat,
            crypt_method : Nat, incompatible_features : Nat, refcount_order : Nat,
            l1_size : Nat]

ASSUME HeaderAssumption == Header \in [Files -> Headers]

VARIABLES
  running,     \* *io->running is UMKA_RUNNING_YES
  adds, calls,
  fds,         \* open descriptors: [file, off, mode]
  heap,        \* allocated blocks
  disk_list,   \* the kernel's disks, in order
  refused,     \* disks the kernel did not take
  req,         \* per caller: the call it is in
  image,       \* contents of the files
  answer,      \* per caller: the last call and its outcome
  crashed,     \* a store through a null pointer
  adding       \* history: the file of the last disk_add, how its init ended

vars == <<running, adds, calls, fds, heap, disk_list, refused, req, image,
          answer, crashed, adding>>
calling == <<calls, req, answer>>
disks == <<running, adds, heap, disk_list, refused, crashed, adding>>

BadFd == -1
Huge == -1       \* (uint64_t)-1 / sect_size
NoHeader == [size |-> 0]
NoDisk == [id |-> 0, file |-> "", fd |-> BadFd]
Idle == [op |-> "none", d |-> NoDisk, s |-> 0, n |-> 0, alone |-> TRUE]

\* open: the lowest free descriptor; each disk_add has opened one at most.
NewFd == {i \in 3..(3 + adds) : /\ i \notin DOMAIN fds
                                /\ \A j \in 3..(i - 1) : j \in DOMAIN fds}

\* Faulty: files are opened for writing too.
OpenedForWriting(fd, f) ==
  [i \in DOMAIN fds \cup {fd} |->
     IF i = fd THEN [file |-> f, off |-> 0, mode |-> "rdwr"] ELSE fds[i]]

Opened(fd, f) ==
  [i \in DOMAIN fds \cup {fd} |->
     IF i = fd THEN [file |-> f, off |-> 0, mode |-> "rdonly"] ELSE fds[i]]

Closed(fd) == [i \in DOMAIN fds \ {fd} |-> fds[i]]

-----------------------------------------------------------------------------
(* Geometry.                                                               *)

\* Faulty: a part of a sector counts as one.
sect_cnt_up(size, sect) ==
  IF size = -1 THEN Huge ELSE (size + sect - 1) \div sect

\* Faulty: the number of the last sector.
sect_cnt_last(size, sect) == size \div sect - 1

sect_cnt(size, sect) == IF size = -1 THEN Huge ELSE size \div sect

\* Faulty: the smallest cluster is one bit smaller.
ChecksWide(h) ==
  << h.magic = "QFI", h.version = 3, h.cluster_bits \in 8..21,
     h.crypt_method = 0, h.incompatible_features = 0,
     h.refcount_order \in 4..6 >>

\* The checks of the header, in their order, from step 4 on.
Checks(h) ==
  << h.magic = "QFI", h.version = 3, h.cluster_bits \in 9..21,
     h.crypt_method = 0, h.incompatible_features = 0,
     h.refcount_order \in 4..6 >>

cluster_size(h) == 2 ^ h.cluster_bits

\* x & (2^k - 1), where -1 is the mask of all ones.
And(x, mask) == IF mask = -1 THEN x ELSE x % (mask + 1)

sector_idx_mask(h, sect) == cluster_size(h) \div sect - 1

\* Where qcow2_read_guest_sector finds sector s.
cluster_index(h, sect, s) == (s * sect) \div cluster_size(h)
l1_index(h, sect, s) == cluster_index(h, sect, s) \div (cluster_size(h) \div 8)
in_cluster(h, sect, s) == And(s, sector_idx_mask(h, sect)) * sect

-----------------------------------------------------------------------------
(* vdisk_init, and disk_add.                                               *)

Disk(kind, f, fd, name, h) ==
  [id |-> adds + 1, kind |-> kind, file |-> f, fd |-> fd, name |-> name, hdr |-> h,
   cnt |-> IF kind = "raw" THEN sect_cnt(IF Exists[f] THEN Size[f] ELSE -1,
                                         SectSize[f])
           ELSE sect_cnt(h.size, SectSize[f])]

\* The kernel takes the disk or refuses it.
Register(d) ==
  \/ disk_list' = Append(disk_list, d) /\ UNCHANGED refused
  \/ refused' = refused \cup {d} /\ UNCHANGED disk_list

Add(f) == /\ ~crashed /\ adds < MaxAdds /\ adds' = adds + 1
          /\ \A k \in Callers : ~running => req[k] = Idle

AddUnknown(f) ==
  /\ Add(f) /\ Suffix[f] = "other"
  /\ adding' = <<f, "unknown">>
  /\ UNCHANGED <<running, calling, fds, heap, disk_list, refused, image,
                 crashed>>

\* A file that cannot be opened is not noticed: the disk has descriptor -1.
AddRaw(f, name) ==
  /\ Add(f) /\ Suffix[f] \in {"raw", "iso"}
  /\ \E fd \in IF Exists[f] THEN NewFd ELSE {BadFd} :
       /\ fds' = IF Exists[f] THEN Opened(fd, f) ELSE fds
       /\ Register(Disk("raw", f, fd, name, NoHeader))
  /\ heap' = heap \cup {<<adds + 1, "disk">>}
  /\ adding' = <<f, "ok">>
  /\ UNCHANGED <<running, calling, image, crashed>>

\* The malloc of the raw disk is not checked.
AddRawFails(f) ==
  /\ Add(f) /\ Suffix[f] \in {"raw", "iso"}
  /\ \E fd \in NewFd : fds' = IF Exists[f] THEN Opened(fd, f) ELSE fds
  /\ crashed' = TRUE /\ adding' = <<f, "failed">>
  /\ UNCHANGED <<running, calling, heap, disk_list, refused, image>>

\* The header vdisk_init_qcow2 goes by.  Its io_read is taken to fail only when
\* it returns 0: after -1 the header on the stack is indeterminate, for which
\* the headers of all files stand.  The entries of the L1 table, for which the
\* same is true, are not part of this module.
ReadHeader == {Header[g] : g \in Files}

AddQcow2(f, name) ==
  /\ Add(f) /\ Suffix[f] = "qcow2" /\ Exists[f]
  /\ \E fd \in NewFd, h \in ReadHeader :
       /\ \A i \in 1..6 : Checks(h)[i]
       /\ fds' = Opened(fd, f)
       /\ Register(Disk("qcow2", f, fd, name, h))
  /\ heap' = heap \cup ({adds + 1} \X {"disk", "cluster", "cmp_cluster", "l1"})
  /\ adding' = <<f, "ok">>
  /\ UNCHANGED <<running, calling, image, crashed>>

\* Steps at which the initialisation of f may fail: calloc, open, the header,
\* the checks of what was read, three mallocs, the L1 table.
FailSteps(f, h) ==
  LET bad == {i \in 1..6 : ~Checks(h)[i]}
  IN IF ~Exists[f] THEN {1, 2}
     ELSE {1, 3} \cup (IF bad # {} THEN {3 + Min(bad)} ELSE 10..13)

\* What is allocated and open when step i fails.
Acquired(i) ==
  {b \in {"disk", "fd", "cluster", "cmp_cluster", "l1"} :
     CASE b = "disk" -> i > 1
       [] b = "fd" -> i > 2
       [] b = "cluster" -> i > 10
       [] b = "cmp_cluster" -> i > 11
       [] b = "l1" -> i > 12}

\* Faulty: the buffers of compressed clusters are forgotten.
vdisk_qcow2_close_partly == {"disk", "fd", "cluster", "l1"}

\* What vdisk_qcow2_close releases.
vdisk_qcow2_close == {"disk", "fd", "cluster", "cmp_cluster", "l1"}

\* vdisk_init_qcow2 releases what it has and returns NULL, through which
\* vdisk_init stores.
AddQcow2Fails(f, i) ==
  /\ Add(f) /\ Suffix[f] = "qcow2"
  /\ \E h \in ReadHeader : i \in FailSteps(f, h)
  /\ LET left == Acquired(i) \ vdisk_qcow2_close
     IN /\ heap' = heap \cup ({adds + 1} \X (left \ {"fd"}))
        /\ \E fd \in NewFd : fds' = IF "fd" \in left THEN Opened(fd, f) ELSE fds
  /\ crashed' = TRUE /\ adding' = <<f, "failed">>
  /\ UNCHANGED <<running, calling, disk_list, refused, image>>

-----------------------------------------------------------------------------
(* disk_del: the first disk of that name; the kernel calls close.          *)

vdisk_raw_close == {"disk", "fd"}

\* list_del of the i-th disk.
Removed(i) ==
  [j \in 1..(Len(disk_list) - 1) |-> disk_list[IF j < i THEN j ELSE j + 1]]

DiskDel(name) ==
  /\ ~crashed
  /\ \A k \in Callers : req[k] = Idle
  /\ \E i \in DOMAIN disk_list :
       LET d == disk_list[i]
           freed == IF d.kind = "raw" THEN vdisk_raw_close ELSE vdisk_qcow2_close
       IN /\ d.name = name /\ \A j \in 1..(i - 1) : disk_list[j].name # name
          /\ disk_list' = Removed(i)
          /\ heap' = heap \ ({d.id} \X freed)
          /\ fds' = IF "fd" \in freed THEN Closed(d.fd) ELSE fds
  /\ UNCHANGED <<running, calling, adds, refused, image, crashed, adding>>

-----------------------------------------------------------------------------
(* The calls of the drivers.                                               *)

\* vdisk_querymedia tells the kernel the sectors it may ask for; of a disk
\* without a file, any.
capacity(d) == IF d.cnt = Huge THEN 1 ELSE d.cnt

MayCall(k) == /\ ~crashed /\ calls < MaxCalls /\ req[k] = Idle
              /\ ~running => \A j \in Callers : req[j] = Idle

\* The position, which belongs to the descriptor.
Positioned(fd, off) ==
  IF fd \in DOMAIN fds THEN [fds EXCEPT ![fd].off = off] ELSE fds

\* lseek; `alone' says that no other call was under way on the disk.
vdisk_raw_seek(k, op, d, s, n) ==
  LET others == {j \in Callers : req[j].op # "none" /\ req[j].d = d}
  IN /\ MayCall(k) /\ d.kind = "raw" /\ s + n <= capacity(d)
     /\ calls' = calls + 1
     /\ fds' = Positioned(d.fd, s * SectSize[d.file])
     /\ req' = [j \in Callers |->
                  IF j = k THEN [op |-> op, d |-> d, s |-> s, n |-> n,
                                 alone |-> others = {}]
                  ELSE IF j \in others THEN [req[j] EXCEPT !.alone = FALSE]
                  ELSE req[j]]
     /\ UNCHANGED <<disks, image, answer>>

\* Blocks of a file from an offset on, as many as there are.
Blocks(c, off, len) ==
  SubSeq(c, off \div 512 + 1, Min({Len(c), (off + len) \div 512}))

Answered(k, status, io, got) ==
  [answer EXCEPT ![k] = [call |-> req[k], status |-> status, io |-> io,
                         got |-> got]]

\* io_read; its result is not looked at.
vdisk_raw_read(k) ==
  LET d == req[k].d  len == req[k].n * SectSize[d.file]
  IN /\ ~crashed /\ req[k].op = "read" /\ req' = [req EXCEPT ![k] = Idle]
     /\ \/ /\ answer' = Answered(k, "SUCCESS", "error", <<>>)
           /\ UNCHANGED fds
        \/ /\ d.fd # BadFd
           /\ LET h == fds[d.fd]  got == Blocks(image[h.file], h.off, len)
              IN /\ answer' = Answered(k, "SUCCESS", "ok", got)
                 /\ fds' = Positioned(d.fd, h.off + 512 * Len(got))
     /\ UNCHANGED <<disks, image, calls>>

\* io_write: write fails on a descriptor open for reading, and the running
\* system has no asynchronous write.
vdisk_raw_write(k) ==
  LET d == req[k].d  len == req[k].n * SectSize[d.file]
      h == fds[d.fd]
      written == /\ ~running /\ d.fd # BadFd
                 /\ h.mode = "rdwr"
  IN /\ ~crashed /\ req[k].op = "write" /\ req' = [req EXCEPT ![k] = Idle]
     /\ answer' = Answered(k, "SUCCESS", IF written THEN "ok" ELSE "error",
                           <<>>)
     /\ image' = IF written
                 THEN [image EXCEPT ![h.file] = [b \in DOMAIN @ |->
                   IF b \in (h.off \div 512 + 1)..((h.off + len) \div 512)
                   THEN 0 ELSE @[b]]]
                 ELSE image
     /\ fds' = IF written THEN Positioned(d.fd, h.off + len) ELSE fds
     /\ UNCHANGED <<disks, calls>>

vdisk_qcow2_write(k, d) ==
  /\ MayCall(k) /\ d.kind = "qcow2" /\ calls' = calls + 1
  /\ answer' = Answered(k, "UNSUPPORTED_FS", "none", <<>>)
  /\ UNCHANGED <<disks, fds, req, image>>

\* main: the system runs.
Run == /\ ~crashed /\ ~running /\ running' = TRUE
       /\ \A k \in Callers : req[k] = Idle
       /\ UNCHANGED <<calling, fds, image, adds, heap, disk_list, refused,
                      crashed, adding>>

-----------------------------------------------------------------------------
\* The blocks of a file before any command.
Original(f) == [b \in 1..(Size[f] \div 512) |-> b]

Init ==
  /\ running = FALSE /\ adds = 0 /\ calls = 0
  /\ fds = <<>> /\ heap = {} /\ disk_list = <<>> /\ refused = {}
  /\ req = [k \in Callers |-> Idle]
  /\ image = [f \in Files |-> Original(f)]
  /\ answer = [k \in Callers |-> [call |-> Idle, status |-> "none",
                                  io |-> "none", got |-> <<>>]]
  /\ crashed = FALSE /\ adding = <<>>

Command ==
  \/ \E f \in Files : \/ AddUnknown(f)
                      \/ AddRawFails(f)
                      \/ \E name \in Names : AddRaw(f, name) \/ AddQcow2(f, name)
                      \/ \E i \in 1..13 : AddQcow2Fails(f, i)
  \/ \E name \in Names : DiskDel(name)

Call(k) ==
  \/ \E d \in Range(disk_list) :
       \/ \E op \in {"read", "write"}, s \in 0..(capacity(d) - 1), n \in 1..2 :
            vdisk_raw_seek(k, op, d, s, n)
       \/ vdisk_qcow2_write(k, d)
  \/ vdisk_raw_read(k)
  \/ vdisk_raw_write(k)

Next == Command \/ Run \/ \E k \in Callers : Call(k)

Spec == Init /\ [][Next]_vars

-----------------------------------------------------------------------------
(***************************************************************************)
(* Types: the disks have the descriptors and sizes of vdisk_init.          *)
(***************************************************************************)
TypeOK ==
  /\ {running, crashed} \subseteq BOOLEAN
  /\ adds \in 0..MaxAdds /\ calls \in 0..MaxCalls
  /\ \A i \in DOMAIN fds : i >= 3 /\ fds[i].file \in Files /\ fds[i].off \in Nat
  /\ heap \subseteq (1..MaxAdds) \X {"disk", "cluster", "cmp_cluster", "l1"}
  /\ \A d \in Range(disk_list) \cup refused :
       /\ d.id \in 1..adds /\ d.kind \in {"raw", "qcow2"}
       /\ d.fd \in Nat \cup {BadFd} /\ d.cnt \in Nat \cup {Huge}
  /\ \A k \in Callers : req[k].op \in {"none", "read", "write"}

\* Blocks of a sector.
PerSector(f) == SectSize[f] \div 512

\* What a read by itself on its disk is to deliver: the blocks of its sectors.
Right(a) ==
  a.call.op = "read" /\ a.io = "ok" /\ a.call.alone =>
    LET q == PerSector(a.call.d.file)
    IN a.got = [b \in 1..(a.call.n * q) |-> a.call.s * q + b]

(***************************************************************************)
(* A read of a raw disk whose io_read succeeds delivers the sectors asked  *)
(* for, all of them, unless another thread was inside the driver of the    *)
(* same disk between its lseek and its io_read.  Disks of one file do not  *)
(* disturb each other, since each has a descriptor of its own, and a disk  *)
(* added on a reused descriptor reads its own file.                        *)
(***************************************************************************)
RightSectors == \A k \in Callers : Right(answer[k])

(***************************************************************************)
(* No write reaches an image: whatever a guest writes before or after the  *)
(* system runs, and though vdisk_raw_write reports success, a test finds   *)
(* the image as it was.                                                    *)
(***************************************************************************)
ImageIntact == image = [f \in Files |-> Original(f)]

(***************************************************************************)
(* What is open and allocated is exactly what the disks own: a descriptor  *)
(* per disk, open on its own file and shared with no other disk, and its   *)
(* blocks.  This covers disks deleted, images given up at any step of      *)
(* vdisk_init_qcow2, and those the kernel refused, which cmd_disk_add      *)
(* keeps for ever.  The raw driver without memory is the exception.        *)
(***************************************************************************)
Accounted ==
  LET all == Range(disk_list) \cup refused
      opened == {d \in all : d.fd # BadFd}
  IN ~(crashed /\ Suffix[adding[1]] # "qcow2") =>
     /\ DOMAIN fds = {d.fd : d \in opened}
     /\ \A d \in opened : fds[d.fd].file = d.file
     /\ \A d, e \in opened : d.fd = e.fd => d = e
     /\ heap = UNION {{d.id} \X (IF d.kind = "raw" THEN {"disk"}
                        ELSE {"disk", "cluster", "cmp_cluster", "l1"}) : d \in all}

\* The L1 table has an entry for every cluster of the size the header names.
Covers(h) == h.size <= h.l1_size * (cluster_size(h) \div 8) * cluster_size(h)

(***************************************************************************)
(* In an image that vdisk_init_qcow2 accepts, the bytes that               *)
(* qcow2_read_guest_sector copies for a sector below the capacity are      *)
(* inside the cluster and the right ones, and if the header's L1 table     *)
(* covers its size, which is not checked, the sector lies inside the table.*)
(* Excepted: names that ask for sectors larger than the clusters, for      *)
(* which sector_idx_mask is all ones.  It holds of whatever the header on  *)
(* the stack was, if it passed the checks.                                 *)
(***************************************************************************)
GeometryRight ==
  \A d \in {e \in Range(disk_list) : e.kind = "qcow2"} :
    LET h == d.hdr  sect == SectSize[d.file]
    IN sect <= cluster_size(h) \/ sect = 512 =>
         \A s \in 0..(d.cnt - 1) :
           /\ Covers(h) => l1_index(h, sect, s) < h.l1_size
           /\ in_cluster(h, sect, s) + sect <= cluster_size(h)
           /\ cluster_index(h, sect, s) * cluster_size(h)
                + in_cluster(h, sect, s) = s * sect

=============================================================================
