---------------------------- MODULE Disk_proofs ----------------------------
(***************************************************************************)
(* Proofs about the virtual disks, for any files, headers, callers and     *)
(* numbers of commands, and about the cluster cache of qcow2 images, for   *)
(* any image and any failures of io_read.                                  *)
(*                                                                         *)
(* Disks.  That a read delivers its own sectors rests on who owns what:    *)
(* every disk has a number and a descriptor of its own, open on its file,  *)
(* so a position moves only under calls on the same disk, which then know  *)
(* that they are not alone.  Accounted says this of the disks; Numbered    *)
(* and Calling are what it takes to keep it and to use it.                 *)
(*                                                                         *)
(* Cache, with one kernel thread reading.  CacheCoherent speaks of the     *)
(* moments between two calls.  Inside a call the index is ahead of the     *)
(* buffer: Lookup says what is known instead at each point of              *)
(* qcow2_read_guest_sector.                                                *)
(***************************************************************************)
EXTENDS Qcow2, VDisk, TLAPS

Disks == [id : Nat, kind : {"raw", "qcow2"}, file : Files, fd : Nat \cup {BadFd},
          name : Names, hdr : Headers \cup {NoHeader}, cnt : Nat \cup {Huge}]

Requests == [op : {"none", "read", "write"}, d : Disks \cup {NoDisk}, s : Nat,
             n : Nat, alone : BOOLEAN]

Descriptors == [file : Files, off : Nat, mode : {"rdonly"}]

Sectors == {512, 2048, 4096}

All == Range(disk_list) \cup refused

InUse == {d \in All : d.fd # BadFd}

Owns(d) == IF d.kind = "raw" THEN {"disk"} ELSE {"disk", "cluster", "cmp_cluster", "l1"}

\* What vdisk_init made of the file.
Made(d) ==
  /\ d.kind = "raw" /\ Exists[d.file] =>
       d.fd # BadFd /\ d.cnt = Size[d.file] \div SectSize[d.file]
  /\ d.kind = "raw" /\ ~Exists[d.file] => d.fd = BadFd
  /\ d.kind = "qcow2" =>
       /\ d.fd # BadFd /\ d.hdr \in Headers /\ d.hdr.cluster_bits \in 9..21
       /\ d.cnt = d.hdr.size \div SectSize[d.file]

FdTypes ==
  /\ DOMAIN fds \subseteq {i \in Nat : i >= 3}
  /\ fds \in [DOMAIN fds -> Descriptors]

Types ==
  /\ running \in BOOLEAN /\ crashed \in BOOLEAN
  /\ adds \in 0..MaxAdds /\ calls \in 0..MaxCalls
  /\ heap \subseteq (1..MaxAdds) \X {"disk", "cluster", "cmp_cluster", "l1"}
  /\ disk_list \in Seq(Disks) /\ refused \subseteq Disks
  /\ req \in [Callers -> Requests]
  /\ answer = [k \in Callers |-> answer[k]]
  /\ FdTypes

\* Disks differ in their number.
Numbered ==
  /\ \A d \in All : d.id \in 1..adds /\ Made(d)
  /\ \A i, j \in DOMAIN disk_list : disk_list[i].id = disk_list[j].id => i = j
  /\ \A d, e \in refused : d.id = e.id => d = e
  /\ \A i \in DOMAIN disk_list, e \in refused : disk_list[i].id # e.id

Owned ==
  /\ DOMAIN fds = {d.fd : d \in InUse}
  /\ \A d \in InUse : fds[d.fd].file = d.file
  /\ \A d, e \in InUse : d.fd = e.fd => d = e
  /\ heap = UNION {{d.id} \X Owns(d) : d \in All}

\* A call under way is one of a disk in the list; alone, it finds the
\* descriptor where it has left it.
Calling ==
  \A k \in Callers : req[k].op # "none" =>
    LET c == req[k] IN
    /\ c.d \in Range(disk_list) /\ c.d.kind = "raw" /\ c.s + c.n <= capacity(c.d)
    /\ c.alone =>
         /\ c.d.fd # BadFd => fds[c.d.fd].off = c.s * SectSize[c.d.file]
         /\ \A j \in Callers : j # k /\ req[j].op # "none" => req[j].d # c.d

-----------------------------------------------------------------------------
(* The smaller of two numbers: a read ends with the file.                    *)
LEMMA MinIs ==
  ASSUME NEW a \in Nat, NEW b \in Nat
  PROVE  Min({a, b}) = IF a <= b THEN a ELSE b
<1>1. CASE a <= b
  <2>1. a \in {a, b} /\ \A y \in {a, b} : a =< y
    BY <1>1
  <2>2. \A x \in {a, b} : (\A y \in {a, b} : x =< y) => x = a
    BY <1>1
  <2> QED BY <1>1, <2>1, <2>2 DEF Min
<1>2. CASE ~(a <= b)
  <2>1. b \in {a, b} /\ \A y \in {a, b} : b =< y
    BY <1>2
  <2>2. \A x \in {a, b} : (\A y \in {a, b} : x =< y) => x = b
    BY <1>2
  <2> QED BY <1>2, <2>1, <2>2 DEF Min
<1> QED BY Zenon, <1>1, <1>2

(* open finds a descriptor that no open file has.                            *)
LEMMA NewFdIs ==
  ASSUME Types, NEW fd \in NewFd
  PROVE  fd \in Nat /\ fd >= 3 /\ fd \notin DOMAIN fds /\ fd # BadFd
BY DEF NewFd, BadFd, Types

(* The kernel takes a disk at the end of its list or refuses it.             *)
LEMMA RegisterIs ==
  ASSUME Types, NEW d \in Disks, Register(d)
  PROVE  /\ disk_list' \in Seq(Disks) /\ refused' \subseteq Disks
         /\ All' = All \cup {d}
         /\ \/ /\ refused' = refused
               /\ DOMAIN disk_list' = 1..(Len(disk_list) + 1)
               /\ \A i \in DOMAIN disk_list : disk_list'[i] = disk_list[i]
               /\ disk_list'[Len(disk_list) + 1] = d
            \/ disk_list' = disk_list /\ refused' = refused \cup {d}
<1>1. CASE disk_list' = Append(disk_list, d) /\ UNCHANGED refused
  <2>1. /\ disk_list' \in Seq(Disks) /\ Len(disk_list) \in Nat
        /\ DOMAIN disk_list = 1..Len(disk_list)
        /\ DOMAIN disk_list' = 1..(Len(disk_list) + 1)
        /\ \A i \in DOMAIN disk_list : disk_list'[i] = disk_list[i]
        /\ disk_list'[Len(disk_list) + 1] = d
    BY <1>1 DEF Types
  <2>2. Range(disk_list') = Range(disk_list) \cup {d}
    BY <2>1 DEF Range
  <2> QED BY <1>1, <2>1, <2>2 DEF All, Types
<1>2. CASE refused' = refused \cup {d} /\ UNCHANGED disk_list
  BY <1>2 DEF All, Types
<1> QED BY <1>1, <1>2 DEF Register

(* A disk taken drives none out.                                             *)
LEMMA RegisterRange ==
  ASSUME Types, NEW d \in Disks, Register(d)
  PROVE  Range(disk_list) \subseteq Range(disk_list)'
<1>1. Len(disk_list) \in Nat /\ DOMAIN disk_list = 1..Len(disk_list)
  BY DEF Types
<1> QED BY <1>1, RegisterIs DEF Range

(* What open does to the descriptors.                                        *)
LEMMA OpenedIs ==
  ASSUME FdTypes, NEW f \in Files, NEW fd \in Nat, fd >= 3, fd \notin DOMAIN fds,
         fds' = Opened(fd, f)
  PROVE  /\ FdTypes'
         /\ DOMAIN fds' = DOMAIN fds \cup {fd}
         /\ fds'[fd].file = f
         /\ \A i \in DOMAIN fds : fds'[i] = fds[i]
<1>1. DOMAIN fds' = DOMAIN fds \cup {fd}
  BY DEF Opened
<1>3. fds' \in [DOMAIN fds' -> Descriptors]
  BY <1>1 DEF Opened, FdTypes, Descriptors
<1>4. fds'[fd].file = f /\ \A i \in DOMAIN fds : fds'[i] = fds[i]
  BY DEF Opened
<1> QED BY <1>1, <1>3, <1>4 DEF FdTypes

(* What close does to them.                                                  *)
LEMMA ClosedIs ==
  ASSUME FdTypes, NEW fd, fds' = Closed(fd)
  PROVE  /\ FdTypes'
         /\ DOMAIN fds' = DOMAIN fds \ {fd}
         /\ \A i \in DOMAIN fds' : fds'[i] = fds[i]
<1>1. DOMAIN fds' = DOMAIN fds \ {fd}
  BY DEF Closed
<1>3. fds' \in [DOMAIN fds' -> Descriptors] /\ \A i \in DOMAIN fds' : fds'[i] = fds[i]
  BY <1>1 DEF Closed, FdTypes
<1> QED BY <1>1, <1>3 DEF FdTypes

(* What lseek and a read do to them: one position moves.                     *)
LEMMA PositionedIs ==
  ASSUME FdTypes, NEW fd, NEW off \in Nat, fds' = Positioned(fd, off)
  PROVE  /\ FdTypes'
         /\ DOMAIN fds' = DOMAIN fds
         /\ \A i \in DOMAIN fds : fds'[i].file = fds[i].file
         /\ \A i \in DOMAIN fds : i # fd => fds'[i] = fds[i]
         /\ fd \in DOMAIN fds => fds'[fd].off = off
<1>1. DOMAIN fds' = DOMAIN fds
  BY DEF Positioned
<1>2. fds' \in [DOMAIN fds -> Descriptors]
  BY DEF Positioned, FdTypes, Descriptors
<1>3. \A i \in DOMAIN fds : fds'[i].file = fds[i].file
  BY DEF Positioned, FdTypes, Descriptors
<1>4. /\ \A i \in DOMAIN fds : i # fd => fds'[i] = fds[i]
      /\ fd \in DOMAIN fds => fds'[fd].off = off
  BY DEF Positioned, FdTypes, Descriptors
<1> QED BY <1>1, <1>2, <1>3, <1>4 DEF FdTypes

-----------------------------------------------------------------------------
(* A disk that vdisk_init has made, taken or refused, has a number, blocks   *)
(* and a descriptor that no other disk has.                                  *)
LEMMA GrowsStep ==
  ASSUME Types, Numbered, Owned, NEW d \in Disks, Register(d),
         d.id = adds + 1, Made(d), adds' = adds + 1,
         IF d.fd = BadFd THEN fds' = fds
         ELSE /\ d.fd \notin DOMAIN fds /\ DOMAIN fds' = DOMAIN fds \cup {d.fd}
              /\ fds'[d.fd].file = d.file
              /\ \A i \in DOMAIN fds : fds'[i] = fds[i],
         heap' = heap \cup ({d.id} \X Owns(d))
  PROVE  Numbered' /\ Owned'
<1>1. /\ All' = All \cup {d}
      /\ \/ /\ refused' = refused
            /\ DOMAIN disk_list' = 1..(Len(disk_list) + 1)
            /\ \A i \in DOMAIN disk_list : disk_list'[i] = disk_list[i]
            /\ disk_list'[Len(disk_list) + 1] = d
         \/ disk_list' = disk_list /\ refused' = refused \cup {d}
  BY Zenon, RegisterIs
<1>2. adds \in Nat /\ DOMAIN disk_list = 1..Len(disk_list) /\ Len(disk_list) \in Nat
  BY DEF Types
<1>3. \A e \in All : e.id \in 1..adds /\ e.id # d.id
  BY <1>2 DEF Numbered
<1>4. \A i \in DOMAIN disk_list : disk_list[i] \in All
  BY DEF All, Range
<1>5. Numbered'
  <2>1. \A e \in All' : e.id \in 1..adds' /\ Made(e)
    BY <1>1, <1>2, <1>3 DEF Numbered
  <2>2. CASE /\ refused' = refused
             /\ DOMAIN disk_list' = 1..(Len(disk_list) + 1)
             /\ \A i \in DOMAIN disk_list : disk_list'[i] = disk_list[i]
             /\ disk_list'[Len(disk_list) + 1] = d
    <3>1. \A i \in DOMAIN disk_list' : i \in DOMAIN disk_list \/ i = Len(disk_list) + 1
      BY <1>2, <2>2
    <3>2. \A i, j \in DOMAIN disk_list' : disk_list'[i].id = disk_list'[j].id => i = j
      BY <1>3, <1>4, <2>2, <3>1 DEF Numbered
    <3>3. \A i \in DOMAIN disk_list', e \in refused' : disk_list'[i].id # e.id
      BY <1>3, <1>4, <2>2, <3>1 DEF Numbered, All
    <3> QED BY <2>1, <2>2, <3>2, <3>3 DEF Numbered, Made
  <2>3. CASE disk_list' = disk_list /\ refused' = refused \cup {d}
    BY <1>3, <1>4, <2>1, <2>3 DEF Numbered, Made, All
  <2> QED BY Zenon, <1>1, <2>2, <2>3
<1>6. InUse' = InUse \cup (IF d.fd = BadFd THEN {} ELSE {d})
  BY <1>1 DEF InUse
<1>7. \A e \in InUse : e.fd \in DOMAIN fds
  BY DEF Owned
<1>8. DOMAIN fds' = {e.fd : e \in InUse'}
  BY Zenon, <1>6, <1>7 DEF Owned
<1>9. \A e \in InUse' : fds'[e.fd].file = e.file
  BY <1>6, <1>7 DEF Owned
<1>10. \A e, g \in InUse' : e.fd = g.fd => e = g
  BY <1>6, <1>7 DEF Owned
<1>11. heap' = UNION {{e.id} \X Owns(e) : e \in All'}
  BY <1>1 DEF Owned
<1> QED BY Zenon, <1>5, <1>8, <1>9, <1>10, <1>11 DEF Owned, Owns

(* A call of a driver leaves the disks and what they own.                    *)
LEMMA SameDisks ==
  ASSUME Numbered, Owned, UNCHANGED disks, DOMAIN fds' = DOMAIN fds,
         \A i \in DOMAIN fds : fds'[i].file = fds[i].file
  PROVE  Numbered' /\ Owned'
<1>1. All' = All /\ InUse' = InUse
  BY DEF disks, All, InUse
<1>2. Numbered'
  BY <1>1 DEF disks, Numbered, Made
<1>3. Owned'
  BY <1>1 DEF disks, Owned, Owns
<1> QED BY <1>2, <1>3

(* A disk deleted takes along what it owns and nothing else.                 *)
LEMMA ShrinksStep ==
  ASSUME Types, Numbered, Owned, NEW i \in DOMAIN disk_list,
         disk_list' = Removed(i), refused' = refused, adds' = adds,
         fds' = Closed(disk_list[i].fd),
         heap' = heap \ ({disk_list[i].id} \X (Owns(disk_list[i]) \cup {"fd"}))
  PROVE  disk_list' \in Seq(Disks) /\ FdTypes' /\ Numbered' /\ Owned'
<1> DEFINE d == disk_list[i]
<1>1. /\ Len(disk_list) \in Nat /\ DOMAIN disk_list = 1..Len(disk_list)
      /\ i \in 1..Len(disk_list) /\ disk_list \in Seq(Disks)
  BY DEF Types
<1>2. /\ disk_list' \in Seq(Disks) /\ Len(disk_list') = Len(disk_list) - 1
      /\ \A j \in 1..(Len(disk_list) - 1) :
           disk_list'[j] = disk_list[IF j < i THEN j ELSE j + 1]
  BY <1>1 DEF Removed
<1> DEFINE old(j) == IF j < i THEN j ELSE j + 1
<1>3. /\ DOMAIN disk_list' = 1..(Len(disk_list) - 1)
      /\ \A j \in DOMAIN disk_list' : /\ old(j) \in DOMAIN disk_list /\ old(j) # i
                                      /\ disk_list'[j] = disk_list[old(j)]
      /\ \A j, k \in DOMAIN disk_list' : old(j) = old(k) => j = k
  BY <1>1, <1>2
<1>4. \A j \in DOMAIN disk_list : j # i => \E k \in DOMAIN disk_list' : old(k) = j
  <2> SUFFICES ASSUME NEW j \in DOMAIN disk_list, j # i
               PROVE  \E k \in DOMAIN disk_list' : old(k) = j
    OBVIOUS
  <2>1. CASE j < i
    BY <1>1, <1>3, <2>1
  <2>2. CASE ~(j < i)
    <3>1. j - 1 \in DOMAIN disk_list' /\ old(j - 1) = j
      BY <1>1, <1>3, <2>2
    <3> QED BY Zenon, <3>1
  <2> QED BY <2>1, <2>2
<1> HIDE DEF old
<1>5. \A e \in All : e.id = d.id => e = d
  BY DEF All, Range, Numbered
<1>6. d \in All /\ d \in Range(disk_list)
  BY DEF All, Range
<1>7. All' = All \ {d}
  <2>1. Range(disk_list') \subseteq Range(disk_list) \ {d}
    BY <1>3 DEF Range, Numbered
  <2>2. Range(disk_list) \ {d} \subseteq Range(disk_list')
    BY <1>3, <1>4 DEF Range
  <2>3. d \notin refused
    BY DEF Numbered
  <2> QED BY <2>1, <2>2, <2>3 DEF All
<1>8. Numbered'
  <2>1. \A e \in All' : e.id \in 1..adds' /\ Made(e)
    BY <1>7 DEF Numbered
  <2>2. \A j, k \in DOMAIN disk_list' : disk_list'[j].id = disk_list'[k].id => j = k
    BY <1>3 DEF Numbered
  <2>3. \A j \in DOMAIN disk_list', e \in refused' : disk_list'[j].id # e.id
    BY <1>3 DEF Numbered
  <2> QED BY <2>1, <2>2, <2>3 DEF Numbered, Made
<1> HIDE DEF d
<1>9. InUse' = InUse \ {d}
  BY <1>7 DEF InUse
<1>10. /\ FdTypes' /\ DOMAIN fds' = DOMAIN fds \ {d.fd}
       /\ \A j \in DOMAIN fds' : fds'[j] = fds[j]
  BY Zenon, ClosedIs DEF d, Types
<1>11. \A e \in InUse : e.fd = d.fd => e = d
  BY <1>6 DEF InUse, Owned
<1>12. \A e \in InUse' : e.fd \in DOMAIN fds'
  BY <1>9, <1>10, <1>11 DEF Owned
<1>13. DOMAIN fds' = {e.fd : e \in InUse'}
  <2>1. DOMAIN fds = {e.fd : e \in InUse}
    BY DEF Owned
  <2>2. \A j \in DOMAIN fds' : \E e \in InUse' : j = e.fd
    BY <1>9, <1>10, <2>1
  <2> QED BY Zenon, <1>12, <2>2
<1>14. \A e \in InUse' : fds'[e.fd].file = e.file
  BY <1>9, <1>10, <1>12 DEF Owned
<1>15. \A e, g \in InUse' : e.fd = g.fd => e = g
  BY <1>9 DEF Owned
<1>16. heap' = UNION {{e.id} \X Owns(e) : e \in All'}
  <2>1. \A x : x \in heap <=> \E e \in All : x \in {e.id} \X Owns(e)
    BY Zenon DEF Owned
  <2>2. \A x : x \in heap' <=> x \in heap /\ x \notin {d.id} \X (Owns(d) \cup {"fd"})
    BY Zenon DEF d
  <2>3. \A x, e : e \in All' /\ x \in {e.id} \X Owns(e)
                   => x \notin {d.id} \X (Owns(d) \cup {"fd"})
    BY <1>5, <1>7
  <2>4. \A x : x \in {d.id} \X Owns(d) => x \in {d.id} \X (Owns(d) \cup {"fd"})
    OBVIOUS
  <2>5. \A x : x \in heap' <=> \E e \in All' : x \in {e.id} \X Owns(e)
    BY Zenon, <1>7, <2>1, <2>2, <2>3, <2>4
  <2> QED BY Zenon, <2>5
<1> QED BY Zenon, <1>2, <1>8, <1>10, <1>13, <1>14, <1>15, <1>16 DEF Owned, Owns

-----------------------------------------------------------------------------
(* The calls.                                                              *)

(* A disk added does not disturb a call under way.                           *)
LEMMA CallingKept ==
  ASSUME Owned, Calling, req' = req, Range(disk_list) \subseteq Range(disk_list)',
         \A i \in DOMAIN fds : fds'[i] = fds[i]
  PROVE  Calling'
<1>1. \A d \in Range(disk_list) : d.fd # BadFd => d.fd \in DOMAIN fds
  BY DEF Owned, InUse, All
<1> QED BY <1>1 DEF Calling, capacity

(* A read delivers blocks of the file.                                       *)
LEMMA BlocksTyped ==
  ASSUME NEW f \in Files, NEW off \in Nat, NEW len \in Nat
  PROVE  Blocks(Original(f), off, len) \in Seq(Nat)
<1> DEFINE c == Original(f)  m == off \div 512 + 1
           q == (off + len) \div 512  e == Min({Len(c), q})
<1>1. c \in Seq(Nat)
  BY FilesAssumption DEF Original
<1>2. Len(c) \in Nat /\ m \in Nat /\ m >= 1 /\ q \in Nat
  BY <1>1
<1>3. e \in Nat /\ e <= Len(c)
  <2> HIDE DEF c, q
  <2> QED BY <1>2, MinIs
<1> HIDE DEF c, e
<1>4. SubSeq(c, m, e) \in Seq(Nat)
  BY <1>1, <1>2, <1>3
<1> QED BY Zenon, <1>4 DEF Blocks, c, e

(* A read inside the file delivers all the sectors it asks for.              *)
LEMMA BlocksAre ==
  ASSUME NEW f \in Files, NEW sect \in Sectors, NEW s \in Nat, NEW n \in Nat,
         s + n <= Size[f] \div sect
  PROVE  Blocks(Original(f), s * sect, n * sect)
           = [b \in 1..(n * (sect \div 512)) |-> s * (sect \div 512) + b]
<1> DEFINE c == Original(f)  L == Size[f] \div 512
           u == s * (sect \div 512)  v == n * (sect \div 512)
<1>1. /\ u \in Nat /\ v \in Nat /\ L \in Nat /\ u + v <= L
      /\ (s * sect) \div 512 = u /\ (s * sect + n * sect) \div 512 = u + v
  <2>1. Size[f] \in Nat
    BY FilesAssumption
  <2>2. CASE sect = 512
    BY <2>1, <2>2
  <2>3. CASE sect = 2048
    BY <2>1, <2>3
  <2>4. CASE sect = 4096
    BY <2>1, <2>4
  <2> QED BY <2>2, <2>3, <2>4 DEF Sectors
<1>2. c \in Seq(Nat) /\ Len(c) = L /\ \A b \in 1..L : c[b] = b
  BY <1>1 DEF Original
<1> HIDE DEF c, L, u, v
<1>3. Min({Len(c), u + v}) = u + v
  BY <1>1, <1>2, MinIs
<1>4. Blocks(c, s * sect, n * sect) = SubSeq(c, u + 1, u + v)
  <2> DEFINE x == (s * sect) \div 512  y == (s * sect + n * sect) \div 512
  <2>1. Blocks(c, s * sect, n * sect) = SubSeq(c, x + 1, Min({Len(c), y}))
    BY Zenon DEF Blocks
  <2>2. x = u /\ y = u + v
    BY <1>1
  <2> HIDE DEF x, y
  <2> QED BY Zenon, <1>3, <2>1, <2>2
<1>5. SubSeq(c, u + 1, u + v) = [b \in 1..v |-> u + b]
  <2>1. SubSeq(c, u + 1, u + v) = [b \in 1..(1 + (u + v) - (u + 1)) |-> c[b + (u + 1) - 1]]
    BY <1>1, <1>2
  <2>2. 1 + (u + v) - (u + 1) = v
    BY <1>1
  <2>3. \A b \in 1..v : c[b + (u + 1) - 1] = u + b
    BY <1>1, <1>2
  <2>4. SubSeq(c, u + 1, u + v) = [b \in 1..v |-> c[b + (u + 1) - 1]]
    BY Zenon, <2>1, <2>2
  <2>5. [b \in 1..v |-> c[b + (u + 1) - 1]] = [b \in 1..v |-> u + b]
    BY ONLY <2>3
  <2> QED BY Zenon, <2>4, <2>5
<1> QED BY Zenon, <1>4, <1>5 DEF c, u, v

(* The lseek of a call: only calls on the same disk are disturbed by it, and *)
(* they are no longer alone.                                                 *)
LEMMA SeekStep ==
  ASSUME Types, Numbered, Owned, Calling, NEW k \in Callers, NEW op \in {"read", "write"},
         NEW d \in Range(disk_list), NEW s \in Nat, NEW n \in Nat,
         vdisk_raw_seek(k, op, d, s, n)
  PROVE  Types' /\ Numbered' /\ Owned' /\ Calling'
<1> DEFINE others == {j \in Callers : req[j].op # "none" /\ req[j].d = d}
<1>1. d \in Disks /\ d \in All
  BY DEF Types, Range, All
<1>2. s * SectSize[d.file] \in Nat
  BY <1>1, FilesAssumption DEF Disks
<1>3. /\ FdTypes' /\ DOMAIN fds' = DOMAIN fds
      /\ \A i \in DOMAIN fds : fds'[i].file = fds[i].file
      /\ \A i \in DOMAIN fds : i # d.fd => fds'[i] = fds[i]
      /\ d.fd \in DOMAIN fds => fds'[d.fd].off = s * SectSize[d.file]
  BY <1>2, PositionedIs DEF vdisk_raw_seek, Types
<1>4. Numbered' /\ Owned'
  BY <1>3, SameDisks DEF vdisk_raw_seek
<1>5. /\ req' = [j \in Callers |->
                  IF j = k THEN [op |-> op, d |-> d, s |-> s, n |-> n,
                                 alone |-> others = {}]
                  ELSE IF j \in others THEN [req[j] EXCEPT !.alone = FALSE]
                  ELSE req[j]]
      /\ d.kind = "raw" /\ s + n <= capacity(d)
  BY DEF vdisk_raw_seek
<1>6. req'[k] = [op |-> op, d |-> d, s |-> s, n |-> n, alone |-> others = {}]
  BY Zenon, <1>5
<1>7. \A j \in Callers : j # k /\ j \in others => req'[j] = [req[j] EXCEPT !.alone = FALSE]
  BY Zenon, <1>5
<1>8. \A j \in Callers : j # k /\ j \notin others => req'[j] = req[j]
  BY Zenon, <1>5
<1>9. \A j \in Callers : req[j] \in Requests
  BY DEF Types
<1> DEFINE lone == others = {}
<1>10. lone \in BOOLEAN
  OBVIOUS
<1>11. req'[k] = [op |-> op, d |-> d, s |-> s, n |-> n, alone |-> lone]
  BY Zenon, <1>6
<1>12. lone => others = {}
  OBVIOUS
<1> HIDE DEF lone
<1>13. req'[k] \in Requests
  BY <1>1, <1>10, <1>11 DEF Requests
<1>14. \A j \in Callers : j # k /\ j \in others =>
         /\ req'[j] \in Requests /\ req'[j].op = req[j].op /\ req'[j].d = req[j].d
         /\ req'[j].s = req[j].s /\ req'[j].n = req[j].n /\ req'[j].alone = FALSE
  <2> SUFFICES ASSUME NEW j \in Callers, j # k, j \in others
               PROVE  /\ req'[j] \in Requests /\ req'[j].op = req[j].op /\ req'[j].d = req[j].d
                      /\ req'[j].s = req[j].s /\ req'[j].n = req[j].n /\ req'[j].alone = FALSE
    BY Zenon
  <2>1. req[j] \in Requests /\ req'[j] = [req[j] EXCEPT !.alone = FALSE]
    BY Zenon, <1>7, <1>9
  <2> QED BY ONLY Zenon, <2>1 DEF Requests
<1>15. \A j \in Callers : req'[j] \in Requests
  BY Zenon, <1>8, <1>9, <1>13, <1>14
<1>16. Types'
  <2>1. req' \in [Callers -> Requests]
    BY Zenon, <1>5, <1>15
  <2>2. calls' \in 0..MaxCalls
    BY FilesAssumption DEF vdisk_raw_seek, MayCall, Types
  <2> QED BY <1>3, <2>1, <2>2 DEF vdisk_raw_seek, Types, disks
<1>17. \A e \in Range(disk_list) : e.fd # BadFd =>
         e.fd \in DOMAIN fds /\ (d.fd # BadFd /\ e.fd = d.fd => e = d)
  BY DEF Owned, InUse, All
<1> HIDE DEF others
<1>18. Calling'
  <2> SUFFICES ASSUME NEW j \in Callers, req'[j].op # "none"
               PROVE  LET c == req'[j] IN
                      /\ c.d \in Range(disk_list) /\ c.d.kind = "raw"
                      /\ c.s + c.n <= capacity(c.d)
                      /\ c.alone =>
                           /\ c.d.fd # BadFd => fds'[c.d.fd].off = c.s * SectSize[c.d.file]
                           /\ \A i \in Callers : i # j /\ req'[i].op # "none" => req'[i].d # c.d
    BY DEF Calling, capacity, vdisk_raw_seek, disks
  <2>1. CASE j = k
    <3>1. req'[j].d = d /\ req'[j].s = s /\ req'[j].n = n /\ (req'[j].alone => others = {})
      BY <1>11, <1>12, <2>1
    <3>2. ASSUME others = {}, NEW i \in Callers, i # k, req'[i].op # "none"
          PROVE  req'[i].d # d
      BY <1>8, <3>2 DEF others
    <3> QED BY <1>3, <1>5, <1>17, <2>1, <3>1, <3>2
  <2>2. CASE j # k /\ j \in others
    <3>1. req[j].op # "none" /\ req[j].d = d
      BY <2>2 DEF others
    <3> QED BY <1>14, <2>2, <3>1 DEF Calling
  <2>3. CASE j # k /\ j \notin others
    <3>1. req'[j] = req[j] /\ req[j].d # d
      BY <1>8, <2>3 DEF others
    <3>2. req[j].d \in Range(disk_list) /\ req[j].d.kind = "raw"
          /\ req[j].s + req[j].n <= capacity(req[j].d)
      BY <3>1 DEF Calling
    <3>3. req[j].alone /\ req[j].d.fd # BadFd
            => fds'[req[j].d.fd].off = req[j].s * SectSize[req[j].d.file]
      BY <1>3, <1>17, <3>1, <3>2 DEF Calling
    <3>4. ASSUME req[j].alone, NEW i \in Callers, i # j, req'[i].op # "none"
          PROVE  req'[i].d # req[j].d
      <4>1. CASE i = k
        BY <1>11, <3>1, <4>1
      <4>2. CASE i # k
        <5>1. req'[i].op = req[i].op /\ req'[i].d = req[i].d
          BY Zenon, <1>8, <1>14, <4>2
        <5> QED BY <3>1, <3>4, <5>1 DEF Calling
      <4> QED BY <4>1, <4>2
    <3> QED BY Zenon, <3>1, <3>2, <3>3, <3>4
  <2> QED BY <2>1, <2>2, <2>3
<1> QED BY <1>4, <1>16, <1>18

(* A call ends, and disturbs none on another disk.                           *)
LEMMA EndStep ==
  ASSUME Types, Numbered, Owned, Calling, NEW k \in Callers, req[k].op # "none",
         req' = [req EXCEPT ![k] = Idle], UNCHANGED disks, UNCHANGED calls,
         answer' = [j \in Callers |-> answer'[j]],
         FdTypes', DOMAIN fds' = DOMAIN fds,
         \A i \in DOMAIN fds : fds'[i].file = fds[i].file,
         \A i \in DOMAIN fds : i # req[k].d.fd => fds'[i] = fds[i]
  PROVE  Types' /\ Numbered' /\ Owned' /\ Calling'
<1>1. Numbered' /\ Owned'
  BY Zenon, SameDisks
<1>2. \A j \in Callers : req[j] \in Requests
  BY DEF Types
<1>3. Idle \in Requests /\ Idle.op = "none"
  BY DEF Idle, Requests
<1>4. req'[k] = Idle /\ \A j \in Callers : j # k => req'[j] = req[j]
  BY DEF Types
<1>5. Types'
  <2>1. req' \in [Callers -> Requests]
    BY Zenon, <1>3 DEF Types
  <2> QED BY <2>1 DEF Types, disks
<1>6. \A e \in Range(disk_list) : e.fd # BadFd =>
        e.fd \in DOMAIN fds /\ (req[k].d.fd # BadFd /\ e.fd = req[k].d.fd => e = req[k].d)
  BY DEF Owned, InUse, All, Calling
<1>7. ASSUME NEW j \in Callers, req'[j].op # "none"
      PROVE  /\ j # k /\ req'[j] = req[j] /\ req[j].op # "none"
             /\ req[j].alone /\ req[j].d.fd # BadFd =>
                  fds'[req[j].d.fd].off = req[j].s * SectSize[req[j].d.file]
  <2>1. j # k /\ req'[j] = req[j] /\ req[j].op # "none"
    BY <1>3, <1>4, <1>7
  <2>2. ASSUME req[j].alone, req[j].d.fd # BadFd
        PROVE  fds'[req[j].d.fd] = fds[req[j].d.fd]
    BY <1>6, <2>1, <2>2 DEF Calling
  <2> QED BY <2>1, <2>2 DEF Calling
<1>8. Calling'
  BY <1>7 DEF Calling, capacity, disks
<1> QED BY <1>1, <1>5, <1>8

(* What a read alone on its disk delivers.                                   *)
LEMMA GotRight ==
  ASSUME Types, Numbered, Owned, Calling, ImageIntact, NEW k \in Callers,
         req[k].op = "read", req[k].d.fd # BadFd
  PROVE  LET c == req[k]  h == fds[c.d.fd]  q == PerSector(c.d.file)
             got == Blocks(image[h.file], h.off, c.n * SectSize[c.d.file])
         IN /\ got \in Seq(Nat) /\ h.off \in Nat
            /\ c.alone => got = [b \in 1..(c.n * q) |-> c.s * q + b]
<1> DEFINE c == req[k]  f == c.d.file  h == fds[c.d.fd]  sect == SectSize[f]
<1>1. c \in Requests /\ c.n \in Nat /\ c.s \in Nat
  BY DEF Types, Requests
<1>2. c.d \in Range(disk_list) /\ c.d.kind = "raw" /\ c.s + c.n <= capacity(c.d)
  BY DEF Calling
<1>3. c.d \in Disks /\ c.d \in InUse /\ f \in Files
  <2>1. c.d \in Disks
    BY <1>2 DEF Types, Range
  <2>2. c.d \in InUse
    BY <1>2 DEF InUse, All
  <2> QED BY <2>1, <2>2 DEF Disks
<1>4. sect \in Sectors /\ Size[f] \in Nat
  BY <1>3, FilesAssumption DEF Sectors
<1>5. c.d.cnt = Size[f] \div sect
  <2>1. Made(c.d) /\ c.d.fd # BadFd
    BY <1>3 DEF Numbered, InUse
  <2> QED BY <1>2, <1>3, <2>1, FilesAssumption DEF Made
<1>6. h.file = f /\ h \in Descriptors
  BY <1>3 DEF Owned, Types, FdTypes
<1>7. h.off \in Nat /\ image[h.file] = Original(f)
  BY <1>3, <1>6 DEF Descriptors, ImageIntact
<1>8. c.alone => h.off = c.s * sect
  BY DEF Calling
<1>9. c.s + c.n <= Size[f] \div sect
  BY <1>2, <1>4, <1>5 DEF capacity, Huge, Sectors
<1> HIDE DEF c, f, h, sect
<1>10. c.n * sect \in Nat
  BY <1>1, <1>4 DEF Sectors
<1>11. Blocks(Original(f), h.off, c.n * sect) \in Seq(Nat)
  BY Zenon, <1>3, <1>7, <1>10, BlocksTyped
<1>12. ASSUME c.alone
       PROVE  Blocks(Original(f), h.off, c.n * sect)
                = [b \in 1..(c.n * (sect \div 512)) |-> c.s * (sect \div 512) + b]
  <2>1. Blocks(Original(f), c.s * sect, c.n * sect)
          = [b \in 1..(c.n * (sect \div 512)) |-> c.s * (sect \div 512) + b]
    BY <1>1, <1>3, <1>4, <1>9, BlocksAre
  <2> QED BY Zenon, <1>8, <1>12, <2>1
<1> QED BY Zenon, <1>7, <1>11, <1>12 DEF c, f, h, sect, PerSector

(* The answer of a call replaces that of its caller only.                    *)
LEMMA AnsweredIs ==
  ASSUME Types, NEW k \in Callers, NEW status, NEW io, NEW got,
         answer' = Answered(k, status, io, got)
  PROVE  /\ answer' = [j \in Callers |-> answer'[j]]
         /\ answer'[k].call = req[k] /\ answer'[k].io = io /\ answer'[k].got = got
         /\ \A j \in Callers : j # k => answer'[j] = answer[j]
<1>1. answer = [j \in Callers |-> answer[j]]
  BY DEF Types
<1> QED BY <1>1 DEF Answered

(* One answer is to be looked at.                                            *)
LEMMA RightKept ==
  ASSUME RightSectors, NEW k \in Callers, Right(answer'[k]),
         \A j \in Callers : j # k => answer'[j] = answer[j]
  PROVE  RightSectors'
BY Zenon DEF RightSectors

(* A read, whether io_read fails or not.                                     *)
LEMMA ReadStep ==
  ASSUME Types, Numbered, Owned, Calling, ImageIntact, RightSectors, NEW k \in Callers,
         vdisk_raw_read(k)
  PROVE  Types' /\ Numbered' /\ Owned' /\ Calling' /\ ImageIntact' /\ RightSectors'
<1> DEFINE c == req[k]  h == fds[c.d.fd]
           got == Blocks(image[h.file], h.off, c.n * SectSize[c.d.file])
<1>1. /\ image' = image
      /\ c.op = "read" /\ c.op # "none" /\ req' = [req EXCEPT ![k] = Idle]
      /\ UNCHANGED disks /\ UNCHANGED calls
      /\ \/ answer' = Answered(k, "SUCCESS", "error", <<>>) /\ fds' = fds
         \/ /\ c.d.fd # BadFd /\ answer' = Answered(k, "SUCCESS", "ok", got)
            /\ fds' = Positioned(c.d.fd, h.off + 512 * Len(got))
  BY Zenon DEF vdisk_raw_read
<1>2. ImageIntact'
  BY Zenon, <1>1 DEF ImageIntact
<1>3. CASE answer' = Answered(k, "SUCCESS", "error", <<>>) /\ fds' = fds
  <2>1. /\ answer' = [j \in Callers |-> answer'[j]]
        /\ answer'[k].io = "error"
        /\ \A j \in Callers : j # k => answer'[j] = answer[j]
    BY <1>3, AnsweredIs
  <2>2. FdTypes'
    BY Zenon, <1>3 DEF Types, FdTypes
  <2>3. Types' /\ Numbered' /\ Owned' /\ Calling'
    BY Zenon, <1>1, <1>3, <2>1, <2>2, EndStep
  <2>4. Right(answer'[k])
    BY Zenon, <2>1 DEF Right
  <2> QED BY Zenon, <1>2, <2>1, <2>3, <2>4, RightKept
<1>4. CASE /\ c.d.fd # BadFd /\ answer' = Answered(k, "SUCCESS", "ok", got)
           /\ fds' = Positioned(c.d.fd, h.off + 512 * Len(got))
  <2>1. /\ got \in Seq(Nat) /\ h.off \in Nat
        /\ c.alone => got = [b \in 1..(c.n * PerSector(c.d.file)) |->
                               c.s * PerSector(c.d.file) + b]
    BY Zenon, <1>1, <1>4, GotRight
  <2> HIDE DEF got
  <2>2. /\ answer' = [j \in Callers |-> answer'[j]]
        /\ answer'[k].call = req[k] /\ answer'[k].got = got
        /\ \A j \in Callers : j # k => answer'[j] = answer[j]
    BY <1>4, AnsweredIs
  <2>3. PICK off \in Nat : off = h.off + 512 * Len(got)
    BY <2>1
  <2>4. /\ FdTypes' /\ DOMAIN fds' = DOMAIN fds
        /\ \A i \in DOMAIN fds : fds'[i].file = fds[i].file
        /\ \A i \in DOMAIN fds : i # c.d.fd => fds'[i] = fds[i]
    <3>1. fds' = Positioned(c.d.fd, off)
      BY Zenon, <1>4, <2>3
    <3>2. FdTypes
      BY Zenon DEF Types
    <3> HIDE DEF h, c
    <3> QED BY <2>3, <3>1, <3>2, PositionedIs
  <2>5. Types' /\ Numbered' /\ Owned' /\ Calling'
    BY Zenon, <1>1, <2>2, <2>4, EndStep
  <2>6. Right(answer'[k])
    <3> HIDE DEF h, c
    <3>1. answer'[k].call = c
      BY Zenon, <2>2 DEF c
    <3> QED BY Zenon, <2>1, <2>2, <3>1 DEF Right
  <2> QED BY Zenon, <1>2, <2>2, <2>5, <2>6, RightKept
<1> QED BY Zenon, <1>1, <1>3, <1>4

(* A write finds a descriptor open for reading only.                         *)
LEMMA WriteStep ==
  ASSUME Types, Numbered, Owned, Calling, ImageIntact, RightSectors, NEW k \in Callers,
         vdisk_raw_write(k)
  PROVE  Types' /\ Numbered' /\ Owned' /\ Calling' /\ ImageIntact' /\ RightSectors'
<1>1. /\ req[k].op = "write" /\ req[k].op # "none" /\ req' = [req EXCEPT ![k] = Idle]
      /\ UNCHANGED disks /\ UNCHANGED calls
  BY Zenon DEF vdisk_raw_write
<1>2. req[k].d.fd # BadFd => fds[req[k].d.fd].mode # "rdwr"
  <2>1. req[k].d.fd # BadFd => req[k].d.fd \in DOMAIN fds
    BY <1>1 DEF Calling, Owned, InUse, All
  <2> QED BY <2>1 DEF Types, FdTypes, Descriptors
<1>3. image' = image /\ fds' = fds /\ answer' = Answered(k, "SUCCESS", "error", <<>>)
  BY Zenon, <1>2 DEF vdisk_raw_write
<1>4. /\ answer' = [j \in Callers |-> answer'[j]]
      /\ answer'[k].io = "error"
      /\ \A j \in Callers : j # k => answer'[j] = answer[j]
  BY <1>3, AnsweredIs
<1>5. FdTypes'
  BY Zenon, <1>3 DEF Types, FdTypes
<1>6. Types' /\ Numbered' /\ Owned' /\ Calling'
  BY Zenon, <1>1, <1>3, <1>4, <1>5, EndStep
<1>7. ImageIntact' /\ Right(answer'[k])
  BY Zenon, <1>3, <1>4 DEF ImageIntact, Right
<1> QED BY Zenon, <1>4, <1>6, <1>7, RightKept

(* A write to an image is refused.                                           *)
LEMMA RefusedWriteStep ==
  ASSUME Types, Numbered, Owned, Calling, ImageIntact, RightSectors, NEW k \in Callers, NEW d,
         vdisk_qcow2_write(k, d)
  PROVE  Types' /\ Numbered' /\ Owned' /\ Calling' /\ ImageIntact' /\ RightSectors'
<1>1. req[k].op = "none"
  BY DEF vdisk_qcow2_write, MayCall, Idle
<1>2. /\ fds' = fds /\ req' = req /\ image' = image /\ UNCHANGED disks
      /\ answer' = Answered(k, "UNSUPPORTED_FS", "none", <<>>)
  BY Zenon DEF vdisk_qcow2_write
<1>3. /\ answer' = [j \in Callers |-> answer'[j]]
      /\ answer'[k].call = req[k]
      /\ \A j \in Callers : j # k => answer'[j] = answer[j]
  BY Zenon, <1>2, AnsweredIs
<1>4. Types'
  <2>1. calls' \in 0..MaxCalls
    BY FilesAssumption DEF vdisk_qcow2_write, MayCall, Types
  <2> QED BY Zenon, <1>2, <1>3, <2>1 DEF Types, FdTypes, disks
<1>5. Numbered' /\ Owned'
  BY Zenon, <1>2, SameDisks
<1>6. Calling' /\ ImageIntact'
  BY <1>2 DEF Calling, capacity, ImageIntact, disks
<1>7. Right(answer'[k])
  BY Zenon, <1>1, <1>3 DEF Right
<1> QED BY Zenon, <1>3, <1>4, <1>5, <1>6, <1>7, RightKept

-----------------------------------------------------------------------------
(* The commands.                                                           *)

(* Accounted is Owned, except after the one crash.                           *)
LEMMA OwnedAccounted == Owned => Accounted
BY Zenon DEF Owned, Accounted, InUse, All, Owns

(* While the system has not crashed it is Owned.                             *)
LEMMA AccountedOwned == Accounted /\ ~crashed => Owned
BY Zenon DEF Owned, Accounted, InUse, All, Owns

(* The disk vdisk_init_raw makes, with a file or without.                    *)
LEMMA RawDisk ==
  ASSUME Types, NEW f \in Files, NEW name \in Names, NEW fd \in Nat \cup {BadFd},
         fd = BadFd <=> ~Exists[f], NEW d, d = Disk("raw", f, fd, name, NoHeader)
  PROVE  /\ d \in Disks /\ d.id = adds + 1 /\ d.file = f /\ d.fd = fd /\ Made(d)
         /\ Owns(d) = {"disk"}
<1> DEFINE cnt == sect_cnt(IF Exists[f] THEN Size[f] ELSE -1, SectSize[f])
           e == [id |-> adds + 1, kind |-> "raw", file |-> f, fd |-> fd, name |-> name,
                 hdr |-> NoHeader, cnt |-> cnt]
<1>1. /\ cnt \in Nat \cup {Huge}
      /\ Exists[f] => cnt = Size[f] \div SectSize[f]
  BY FilesAssumption DEF sect_cnt, Huge
<1>2. d = e
  BY Zenon DEF Disk
<1>3. adds + 1 \in Nat
  BY DEF Types
<1> HIDE DEF cnt
<1>4. e \in Disks /\ e.id = adds + 1 /\ e.file = f /\ e.fd = fd /\ Owns(e) = {"disk"}
  BY <1>1, <1>3 DEF Disks, Owns
<1>5. Made(e)
  BY <1>1 DEF Made
<1> QED BY Zenon, <1>2, <1>4, <1>5

(* The disk vdisk_init_qcow2 makes of a header that passes its checks.       *)
LEMMA ImageDisk ==
  ASSUME Types, NEW f \in Files, NEW name \in Names, NEW fd \in Nat, fd # BadFd,
         NEW h \in Headers, \A i \in 1..6 : Checks(h)[i],
         NEW d, d = Disk("qcow2", f, fd, name, h)
  PROVE  /\ d \in Disks /\ d.id = adds + 1 /\ d.file = f /\ d.fd = fd /\ Made(d)
         /\ Owns(d) = {"disk", "cluster", "cmp_cluster", "l1"}
<1> DEFINE cnt == sect_cnt(h.size, SectSize[f])
           e == [id |-> adds + 1, kind |-> "qcow2", file |-> f, fd |-> fd, name |-> name,
                 hdr |-> h, cnt |-> cnt]
<1>1. h.size \in Nat
  BY DEF Headers
<1>2. cnt \in Nat \cup {Huge} /\ cnt = h.size \div SectSize[f]
  BY <1>1, FilesAssumption DEF sect_cnt, Huge
<1>3. h.cluster_bits \in 9..21
  <2>1. Checks(h)[3]
    OBVIOUS
  <2> QED BY Zenon, <2>1 DEF Checks
<1>4. d = e
  BY Zenon DEF Disk
<1>5. adds + 1 \in Nat
  BY DEF Types
<1> HIDE DEF cnt
<1>6. /\ e \in Disks /\ e.id = adds + 1 /\ e.file = f /\ e.fd = fd
      /\ Owns(e) = {"disk", "cluster", "cmp_cluster", "l1"}
  BY <1>2, <1>5 DEF Disks, Owns
<1>7. Made(e)
  BY <1>2, <1>3 DEF Made
<1> QED BY Zenon, <1>4, <1>6, <1>7

(* What the commands leave alone.                                            *)
LEMMA Unheeded ==
  ASSUME ImageIntact, RightSectors, image' = image, answer' = answer
  PROVE  ImageIntact' /\ RightSectors'
BY Zenon DEF ImageIntact, RightSectors

(* disk_add of a raw file.                                                   *)
LEMMA AddRawStep ==
  ASSUME Types, Numbered, Owned, Calling, ImageIntact, RightSectors,
         NEW f \in Files, NEW name \in Names, AddRaw(f, name)
  PROVE  Types' /\ Numbered' /\ Owned' /\ Calling' /\ ImageIntact' /\ RightSectors'
<1>0. PICK fd \in IF Exists[f] THEN NewFd ELSE {BadFd} :
        /\ fds' = IF Exists[f] THEN Opened(fd, f) ELSE fds
        /\ Register(Disk("raw", f, fd, name, NoHeader))
  BY Zenon DEF AddRaw
<1> DEFINE d == Disk("raw", f, fd, name, NoHeader)
<1>1. /\ adds < MaxAdds /\ adds' = adds + 1 /\ Register(d)
      /\ fds' = IF Exists[f] THEN Opened(fd, f) ELSE fds
      /\ heap' = heap \cup {<<adds + 1, "disk">>}
      /\ UNCHANGED <<running, calls, req, answer, image, crashed>>
  BY Zenon, <1>0 DEF AddRaw, Add, calling
<1>2. Exists[f] => fd \in Nat /\ fd >= 3 /\ fd \notin DOMAIN fds /\ fd # BadFd
  BY Zenon, NewFdIs
<1>3. fd \in Nat \cup {BadFd} /\ (fd = BadFd <=> ~Exists[f])
  BY Zenon, <1>2
<1>d. d = Disk("raw", f, fd, name, NoHeader)
  OBVIOUS
<1> HIDE DEF d
<1>4. /\ d \in Disks /\ d.id = adds + 1 /\ d.file = f /\ d.fd = fd /\ Made(d)
      /\ Owns(d) = {"disk"}
  BY <1>3, <1>d, RawDisk
<1>5. /\ FdTypes'
      /\ IF fd = BadFd THEN fds' = fds
         ELSE /\ fd \notin DOMAIN fds /\ DOMAIN fds' = DOMAIN fds \cup {fd}
              /\ fds'[fd].file = f
              /\ \A i \in DOMAIN fds : fds'[i] = fds[i]
  <2>1. CASE Exists[f]
    <3>1. fds' = Opened(fd, f) /\ FdTypes
      BY Zenon, <1>1, <2>1 DEF Types
    <3> QED BY Zenon, <1>2, <2>1, <3>1, OpenedIs
  <2>2. CASE ~Exists[f]
    BY Zenon, <1>1, <1>3, <2>2 DEF Types, FdTypes
  <2> QED BY Zenon, <2>1, <2>2
<1>6. heap' = heap \cup ({d.id} \X Owns(d))
  BY <1>1, <1>4
<1>7. Numbered' /\ Owned'
  BY Zenon, <1>1, <1>4, <1>5, <1>6, GrowsStep
<1>8. disk_list' \in Seq(Disks) /\ refused' \subseteq Disks
  BY Zenon, <1>1, <1>4, RegisterIs
<1>9. Range(disk_list) \subseteq Range(disk_list)'
  BY Zenon, <1>1, <1>4, RegisterRange
<1>10. \A i \in DOMAIN fds : fds'[i] = fds[i]
  BY Zenon, <1>5
<1>11. Types'
  <2>1. adds' \in 0..MaxAdds
    BY <1>1, FilesAssumption DEF Types
  <2>2. heap' \subseteq (1..MaxAdds) \X {"disk", "cluster", "cmp_cluster", "l1"}
    BY <1>1, FilesAssumption DEF Types
  <2> QED BY Zenon, <1>1, <1>5, <1>8, <2>1, <2>2 DEF Types
<1>12. Calling'
  BY Zenon, <1>1, <1>9, <1>10, CallingKept
<1> QED BY Zenon, <1>1, <1>7, <1>11, <1>12, Unheeded

(* disk_add of an image.                                                     *)
LEMMA AddImageStep ==
  ASSUME Types, Numbered, Owned, Calling, ImageIntact, RightSectors,
         NEW f \in Files, NEW name \in Names, AddQcow2(f, name)
  PROVE  Types' /\ Numbered' /\ Owned' /\ Calling' /\ ImageIntact' /\ RightSectors'
<1>0. PICK fd \in NewFd, h \in ReadHeader :
        /\ \A i \in 1..6 : Checks(h)[i]
        /\ fds' = Opened(fd, f) /\ Register(Disk("qcow2", f, fd, name, h))
  BY Zenon DEF AddQcow2
<1>h. h \in Headers
  BY Zenon, HeaderAssumption DEF ReadHeader
<1> DEFINE d == Disk("qcow2", f, fd, name, h)
           blocks == {"disk", "cluster", "cmp_cluster", "l1"}
<1>1. /\ adds < MaxAdds /\ adds' = adds + 1 /\ Register(d)
      /\ \A i \in 1..6 : Checks(h)[i]
      /\ fds' = Opened(fd, f)
      /\ heap' = heap \cup ({adds + 1} \X blocks)
      /\ UNCHANGED <<running, calls, req, answer, image, crashed>>
  BY Zenon, <1>0 DEF AddQcow2, Add, calling
<1>2. fd \in Nat /\ fd >= 3 /\ fd \notin DOMAIN fds /\ fd # BadFd
  BY Zenon, NewFdIs
<1>d. d = Disk("qcow2", f, fd, name, h)
  OBVIOUS
<1> HIDE DEF d
<1>3. /\ d \in Disks /\ d.id = adds + 1 /\ d.file = f /\ d.fd = fd /\ Made(d)
      /\ Owns(d) = blocks
  BY <1>1, <1>2, <1>d, <1>h, ImageDisk
<1>4. /\ FdTypes' /\ DOMAIN fds' = DOMAIN fds \cup {fd}
      /\ fds'[fd].file = f
      /\ \A i \in DOMAIN fds : fds'[i] = fds[i]
  BY Zenon, <1>1, <1>2, OpenedIs DEF Types
<1>5. Numbered' /\ Owned'
  BY Zenon, <1>1, <1>2, <1>3, <1>4, GrowsStep
<1>6. disk_list' \in Seq(Disks) /\ refused' \subseteq Disks
  BY Zenon, <1>1, <1>3, RegisterIs
<1>7. Range(disk_list) \subseteq Range(disk_list)'
  BY Zenon, <1>1, <1>3, RegisterRange
<1>8. Types'
  <2>1. adds' \in 0..MaxAdds
    BY <1>1, FilesAssumption DEF Types
  <2>2. heap' \subseteq (1..MaxAdds) \X {"disk", "cluster", "cmp_cluster", "l1"}
    BY <1>1, FilesAssumption DEF Types
  <2> QED BY Zenon, <1>1, <1>4, <1>6, <2>1, <2>2 DEF Types
<1>9. Calling'
  BY Zenon, <1>1, <1>4, <1>7, CallingKept
<1> QED BY Zenon, <1>1, <1>5, <1>8, <1>9, Unheeded

(* An image given up at any step leaves nothing behind.                      *)
LEMMA GivenUp ==
  ASSUME NEW f, NEW i \in 1..13, AddQcow2Fails(f, i)
  PROVE  fds' = fds /\ heap' = heap
<1>1. Acquired(i) \ vdisk_qcow2_close = {}
  BY Zenon DEF Acquired, vdisk_qcow2_close
<1> QED BY <1>1 DEF AddQcow2Fails

(* disk_del.                                                                 *)
LEMMA DelStep ==
  ASSUME Types, Numbered, Owned, ImageIntact, RightSectors, NEW name \in Names, DiskDel(name)
  PROVE  Types' /\ Numbered' /\ Owned' /\ Calling' /\ ImageIntact' /\ RightSectors'
<1> DEFINE freed(d) == IF d.kind = "raw" THEN vdisk_raw_close ELSE vdisk_qcow2_close
<1>1. PICK i \in DOMAIN disk_list :
        /\ disk_list' = Removed(i)
        /\ heap' = heap \ ({disk_list[i].id} \X freed(disk_list[i]))
        /\ fds' = IF "fd" \in freed(disk_list[i]) THEN Closed(disk_list[i].fd) ELSE fds
  BY Zenon DEF DiskDel
<1>2. /\ \A k \in Callers : req[k] = Idle
      /\ UNCHANGED <<running, calls, req, answer, adds, refused, image, crashed>>
  BY Zenon DEF DiskDel, calling
<1> DEFINE d == disk_list[i]
<1>4. d \in Disks
  BY DEF Types
<1>5. freed(d) = Owns(d) \cup {"fd"}
  BY <1>4 DEF Disks, Owns, vdisk_raw_close, vdisk_qcow2_close
<1> HIDE DEF freed
<1>6. "fd" \in freed(d)
  BY Zenon, <1>5
<1>7. disk_list' \in Seq(Disks) /\ FdTypes' /\ Numbered' /\ Owned'
  BY Zenon, <1>1, <1>2, <1>5, <1>6, ShrinksStep
<1>8. Types'
  <2>1. heap' \subseteq heap
    BY Zenon, <1>1
  <2> QED BY <1>2, <1>7, <2>1 DEF Types
<1>9. Calling'
  BY <1>2 DEF Calling, Idle
<1> QED BY Zenon, <1>2, <1>7, <1>8, <1>9, Unheeded

-----------------------------------------------------------------------------
(* The geometry of an image.                                               *)

\* The arithmetic of a cluster size and a sector size.
Fits(C, sect) ==
  \A s, size, l1 \in Nat : s < size \div sect =>
    LET at == And(s, C \div sect - 1) * sect  guest == (s * sect) \div C
    IN /\ size <= l1 * (C \div 8) * C => guest \div (C \div 8) < l1
       /\ at + sect <= C /\ guest * C + at = s * sect

(* It is right for every size vdisk_init_qcow2 accepts.                      *)
LEMMA FitsEach ==
  ASSUME NEW bits \in 9..21, NEW sect \in Sectors
  PROVE  512 <= 2^bits /\ (sect <= 2^bits => Fits(2^bits, sect))
<1>1. CASE bits = 9
  <2>1. Fits(2^9, 512)
    BY DEF Fits, And
  <2> QED BY <1>1, <2>1 DEF Sectors
<1>2. CASE bits = 10
  <2>1. Fits(2^10, 512)
    BY DEF Fits, And
  <2> QED BY <1>2, <2>1 DEF Sectors
<1>3. CASE bits = 11
  <2>1. Fits(2^11, 512) /\ Fits(2^11, 2048)
    BY DEF Fits, And
  <2> QED BY <1>3, <2>1 DEF Sectors
<1>4. CASE bits = 12
  <2>1. Fits(2^12, 512) /\ Fits(2^12, 2048) /\ Fits(2^12, 4096)
    BY DEF Fits, And
  <2> QED BY <1>4, <2>1 DEF Sectors
<1>5. CASE bits = 13
  <2>1. Fits(2^13, 512) /\ Fits(2^13, 2048) /\ Fits(2^13, 4096)
    BY DEF Fits, And
  <2> QED BY <1>5, <2>1 DEF Sectors
<1>6. CASE bits = 14
  <2>1. Fits(2^14, 512) /\ Fits(2^14, 2048) /\ Fits(2^14, 4096)
    BY DEF Fits, And
  <2> QED BY <1>6, <2>1 DEF Sectors
<1>7. CASE bits = 15
  <2>1. Fits(2^15, 512) /\ Fits(2^15, 2048) /\ Fits(2^15, 4096)
    BY DEF Fits, And
  <2> QED BY <1>7, <2>1 DEF Sectors
<1>8. CASE bits = 16
  <2>1. Fits(2^16, 512) /\ Fits(2^16, 2048) /\ Fits(2^16, 4096)
    BY DEF Fits, And
  <2> QED BY <1>8, <2>1 DEF Sectors
<1>9. CASE bits = 17
  <2>1. Fits(2^17, 512) /\ Fits(2^17, 2048) /\ Fits(2^17, 4096)
    BY DEF Fits, And
  <2> QED BY <1>9, <2>1 DEF Sectors
<1>10. CASE bits = 18
  <2>1. Fits(2^18, 512) /\ Fits(2^18, 2048) /\ Fits(2^18, 4096)
    BY DEF Fits, And
  <2> QED BY <1>10, <2>1 DEF Sectors
<1>11. CASE bits = 19
  <2>1. Fits(2^19, 512) /\ Fits(2^19, 2048) /\ Fits(2^19, 4096)
    BY DEF Fits, And
  <2> QED BY <1>11, <2>1 DEF Sectors
<1>12. CASE bits = 20
  <2>1. Fits(2^20, 512) /\ Fits(2^20, 2048) /\ Fits(2^20, 4096)
    BY DEF Fits, And
  <2> QED BY <1>12, <2>1 DEF Sectors
<1>13. CASE bits = 21
  <2>1. Fits(2^21, 512) /\ Fits(2^21, 2048) /\ Fits(2^21, 4096)
    BY DEF Fits, And
  <2> QED BY <1>13, <2>1 DEF Sectors
<1> QED BY <1>1, <1>2, <1>3, <1>4, <1>5, <1>6, <1>7, <1>8, <1>9, <1>10, <1>11,
         <1>12, <1>13

(* The geometry of an accepted image is right.                               *)
LEMMA GeometryHolds == Types /\ Numbered => GeometryRight
<1> SUFFICES ASSUME Types, Numbered, NEW d \in Range(disk_list), d.kind = "qcow2",
                    NEW s \in 0..(d.cnt - 1)
             PROVE  LET h == d.hdr  sect == SectSize[d.file] IN
                    sect <= cluster_size(h) \/ sect = 512 =>
                      /\ Covers(h) => l1_index(h, sect, s) < h.l1_size
                      /\ in_cluster(h, sect, s) + sect <= cluster_size(h)
                      /\ cluster_index(h, sect, s) * cluster_size(h)
                           + in_cluster(h, sect, s) = s * sect
  BY DEF GeometryRight
<1> DEFINE h == d.hdr  sect == SectSize[d.file]  C == cluster_size(h)
<1>1. d \in Disks /\ Made(d)
  BY DEF Types, Range, Numbered, All
<1>2. /\ h \in Headers /\ h.cluster_bits \in 9..21
      /\ d.cnt = h.size \div sect /\ d.file \in Files
  BY <1>1 DEF Disks, Made
<1>3. sect \in Sectors /\ h.size \in Nat /\ h.l1_size \in Nat
  BY <1>2, FilesAssumption DEF Sectors, Headers
<1> HIDE DEF h, sect
<1>4. s \in Nat /\ s < h.size \div sect
  BY <1>2, <1>3 DEF Sectors
<1>5. 512 <= C
  BY Zenon, <1>2, <1>3, FitsEach DEF cluster_size
<1>6. ASSUME sect <= C
      PROVE  Fits(C, sect)
  BY Zenon, <1>2, <1>3, <1>6, FitsEach DEF cluster_size
<1> HIDE DEF C
<1>7. ASSUME Fits(C, sect)
      PROVE  /\ h.size <= h.l1_size * (C \div 8) * C =>
                  ((s * sect) \div C) \div (C \div 8) < h.l1_size
             /\ And(s, C \div sect - 1) * sect + sect <= C
             /\ ((s * sect) \div C) * C + And(s, C \div sect - 1) * sect = s * sect
  BY Zenon, <1>3, <1>4, <1>7 DEF Fits
<1> QED BY Zenon, <1>5, <1>6, <1>7
           DEF h, sect, C, Covers, l1_index, in_cluster, cluster_index, sector_idx_mask

-----------------------------------------------------------------------------
\* The inductive invariant.
DisksInv ==
  /\ Types /\ Numbered /\ Accounted /\ (~crashed => Calling)
  /\ ImageIntact /\ RightSectors

(* Before any command there is no disk.                                      *)
LEMMA DisksInit == Init => DisksInv
<1> SUFFICES ASSUME Init PROVE DisksInv
  OBVIOUS
<1>1. DOMAIN fds = {} /\ disk_list \in Seq(Disks) /\ DOMAIN disk_list = {} /\ All = {}
  BY DEF Init, All, Range
<1>2. FdTypes
  BY <1>1 DEF FdTypes, Init
<1>3. Idle \in Requests /\ Idle.op = "none"
  BY DEF Idle, Requests
<1>4. \A k \in Callers : req[k] = Idle /\ answer[k].call = Idle
  BY DEF Init
<1>5. Types
  <2>1. req \in [Callers -> Requests]
    BY <1>3 DEF Init
  <2>2. answer = [k \in Callers |-> answer[k]]
    BY DEF Init
  <2>3. adds \in 0..MaxAdds /\ calls \in 0..MaxCalls
    BY FilesAssumption DEF Init
  <2> QED BY Zenon, <1>1, <1>2, <2>1, <2>2, <2>3 DEF Types, Init
<1>6. Numbered
  BY <1>1 DEF Numbered, Init
<1>7. Owned
  <2>1. InUse = {} /\ heap = {}
    BY <1>1 DEF InUse, Init
  <2> QED BY <1>1, <2>1 DEF Owned
<1>8. Calling
  BY Zenon, <1>3, <1>4 DEF Calling
<1>9. RightSectors
  BY <1>3, <1>4 DEF RightSectors, Right
<1>10. ImageIntact
  BY DEF Init, ImageIntact
<1> QED BY Zenon, <1>5, <1>6, <1>7, <1>8, <1>9, <1>10, OwnedAccounted DEF DisksInv

(* Every command and every step of a driver keeps the invariant.             *)
LEMMA DisksStep == DisksInv /\ [Next]_vars => DisksInv'
<1> SUFFICES ASSUME DisksInv, [Next]_vars PROVE DisksInv'
  OBVIOUS
<1>0. /\ Types /\ Numbered /\ Accounted /\ (~crashed => Calling) /\ ImageIntact /\ RightSectors
      /\ ~crashed => Owned
  BY Zenon, AccountedOwned DEF DisksInv
<1>d. ASSUME Types', Numbered', Owned', Calling', ImageIntact', RightSectors'
      PROVE  DisksInv'
  <2>1. Accounted'
    BY <1>d, OwnedAccounted, PTL
  <2> QED BY Zenon, <1>d, <2>1 DEF DisksInv
<1>1. ASSUME NEW f \in Files, AddUnknown(f)
      PROVE  DisksInv'
  <2>1. /\ ~crashed /\ adds < MaxAdds /\ adds' = adds + 1
        /\ UNCHANGED <<running, calls, req, answer, fds, heap, disk_list, refused, image,
                       crashed>>
    BY Zenon, <1>1 DEF AddUnknown, Add, calling
  <2>2. Types'
    BY <1>0, <2>1, FilesAssumption DEF Types, FdTypes
  <2>3. Numbered'
    BY <1>0, <2>1 DEF Types, Numbered, Made, All
  <2>4. Owned' /\ Calling'
    BY Zenon, <1>0, <2>1 DEF Owned, InUse, All, Owns, Calling, capacity
  <2> QED BY Zenon, <1>0, <1>d, <2>1, <2>2, <2>3, <2>4, Unheeded
<1>2. ASSUME NEW f \in Files, AddRawFails(f)
      PROVE  DisksInv'
  <2>0. PICK fd \in NewFd : fds' = IF Exists[f] THEN Opened(fd, f) ELSE fds
    BY Zenon, <1>2 DEF AddRawFails
  <2>1. /\ ~crashed /\ adds < MaxAdds /\ adds' = adds + 1 /\ Suffix[f] # "qcow2"
        /\ crashed' = TRUE /\ adding'[1] = f
        /\ UNCHANGED <<running, calls, req, answer, heap, disk_list, refused, image>>
    BY Zenon, <1>2 DEF AddRawFails, Add, calling
  <2>2. FdTypes'
    <3>1. FdTypes
      BY <1>0 DEF Types
    <3>2. CASE Exists[f]
      BY Zenon, <1>0, <2>0, <3>1, <3>2, NewFdIs, OpenedIs
    <3>3. CASE ~Exists[f]
      BY Zenon, <2>0, <3>1, <3>3 DEF FdTypes
    <3> QED BY Zenon, <3>2, <3>3
  <2>3. Types'
    <3>1. adds' \in 0..MaxAdds
      BY <1>0, <2>1, FilesAssumption DEF Types
    <3> QED BY Zenon, <1>0, <2>1, <2>2, <3>1 DEF Types
  <2>4. Numbered'
    BY <1>0, <2>1 DEF Types, Numbered, Made, All
  <2>5. Accounted'
    BY Zenon, <2>1 DEF Accounted
  <2> QED BY Zenon, <1>0, <2>1, <2>3, <2>4, <2>5, Unheeded DEF DisksInv
<1>3. ASSUME NEW f \in Files, NEW name \in Names, AddRaw(f, name)
      PROVE  DisksInv'
  <2>1. ~crashed
    BY Zenon, <1>3 DEF AddRaw, Add
  <2> QED BY Zenon, <1>0, <1>3, <1>d, <2>1, AddRawStep
<1>4. ASSUME NEW f \in Files, NEW name \in Names, AddQcow2(f, name)
      PROVE  DisksInv'
  <2>1. ~crashed
    BY Zenon, <1>4 DEF AddQcow2, Add
  <2> QED BY Zenon, <1>0, <1>4, <1>d, <2>1, AddImageStep
<1>5. ASSUME NEW f \in Files, NEW i \in 1..13, AddQcow2Fails(f, i)
      PROVE  DisksInv'
  <2>1. /\ ~crashed /\ adds < MaxAdds /\ adds' = adds + 1
        /\ UNCHANGED <<running, calls, req, answer, disk_list, refused, image>>
        /\ crashed' = TRUE
    BY Zenon, <1>5 DEF AddQcow2Fails, Add, calling
  <2>2. fds' = fds /\ heap' = heap
    BY Zenon, <1>5, GivenUp
  <2>3. Types'
    BY <1>0, <2>1, <2>2, FilesAssumption DEF Types, FdTypes
  <2>4. Numbered'
    BY <1>0, <2>1 DEF Types, Numbered, Made, All
  <2>5. Owned' /\ Calling'
    BY <1>0, <2>1, <2>2 DEF Owned, InUse, All, Owns, Calling, capacity
  <2> QED BY Zenon, <1>0, <1>d, <2>1, <2>3, <2>4, <2>5, Unheeded
<1>6. ASSUME NEW name \in Names, DiskDel(name)
      PROVE  DisksInv'
  <2>1. ~crashed
    BY Zenon, <1>6 DEF DiskDel
  <2> QED BY Zenon, <1>0, <1>6, <1>d, <2>1, DelStep
<1>7. ASSUME Run
      PROVE  DisksInv'
  <2>1. /\ ~crashed /\ running' = TRUE
        /\ UNCHANGED <<adds, calls, req, answer, fds, heap, disk_list, refused, image,
                       crashed>>
    BY Zenon, <1>7 DEF Run, calling
  <2>2. Types' /\ Numbered'
    BY <1>0, <2>1 DEF Types, FdTypes, Numbered, Made, All
  <2>3. Owned' /\ Calling'
    BY <1>0, <2>1 DEF Owned, InUse, All, Owns, Calling, capacity
  <2> QED BY Zenon, <1>0, <1>d, <2>1, <2>2, <2>3, Unheeded
<1>8. ASSUME NEW k \in Callers, NEW d \in Range(disk_list), NEW op \in {"read", "write"},
             NEW s \in 0..(capacity(d) - 1), NEW n \in 1..2, vdisk_raw_seek(k, op, d, s, n)
      PROVE  DisksInv'
  <2>1. ~crashed /\ image' = image /\ answer' = answer
    BY Zenon, <1>8 DEF vdisk_raw_seek, MayCall
  <2>2. s \in Nat /\ n \in Nat
    <3>1. capacity(d) \in Nat
      <4>1. d \in Disks
        BY <1>0 DEF Types, Range
      <4> QED BY <4>1 DEF Disks, capacity, Huge
    <3> QED BY <3>1
  <2>3. Types' /\ Numbered' /\ Owned' /\ Calling'
    BY Zenon, <1>0, <1>8, <2>1, <2>2, SeekStep
  <2> QED BY Zenon, <1>0, <1>d, <2>1, <2>3, Unheeded
<1>9. ASSUME NEW k \in Callers, NEW d \in Range(disk_list), vdisk_qcow2_write(k, d)
      PROVE  DisksInv'
  <2>1. ~crashed
    BY Zenon, <1>9 DEF vdisk_qcow2_write, MayCall
  <2> QED BY Zenon, <1>0, <1>9, <1>d, <2>1, RefusedWriteStep
<1>10. ASSUME NEW k \in Callers, vdisk_raw_read(k)
      PROVE  DisksInv'
  <2>1. ~crashed
    BY Zenon, <1>10 DEF vdisk_raw_read
  <2> QED BY Zenon, <1>0, <1>10, <1>d, <2>1, ReadStep
<1>11. ASSUME NEW k \in Callers, vdisk_raw_write(k)
      PROVE  DisksInv'
  <2>1. ~crashed
    BY Zenon, <1>11 DEF vdisk_raw_write
  <2> QED BY Zenon, <1>0, <1>11, <1>d, <2>1, WriteStep
<1>12. ASSUME UNCHANGED vars
       PROVE  DisksInv'
  <2>1. UNCHANGED <<running, adds, calls, fds, heap, disk_list, refused, req, image,
                    answer, crashed, adding>>
    BY Zenon, <1>12 DEF vars
  <2>2. Types' /\ Numbered'
    BY Zenon, <1>0, <2>1 DEF Types, FdTypes, Numbered, All
  <2>3. Accounted' /\ ImageIntact' /\ RightSectors'
    BY Zenon, <1>0, <2>1 DEF Accounted, ImageIntact, RightSectors
  <2>4. ~crashed' => Calling'
    BY Zenon, <1>0, <2>1 DEF Calling
  <2> QED BY Zenon, <2>2, <2>3, <2>4 DEF DisksInv
<1> QED BY Zenon, <1>1, <1>2, <1>3, <1>4, <1>5, <1>6, <1>7, <1>8, <1>9, <1>10, <1>11, <1>12
           DEF Next, Command, Call

(* The inductive invariant of the disks, for any files, headers and callers. *)
THEOREM DisksInvariant == Spec => []DisksInv
BY DisksInit, DisksStep, PTL DEF Spec

(* The disks have the descriptors and sizes of vdisk_init.                   *)
THEOREM DiskTypesCorrect == Spec => []TypeOK
<1>1. DisksInv => TypeOK
  <2> SUFFICES ASSUME DisksInv PROVE TypeOK
    OBVIOUS
  <2>0. Types /\ Numbered
    BY DEF DisksInv
  <2>1. \A i \in DOMAIN fds : i >= 3 /\ fds[i].file \in Files /\ fds[i].off \in Nat
    BY <2>0 DEF Types, FdTypes, Descriptors
  <2>2. \A d \in Range(disk_list) \cup refused :
          /\ d.id \in 1..adds /\ d.kind \in {"raw", "qcow2"}
          /\ d.fd \in Nat \cup {BadFd} /\ d.cnt \in Nat \cup {Huge}
    <3>1. \A d \in Range(disk_list) : d \in Disks
      BY <2>0 DEF Types, Range
    <3>2. \A d \in All : d \in Disks /\ d.id \in 1..adds
      BY Zenon, <2>0, <3>1 DEF Types, Numbered, All
    <3> QED BY <3>2 DEF Disks, All
  <2>3. \A k \in Callers : req[k].op \in {"none", "read", "write"}
    BY <2>0 DEF Types, Requests
  <2> QED BY <2>0, <2>1, <2>2, <2>3 DEF TypeOK, Types
<1> QED BY <1>1, DisksInvariant, PTL

(* A read alone on its disk delivers its sectors, for any files, any number  *)
(* of callers and disks, descriptors reused and files shared.                *)
THEOREM SectorsCorrect == Spec => []RightSectors
<1>1. DisksInv => RightSectors
  BY DEF DisksInv
<1> QED BY <1>1, DisksInvariant, PTL

(* No write reaches an image, for any files and callers.                     *)
THEOREM ImageCorrect == Spec => []ImageIntact
<1>1. DisksInv => ImageIntact
  BY DEF DisksInv
<1> QED BY <1>1, DisksInvariant, PTL

(* What is open and allocated is what the disks own, whatever was added,     *)
(* given up, refused and deleted before.                                     *)
THEOREM AccountCorrect == Spec => []Accounted
<1>1. DisksInv => Accounted
  BY DEF DisksInv
<1> QED BY <1>1, DisksInvariant, PTL

(* In every accepted image, of any size and any cluster size, a sector is    *)
(* found where it lies.                                                      *)
THEOREM GeometryCorrect == Spec => []GeometryRight
<1>1. DisksInv => GeometryRight
  BY GeometryHolds DEF DisksInv
<1> QED BY <1>1, DisksInvariant, PTL

-----------------------------------------------------------------------------
(* The cluster cache of an image.                                          *)

\* A stored cluster whose lookup has met no failure.
Sound(x) == x \in Clusters /\ Backed(x) /\ x \notin spoilt

Lookup(k) ==
  /\ pc[k] # "idle" => want[k] \in Clusters /\ prev = want[k]
  /\ pc[k] = "l2" => Kind[want[k]] # "nol2"
  /\ pc[k] \in {"load", "copy"} /\ want[k] \notin spoilt
       => Kind[want[k]] \notin {"nol2", "zeroed"}
  /\ pc[k] = "load" /\ Sound(want[k]) => entry[k] = Kind[want[k]]
  /\ pc[k] = "copy" /\ Sound(want[k]) => cluster = Data(want[k])
  /\ pc[k] = "idle" /\ Sound(prev) => cluster = Data(prev)
  /\ pc[k] = "idle" /\ Sound(want[k]) => out[k] = Data(want[k])

\* Inside a call the cluster is a real one, not the sentinel.
CacheTyped == CacheTypeOK /\ \A k \in Readers : pc[k] # "idle" => want[k] \in Clusters

CacheInv == CacheTyped /\ (Solo => \A k \in Readers : Lookup(k))

-----------------------------------------------------------------------------
(* Every path through qcow2_read_guest_sector keeps the types.               *)
LEMMA CacheTypeStep == CacheTyped /\ [CacheNext]_cache_vars => CacheTypeOK'
<1> SUFFICES ASSUME CacheTyped, [CacheNext]_cache_vars
             PROVE  CacheTypeOK'
  OBVIOUS
<1> USE DEF CacheTyped
<1>1. ASSUME NEW k \in Readers, Step(k)
      PROVE  CacheTypeOK'
  <2>1. ASSUME NEW x \in Clusters, Hit(k, x)
        PROVE  CacheTypeOK'
    BY <2>1 DEF CacheTypeOK, Hit, Deliver
  <2>2. ASSUME NEW x \in Clusters, Miss(k, x)
        PROVE  CacheTypeOK'
    BY <2>2 DEF CacheTypeOK, Miss, Deliver, Contents
  <2>3. CASE ReadL2(k)
    BY <2>3, KindAssumption DEF CacheTypeOK, ReadL2, UseEntry, Deliver, Contents
  <2>4. CASE ReadL2Fails(k)
    BY <2>4 DEF CacheTypeOK, ReadL2Fails, UseEntry, Deliver, Contents
  <2>5. CASE Load(k)
    <3>1. Loaded(k) \in Contents
      BY <2>5 DEF Loaded, Contents, Load
    <3> QED
      BY <2>5, <3>1 DEF CacheTypeOK, Load
  <2>6. CASE LoadFails(k)
    BY <2>6 DEF CacheTypeOK, LoadFails, Deliver, Contents
  <2>7. CASE Copy(k)
    BY <2>7 DEF CacheTypeOK, Copy, Deliver
  <2> QED
    BY <1>1, <2>1, <2>2, <2>3, <2>4, <2>5, <2>6, <2>7 DEF Step
<1>2. CASE UNCHANGED cache_vars
  BY <1>2 DEF CacheTypeOK, cache_vars
<1> QED
  BY <1>1, <1>2 DEF CacheNext

(* The call keeps looking for the cluster it was asked for.                  *)
LEMMA CacheTypedStep == CacheTyped /\ [CacheNext]_cache_vars => CacheTyped'
<1> SUFFICES ASSUME CacheTyped, [CacheNext]_cache_vars
             PROVE  \A j \in Readers : pc'[j] # "idle" => want'[j] \in Clusters
  BY CacheTypeStep DEF CacheTyped
<1> USE DEF CacheTyped, CacheTypeOK
<1>1. ASSUME NEW k \in Readers, Step(k)
      PROVE  \A j \in Readers : pc'[j] # "idle" => want'[j] \in Clusters
  BY <1>1 DEF Step, Hit, Miss, ReadL2, ReadL2Fails, UseEntry, Load, LoadFails,
              Copy, Deliver
<1>2. CASE UNCHANGED cache_vars
  BY <1>2 DEF cache_vars
<1> QED
  BY <1>1, <1>2 DEF CacheNext

(* What is known at each point of the only reader's call is kept by every    *)
(* step, failing reads of the image included.                                *)
LEMMA LookupStep == CacheInv /\ [CacheNext]_cache_vars => CacheInv'
<1> SUFFICES ASSUME CacheInv, [CacheNext]_cache_vars, Solo, NEW k \in Readers
             PROVE  Lookup(k)'
  BY CacheTypedStep DEF CacheInv, Solo
<1> USE ClustersAssumption, KindAssumption DEF CacheInv, CacheTyped, CacheTypeOK, Lookup, Sound
<1>1. CASE UNCHANGED cache_vars
  BY <1>1 DEF cache_vars
<1>2. ASSUME Step(k)
      PROVE  Lookup(k)'
  <2>1. ASSUME NEW x \in Clusters, Hit(k, x)
        PROVE  Lookup(k)'
    BY <2>1 DEF Hit, Deliver
  <2>2. ASSUME NEW x \in Clusters, Miss(k, x)
        PROVE  Lookup(k)'
    BY <2>2 DEF Miss, Deliver, Backed
  <2>3. CASE ReadL2(k)
    BY <2>3 DEF ReadL2, UseEntry, Deliver, Backed
  <2>4. CASE ReadL2Fails(k)
    BY <2>4 DEF ReadL2Fails, UseEntry, Deliver
  <2>5. CASE Load(k)
    BY <2>5 DEF Load, Loaded, Backed
  <2>6. CASE LoadFails(k)
    BY <2>6 DEF LoadFails, Deliver
  <2>7. CASE Copy(k)
    BY <2>7 DEF Copy, Deliver
  <2> QED
    BY Zenon, <1>2, <2>1, <2>2, <2>3, <2>4, <2>5, <2>6, <2>7 DEF Step
<1> QED
  BY Zenon, <1>1, <1>2 DEF CacheNext, Solo

(* The inductive invariant of the cache.                                     *)
LEMMA CacheInvariant == CacheSpec => []CacheInv
<1>1. CacheInit => CacheInv
  BY ClustersAssumption
  DEF CacheInit, CacheInv, CacheTyped, CacheTypeOK, Lookup, Sound, Contents, Kinds
<1> QED
  BY <1>1, LookupStep, PTL DEF CacheSpec

(* The variables of the cache keep their types, for any number of readers.   *)
THEOREM CacheTypesCorrect == CacheSpec => []CacheTypeOK
<1>1. CacheInv => CacheTypeOK
  BY DEF CacheInv, CacheTyped
<1> QED
  BY <1>1, CacheInvariant, PTL

(* Between two calls d->cluster holds the cluster prev_cluster_index names,  *)
(* for every image: if it is stored and its last lookup met no failure.      *)
THEOREM CacheCorrect == CacheSpec => []CacheCoherent
<1>1. CacheInv => CacheCoherent
  BY ReadersAssumption DEF CacheInv, CacheTyped, CacheTypeOK, Lookup, Sound, CacheCoherent, Quiet
<1> QED
  BY <1>1, CacheInvariant, PTL

(* A stored cluster is delivered as stored, for every image and whatever     *)
(* reads of other clusters have failed before.                               *)
THEOREM BackedCorrect == CacheSpec => []BackedSectorsRight
<1>1. CacheInv => BackedSectorsRight
  BY DEF CacheInv, CacheTyped, CacheTypeOK, Lookup, Sound, Backed, Guest, BackedSectorsRight
<1> QED
  BY <1>1, CacheInvariant, PTL

(* A lookup that is not answered from the cache, of a cluster that is no     *)
(* hole, delivers what the guest should see, for every image.                *)
THEOREM LookupsCorrect == CacheSpec => LookupsRight
<1> DEFINE Served(k) ==
      /\ Solo /\ Quiet' /\ pc[k] # "idle"
      /\ Kind[want[k]] # "hole" /\ want[k] \notin spoilt'
      => out'[k] = Guest(want[k])
<1>1. CacheInv /\ [CacheNext]_cache_vars => [\A k \in Readers : Served(k)]_cache_vars
  <2> SUFFICES ASSUME CacheInv, CacheNext, NEW k \in Readers, Solo, Quiet', pc[k] # "idle",
                      Kind[want[k]] # "hole", want[k] \notin spoilt'
               PROVE  out'[k] = Guest(want[k])
    BY Zenon
  <2>1. Step(k)
    BY Zenon DEF CacheNext, Solo
  <2> USE KindAssumption
      DEF CacheInv, CacheTyped, CacheTypeOK, Lookup, Sound, Kinds, Backed, Guest, Quiet, Deliver
  <2>2. CASE ReadL2(k)
    BY <2>2 DEF ReadL2, UseEntry
  <2>3. CASE ReadL2Fails(k) \/ LoadFails(k)
    BY <2>3 DEF ReadL2Fails, LoadFails
  <2>4. CASE Load(k)
    BY <2>4 DEF Load
  <2>5. CASE Copy(k)
    BY <2>5 DEF Copy
  <2> QED
    BY <2>1, <2>2, <2>3, <2>4, <2>5 DEF Step, Hit, Miss
<1> QED
  BY <1>1, CacheInvariant, PTL DEF CacheSpec, LookupsRight
=============================================================================
