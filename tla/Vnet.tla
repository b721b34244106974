-------------------------------- MODULE Vnet --------------------------------
(***************************************************************************)
(* The virtual network cards.  net_add_device and main initialise a card   *)
(* (vnet/null.c, vnet/file.c, linux/vnet/tap.c), attach its handler        *)
(* vnet_input to the network interrupt and start a host thread,            *)
(* vnet_input_monitor.  That thread reads a frame into bufin, stores its   *)
(* length and the number of the interrupt and raises a signal, whose       *)
(* handler hw_int (umka_os.c) runs in the same thread and enters the       *)
(* kernel.  The kernel calls the attached handlers until one of them       *)
(* acknowledges the interrupt, and vnet_input copies bufin to a buffer of  *)
(* the kernel.  Every vnet_input acknowledges, so with two cards one       *)
(* thread copies what another thread is reading.                           *)
(*                                                                         *)
(* The n-th frame of card d is <<d, n>>, and its length is n.  Descriptors *)
(* are left out, and so is what the kernel does with a card it is given.   *)
(***************************************************************************)
EXTENDS Integers, Sequences

CONSTANTS
  MaxCards,   \* bound: cards that are added
  MaxReads,   \* bound: reads of each monitor
  MaxDrops    \* bound: buffers the kernel cannot allocate

ASSUME BoundsAssumption == {MaxCards, MaxReads, MaxDrops} \subseteq Nat

VARIABLES
  running,           \* "never" in umka_shell, "yes" in umka_os
  adding, kind,      \* main: the stage of vnet_init; the cards' types
  chain,             \* handlers of the network interrupt, as attached
  mon,               \* per card: where its monitor thread is
  nread, bufin, bufin_len, input_processed,
  umka_irq_number,
  plen, buf,         \* per monitor: locals of the vnet_input it executes
  drops,
  faulted,           \* the process faulted and is gone
  log, own,          \* history, per card: reads, and what became of them
  failed             \* history: a read failed

vars == <<running, adding, kind, chain, mon, nread, bufin, bufin_len,
          input_processed, umka_irq_number, plen, buf, drops, faulted, log,
          own, failed>>
main == <<running, adding, kind, chain>>
card == <<bufin, bufin_len, input_processed>>
frames == <<plen, buf>>
history == <<log, own, failed>>

Types == {"null", "file", "tap"}
Cards == 1..MaxCards

\* What malloc left in the structure, and a frame read in part.
Junk == <<0, 0>>
Torn == <<0, 1>>
JunkLen == -2
SizeMax == -1

Frames == {Junk, Torn} \cup Cards \X (1..MaxReads)
Lengths == {SizeMax} \cup 0..MaxReads
BufLengths == Lengths \cup {JunkLen}
Outcomes == {<<>>} \cup Frames \X BufLengths \X BufLengths

-----------------------------------------------------------------------------
(* vnet_init.                                                              *)

NULL == "none"

\* What the cards' own initialisations return: that of a tap card fails at
\* an open or one of six ioctls, that of a file card at one of two opens.
vnet_init_null == {"null"}
vnet_init_file == {"file", NULL}
vnet_init_tap == {"tap", NULL}

InitFails(t) ==
  /\ adding = "no" /\ ~faulted /\ Len(kind) < MaxCards /\ t = NULL
  /\ kind' = Append(kind, t)
  /\ adding' = "null"
  /\ UNCHANGED <<running, chain, mon, nread, card, umka_irq_number, frames,
                 drops, faulted, history>>

\* main tests for NULL and goes on; net_add_device gives it to the kernel,
\* which rejects it or faults.
AddNull ==
  /\ adding = "null" /\ ~faulted
  /\ adding' = "no"
  /\ faulted' \in BOOLEAN
  /\ UNCHANGED <<running, kind, chain, mon, nread, card, umka_irq_number,
                 frames, drops, history>>

InitCard(t) ==
  /\ adding = "no" /\ ~faulted /\ Len(kind) < MaxCards /\ t # NULL
  /\ kind' = Append(kind, t)
  /\ input_processed' = [input_processed EXCEPT ![Len(kind) + 1] = 1]
  /\ adding' = "attach"
  /\ UNCHANGED <<running, chain, mon, nread, bufin, bufin_len, umka_irq_number,
                 frames, drops, faulted, history>>

\* Faulty: the monitor is started before the handler is attached.
AttachLate ==
  /\ adding \in {"attach", "late"} /\ ~faulted
  /\ IF adding = "attach"
       THEN /\ mon' = [mon EXCEPT ![Len(kind)] = IF running = "never" THEN "none"
                                                 ELSE "read"]
            /\ adding' = "late" /\ chain' = chain
       ELSE chain' = Append(chain, Len(kind)) /\ adding' = "no" /\ mon' = mon
  /\ UNCHANGED <<running, kind, nread, card, umka_irq_number, frames,
                 drops, faulted, history>>

Attach ==
  /\ adding = "attach" /\ ~faulted
  /\ chain' = Append(chain, Len(kind))
  /\ adding' = "spawn"
  /\ UNCHANGED <<running, kind, mon, nread, card, umka_irq_number, frames,
                 drops, faulted, history>>

Spawn ==
  /\ adding = "spawn" /\ ~faulted
  /\ mon' = [mon EXCEPT ![Len(kind)] = IF running = "never" THEN "none"
                                       ELSE "read"]
  /\ adding' = "no"
  /\ UNCHANGED <<running, kind, chain, nread, card, umka_irq_number,
                 frames, drops, faulted, history>>

-----------------------------------------------------------------------------
(* vnet_input_monitor.                                                     *)

At(d, p) == mon[d] = p /\ ~faulted
Goto(d, p) == mon' = [mon EXCEPT ![d] = p]

\* A frame is there: read copies it.
ReadFrame(d) ==
  /\ At(d, "read") /\ Len(log[d]) < MaxReads /\ Goto(d, "reading")
  /\ bufin' = [bufin EXCEPT ![d] = Torn]
  /\ UNCHANGED <<main, nread, bufin_len, input_processed, umka_irq_number,
                 frames, drops, faulted, history>>

ReadEnd(d) ==
  /\ At(d, "reading") /\ Goto(d, "store")
  /\ bufin' = [bufin EXCEPT ![d] = <<d, Len(log[d]) + 1>>]
  /\ nread' = [nread EXCEPT ![d] = Len(log[d]) + 1]
  /\ log' = [log EXCEPT ![d] = Append(@, Len(@) + 1)]
  /\ UNCHANGED <<main, bufin_len, input_processed, umka_irq_number, frames,
                 drops, faulted, own, failed>>

\* The end of the file, or of the shell's input, which the null card reads.
ReadEof(d) ==
  /\ At(d, "read") /\ Len(log[d]) < MaxReads /\ kind[d] \in {"null", "file"}
  /\ Goto(d, "store")
  /\ nread' = [nread EXCEPT ![d] = 0]
  /\ log' = [log EXCEPT ![d] = Append(@, 0)]
  /\ UNCHANGED <<main, card, umka_irq_number, frames, drops, faulted, own,
                 failed>>

ReadError(d) ==
  /\ At(d, "read") /\ Len(log[d]) < MaxReads /\ Goto(d, "store")
  /\ nread' = [nread EXCEPT ![d] = SizeMax]
  /\ log' = [log EXCEPT ![d] = Append(@, SizeMax)]
  /\ failed' = TRUE
  /\ UNCHANGED <<main, card, umka_irq_number, frames, drops, faulted, own>>

\* Faulty: input_processed is not reset.
StoreUnmarked(d) ==
  /\ At(d, "store") /\ Goto(d, "number")
  /\ bufin_len' = [bufin_len EXCEPT ![d] = nread[d]]
  /\ UNCHANGED <<main, nread, bufin, input_processed, umka_irq_number, frames,
                 drops, faulted, history>>

\* Faulty: the length is not stored.
StoreNoLength(d) ==
  /\ At(d, "store") /\ Goto(d, "number")
  /\ input_processed' = [input_processed EXCEPT ![d] = 0]
  /\ UNCHANGED <<main, nread, bufin, bufin_len, umka_irq_number, frames, drops,
                 faulted, history>>

Store(d) ==
  /\ At(d, "store") /\ Goto(d, "number")
  /\ input_processed' = [input_processed EXCEPT ![d] = 0]
  /\ bufin_len' = [bufin_len EXCEPT ![d] = nread[d]]
  /\ UNCHANGED <<main, nread, bufin, umka_irq_number, frames, drops, faulted,
                 history>>

StoreNumber(d) ==
  /\ At(d, "number") /\ Goto(d, "raise")
  /\ umka_irq_number' = "network"
  /\ UNCHANGED <<main, nread, card, frames, drops, faulted, history>>

-----------------------------------------------------------------------------
(* hw_int and vnet_input, in the thread of card d.                         *)

\* The kernel's entry for the number it finds; of the others nothing
\* concerns the network, and without handlers the kernel returns.
hw_int(d) ==
  /\ At(d, "raise")
  /\ Goto(d, IF umka_irq_number = "network" /\ chain # <<>> THEN "alloc"
             ELSE "read")
  /\ UNCHANGED <<main, nread, card, umka_irq_number, frames, drops, faulted,
                 history>>

\* The card whose handler is called: the first one acknowledges.
Called == Head(chain)

\* The outcome of an interrupt the card itself raised.
Outcome(d, x) ==
  own' = IF Called = d THEN [own EXCEPT ![d] = Append(@, x)] ELSE own

\* Faulty: the monitor ends when there is no buffer.
AllocFailsEnding(d) ==
  /\ At(d, "alloc") /\ drops < MaxDrops /\ Goto(d, "none")
  /\ drops' = drops + 1
  /\ Outcome(d, <<>>)
  /\ UNCHANGED <<main, nread, card, umka_irq_number, frames, faulted, log,
                 failed>>

AllocFails(d) ==
  /\ At(d, "alloc") /\ drops < MaxDrops /\ Goto(d, "read")
  /\ drops' = drops + 1
  /\ Outcome(d, <<>>)
  /\ UNCHANGED <<main, nread, card, umka_irq_number, frames, faulted, log,
                 failed>>

Alloc(d) ==
  /\ At(d, "alloc") /\ Goto(d, "copy")
  /\ plen' = [plen EXCEPT ![d] = bufin_len[Called]]
  /\ UNCHANGED <<main, nread, card, umka_irq_number, buf, drops, faulted,
                 history>>

\* memcpy; it faults for (size_t)-1 and may fault for a length never stored.
Copy(d) ==
  /\ At(d, "copy")
  /\ LET n == bufin_len[Called]
     IN \/ /\ n \in {SizeMax, JunkLen}
           /\ faulted' = TRUE /\ UNCHANGED <<mon, buf>>
        \/ /\ n # SizeMax
           /\ Goto(d, "input")
           /\ buf' = [buf EXCEPT ![d] = <<bufin[Called], n>>]
           /\ faulted' = FALSE
  /\ UNCHANGED <<main, nread, card, umka_irq_number, plen, drops, history>>

\* buf->length and kos_eth_input.
EthInput(d) ==
  /\ At(d, "input") /\ Goto(d, "read")
  /\ input_processed' = [input_processed EXCEPT ![Called] = 1]
  /\ Outcome(d, <<buf[d][1], buf[d][2], plen[d]>>)
  /\ UNCHANGED <<main, nread, bufin, bufin_len, umka_irq_number, frames, drops,
                 faulted, log, failed>>

-----------------------------------------------------------------------------
Init ==
  /\ running \in {"never", "yes"}
  /\ adding = "no" /\ kind = <<>> /\ chain = <<>>
  /\ mon = [d \in Cards |-> "none"]
  /\ nread = [d \in Cards |-> 0]
  /\ bufin = [d \in Cards |-> Junk] /\ bufin_len = [d \in Cards |-> JunkLen]
  /\ input_processed = [d \in Cards |-> 0]
  /\ umka_irq_number = "none"
  /\ plen = [d \in Cards |-> 0] /\ buf = [d \in Cards |-> <<Junk, 0>>]
  /\ drops = 0 /\ faulted = FALSE
  /\ log = [d \in Cards |-> <<>>] /\ own = [d \in Cards |-> <<>>]
  /\ failed = FALSE

vnet_input(d) == AllocFails(d) \/ Alloc(d) \/ Copy(d) \/ EthInput(d)

vnet_init ==
  \/ \E t \in vnet_init_null \cup vnet_init_file \cup vnet_init_tap :
       InitCard(t) \/ InitFails(t)
  \/ Attach \/ Spawn \/ AddNull

Monitor(d) ==
  \/ ReadFrame(d) \/ ReadEnd(d) \/ ReadEof(d) \/ ReadError(d)
  \/ Store(d) \/ StoreNumber(d) \/ hw_int(d) \/ vnet_input(d)

Next == vnet_init \/ \E d \in Cards : Monitor(d)

Spec == Init /\ [][Next]_vars
FairSpec == Spec /\ \A d \in Cards : WF_vars(Monitor(d))

-----------------------------------------------------------------------------
(* Types: what the threads and the interrupt handlers leave in their buffers *)
(* are frames, lengths and the marks of a card.                              *)
TypeOK ==
  /\ running \in {"never", "yes"}
  /\ adding \in {"no", "null", "attach", "spawn"}
  /\ kind \in Seq(Types \cup {NULL}) /\ Len(kind) <= MaxCards
  /\ chain \in Seq(Cards)
  /\ mon \in [Cards -> {"none", "read", "reading", "store", "number", "raise",
                        "alloc", "copy", "input"}]
  /\ nread \in [Cards -> Lengths]
  /\ bufin \in [Cards -> Frames]
  /\ bufin_len \in [Cards -> BufLengths]
  /\ plen \in [Cards -> BufLengths]
  /\ buf \in [Cards -> Frames \X BufLengths]
  /\ input_processed \in [Cards -> {0, 1}]
  /\ umka_irq_number \in {"none", "network"}
  /\ drops \in 0..MaxDrops /\ {faulted, failed} \subseteq BOOLEAN
  /\ log \in [Cards -> Seq(Lengths)]
  /\ own \in [Cards -> Seq(Outcomes)]

\* From the end of a read to the end of its interrupt.
Handling(d) == mon[d] \in {"store", "number", "raise", "alloc", "copy", "input"}

\* x is what the kernel may get for the i-th read of d: nothing if it had no
\* buffer, an empty frame at the end of the input, else the frame itself.
Exact(d, i, x) ==
  \/ x = <<>>
  \/ log[d][i] = 0 /\ x[2] = 0 /\ x[3] = 0
  \/ log[d][i] = i /\ x = <<<<d, i>>, i, i>>

(***************************************************************************)
(* The interrupts the first card raises itself give the kernel each frame  *)
(* it read, whole, once and in the order of reading, unless there was no   *)
(* buffer; whatever the monitors of other cards do meanwhile, and although *)
(* the handler is attached while others run (vnet.c:38-90,136-141).        *)
(***************************************************************************)
OwnDeliveries ==
  chain # <<>> =>
    LET d == Head(chain)
    IN /\ Len(log[d]) = Len(own[d]) + IF Handling(d) THEN 1 ELSE 0
       /\ \A i \in 1..Len(own[d]) : Exact(d, i, own[d][i])

(***************************************************************************)
(* With a single card, input_processed tells at the next read whether the  *)
(* frame was handed over: the wait for it that is commented out in the     *)
(* monitor (vnet.c:85-87) would never end after a frame without a buffer.  *)
(***************************************************************************)
ProcessedIsHandedOver ==
  \A d \in Cards :
    chain = <<d>> /\ mon[d] \in {"read", "reading"} /\ own[d] # <<>> =>
      (input_processed[d] = 1 <=> own[d][Len(own[d])] # <<>>)

\* A read failed, two handlers share the interrupt, or there is a card that
\* could not be initialised.
Excused ==
  failed \/ Len(chain) > 1 \/ \E i \in 1..Len(kind) : kind[i] = NULL

(***************************************************************************)
(* The process faults only after a read that failed, when two cards share  *)
(* the interrupt, or when net_add_device goes on with a card that could    *)
(* not be initialised: a length is always stored before it is copied with  *)
(* (vnet.c:56,79-84, shell.c:3118-3120).                                   *)
(***************************************************************************)
FaultsExplained == faulted => Excused

(***************************************************************************)
(* An interrupt raised for a read ends, and its monitor reads again,       *)
(* unless the process faults for one of those reasons (vnet.c:56, 78-88).  *)
(***************************************************************************)
InterruptsEnd ==
  \A d \in Cards : mon[d] = "store" ~> (mon[d] = "read" \/ (faulted /\ Excused))

=============================================================================
