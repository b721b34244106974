----------------------------- MODULE Vnet_proofs -----------------------------
(***************************************************************************)
(* Proofs about the network cards, for any number of cards, of reads and   *)
(* of failed allocations.                                                  *)
(*                                                                         *)
(* Setup says how far the cards are initialised when their handlers are    *)
(* attached and their monitors run, Held what a monitor has of its last    *)
(* read, First what the interrupts of the first card carry to the kernel,  *)
(* Alone how input_processed follows them when there is no other card, and *)
(* Remembered that a read which returned -1 is remembered.                 *)
(***************************************************************************)
EXTENDS Vnet, TLAPS

Attached(d) == \E i \in 1..Len(chain) : chain[i] = d

Setup ==
  /\ \A i \in 1..Len(chain) : chain[i] \in 1..Len(kind)
  /\ \A d \in Cards : ~Attached(d) =>
       mon[d] = "none" /\ log[d] = <<>> /\ own[d] = <<>>
  /\ adding # "no" => Len(kind) > 0 /\ mon[Len(kind)] = "none"
  /\ adding = "null" => kind[Len(kind)] = NULL
  /\ adding = "attach" => ~Attached(Len(kind))
  /\ adding = "spawn" => Attached(Len(kind))

Numbered(d) == mon[d] \in {"number", "raise", "alloc", "copy", "input"}

Held(d) ==
  /\ \A i \in 1..Len(log[d]) : log[d][i] \in {i, 0, SizeMax}
  /\ mon[d] = "reading" => Len(log[d]) < MaxReads
  /\ Handling(d) =>
       /\ Len(log[d]) > 0 /\ nread[d] = log[d][Len(log[d])]
       /\ nread[d] = Len(log[d]) => bufin[d] = <<d, Len(log[d])>>
  /\ Numbered(d) => bufin_len[d] = nread[d]
  /\ mon[d] = "raise" => umka_irq_number = "network"

First(d) ==
  /\ mon[d] \in {"copy", "input"} => plen[d] = nread[d]
  /\ mon[d] = "input" => buf[d] = <<bufin[d], nread[d]>> /\ nread[d] # SizeMax
  /\ Len(log[d]) = Len(own[d]) + IF Handling(d) THEN 1 ELSE 0
  /\ \A i \in 1..Len(own[d]) : Exact(d, i, own[d][i])

Alone(d) ==
  /\ mon[d] = "none" => own[d] = <<>>
  /\ Numbered(d) => input_processed[d] = 0
  /\ mon[d] \in {"read", "reading"} /\ own[d] # <<>> =>
       (input_processed[d] = 1 <=> own[d][Len(own[d])] # <<>>)

Remembered == \A d \in Cards : nread[d] = SizeMax => failed

Inductive ==
  /\ TypeOK
  /\ Setup
  /\ Remembered
  /\ FaultsExplained
  /\ \A d \in Cards : Held(d)
  /\ chain # <<>> => First(chain[1])
  /\ Len(chain) = 1 => Alone(chain[1])

-----------------------------------------------------------------------------
(* The frames and lengths a card can hold.                                  *)
LEMMA Values ==
  /\ MaxCards \in Nat /\ MaxReads \in Nat /\ MaxDrops \in Nat
  /\ Junk \in Frames /\ Torn \in Frames
  /\ \A d \in Cards, n \in 1..MaxReads : <<d, n>> \in Frames
  /\ Lengths \subseteq BufLengths /\ BufLengths \subseteq Int
  /\ 0 \in Lengths /\ SizeMax \in Lengths /\ 1..MaxReads \subseteq Lengths
  /\ Cards \subseteq Nat \ {0}
  /\ SizeMax = -1 /\ JunkLen = -2
BY BoundsAssumption DEF Frames, Lengths, BufLengths, Cards, SizeMax, JunkLen

(* What the initialisation of a card returns.                               *)
LEMMA Returned ==
  vnet_init_null \cup vnet_init_file \cup vnet_init_tap = Types \cup {NULL}
BY DEF vnet_init_null, vnet_init_file, vnet_init_tap, Types

(* The steps of vnet_init keep the types.                                   *)
LEMMA TypeInit ==
  ASSUME TypeOK, Setup, vnet_init
  PROVE  TypeOK'
<1> USE Values
<1>1. ASSUME NEW t \in Types \cup {NULL}, InitCard(t)  PROVE TypeOK'
  <2>1. kind' \in Seq(Types \cup {NULL}) /\ Len(kind') <= MaxCards
    BY <1>1 DEF InitCard, TypeOK
  <2>2. input_processed' \in [Cards -> {0, 1}]
    BY Zenon, <1>1 DEF InitCard, TypeOK
  <2>3. QED  BY Zenon, <1>1, <2>1, <2>2 DEF InitCard, TypeOK, frames, history
<1>2. ASSUME NEW t \in Types \cup {NULL}, InitFails(t)  PROVE TypeOK'
  <2>1. kind' \in Seq(Types \cup {NULL}) /\ Len(kind') <= MaxCards
    BY <1>2 DEF InitFails, TypeOK
  <2>2. QED  BY Zenon, <1>2, <2>1 DEF InitFails, TypeOK, card, frames, history
<1>3. ASSUME Attach, Setup  PROVE TypeOK'
  <2>1. Len(kind) \in Cards  BY <1>3 DEF Attach, Setup, TypeOK, Cards
  <2>2. chain' \in Seq(Cards)  BY <1>3, <2>1 DEF Attach, TypeOK
  <2>3. QED  BY Zenon, <1>3, <2>2 DEF Attach, TypeOK, card, frames, history
<1>4. CASE Spawn
  BY Zenon, <1>4 DEF Spawn, TypeOK, card, frames, history
<1>5. CASE AddNull
  BY Zenon, <1>5 DEF AddNull, TypeOK, card, frames, history
<1>6. QED  BY <1>1, <1>2, <1>3, <1>4, <1>5, Returned DEF vnet_init

(* A monitor moves to one of its own places.                                *)
LEMMA GotoType ==
  ASSUME TypeOK, NEW d \in Cards, NEW p, Goto(d, p),
         p \in {"none", "read", "reading", "store", "number", "raise", "alloc",
                "copy", "input"}
  PROVE  /\ mon' \in [Cards -> {"none", "read", "reading", "store", "number",
                                "raise", "alloc", "copy", "input"}]
         /\ mon'[d] = p
         /\ \A x \in Cards \ {d} : mon'[x] = mon[x]
BY DEF TypeOK, Goto

(* A card whose monitor runs is attached, so there is a handler to call.    *)
LEMMA CalledCard ==
  ASSUME TypeOK, Setup, NEW d \in Cards, mon[d] # "none"
  PROVE  /\ Attached(d)
         /\ chain # <<>> /\ Len(chain) \in Nat \ {0}
         /\ Called = chain[1] /\ Called \in Cards /\ Called \in 1..Len(kind)
<1>1. Attached(d)  BY DEF Setup
<1>2. Len(chain) \in Nat \ {0} /\ chain # <<>>  BY <1>1 DEF Attached, TypeOK
<1>3. Called = chain[1]  BY <1>2 DEF Called, TypeOK
<1>4. chain[1] \in Cards  BY <1>2 DEF TypeOK
<1>5. chain[1] \in 1..Len(kind)  BY <1>2 DEF Setup
<1>6. QED  BY <1>1, <1>2, <1>3, <1>4, <1>5

(* The steps of a monitor keep the types.                                   *)
LEMMA TypeMonitor ==
  ASSUME TypeOK, Setup, NEW d \in Cards, Held(d), Monitor(d)
  PROVE  TypeOK'
<1> USE Values
<1>1. CASE ReadFrame(d)
  BY Zenon, <1>1, GotoType DEF ReadFrame, TypeOK, main, frames, history
<1>2. CASE ReadEnd(d)
  <2>1. Len(log[d]) + 1 \in 1..MaxReads
    BY <1>2 DEF ReadEnd, At, Held, TypeOK
  <2>2. Len(log[d]) + 1 \in Lengths /\ <<d, Len(log[d]) + 1>> \in Frames
    BY <2>1
  <2>3. log' \in [Cards -> Seq(Lengths)]  BY <1>2, <2>2 DEF ReadEnd, TypeOK
  <2>4. QED
    BY Zenon, <1>2, <2>2, <2>3, GotoType DEF ReadEnd, TypeOK, main, frames
<1>3. CASE ReadEof(d)
  <2>1. log' \in [Cards -> Seq(Lengths)]  BY <1>3 DEF ReadEof, TypeOK
  <2>2. QED
    BY Zenon, <1>3, <2>1, GotoType DEF ReadEof, TypeOK, main, card, frames
<1>4. CASE ReadError(d)
  <2>1. log' \in [Cards -> Seq(Lengths)]  BY <1>4 DEF ReadError, TypeOK
  <2>2. QED
    BY Zenon, <1>4, <2>1, GotoType DEF ReadError, TypeOK, main, card, frames
<1>5. CASE Store(d)
  <2>1. bufin_len' \in [Cards -> BufLengths]  BY Zenon, <1>5 DEF Store, TypeOK
  <2>2. input_processed' \in [Cards -> {0, 1}]  BY <1>5 DEF Store, TypeOK
  <2>3. QED
    BY <1>5, <2>1, <2>2, GotoType DEF Store, TypeOK, main, frames, history
<1>6. CASE StoreNumber(d)
  BY Zenon, <1>6, GotoType DEF StoreNumber, TypeOK, main, card, frames, history
<1>7. CASE hw_int(d)
  BY Zenon, <1>7, GotoType DEF hw_int, TypeOK, main, card, frames, history
<1>8. CASE AllocFails(d)
  <2>1. own' \in [Cards -> Seq(Outcomes)]
    <3>1. <<>> \in Outcomes  BY DEF Outcomes
    <3>2. QED  BY <1>8, <3>1 DEF AllocFails, Outcome, TypeOK
  <2>2. drops' \in 0..MaxDrops  BY <1>8 DEF AllocFails, TypeOK
  <2>3. QED
    BY Zenon, <1>8, <2>1, <2>2, GotoType DEF AllocFails, TypeOK, main, card, frames
<1>9. CASE Alloc(d)
  <2>1. Called \in Cards  BY <1>9, CalledCard DEF Alloc, At
  <2>2. plen' \in [Cards -> BufLengths]  BY <1>9, <2>1 DEF Alloc, TypeOK
  <2>3. QED  BY Zenon, <1>9, <2>2, GotoType DEF Alloc, TypeOK, main, card, history
<1>10. CASE Copy(d)
  <2>1. Called \in Cards  BY <1>10, CalledCard DEF Copy, At
  <2>2. <<bufin[Called], bufin_len[Called]>> \in Frames \X BufLengths
    BY <2>1 DEF TypeOK
  <2>3. buf' \in [Cards -> Frames \X BufLengths]
    BY Zenon, <1>10, <2>2 DEF Copy, TypeOK
  <2>4. mon' \in [Cards -> {"none", "read", "reading", "store", "number",
                            "raise", "alloc", "copy", "input"}]
    BY Zenon, <1>10, GotoType DEF Copy, TypeOK
  <2>5. faulted' \in BOOLEAN  BY Zenon, <1>10 DEF Copy
  <2>6. QED
    BY Zenon, <1>10, <2>3, <2>4, <2>5 DEF Copy, TypeOK, main, card, history
<1>11. CASE EthInput(d)
  <2>1. Called \in Cards  BY <1>11, CalledCard DEF EthInput, At
  <2>2. <<buf[d][1], buf[d][2], plen[d]>> \in Outcomes
    BY DEF TypeOK, Outcomes
  <2>3. own' \in [Cards -> Seq(Outcomes)]
    BY <1>11, <2>2 DEF EthInput, Outcome, TypeOK
  <2>4. input_processed' \in [Cards -> {0, 1}]
    BY Zenon, <1>11 DEF EthInput, TypeOK
  <2>5. QED
    BY Zenon, <1>11, <2>3, <2>4, GotoType DEF EthInput, TypeOK, main, frames
<1>12. QED
  BY <1>1, <1>2, <1>3, <1>4, <1>5, <1>6, <1>7, <1>8, <1>9, <1>10, <1>11
     DEF Monitor, vnet_input

-----------------------------------------------------------------------------
(* What a monitor's step leaves alone: main's state and all that the other  *)
(* monitors have.                                                           *)
LEMMA OthersKeep ==
  ASSUME TypeOK, NEW d \in Cards, Monitor(d)
  PROVE  /\ UNCHANGED <<running, adding, kind, chain>>
         /\ mon[d] # "none" /\ mon'[d] # "none"
         /\ \A x \in Cards \ {d} :
              /\ mon'[x] = mon[x] /\ nread'[x] = nread[x]
              /\ bufin'[x] = bufin[x] /\ bufin_len'[x] = bufin_len[x]
              /\ plen'[x] = plen[x] /\ buf'[x] = buf[x]
              /\ log'[x] = log[x] /\ own'[x] = own[x]
         /\ umka_irq_number = "network" => umka_irq_number' = "network"
<1>1. CASE ReadFrame(d)
  BY <1>1, GotoType DEF ReadFrame, At, TypeOK, main, frames, history
<1>2. CASE ReadEnd(d)
  BY <1>2, GotoType DEF ReadEnd, At, TypeOK, main, frames
<1>3. CASE ReadEof(d)
  BY <1>3, GotoType DEF ReadEof, At, TypeOK, main, card, frames
<1>4. CASE ReadError(d)
  BY <1>4, GotoType DEF ReadError, At, TypeOK, main, card, frames
<1>5. CASE Store(d)
  BY <1>5, GotoType DEF Store, At, TypeOK, main, frames, history
<1>6. CASE StoreNumber(d)
  BY <1>6, GotoType DEF StoreNumber, At, TypeOK, main, card, frames, history
<1>7. CASE hw_int(d)
  BY <1>7, GotoType DEF hw_int, At, TypeOK, main, card, frames, history
<1>8. CASE AllocFails(d)
  BY <1>8, GotoType DEF AllocFails, Outcome, At, TypeOK, main, card, frames
<1>9. CASE Alloc(d)
  BY <1>9, GotoType DEF Alloc, At, TypeOK, main, card, history
<1>10. CASE Copy(d)
  BY <1>10, GotoType DEF Copy, At, TypeOK, main, card, history
<1>11. CASE EthInput(d)
  BY <1>11, GotoType DEF EthInput, Outcome, At, TypeOK, main, frames
<1>12. QED
  BY Zenon, <1>1, <1>2, <1>3, <1>4, <1>5, <1>6, <1>7, <1>8, <1>9, <1>10, <1>11
     DEF Monitor, vnet_input

(* The order of a card's initialisation is kept.                            *)
LEMMA SetupMonitor ==
  ASSUME TypeOK, Setup, NEW d \in Cards, Monitor(d)
  PROVE  Setup'
<1>1. UNCHANGED <<adding, kind, chain>> /\ mon[d] # "none"
  BY OthersKeep
<1>2. Attached(d)  BY <1>1, CalledCard
<1>3. \A x : Attached(x)' <=> Attached(x)  BY <1>1 DEF Attached
<1>4. \A x \in Cards : ~Attached(x)' =>
        mon'[x] = "none" /\ log'[x] = <<>> /\ own'[x] = <<>>
  BY <1>2, <1>3, OthersKeep DEF Setup
<1>5. adding # "no" => Len(kind) > 0 /\ mon'[Len(kind)] = "none"
  <2>1. adding # "no" => Len(kind) \in Cards  BY Values DEF Setup, TypeOK, Cards
  <2>2. QED  BY <1>1, <2>1, OthersKeep DEF Setup
<1>6. QED  BY <1>1, <1>3, <1>4, <1>5 DEF Setup

LEMMA SetupInit ==
  ASSUME TypeOK, Setup, vnet_init
  PROVE  Setup'
<1> USE Values
<1>1. ASSUME NEW t \in Types \cup {NULL}, adding = "no",
             Len(kind) < MaxCards, kind' = Append(kind, t),
             UNCHANGED <<chain, mon, log, own>>,
             adding' = IF t = NULL THEN "null" ELSE "attach"
      PROVE  Setup'
  <2>1. Len(kind) \in Nat /\ Len(kind') = Len(kind) + 1
        /\ Len(kind) + 1 \in Cards
    BY <1>1 DEF TypeOK, Cards
  <2>2. adding' = "null" => kind'[Len(kind')] = NULL
    BY <1>1, <2>1 DEF TypeOK
  <2>3. ~Attached(Len(kind) + 1)  BY <2>1 DEF Setup, Attached
  <2>4. mon[Len(kind) + 1] = "none"  BY <2>1, <2>3 DEF Setup
  <2>5. \A x : Attached(x)' <=> Attached(x)  BY <1>1 DEF Attached
  <2>6. \A i \in 1..Len(chain) : chain[i] \in 1..Len(kind')
    BY <2>1 DEF Setup
  <2>7. \A x \in Cards : ~Attached(x)' =>
          mon'[x] = "none" /\ log'[x] = <<>> /\ own'[x] = <<>>
    BY Zenon, <1>1, <2>5 DEF Setup
  <2>8. QED  BY <1>1, <2>1, <2>2, <2>3, <2>4, <2>5, <2>6, <2>7 DEF Setup
<1>2. ASSUME NEW t \in Types \cup {NULL}, InitCard(t)  PROVE Setup'
  BY Zenon, <1>1, <1>2 DEF InitCard, history
<1>3. ASSUME NEW t \in Types \cup {NULL}, InitFails(t)  PROVE Setup'
  BY Zenon, <1>1, <1>3 DEF InitFails, history
<1>4. CASE Attach
  <2>1. UNCHANGED <<kind, mon, log, own>> /\ adding' = "spawn"
        /\ Len(kind) > 0 /\ mon[Len(kind)] = "none"
    BY <1>4 DEF Attach, Setup, history
  <2>2. Len(chain) \in Nat /\ Len(kind) \in Nat /\ Len(chain') = Len(chain) + 1
        /\ chain'[Len(chain) + 1] = Len(kind)
        /\ \A i \in 1..Len(chain) : chain'[i] = chain[i]
    BY <1>4, <2>1 DEF Attach, TypeOK, Cards
  <2>3. Attached(Len(kind))'  BY <2>1, <2>2 DEF Attached
  <2>4. \A x : Attached(x) => Attached(x)'  BY <2>2 DEF Attached
  <2>5. \A i \in 1..Len(chain') : chain'[i] \in 1..Len(kind)
    BY <2>1, <2>2 DEF Setup
  <2>6. QED  BY <2>1, <2>3, <2>4, <2>5 DEF Setup
<1>5. CASE Spawn
  <2>1. UNCHANGED <<kind, chain, log, own>> /\ adding' = "no"
        /\ Attached(Len(kind))
    BY <1>5 DEF Spawn, Setup, history
  <2>2. \A x \in Cards : x # Len(kind) => mon'[x] = mon[x]
    BY <1>5 DEF Spawn, TypeOK
  <2>3. \A x : Attached(x)' <=> Attached(x)  BY <2>1 DEF Attached
  <2>4. QED  BY <2>1, <2>2, <2>3 DEF Setup
<1>6. CASE AddNull
  BY <1>6 DEF AddNull, Setup, Attached, history
<1>7. QED  BY <1>2, <1>3, <1>4, <1>5, <1>6, Returned DEF vnet_init

(* What main leaves alone: all but where the monitor of the new card is     *)
(* and its input_processed.                                                 *)
LEMMA MonitorsKeep ==
  ASSUME TypeOK, Setup, vnet_init
  PROVE  /\ UNCHANGED <<nread, bufin, bufin_len, plen, buf, log, own,
                        umka_irq_number>>
         /\ \A x \in Cards :
              \/ mon'[x] = mon[x]
              \/ mon[x] = "none" /\ mon'[x] \in {"none", "read"}
         /\ \A x \in 1..Len(kind) : input_processed'[x] = input_processed[x]
<1>1. ASSUME NEW t, InitCard(t)
      PROVE  \A x \in 1..Len(kind) : input_processed'[x] = input_processed[x]
  BY <1>1 DEF InitCard, TypeOK, Cards
<1>2. CASE Spawn
  BY <1>2 DEF Spawn, Setup, TypeOK, frames, history, card
<1>3. QED
  BY <1>1, <1>2 DEF vnet_init, InitCard, InitFails, Attach, AddNull, frames,
                    history, card

(* A monitor's copy of its last read.                                       *)
LEMMA HeldStep ==
  ASSUME TypeOK, Setup, \A x \in Cards : Held(x), Next
  PROVE  \A x \in Cards : Held(x)'
<1> USE Values
<1>1. CASE vnet_init
  <2> SUFFICES ASSUME NEW x \in Cards  PROVE Held(x)'
    OBVIOUS
  <2>1. Held(x)  OBVIOUS
  <2>2. QED
    BY <1>1, <2>1, MonitorsKeep DEF Held, Handling, Numbered
<1>2. ASSUME NEW d \in Cards, Monitor(d)  PROVE \A x \in Cards : Held(x)'
  <2>1. ASSUME NEW x \in Cards \ {d}  PROVE Held(x)'
    <3>1. Held(x)  OBVIOUS
    <3>2. QED  BY <1>2, <2>1, <3>1, OthersKeep DEF Held, Handling, Numbered
  <2>2. Held(d)'
    <3>1. Held(d) /\ Len(log[d]) \in Nat /\ log[d] \in Seq(Lengths)
      BY DEF TypeOK
    <3>2. CASE ReadFrame(d)
      BY <3>1, <3>2, GotoType DEF ReadFrame, Held, Handling, Numbered, At,
                                  history
    <3>3. ASSUME NEW n \in Lengths, n \in {Len(log[d]) + 1, 0, SizeMax},
                 log'[d] = Append(log[d], n), nread'[d] = n, mon'[d] = "store",
                 n = Len(log[d]) + 1 => bufin'[d] = <<d, n>>
          PROVE  Held(d)'
      <4>1. Len(log'[d]) = Len(log[d]) + 1 /\ log'[d][Len(log[d]) + 1] = n
            /\ \A i \in 1..Len(log[d]) : log'[d][i] = log[d][i]
        BY <3>1, <3>3
      <4>2. \A i \in 1..Len(log'[d]) : log'[d][i] \in {i, 0, SizeMax}
        BY <3>1, <3>3, <4>1 DEF Held
      <4>3. QED  BY <3>1, <3>3, <4>1, <4>2 DEF Held, Handling, Numbered
    <3>4. CASE ReadEnd(d)
      <4>1. Len(log[d]) + 1 \in Lengths
        BY <3>1, <3>4 DEF ReadEnd, At, Held
      <4>2. QED  BY Zenon, <3>3, <3>4, <4>1, GotoType DEF ReadEnd, TypeOK
    <3>5. CASE ReadEof(d)
      <4>1. log'[d] = Append(log[d], 0) /\ nread'[d] = 0 /\ mon'[d] = "store"
        BY Zenon, <3>5, GotoType DEF ReadEof, TypeOK
      <4>2. 0 \in Lengths /\ 0 # Len(log[d]) + 1  BY <3>1
      <4>3. QED  BY <3>3, <4>1, <4>2
    <3>6. CASE ReadError(d)
      <4>1. log'[d] = Append(log[d], SizeMax) /\ nread'[d] = SizeMax /\ mon'[d] = "store"
        BY Zenon, <3>6, GotoType DEF ReadError, TypeOK
      <4>2. SizeMax \in Lengths /\ SizeMax # Len(log[d]) + 1  BY <3>1
      <4>3. QED  BY <3>3, <4>1, <4>2
    <3>7. ASSUME log'[d] = log[d], nread'[d] = nread[d], bufin'[d] = bufin[d],
                 mon'[d] # "reading", Handling(d)' => Handling(d),
                 Numbered(d)' => bufin_len'[d] = nread[d],
                 mon'[d] = "raise" => umka_irq_number' = "network"
          PROVE  Held(d)'
      BY <3>1, <3>7 DEF Held
    <3>8. CASE Store(d)
      <4>1. mon[d] = "store" /\ mon'[d] = "number" /\ bufin_len'[d] = nread[d]
            /\ UNCHANGED <<log, nread, bufin>>
        BY Zenon, <3>8, GotoType DEF Store, At, TypeOK, history
      <4>2. QED  BY <3>7, <4>1 DEF Handling
    <3>9. CASE StoreNumber(d)
      <4>1. mon[d] = "number" /\ mon'[d] = "raise" /\ umka_irq_number' = "network"
            /\ UNCHANGED <<log, nread, bufin, bufin_len>>
        BY <3>9, GotoType DEF StoreNumber, At, card, history
      <4>2. QED  BY <3>1, <3>7, <4>1 DEF Handling, Held, Numbered
    <3>10. CASE hw_int(d) \/ vnet_input(d)
      <4>1. /\ mon[d] \in {"raise", "alloc", "copy", "input"}
            /\ mon'[d] \in {"read", "alloc", "copy", "input"}
            /\ UNCHANGED <<log, nread, bufin, bufin_len>>
        BY Zenon, <3>10, GotoType
           DEF hw_int, vnet_input, AllocFails, Alloc, Copy, EthInput, At, card,
               history
      <4>2. QED  BY <3>1, <3>7, <4>1 DEF Handling, Held, Numbered
    <3>11. QED
      BY <1>2, <3>2, <3>4, <3>5, <3>6, <3>8, <3>9, <3>10 DEF Monitor
  <2>3. QED  BY <2>1, <2>2
<1>3. QED  BY <1>1, <1>2 DEF Next

(* A read that returned -1 is remembered.                                   *)
LEMMA RememberedStep ==
  ASSUME TypeOK, Setup, Remembered, Next
  PROVE  Remembered'
<1> USE Values
<1>1. CASE vnet_init
  BY <1>1, MonitorsKeep DEF Remembered, vnet_init, InitCard, InitFails, Attach, Spawn,
                            AddNull, history
<1>2. ASSUME NEW d \in Cards, Monitor(d)  PROVE Remembered'
  <2>1. failed => failed'
    BY Zenon, <1>2 DEF Monitor, vnet_input, ReadFrame, ReadEnd, ReadEof, ReadError,
           Store, StoreNumber, hw_int, AllocFails, Alloc, Copy, EthInput, history
  <2>2. nread'[d] = SizeMax => failed'
    <3>1. CASE ReadEnd(d)
      <4>1. nread'[d] = Len(log[d]) + 1 /\ Len(log[d]) \in Nat
        BY <3>1 DEF ReadEnd, TypeOK
      <4>2. QED  BY <4>1
    <3>2. CASE ReadEof(d)
      <4>1. nread'[d] = 0  BY <3>2 DEF ReadEof, TypeOK
      <4>2. QED  BY <4>1
    <3>3. CASE ReadError(d)  BY <3>3 DEF ReadError
    <3>4. CASE ~(ReadEnd(d) \/ ReadEof(d) \/ ReadError(d))
      <4>1. nread' = nread
        BY Zenon, <1>2, <3>4 DEF Monitor, vnet_input, ReadFrame, Store,
               StoreNumber, hw_int, AllocFails, Alloc, Copy, EthInput
      <4>2. QED  BY <2>1, <4>1 DEF Remembered
    <3>5. QED  BY <3>1, <3>2, <3>3, <3>4
  <2>3. QED  BY Zenon, <1>2, <2>1, <2>2, OthersKeep DEF Remembered
<1>3. QED  BY <1>1, <1>2 DEF Next

(* With one handler and no failed read, the copy has a length.              *)
LEMMA FaultsStep ==
  ASSUME TypeOK, Setup, Remembered, \A x \in Cards : Held(x), FaultsExplained, Next
  PROVE  FaultsExplained'
<1> USE Values
<1>1. ~faulted /\ ~Excused' => ~faulted'
  <2> SUFFICES ASSUME ~faulted, faulted'  PROVE Excused'
    OBVIOUS
  <2>1. CASE AddNull
    <3>1. kind' = kind /\ Len(kind) > 0 /\ Len(kind) \in Nat
          /\ kind[Len(kind)] = NULL
      BY <2>1 DEF AddNull, Setup, TypeOK
    <3>2. QED  BY <3>1 DEF Excused
  <2>2. ASSUME NEW d \in Cards, Copy(d)  PROVE Excused'
    <3>1. mon[d] = "copy" /\ UNCHANGED <<chain, kind, failed>>
          /\ bufin_len[Called] \in {SizeMax, JunkLen}
      BY Zenon, <2>2 DEF Copy, At, main, history
    <3>2. Attached(d) /\ Called = chain[1] /\ Len(chain) \in Nat \ {0}
      BY <3>1, CalledCard
    <3>3. CASE Len(chain) > 1  BY <3>1, <3>3 DEF Excused
    <3>4. CASE Len(chain) = 1
      <4>1. Called = d  BY <3>2, <3>4 DEF Attached
      <4>2. bufin_len[d] = nread[d] /\ nread[d] \in Lengths
        BY <3>1 DEF Held, Numbered, TypeOK
      <4>3. JunkLen \notin Lengths  BY DEF Lengths
      <4>4. nread[d] = SizeMax  BY <3>1, <4>1, <4>2, <4>3
      <4>5. failed  BY Zenon, <4>4 DEF Remembered
      <4>6. failed'  BY Zenon, <3>1, <4>5
      <4>7. QED  BY Zenon, <4>6 DEF Excused
    <3> HIDE Values
    <3>5. \A n \in Nat \ {0} : n > 1 \/ n = 1  OBVIOUS
    <3>6. QED  BY Zenon, <3>2, <3>3, <3>4, <3>5
  <2>3. AddNull \/ \E d \in Cards : Copy(d)
    BY Zenon DEF Next, vnet_init, InitCard, InitFails, Attach, Spawn, Monitor,
           vnet_input, ReadFrame, ReadEnd, ReadEof, ReadError, Store,
           StoreNumber, hw_int, AllocFails, Alloc, EthInput
  <2>4. QED  BY <2>1, <2>2, <2>3
<1>2. ~faulted
  BY Zenon DEF Next, vnet_init, InitCard, InitFails, Attach, Spawn, AddNull, At,
         Monitor, vnet_input, ReadFrame, ReadEnd, ReadEof, ReadError, Store,
         StoreNumber, hw_int, AllocFails, Alloc, Copy, EthInput
<1>3. QED  BY <1>1, <1>2 DEF FaultsExplained

-----------------------------------------------------------------------------
(* The first handler stays the first; it becomes so before its monitor runs. *)
LEMMA FirstHandler ==
  ASSUME TypeOK, Setup, Next, chain' # <<>>
  PROVE  \/ /\ chain # <<>> /\ chain'[1] = chain[1] /\ chain[1] \in Cards
            /\ chain[1] \in 1..Len(kind)
            /\ Len(chain') = 1 => Len(chain) = 1
         \/ /\ Attach /\ chain'[1] \in Cards /\ UNCHANGED <<mon, log, own>>
            /\ mon[chain'[1]] = "none" /\ log[chain'[1]] = <<>>
            /\ own[chain'[1]] = <<>>
<1> USE Values
<1>1. CASE Attach
  <2>1. Len(kind) \in Cards /\ ~Attached(Len(kind)) /\ UNCHANGED <<mon, log, own>>
    BY <1>1 DEF Attach, Setup, TypeOK, Cards, history
  <2>2. CASE chain = <<>>
    <3>1. chain'[1] = Len(kind)  BY <1>1, <2>1, <2>2 DEF Attach, TypeOK
    <3>2. QED  BY <1>1, <2>1, <3>1 DEF Setup
  <2>3. CASE chain # <<>>
    <3>1. Len(chain) \in Nat \ {0} /\ chain'[1] = chain[1] /\ chain[1] \in Cards
          /\ Len(chain') = Len(chain) + 1
      BY <1>1, <2>1, <2>3 DEF Attach, TypeOK
    <3>2. chain[1] \in 1..Len(kind)  BY <3>1 DEF Setup
    <3>3. QED  BY <2>3, <3>1, <3>2
  <2>4. QED  BY <2>2, <2>3
<1>2. CASE ~Attach
  <2>1. chain' = chain
    <3>1. CASE vnet_init
      BY <1>2, <3>1 DEF vnet_init, InitCard, InitFails, Spawn, AddNull
    <3>2. QED  BY <3>1, OthersKeep DEF Next
  <2>2. Len(chain) \in Nat \ {0}  BY <2>1 DEF TypeOK
  <2>3. chain[1] \in Cards /\ chain[1] \in 1..Len(kind)
    BY <2>2 DEF TypeOK, Setup
  <2>4. QED  BY <2>1, <2>3
<1>3. QED  BY <1>1, <1>2

(* A step that neither ends a read of the card nor its interrupt.           *)
LEMMA FirstSame ==
  ASSUME NEW c, First(c), log'[c] = log[c], own'[c] = own[c],
         Handling(c)' <=> Handling(c),
         mon'[c] \in {"copy", "input"} => plen'[c] = nread'[c],
         mon'[c] = "input" =>
           buf'[c] = <<bufin'[c], nread'[c]>> /\ nread'[c] # SizeMax
  PROVE  First(c)'
<1>1. \A i \in 1..Len(own[c]) : Exact(c, i, own[c][i])'  BY Zenon DEF First, Exact
<1>2. QED  BY Zenon, <1>1 DEF First

(* The interrupts of the first card carry its own reads.                    *)
LEMMA FirstStep ==
  ASSUME TypeOK, Setup, \A x \in Cards : Held(x), Next, chain' # <<>>,
         chain # <<>> => First(chain[1])
  PROVE  First(chain[1])'
<1> USE Values
<1>1. CASE /\ Attach /\ chain'[1] \in Cards /\ UNCHANGED <<mon, log, own>>
           /\ mon[chain'[1]] = "none" /\ log[chain'[1]] = <<>>
           /\ own[chain'[1]] = <<>>
  <2>1. /\ mon'[chain'[1]] = "none" /\ Len(log'[chain'[1]]) = 0
        /\ Len(own'[chain'[1]]) = 0
    BY Zenon, <1>1
  <2>2. ~Handling(chain[1])'  BY <2>1 DEF Handling
  <2>3. \A i \in 1..Len(own'[chain'[1]]) : Exact(chain[1], i, own[chain[1]][i])'
    BY <2>1
  <2>4. Len(log'[chain'[1]])
          = Len(own'[chain'[1]]) + IF Handling(chain[1])' THEN 1 ELSE 0
    BY <2>1, <2>2
  <2>5. QED  BY <2>1, <2>3, <2>4, Zenon DEF First
<1>2. ASSUME chain # <<>>, chain'[1] = chain[1], NEW c \in Cards, c = chain[1]
      PROVE  First(c)'
  <2>1. /\ First(c) /\ Held(c) /\ log[c] \in Seq(Lengths) /\ Len(log[c]) \in Nat
        /\ own[c] \in Seq(Outcomes) /\ Len(own[c]) \in Nat
    <3>1. First(c) /\ Held(c)  BY <1>2, Zenon
    <3>2. log[c] \in Seq(Lengths) /\ own[c] \in Seq(Outcomes)  BY DEF TypeOK
    <3>3. QED  BY <3>1, <3>2
  <2>2. CASE vnet_init
    <3>1. Handling(c)' <=> Handling(c)
      BY Zenon, <2>2, MonitorsKeep DEF Handling
    <3>2. mon'[c] \in {"copy", "input"} => mon'[c] = mon[c]
      BY Zenon, <2>2, MonitorsKeep
    <3>3. QED  BY Zenon, <2>1, <2>2, <3>1, <3>2, MonitorsKeep, FirstSame DEF First
  <2>3. ASSUME NEW d \in Cards \ {c}, Monitor(d)  PROVE First(c)'
    <3>1. Handling(c)' <=> Handling(c)  BY Zenon, <2>3, OthersKeep DEF Handling
    <3>2. /\ mon'[c] = mon[c] /\ nread'[c] = nread[c] /\ bufin'[c] = bufin[c]
          /\ plen'[c] = plen[c] /\ buf'[c] = buf[c]
          /\ log'[c] = log[c] /\ own'[c] = own[c]
      BY <2>3, OthersKeep
    <3>3. /\ mon[c] \in {"copy", "input"} => plen[c] = nread[c]
          /\ mon[c] = "input" =>
               buf[c] = <<bufin[c], nread[c]>> /\ nread[c] # SizeMax
      BY <2>1 DEF First
    <3>4. QED  BY Zenon, <2>1, <3>1, <3>2, <3>3, FirstSame
  <2>4. CASE Monitor(c)
    <3>1. Called = c  BY <1>2, <2>4, OthersKeep, CalledCard
    <3>2. CASE ReadFrame(c)
      <4>1. mon[c] = "read" /\ mon'[c] = "reading" /\ UNCHANGED <<log, own>>
        BY <3>2, GotoType DEF ReadFrame, At, history
      <4>2. QED  BY <2>1, <4>1 DEF First, Handling, Exact
    <3>3. CASE ReadEnd(c) \/ ReadEof(c) \/ ReadError(c)
      <4>1. /\ own' = own /\ mon[c] \in {"read", "reading"} /\ mon'[c] = "store"
            /\ \E n \in Int : log'[c] = Append(log[c], n)
        <5>1. CASE ReadEnd(c)
          <6>1. log'[c] = Append(log[c], Len(log[c]) + 1)
            BY <5>1 DEF ReadEnd, TypeOK
          <6>2. QED  BY <2>1, <5>1, <6>1, GotoType DEF ReadEnd, At
        <5>2. CASE ReadEof(c)
          BY Zenon, <2>1, <5>2, GotoType DEF ReadEof, At, TypeOK
        <5>3. CASE ReadError(c)
          BY Zenon, <2>1, <5>3, GotoType DEF ReadError, At, TypeOK
        <5>4. QED  BY <3>3, <5>1, <5>2, <5>3
      <4>2. Len(log'[c]) = Len(log[c]) + 1
            /\ \A i \in 1..Len(log[c]) : log'[c][i] = log[c][i]
        BY <2>1, <4>1
      <4>3. Len(log[c]) = Len(own[c])
        <5>1. ~Handling(c)  BY <4>1 DEF Handling
        <5>2. QED  BY <2>1, <5>1 DEF First
      <4>4. \A i \in 1..Len(own[c]) : Exact(c, i, own[c][i])'
        BY <2>1, <4>1, <4>2, <4>3 DEF First, Exact
      <4>5. QED  BY Zenon, <2>1, <4>1, <4>2, <4>3, <4>4 DEF First, Handling
    <3>4. CASE Store(c) \/ StoreNumber(c) \/ hw_int(c)
      <4>1. /\ mon[c] \in {"store", "number", "raise"}
            /\ mon'[c] \in {"number", "raise", "alloc"}
            /\ UNCHANGED <<log, own>>
        BY Zenon, <1>2, <2>1, <3>4, GotoType
           DEF Store, StoreNumber, hw_int, At, history, Held
      <4>2. QED  BY Zenon, <2>1, <4>1 DEF First, Handling, Exact
    <3>5. CASE Alloc(c)
      <4>1. /\ mon[c] = "alloc" /\ mon'[c] = "copy" /\ plen'[c] = bufin_len[c]
            /\ UNCHANGED <<log, own, nread>>
        BY Zenon, <3>1, <3>5, GotoType DEF Alloc, At, TypeOK, history
      <4>2. QED  BY <2>1, <4>1 DEF First, Handling, Exact, Held, Numbered
    <3>6. CASE Copy(c)
      <4>1. /\ mon[c] = "copy" /\ UNCHANGED <<log, own, nread, plen, bufin>>
            /\ \/ mon'[c] = "copy"
               \/ /\ mon'[c] = "input" /\ bufin_len[c] # SizeMax
                  /\ buf'[c] = <<bufin[c], bufin_len[c]>>
        BY Zenon, <3>1, <3>6, GotoType DEF Copy, At, TypeOK, history, card
      <4>2. QED  BY Zenon, <2>1, <4>1 DEF First, Handling, Exact, Held, Numbered
    <3>7. ASSUME NEW x, mon[c] \in {"alloc", "input"}, mon'[c] = "read",
                 own'[c] = Append(own[c], x), log' = log,
                 Exact(c, Len(log[c]), x)
          PROVE  First(c)'
      <4>1. Len(log[c]) = Len(own[c]) + 1  BY Zenon, <2>1, <3>7 DEF First, Handling
      <4>2. Len(own'[c]) = Len(own[c]) + 1 /\ own'[c][Len(own[c]) + 1] = x
            /\ \A i \in 1..Len(own[c]) : own'[c][i] = own[c][i]
        BY <2>1, <3>7
      <4>3. \A i \in 1..Len(own'[c]) : Exact(c, i, own'[c][i])
        <5>1. \A i \in 1..Len(own[c]) : Exact(c, i, own'[c][i])
          BY <2>1, <4>2 DEF First
        <5>2. Exact(c, Len(own[c]) + 1, own'[c][Len(own[c]) + 1])
          BY <3>7, <4>1, <4>2
        <5>3. \A i \in 1..Len(own'[c]) :
                i \in 1..Len(own[c]) \/ i = Len(own[c]) + 1
          BY <2>1, <4>2
        <5>4. QED  BY <5>1, <5>2, <5>3
      <4>4. \A i \in 1..Len(own'[c]) : Exact(c, i, own[c][i])'
        BY <3>7, <4>3 DEF Exact
      <4>5. Len(log'[c]) = Len(own'[c]) /\ ~Handling(c)'
        BY Zenon, <3>7, <4>1, <4>2 DEF Handling
      <4>6. QED  BY <2>1, <3>7, <4>4, <4>5 DEF First
    <3>8. CASE AllocFails(c)
      <4>1. /\ mon[c] = "alloc" /\ mon'[c] = "read" /\ log' = log
            /\ own'[c] = Append(own[c], <<>>)
        BY Zenon, <3>1, <3>8, GotoType DEF AllocFails, Outcome, At, TypeOK
      <4>2. Exact(c, Len(log[c]), <<>>)  BY DEF Exact
      <4>3. QED  BY <3>7, <4>1, <4>2
    <3>9. CASE EthInput(c)
      <4> DEFINE n == Len(log[c])
                 x == <<buf[c][1], buf[c][2], plen[c]>>
      <4>1. /\ mon[c] = "input" /\ mon'[c] = "read" /\ log' = log
            /\ own'[c] = Append(own[c], x)
        BY Zenon, <3>1, <3>9, GotoType DEF EthInput, Outcome, At, TypeOK
      <4>2. /\ buf[c] = <<bufin[c], nread[c]>> /\ plen[c] = nread[c]
            /\ nread[c] # SizeMax
        BY <2>1, <4>1 DEF First
      <4>3. /\ n > 0 /\ nread[c] = log[c][n] /\ log[c][n] \in {n, 0, SizeMax}
            /\ nread[c] = n => bufin[c] = <<c, n>>
        BY <2>1, <4>1 DEF Held, Handling
      <4>4. x = <<bufin[c], nread[c], nread[c]>>  BY <4>2
      <4>5. Exact(c, n, x)  BY <4>2, <4>3, <4>4 DEF Exact
      <4>6. QED  BY <3>7, <4>1, <4>5
    <3>10. QED
      BY <2>4, <3>2, <3>3, <3>4, <3>5, <3>6, <3>8, <3>9 DEF Monitor, vnet_input
  <2>5. QED  BY <2>2, <2>3, <2>4 DEF Next
<1>3. QED  BY Zenon, <1>1, <1>2, FirstHandler DEF First, Handling, Exact

(* With one card, input_processed follows its own interrupts.               *)
LEMMA AloneStep ==
  ASSUME TypeOK, Setup, \A x \in Cards : Held(x), Next, chain' # <<>>,
         Len(chain') = 1,
         Len(chain) = 1 => Alone(chain[1])
  PROVE  Alone(chain[1])'
<1> USE Values
<1>1. CASE /\ Attach /\ chain'[1] \in Cards /\ UNCHANGED <<mon, log, own>>
           /\ mon[chain'[1]] = "none" /\ log[chain'[1]] = <<>>
           /\ own[chain'[1]] = <<>>
  BY <1>1 DEF Alone, Numbered
<1>2. ASSUME Len(chain) = 1, chain'[1] = chain[1], NEW c \in Cards,
             c = chain[1], c \in 1..Len(kind)
      PROVE  Alone(c)'
  <2>1. Alone(c) /\ own[c] \in Seq(Outcomes)  BY <1>2 DEF TypeOK
  <2>2. CASE vnet_init
    <3>1. own' = own /\ input_processed'[c] = input_processed[c]
      BY <1>2, <2>2, MonitorsKeep
    <3>2. mon'[c] = mon[c] \/ (mon[c] = "none" /\ mon'[c] \in {"none", "read"})
      BY Zenon, <2>2, MonitorsKeep
    <3>3. QED  BY <2>1, <3>1, <3>2 DEF Alone, Numbered
  <2>3. ASSUME NEW d \in Cards, Monitor(d)  PROVE Alone(c)'
    <3>1. Attached(d) /\ mon[d] # "none" /\ mon'[d] # "none" /\ Called = chain[1]
      BY <2>3, OthersKeep, CalledCard
    <3>2. d = c /\ Called = c  BY <1>2, <3>1 DEF Attached
    <3>3. CASE ReadFrame(c)
      <4>1. mon[c] = "read" /\ mon'[c] = "reading"
            /\ UNCHANGED <<own, input_processed>>
        BY <3>3, GotoType DEF ReadFrame, At, history
      <4>2. QED  BY <2>1, <4>1 DEF Alone, Numbered
    <3>4. CASE ReadEnd(c) \/ ReadEof(c) \/ ReadError(c)
      <4>1. mon'[c] = "store"
        BY <3>4, GotoType DEF ReadEnd, ReadEof, ReadError
      <4>2. QED  BY <4>1 DEF Alone, Numbered
    <3>5. CASE Store(c)
      <4>1. mon'[c] = "number" /\ input_processed'[c] = 0
        BY Zenon, <3>5, GotoType DEF Store, TypeOK
      <4>2. QED  BY <4>1 DEF Alone, Numbered
    <3>6. CASE StoreNumber(c) \/ Alloc(c) \/ Copy(c)
      <4>1. mon[c] \in {"number", "alloc", "copy"}
            /\ mon'[c] \in {"raise", "copy", "input"}
            /\ UNCHANGED input_processed
        BY Zenon, <3>6, GotoType DEF StoreNumber, Alloc, Copy, At, card
      <4>2. QED  BY <2>1, <4>1 DEF Alone, Numbered
    <3>7. CASE hw_int(c)
      <4>1. mon[c] = "raise" /\ mon'[c] = "alloc" /\ UNCHANGED input_processed
        <5>1. chain # <<>>  BY <1>2
        <5>2. mon[c] = "raise" /\ umka_irq_number = "network"
          BY <3>7 DEF hw_int, At, Held
        <5>3. QED  BY <3>7, <5>1, <5>2, GotoType DEF hw_int, card
      <4>2. QED  BY <2>1, <4>1 DEF Alone, Numbered
    <3>8. ASSUME NEW x, mon'[c] = "read", own'[c] = Append(own[c], x),
                 input_processed'[c] = 1 <=> x # <<>>
          PROVE  Alone(c)'
      <4>1. Len(own'[c]) = Len(own[c]) + 1 /\ own'[c][Len(own'[c])] = x
        BY <2>1, <3>8
      <4>2. QED  BY <3>8, <4>1 DEF Alone, Numbered
    <3>9. CASE AllocFails(c)
      <4>1. mon[c] = "alloc" /\ mon'[c] = "read" /\ UNCHANGED input_processed
            /\ own'[c] = Append(own[c], <<>>)
        BY Zenon, <3>2, <3>9, GotoType DEF AllocFails, Outcome, At, TypeOK, card
      <4>2. input_processed'[c] = 0  BY <2>1, <4>1 DEF Alone, Numbered
      <4>3. QED  BY <3>8, <4>1, <4>2
    <3>10. CASE EthInput(c)
      <4>1. mon'[c] = "read" /\ input_processed'[c] = 1
            /\ own'[c] = Append(own[c], <<buf[c][1], buf[c][2], plen[c]>>)
        BY Zenon, <3>2, <3>10, GotoType DEF EthInput, Outcome, At, TypeOK
      <4>2. <<buf[c][1], buf[c][2], plen[c]>> # <<>>  OBVIOUS
      <4>3. QED  BY Zenon, <3>8, <4>1, <4>2
    <3>11. QED
      BY <2>3, <3>2, <3>3, <3>4, <3>5, <3>6, <3>7, <3>9, <3>10
         DEF Monitor, vnet_input
  <2>4. QED  BY <2>2, <2>3 DEF Next
<1>3. QED  BY <1>1, <1>2, FirstHandler

-----------------------------------------------------------------------------
(* No card is there at the start.                                           *)
LEMMA InitInductive == Init => Inductive
<1> SUFFICES ASSUME Init  PROVE Inductive
  OBVIOUS
<1>1. TypeOK
  <2>1. <<Junk, 0>> \in Frames \X BufLengths /\ JunkLen \in BufLengths
        /\ 0 \in BufLengths
    BY Values DEF BufLengths
  <2>2. kind \in Seq(Types \cup {NULL}) /\ chain \in Seq(Cards)
        /\ Len(kind) = 0
    BY DEF Init
  <2>3. log \in [Cards -> Seq(Lengths)] /\ own \in [Cards -> Seq(Outcomes)]
    BY DEF Init
  <2>4. /\ mon \in [Cards -> {"none", "read", "reading", "store", "number",
                            "raise", "alloc", "copy", "input"}]
        /\ nread \in [Cards -> Lengths] /\ bufin \in [Cards -> Frames]
        /\ bufin_len \in [Cards -> BufLengths] /\ plen \in [Cards -> BufLengths]
    BY <2>1, Values DEF Init
  <2>5. buf \in [Cards -> Frames \X BufLengths]
        /\ input_processed \in [Cards -> {0, 1}]
    BY <2>1 DEF Init
  <2>6. /\ running \in {"never", "yes"} /\ adding = "no"
        /\ umka_irq_number = "none" /\ drops \in 0..MaxDrops
        /\ Len(kind) <= MaxCards
    BY <2>2, Values DEF Init
  <2>7. {faulted, failed} \subseteq BOOLEAN
    <3>1. faulted = FALSE /\ failed = FALSE  BY DEF Init
    <3>2. QED  BY <3>1, Zenon
  <2>8. QED  BY <2>2, <2>3, <2>4, <2>5, <2>6, <2>7 DEF TypeOK
<1>2. Setup  BY DEF Init, Setup, Attached
<1>3. Remembered /\ FaultsExplained
  BY DEF Init, Remembered, FaultsExplained, SizeMax
<1>4. \A d \in Cards : Held(d)  BY DEF Init, Held, Handling, Numbered
<1>5. chain = <<>> /\ Len(chain) # 1  BY DEF Init
<1>6. QED  BY <1>1, <1>2, <1>3, <1>4, <1>5 DEF Inductive

(* Every step, and every stuttering step, preserves the invariant.          *)
LEMMA NextInductive == Inductive /\ [Next]_vars => Inductive'
<1> SUFFICES ASSUME Inductive, [Next]_vars  PROVE Inductive'
  OBVIOUS
<1>1. CASE Next
  <2>1. /\ TypeOK /\ Setup /\ Remembered /\ FaultsExplained
        /\ \A d \in Cards : Held(d)
    BY DEF Inductive
  <2>2. TypeOK'  BY <1>1, <2>1, TypeInit, TypeMonitor DEF Next
  <2>3. Setup'  BY <1>1, <2>1, SetupInit, SetupMonitor DEF Next
  <2>4. Remembered' /\ FaultsExplained'  BY <1>1, <2>1, RememberedStep, FaultsStep
  <2>5. \A d \in Cards : Held(d)'  BY <1>1, <2>1, HeldStep
  <2>6. (chain # <<>> => First(chain[1]))'
    BY <1>1, <2>1, FirstStep DEF Inductive
  <2>7. (Len(chain) = 1 => Alone(chain[1]))'
    <3>1. Len(chain') = 1 => chain' # <<>>  OBVIOUS
    <3>2. QED  BY <1>1, <2>1, <3>1, AloneStep DEF Inductive
  <2>8. QED  BY <2>2, <2>3, <2>4, <2>5, <2>6, <2>7 DEF Inductive
<1>2. CASE UNCHANGED vars
  <2> USE <1>2 DEF vars, Inductive
  <2>1. TypeOK'  BY DEF TypeOK
  <2>2. Setup'  BY Zenon DEF Setup, Attached
  <2>3. Remembered' /\ FaultsExplained'  BY DEF Remembered, FaultsExplained, Excused
  <2>4. \A d \in Cards : Held(d)'  BY Zenon DEF Held, Handling, Numbered
  <2>5. (chain # <<>> => First(chain[1]))'  BY Zenon DEF First, Handling, Exact
  <2>6. (Len(chain) = 1 => Alone(chain[1]))'  BY Zenon DEF Alone, Numbered
  <2>7. QED  BY <2>1, <2>2, <2>3, <2>4, <2>5, <2>6
<1>3. QED  BY <1>1, <1>2

(* The invariant holds throughout.                                          *)
LEMMA Invariance == Spec => []Inductive
BY InitInductive, NextInductive, PTL DEF Spec

(* The type invariant of the cards, their monitors and vnet_input.          *)
THEOREM TypeCorrect == Spec => []TypeOK
<1>1. Inductive => TypeOK  BY DEF Inductive
<1>2. QED  BY <1>1, Invariance, PTL

(* The interrupts the first card raises hand each of its frames to          *)
(* kos_eth_input whole, once and in order, with any number of other         *)
(* monitors at work.                                                        *)
THEOREM OwnDeliveriesCorrect == Spec => []OwnDeliveries
<1>1. Inductive => OwnDeliveries
  <2> SUFFICES ASSUME Inductive, chain # <<>>
               PROVE  LET d == Head(chain)
                      IN /\ Len(log[d]) = Len(own[d]) + IF Handling(d) THEN 1 ELSE 0
                         /\ \A i \in 1..Len(own[d]) : Exact(d, i, own[d][i])
    BY Zenon DEF OwnDeliveries
  <2>1. Head(chain) = chain[1]  BY DEF Inductive, TypeOK
  <2>2. QED  BY Zenon, <2>1 DEF Inductive, First
<1>2. QED  BY <1>1, Invariance, PTL

(* With a single card, input_processed is 1 at a read exactly if the last   *)
(* frame was handed over.                                                   *)
THEOREM ProcessedCorrect == Spec => []ProcessedIsHandedOver
<1>1. Inductive => ProcessedIsHandedOver
  <2> SUFFICES ASSUME Inductive, NEW d \in Cards, chain = <<d>>,
                      mon[d] \in {"read", "reading"}, own[d] # <<>>
               PROVE  input_processed[d] = 1 <=> own[d][Len(own[d])] # <<>>
    BY DEF ProcessedIsHandedOver
  <2>1. Len(chain) = 1 /\ chain[1] = d  OBVIOUS
  <2>2. QED  BY <2>1 DEF Inductive, Alone
<1>2. QED  BY <1>1, Invariance, PTL

(* Whatever the number of cards, the process faults only after a failed     *)
(* read, with two handlers attached, or when a card that could not be       *)
(* initialised is given to the kernel: vnet_input never copies with a       *)
(* length that was not stored.                                              *)
THEOREM FaultsCorrect == Spec => []FaultsExplained
<1>1. Inductive => FaultsExplained  BY DEF Inductive
<1>2. QED  BY <1>1, Invariance, PTL

=============================================================================
