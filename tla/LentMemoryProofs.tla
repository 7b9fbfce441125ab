-------------------------- MODULE LentMemoryProofs --------------------------
(***************************************************************************)
(* The sector cache, the DOS memory manager, and the memory that the one   *)
(* lends to the other: theorems for any sizes of the arenas, of L2 and of  *)
(* DOS's memory, any processes and any range of the epoch counters.        *)
(*                                                                         *)
(* The first part is about the sector cache alone. Its invariant speaks of *)
(* every line of a level and not only of those a lookup may find: none has *)
(* an epoch to come, so that a counter may advance, and one of the current *)
(* epoch in its own slot holds what the card holds. Of L2 it speaks below  *)
(* the floor only; above it the memory is its owners' and may look like    *)
(* anything.                                                               *)
(*                                                                         *)
(* The second part is about the operators of DosMemory. Tiled(m, C, l)     *)
(* says that the headers C tile memory m from the first paragraph to the   *)
(* last, with the bridge among them and the types that the link l asks     *)
(* for. What a walk from a header goes over is then a part of C that needs *)
(* no recursion to be told (Part), and every call of DOS is shown to leave *)
(* memory tiled, and to have changed nothing but headers.                  *)
(*                                                                         *)
(* The third part puts the two together: the arena lies in the payload of  *)
(* one free block, whose paragraphs are no headers and nobody's memory, so *)
(* that neither side ever writes what the other relies on.                 *)
(***************************************************************************)
EXTENDS LentMemory, WellFoundedInduction, TLAPS

-----------------------------------------------------------------------------
(* The sector cache alone.                                                 *)

L1Good(a, l, e, cd) ==
    \A p \in Slots(a) :
        /\ l[p].epoch <= e
        /\ l[p].epoch = e /\ l[p].tag % Total(a) = p => l[p].data \in {cd[l[p].tag], Garbage}

L2Good(n, l, e, cd) ==
    \A p \in QSlots :
        p < n => /\ l[p].epoch <= e
                 /\ l[p].epoch = e /\ QSlot(l[p].tag) = p => l[p].data = cd[l[p].tag]

L1Type == arena \in [Arena -> Nat] /\ line \in [Slots(arena) -> Line] /\ epoch \in 1 .. MaxEpoch

L2Type == /\ active \in 0 .. QspiLines /\ floor \in [Owner -> Nat] /\ qline \in [QSlots -> Line]
          /\ qepoch \in 1 .. MaxEpoch /\ qon \in BOOLEAN

CardType == ready \in BOOLEAN /\ card \in [Sector -> Value]

RdType == \/ rd = Idle
          \/ rd.on /\ rd = [on |-> TRUE, left |-> rd.left] /\ rd.left \subseteq Sector /\ rd.left # {}

OutGood(o, cd) == \A s \in DOMAIN o : s \in Sector /\ o[s] \in Bytes /\ o[s] \in {cd[s], Garbage}

L1Inv == L1Type /\ L1Good(arena, line, epoch, card)
L2Inv == L2Type /\ (qon => L2Good(active, qline, qepoch, card))

IInv == L1Inv /\ L2Inv /\ CardType /\ RdType /\ OutGood(out, card)

-----------------------------------------------------------------------------
(* Slots, requests and lines.                                              *)

LEMMA BlankIsLine == Blank \in Line /\ Blank.epoch = 0
BY SdAssumption DEF Blank, Line, Sector, Bytes

LEMMA TotalIsNat ==
    ASSUME NEW a \in [Arena -> Nat]
    PROVE  Total(a) \in Nat
BY DEF Total, Arena

LEMMA SlotIsSlot ==
    ASSUME NEW s \in Nat, NEW n \in Nat \ {0}
    PROVE  s % n \in 0 .. n - 1
OBVIOUS

LEMMA SectorHasSlot ==
    ASSUME L1Inv, NEW s \in Sector, Total(arena) # 0
    PROVE  Slot(s) \in Slots(arena)
<1>1. Total(arena) \in Nat \ {0} /\ s \in Nat
  BY TotalIsNat, SdAssumption DEF L1Inv, L1Type, Sector
<1>2. s % Total(arena) \in 0 .. Total(arena) - 1
  <2>. HIDE DEF Total
  <2>. QED BY <1>1, SlotIsSlot
<1>. QED BY <1>2 DEF Slot, Slots

\* A set of sectors has a last one.
LEMMA LastIsMember ==
    ASSUME NEW S, S \subseteq Sector, S # {}
    PROVE  Last(S) \in S
<1>. DEFINE R == {Sectors - s : s \in S}
<1>1. \A s \in S : s \in Nat /\ Sectors - s \in Nat
  BY SdAssumption DEF Sector
<1>2. R \subseteq Nat /\ R # {}
  <2>1. R \subseteq Nat
    BY <1>1
  <2>2. PICK s \in S : TRUE
    OBVIOUS
  <2>3. Sectors - s \in R
    OBVIOUS
  <2>. QED BY <2>1, <2>3
<1>3. \E m \in R : \A y \in R : ~(<<y, m>> \in OpToRel(<, Nat))
  <2>. HIDE DEF R
  <2>. QED BY <1>2, NatLessThanWellFounded, WFMin
<1>4. PICK m \in R : \A y \in R : ~(<<y, m>> \in OpToRel(<, Nat))
  BY <1>3
<1>5. \A y \in R : ~(y < m)
  <2>. HIDE DEF R
  <2>. QED BY <1>2, <1>4, Zenon DEF OpToRel
<1>6. PICK s \in S : m = Sectors - s
  OBVIOUS
<1>7. \A t \in S : t <= s
  <2>. TAKE t \in S
  <2>1. Sectors - t \in R
    OBVIOUS
  <2>2. ~(Sectors - t < m)
    BY <1>5, <2>1
  <2>. QED BY <1>1, <1>6, <2>2, SdAssumption
<1>. QED BY <1>7 DEF Last

LEMMA RequestIsSectors ==
    ASSUME NEW S \in Requests
    PROVE  S \subseteq Sector
BY DEF Requests

\* Sectors S, with the contents the card then has or garbage, go into L1.
LEMMA StoredIsGood ==
    ASSUME L1Inv, NEW S, S \subseteq Sector, NEW src, NEW cd,
           \A s \in S : src[s] \in Bytes /\ src[s] \in {cd[s], Garbage},
           \A s \in Sector \ S : cd[s] = card[s]
    PROVE  /\ Stored(S, src) \in [Slots(arena) -> Line]
           /\ L1Good(arena, Stored(S, src), epoch, cd)
<1>. SUFFICES ASSUME NEW p \in Slots(arena)
     PROVE  /\ Stored(S, src)[p] \in Line
            /\ Stored(S, src)[p].epoch <= epoch
            /\ Stored(S, src)[p].epoch = epoch /\ Stored(S, src)[p].tag % Total(arena) = p
                  => Stored(S, src)[p].data \in {cd[Stored(S, src)[p].tag], Garbage}
  BY DEF L1Good, Stored
<1>. DEFINE here == {s \in S : Slot(s) = p}
<1>1. line[p] \in Line /\ epoch \in 0 .. MaxEpoch /\ line[p].epoch <= epoch
  BY SdAssumption DEF L1Inv, L1Type, L1Good
<1>2. CASE here = {}
  <2>1. Stored(S, src)[p] = line[p]
    BY <1>2 DEF Stored
  <2>2. ASSUME line[p].epoch = epoch, line[p].tag % Total(arena) = p
        PROVE  line[p].data \in {cd[line[p].tag], Garbage}
    <3>1. line[p].tag \in Sector \ S
      BY <1>2, <1>1, <2>2 DEF Line, Slot
    <3>. QED BY <2>2, <3>1 DEF L1Inv, L1Good
  <2>. QED BY <1>1, <2>1, <2>2
<1>3. CASE here # {}
  <2>1. Last(here) \in here
    BY <1>3, LastIsMember
  <2>2. Stored(S, src)[p] = [tag |-> Last(here), epoch |-> epoch, data |-> src[Last(here)]]
    BY <1>3 DEF Stored
  <2>. HIDE DEF here
  <2>3. Last(here) \in S /\ Last(here) \in Sector
    BY <2>1 DEF here
  <2>. QED BY <1>1, <2>2, <2>3 DEF Line
<1>. QED BY <1>2, <1>3

\* The same for L2, where only the card's contents go.
LEMMA QStoredIsGood ==
    ASSUME L2Inv, NEW S, S \subseteq Sector, NEW src, NEW cd,
           \A s \in S : src[s] \in Bytes /\ src[s] = cd[s],
           \A s \in Sector \ S : cd[s] = card[s]
    PROVE  /\ QStored(S, src) \in [QSlots -> Line]
           /\ qon => L2Good(active, QStored(S, src), qepoch, cd)
<1>. SUFFICES ASSUME NEW p \in QSlots
     PROVE  /\ QStored(S, src)[p] \in Line
            /\ qon /\ p < active =>
                 /\ QStored(S, src)[p].epoch <= qepoch
                 /\ QStored(S, src)[p].epoch = qepoch /\ QSlot(QStored(S, src)[p].tag) = p
                       => QStored(S, src)[p].data = cd[QStored(S, src)[p].tag]
  BY DEF L2Good, QStored
<1>. DEFINE here == {s \in S : QSlot(s) = p}
<1>1. /\ qline[p] \in Line /\ qepoch \in 0 .. MaxEpoch /\ active \in Int /\ p \in Int
      /\ qon /\ p < active => qline[p].epoch <= qepoch
  BY SdAssumption DEF L2Inv, L2Type, L2Good, QSlots
<1>2. CASE ~qon \/ p >= active \/ here = {}
  <2>1. QStored(S, src)[p] = qline[p]
    BY <1>2 DEF QStored
  <2>2. ASSUME qon, p < active, qline[p].epoch = qepoch, QSlot(qline[p].tag) = p
        PROVE  qline[p].data = cd[qline[p].tag]
    <3>1. qline[p].tag \in Sector \ S
      BY <1>2, <1>1, <2>2 DEF Line
    <3>. QED BY <2>2, <3>1 DEF L2Inv, L2Good
  <2>. QED BY <1>1, <2>1, <2>2
<1>3. CASE qon /\ p < active /\ here # {}
  <2>1. Last(here) \in here
    BY <1>3, LastIsMember
  <2>2. QStored(S, src)[p] = [tag |-> Last(here), epoch |-> qepoch, data |-> src[Last(here)]]
    BY <1>3, <1>1 DEF QStored
  <2>. HIDE DEF here
  <2>3. Last(here) \in S /\ Last(here) \in Sector
    BY <2>1 DEF here
  <2>. QED BY <1>1, <2>2, <2>3 DEF Line
<1>. QED BY <1>2, <1>3, <1>1

\* Sectors S leave both levels.
LEMMA DroppedIsGood ==
    ASSUME L1Inv, L2Inv, NEW S, S \subseteq Sector, Dropped(S), NEW cd,
           \A s \in Sector \ S : cd[s] = card[s]
    PROVE  /\ line' \in [Slots(arena) -> Line]
           /\ L1Good(arena, line', epoch, cd)
           /\ qline' \in [QSlots -> Line]
           /\ qon => L2Good(active, qline', qepoch, cd)
<1>1. ASSUME NEW p \in Slots(arena)
      PROVE  /\ line'[p] \in Line
             /\ line'[p].epoch <= epoch
             /\ line'[p].epoch = epoch /\ line'[p].tag % Total(arena) = p
                   => line'[p].data \in {cd[line'[p].tag], Garbage}
  <2>1. line[p] \in Line /\ epoch \in 1 .. MaxEpoch /\ line[p].epoch <= epoch
    BY DEF L1Inv, L1Type, L1Good
  <2>2. CASE line[p].epoch = epoch /\ line[p].tag \in S
    <3>1. line'[p] = Blank
      BY <2>2 DEF Dropped
    <3>. QED BY <2>1, <3>1, BlankIsLine
  <2>3. CASE ~(line[p].epoch = epoch /\ line[p].tag \in S)
    <3>1. line'[p] = line[p]
      BY <2>3 DEF Dropped
    <3>2. line[p].tag \in Sector
      BY <2>1 DEF Line
    <3>. QED BY <2>3, <2>1, <3>1, <3>2 DEF L1Inv, L1Good
  <2>. QED BY <2>2, <2>3
<1>2. ASSUME NEW p \in QSlots
      PROVE  /\ qline'[p] \in Line
             /\ qon /\ p < active =>
                  /\ qline'[p].epoch <= qepoch
                  /\ qline'[p].epoch = qepoch /\ QSlot(qline'[p].tag) = p
                        => qline'[p].data = cd[qline'[p].tag]
  <2>1. qline[p] \in Line /\ qepoch \in 1 .. MaxEpoch
    BY DEF L2Inv, L2Type
  <2>2. CASE qon /\ p < active /\ qline[p].epoch = qepoch /\ qline[p].tag \in S
    <3>1. qline'[p] = Blank
      BY <2>2 DEF Dropped
    <3>. QED BY <2>1, <3>1, BlankIsLine
  <2>3. CASE ~(qon /\ p < active /\ qline[p].epoch = qepoch /\ qline[p].tag \in S)
    <3>1. qline'[p] = qline[p]
      BY <2>3 DEF Dropped
    <3>2. qline[p].tag \in Sector
      BY <2>1 DEF Line
    <3>. QED BY <2>3, <2>1, <3>1, <3>2 DEF L2Inv, L2Good
  <2>. QED BY <2>2, <2>3
<1>. QED BY <1>1, <1>2 DEF L1Good, L2Good, Dropped

-----------------------------------------------------------------------------
(* The initial states and the steps.                                       *)

LEMMA NothingRead == \A cd : OutGood(NoOut, cd)
BY DEF OutGood, NoOut

LEMMA InitIsGood == SdInit => IInv
<1>. SUFFICES ASSUME SdInit PROVE IInv
  OBVIOUS
<1>1. Slots(arena) = {}
  BY DEF SdInit, Slots, Total, Arena
<1>2. L1Inv
  BY <1>1, SdAssumption DEF SdInit, L1Inv, L1Type, L1Good
<1>3. L2Inv
  <2>1. qline \in [QSlots -> Line] /\ floor \in [Owner -> Nat]
    BY BlankIsLine DEF SdInit
  <2>2. active \in 0 .. QspiLines /\ qepoch \in 1 .. MaxEpoch
    BY SdAssumption DEF SdInit
  <2>3. qon = FALSE
    BY DEF SdInit
  <2>. QED BY <2>1, <2>2, <2>3 DEF L2Inv, L2Type
<1>. QED BY <1>2, <1>3, NothingRead DEF SdInit, IInv, CardType, RdType

\* An arena that changes has no valid line left.
LEMMA EnableIsGood ==
    ASSUME IInv, NEW a \in Arena, NEW n \in Nat, NEW moved \in BOOLEAN, Enable(a, n, moved, line), card' = card
    PROVE  L1Inv'
<1>1. CASE arena[a] = n /\ ~moved
  BY <1>1 DEF Enable, IInv, L1Inv, L1Type, L1Good
<1>2. CASE ~(arena[a] = n /\ ~moved)
  <2>1. arena' \in [Arena -> Nat]
    BY <1>2 DEF Enable, IInv, L1Inv, L1Type
  <2>2. /\ epoch' = 1
        /\ line' = [p \in Slots(arena') |-> Blank]
    BY <1>2 DEF Enable
  <2>3. L1Type'
    BY <2>1, <2>2, BlankIsLine, SdAssumption DEF L1Type
  <2>4. L1Good(arena', line', epoch', card')
    BY <2>2, BlankIsLine DEF L1Good
  <2>. QED BY <2>3, <2>4 DEF L1Inv
<1>. QED BY <1>1, <1>2

\* The arena is one of the three and has one of its sizes.
LEMMA EnableArenaStep == IInv /\ EnableArena => IInv'
<1>. SUFFICES ASSUME IInv, EnableArena PROVE IInv'
  OBVIOUS
<1>. PICK a \in Arena, moved \in BOOLEAN : \E n \in ArenaLines[a] : Enable(a, n, moved, line)
  BY DEF EnableArena
<1>. PICK n \in ArenaLines[a] : Enable(a, n, moved, line)
  OBVIOUS
<1>1. L1Inv'
  <2>1. n \in Nat
    BY SdAssumption DEF Arena
  <2>2. card' = card
    BY DEF EnableArena
  <2>. QED BY <2>1, <2>2, EnableIsGood
<1>2. L2Inv'
  BY DEF EnableArena, IInv, L2Inv, L2Type
<1>. QED BY <1>1, <1>2, NothingRead DEF EnableArena, IInv, CardType, RdType

LEMMA ActiveIsCount ==
    ASSUME NEW f \in [Owner -> Nat]
    PROVE  Active(f) \in 0 .. QspiLines
BY SdAssumption DEF Active, Owner

\* What grows is blank, and what stays is what it was.
LEMMA ResizeIsGood ==
    ASSUME L2Type, NEW f \in [Owner -> Nat], NEW old \in Int, Resize(f, old), NEW e \in Nat \ {0}, NEW cd,
           \A p \in QSlots : p < old => /\ qline[p].epoch <= e
                                        /\ qline[p].epoch = e /\ QSlot(qline[p].tag) = p
                                             => qline[p].data = cd[qline[p].tag]
    PROVE  active' \in 0 .. QspiLines /\ qline' \in [QSlots -> Line] /\ L2Good(active', qline', e, cd)
<1>1. active' = Active(f) /\ Active(f) \in 0 .. QspiLines
  BY ActiveIsCount DEF Resize
<1>2. ASSUME NEW p \in QSlots
      PROVE  /\ qline'[p] \in Line
             /\ p < active' => /\ qline'[p].epoch <= e
                               /\ qline'[p].epoch = e /\ QSlot(qline'[p].tag) = p
                                    => qline'[p].data = cd[qline'[p].tag]
  <2>1. CASE old <= p /\ p < Active(f)
    <3>1. qline'[p] = Blank
      BY <2>1 DEF Resize
    <3>. QED BY <3>1, BlankIsLine
  <2>2. CASE ~(old <= p /\ p < Active(f))
    <3>1. qline'[p] = qline[p]
      BY <2>2 DEF Resize
    <3>2. p \in Int
      BY SdAssumption DEF QSlots
    <3>. QED BY <1>1, <2>2, <3>1, <3>2 DEF L2Type
  <2>. QED BY <2>1, <2>2
<1>3. qline' \in [QSlots -> Line]
  BY <1>2 DEF Resize
<1>4. L2Good(active', qline', e, cd)
  BY <1>2, Zenon DEF L2Good
<1>. QED BY <1>1, <1>3, <1>4

LEMMA EnableQspiStep == IInv /\ EnableQspi => IInv'
<1>. SUFFICES ASSUME IInv, EnableQspi PROVE IInv'
  OBVIOUS
<1>1. floor \in [Owner -> Nat] /\ L2Type
  BY DEF IInv, L2Inv, L2Type
<1>2. \A p \in QSlots : ~(p < 0)
  BY SdAssumption DEF QSlots
<1>3. active' \in 0 .. QspiLines /\ qline' \in [QSlots -> Line] /\ L2Good(active', qline', 1, card)
  BY <1>1, <1>2, ResizeIsGood DEF EnableQspi
<1>4. L2Inv'
  BY <1>1, <1>3, SdAssumption DEF EnableQspi, L2Inv, L2Type
<1>5. L1Inv'
  BY DEF EnableQspi, IInv, L1Inv, L1Type
<1>. QED BY <1>4, <1>5, NothingRead DEF EnableQspi, IInv, CardType, RdType

LEMMA SetFloorStep ==
    ASSUME IInv, NEW o \in Owner, NEW n \in 0 .. QspiLines, SetFloor(o, n)
    PROVE  IInv'
<1>1. floor' \in [Owner -> Nat] /\ L2Type
  BY DEF IInv, L2Inv, L2Type, SetFloor
<1>2. L2Inv'
  <2>1. CASE qon
    <3>1. \A p \in QSlots : p < active => /\ qline[p].epoch <= qepoch
                                          /\ qline[p].epoch = qepoch /\ QSlot(qline[p].tag) = p
                                               => qline[p].data = card[qline[p].tag]
      BY <2>1 DEF IInv, L2Inv, L2Good
    <3>2. active \in Int /\ qepoch \in Nat \ {0}
      BY <1>1, SdAssumption DEF L2Type
    <3>3. Resize(floor', active)
      BY <2>1 DEF SetFloor
    <3>4. active' \in 0 .. QspiLines /\ qline' \in [QSlots -> Line] /\ L2Good(active', qline', qepoch, card)
      BY <1>1, <3>1, <3>2, <3>3, ResizeIsGood
    <3>. QED BY <1>1, <3>4 DEF SetFloor, L2Inv, L2Type
  <2>2. CASE ~qon
    BY <1>1, <2>2, SdAssumption DEF SetFloor, L2Inv, L2Type
  <2>. QED BY <2>1, <2>2
<1>3. L1Inv'
  BY DEF SetFloor, IInv, L1Inv, L1Type
<1>. QED BY <1>2, <1>3, NothingRead DEF SetFloor, IInv, CardType, RdType

LEMMA OwnerWritesStep ==
    ASSUME IInv, NEW p \in QSlots, NEW l \in OwnerLines, OwnerWrites(p, l)
    PROVE  IInv'
<1>1. l \in Line
  BY SdAssumption DEF Line, Sector, Bytes
<1>2. L2Type'
  BY <1>1 DEF OwnerWrites, IInv, L2Inv, L2Type
<1>3. ASSUME qon PROVE L2Good(active, qline', qepoch, card)
  <2>. SUFFICES ASSUME NEW q \in QSlots, q < active
       PROVE  qline'[q] = qline[q]
    BY <1>3 DEF IInv, L2Inv, L2Good
  <2>1. q # p
    BY SdAssumption DEF OwnerWrites, IInv, L2Inv, L2Type, QSlots
  <2>. QED BY <2>1 DEF OwnerWrites, IInv, L2Inv, L2Type
<1>4. L2Inv'
  BY <1>2, <1>3 DEF OwnerWrites, L2Inv
<1>5. L1Inv'
  BY DEF OwnerWrites, IInv, L1Inv, L1Type
<1>. QED BY <1>4, <1>5, NothingRead DEF OwnerWrites, IInv, CardType, RdType

LEMMA DiskInitializeStep == IInv /\ DiskInitialize => IInv'
<1>. SUFFICES ASSUME IInv, DiskInitialize PROVE IInv'
  OBVIOUS
<1>1. L1Inv'
  <2>1. CASE Total(arena) = 0
    <3>1. Slots(arena) = {}
      BY <2>1 DEF Slots
    <3>. QED BY <2>1, <3>1 DEF DiskInitialize, Bump, IInv, L1Inv, L1Type, L1Good
  <2>2. CASE Total(arena) # 0 /\ epoch = MaxEpoch
    <3>1. epoch' = 1 /\ line' = [p \in Slots(arena) |-> Blank] /\ arena' = arena
      BY <2>2 DEF DiskInitialize, Bump
    <3>2. L1Type'
      BY <3>1, BlankIsLine, SdAssumption DEF IInv, L1Inv, L1Type
    <3>3. L1Good(arena', line', epoch', card')
      BY <3>1, BlankIsLine DEF L1Good
    <3>. QED BY <3>2, <3>3 DEF L1Inv
  <2>3. CASE Total(arena) # 0 /\ epoch # MaxEpoch
    <3>1. epoch' = epoch + 1 /\ line' = line /\ arena' = arena
      BY <2>3 DEF DiskInitialize, Bump
    <3>2. L1Type'
      BY <2>3, <3>1, SdAssumption DEF IInv, L1Inv, L1Type
    <3>3. ASSUME NEW p \in Slots(arena) PROVE line[p].epoch <= epoch' /\ line[p].epoch # epoch'
      BY <3>1, SdAssumption DEF IInv, L1Inv, L1Type, L1Good, Line
    <3>4. L1Good(arena', line', epoch', card')
      BY <3>1, <3>3 DEF L1Good
    <3>. QED BY <3>2, <3>4 DEF L1Inv
  <2>. QED BY <2>1, <2>2, <2>3
<1>2. L2Inv'
  <2>1. L2Type
    BY DEF IInv, L2Inv
  <2>2. CASE ~qon
    BY <2>2, <2>1 DEF DiskInitialize, QBump, L2Inv, L2Type
  <2>3. CASE qon /\ qepoch = MaxEpoch
    <3>1. /\ qepoch' = 1 /\ active' = active /\ floor' = floor /\ qon' = qon
          /\ qline' = [p \in QSlots |-> IF p < active THEN Blank ELSE qline[p]]
      BY <2>3 DEF DiskInitialize, QBump
    <3>2. L2Type'
      BY <2>1, <3>1, BlankIsLine, SdAssumption DEF L2Type
    <3>3. L2Good(active', qline', qepoch', card')
      BY <3>1, BlankIsLine DEF L2Good
    <3>. QED BY <3>2, <3>3 DEF L2Inv
  <2>4. CASE qon /\ qepoch # MaxEpoch
    <3>1. /\ qepoch' = qepoch + 1 /\ active' = active /\ floor' = floor /\ qon' = qon
          /\ qline' = qline
      BY <2>4 DEF DiskInitialize, QBump
    <3>2. L2Type'
      BY <2>4, <2>1, <3>1, SdAssumption DEF L2Type
    <3>3. ASSUME NEW p \in QSlots, p < active PROVE qline[p].epoch <= qepoch' /\ qline[p].epoch # qepoch'
      BY <2>4, <2>1, <3>1, <3>3, SdAssumption DEF IInv, L2Inv, L2Type, L2Good, Line
    <3>4. L2Good(active', qline', qepoch', card')
      BY <3>1, <3>3 DEF L2Good
    <3>. QED BY <3>2, <3>4 DEF L2Inv
  <2>. QED BY <2>2, <2>3, <2>4
<1>. QED BY <1>1, <1>2, NothingRead DEF DiskInitialize, IInv, CardType, RdType

\* Both levels keep what they are, and the card too.
LEMMA LevelsStay ==
    ASSUME IInv, UNCHANGED <<arena, line, epoch, active, floor, qline, qepoch, qon, ready, card>>
    PROVE  L1Inv' /\ L2Inv' /\ CardType'
<1>1. L1Inv'
  BY DEF IInv, L1Inv, L1Type
<1>2. L2Inv'
  BY DEF IInv, L2Inv, L2Type
<1>3. CardType'
  BY DEF IInv, CardType
<1>. QED BY <1>1, <1>2, <1>3

LEMMA ReadHitStep ==
    ASSUME IInv, NEW S \in Requests, ReadHit(S)
    PROVE  IInv'
<1>1. S # {} /\ S \subseteq Sector
  <2>1. PICK s \in Sector, n \in 1 .. MaxCount : S = Request(s, n)
    BY DEF Requests
  <2>2. s \in Request(s, n)
    BY SdAssumption DEF Request, Sector
  <2>. QED BY <2>1, <2>2, RequestIsSectors
<1>2. RdType'
  BY <1>1 DEF ReadHit, RdType
<1>3. L1Inv' /\ L2Inv' /\ CardType'
  BY LevelsStay DEF ReadHit
<1>. QED BY <1>2, <1>3, NothingRead DEF ReadHit, IInv

\* A set of sectors has a first one.
LEMMA FirstIsMember ==
    ASSUME rd.on, RdType
    PROVE  Next1 \in rd.left
<1>1. rd.left \subseteq Nat /\ rd.left # {}
  BY DEF RdType, Idle, Sector
<1>2. \E s \in rd.left : \A t \in rd.left : ~(<<t, s>> \in OpToRel(<, Nat))
  BY <1>1, NatLessThanWellFounded, WFMin
<1>3. PICK s \in rd.left : \A t \in rd.left : ~(<<t, s>> \in OpToRel(<, Nat))
  BY <1>2
<1>4. \A t \in rd.left : ~(t < s)
  BY <1>1, <1>3, Zenon DEF OpToRel
<1>5. \A t \in rd.left : s <= t
  BY <1>1, <1>4
<1>. QED BY <1>5 DEF Next1

\* What a cached read returns.
LEMMA FoundIsTrue ==
    ASSUME IInv, NEW s \in Sector
    PROVE  Found(s) \in Bytes /\ Found(s) \in {card[s], Garbage}
<1>1. card[s] \in Value
  BY DEF IInv, CardType
<1>2. CASE InL1(s)
  <2>1. Slot(s) \in Slots(arena)
    BY <1>2, SectorHasSlot DEF InL1, IInv
  <2>2. line[Slot(s)].data \in {card[s], Garbage}
    BY <1>2, <2>1 DEF InL1, IInv, L1Inv, L1Good, Slot
  <2>. QED BY <1>1, <1>2, <2>2 DEF Found, Bytes
<1>3. CASE ~InL1(s) /\ InL2(s)
  <2>1. QSlot(s) \in QSlots
    BY SlotIsSlot, SdAssumption DEF QSlots, QSlot, Sector
  <2>2. qline[QSlot(s)].data = card[s]
    BY <1>3, <2>1 DEF InL2, IInv, L2Inv, L2Good
  <2>. QED BY <1>1, <1>3, <2>2 DEF Found, Bytes
<1>4. CASE ~InL1(s) /\ ~InL2(s)
  BY <1>4 DEF Found, Bytes
<1>. QED BY <1>2, <1>3, <1>4

LEMMA ReadStepStep == IInv /\ ReadStep => IInv'
<1>. SUFFICES ASSUME IInv, ReadStep PROVE IInv'
  OBVIOUS
<1>. DEFINE s == Next1
<1>1. s \in rd.left /\ s \in Sector
  BY FirstIsMember DEF ReadStep, IInv, RdType, Idle
<1>. HIDE DEF s
<1>2. /\ out' = [t \in DOMAIN out \cup {s} |-> IF t = s THEN Found(s) ELSE out[t]]
      /\ line' = Promoted(s)
      /\ rd' = IF rd.left = {s} THEN Idle ELSE [rd EXCEPT !.left = @ \ {s}]
  BY DEF ReadStep, s
<1>3. Found(s) \in Bytes /\ Found(s) \in {card[s], Garbage}
  BY <1>1, FoundIsTrue
<1>4. line' \in [Slots(arena) -> Line] /\ L1Good(arena, line', epoch, card)
  <2>1. CASE InL1(s)
    BY <1>2, <2>1 DEF Promoted, IInv, L1Inv, L1Type
  <2>2. CASE ~InL1(s)
    <3>. DEFINE src == [t \in {s} |-> Found(t)]
    <3>1. \A t \in {s} : src[t] \in Bytes /\ src[t] \in {card[t], Garbage}
      BY <1>3
    <3>2. line' = Stored({s}, src)
      BY <1>2, <2>2 DEF Promoted
    <3>3. {s} \subseteq Sector /\ L1Inv
      BY <1>1 DEF IInv
    <3>. HIDE DEF src
    <3>. QED BY <3>1, <3>2, <3>3, StoredIsGood
  <2>. QED BY <2>1, <2>2
<1>5. L1Inv'
  BY <1>4 DEF ReadStep, IInv, L1Inv, L1Type
<1>6. L2Inv' /\ CardType'
  BY DEF ReadStep, IInv, L2Inv, L2Type, CardType
<1>7. RdType'
  <2>1. PICK L : L = rd.left /\ rd = [on |-> TRUE, left |-> L] /\ L \subseteq Sector /\ s \in L
    BY <1>1 DEF ReadStep, IInv, RdType, Idle
  <2>2. CASE L = {s}
    BY <1>2, <2>1, <2>2 DEF RdType
  <2>3. CASE L # {s}
    <3>1. rd' = [rd EXCEPT !.left = L \ {s}]
      BY <1>2, <2>1, <2>3
    <3>2. rd \in [on : {TRUE}, left : SUBSET Sector] /\ L \ {s} \in SUBSET Sector
      BY <2>1
    <3>3. rd' \in [on : {TRUE}, left : SUBSET Sector] /\ rd'.left = L \ {s}
      BY <3>1, <3>2
    <3>4. rd' = [on |-> TRUE, left |-> rd'.left] /\ rd'.on = TRUE /\ rd'.left \subseteq Sector
      BY <3>3
    <3>5. L \ {s} # {}
      BY <2>1, <2>3
    <3>. QED BY <3>3, <3>4, <3>5 DEF RdType
  <2>. QED BY <2>2, <2>3
<1>8. OutGood(out', card')
  BY <1>1, <1>2, <1>3 DEF ReadStep, IInv, OutGood
<1>. QED BY <1>5, <1>6, <1>7, <1>8 DEF IInv

\* A card whose sectors S hold what src says, and both levels with it.
LEMMA LevelsFollow ==
    ASSUME IInv, NEW S, S \subseteq Sector, NEW src, \A s \in S : src[s] \in Value /\ src[s] = card'[s],
           \A s \in Sector \ S : card'[s] = card[s],
           line' = Stored(S, src), qline' = QStored(S, src), card' \in [Sector -> Value],
           UNCHANGED <<arena, epoch, active, floor, qepoch, qon>>
    PROVE  L1Inv' /\ L2Inv'
<1>1. \A s \in S : src[s] \in Bytes /\ src[s] \in {card'[s], Garbage} /\ src[s] = card'[s]
  BY DEF Bytes
<1>2. L1Inv /\ L2Inv
  BY DEF IInv
<1>3. line' \in [Slots(arena) -> Line] /\ L1Good(arena, line', epoch, card')
  BY <1>1, <1>2, StoredIsGood
<1>4. qline' \in [QSlots -> Line] /\ (qon => L2Good(active, qline', qepoch, card'))
  BY <1>1, <1>2, QStoredIsGood
<1>5. L1Inv'
  BY <1>2, <1>3 DEF L1Inv, L1Type
<1>6. L2Inv'
  BY <1>2, <1>4 DEF L2Inv, L2Type
<1>. QED BY <1>5, <1>6

LEMMA ReadCardStep ==
    ASSUME IInv, NEW S \in Requests, ReadCard(S)
    PROVE  IInv'
<1>1. S \subseteq Sector /\ card \in [Sector -> Value] /\ card' = card
  BY RequestIsSectors DEF ReadCard, IInv, CardType
<1>2. L1Inv' /\ L2Inv'
  <2>1. \A s \in S : card[s] \in Value /\ card[s] = card'[s]
    BY <1>1
  <2>2. /\ line' = Stored(S, card) /\ qline' = QStored(S, card)
        /\ UNCHANGED <<arena, epoch, active, floor, qepoch, qon>>
    BY DEF ReadCard
  <2>. QED BY <1>1, <2>1, <2>2, LevelsFollow
<1>3. OutGood(out', card')
  BY <1>1 DEF ReadCard, OutGood, Bytes
<1>. QED BY <1>2, <1>3 DEF ReadCard, IInv, CardType, RdType

LEMMA DiskWriteStep ==
    ASSUME IInv, NEW S \in Requests, DiskWrite(S)
    PROVE  IInv'
<1>1. S \subseteq Sector /\ card \in [Sector -> Value]
  BY RequestIsSectors DEF IInv, CardType
<1>2. PICK new \in [S -> Value] : Written(S, new)
  BY DEF DiskWrite
<1>3. card' = [s \in Sector |-> IF s \in S THEN new[s] ELSE card[s]]
  BY <1>2 DEF Written
<1>4. CardType'
  BY <1>1, <1>3 DEF DiskWrite, IInv, CardType
<1>5. L1Inv' /\ L2Inv'
  <2>1. \A s \in S : new[s] \in Value /\ new[s] = card'[s]
    BY <1>1, <1>3
  <2>2. \A s \in Sector \ S : card'[s] = card[s]
    BY <1>3
  <2>3. line' = Stored(S, new) /\ qline' = QStored(S, new)
    BY <1>2 DEF Written
  <2>4. UNCHANGED <<arena, epoch, active, floor, qepoch, qon>>
    BY DEF DiskWrite
  <2>. QED BY <1>1, <1>4, <2>1, <2>2, <2>3, <2>4, LevelsFollow DEF CardType
<1>. QED BY <1>4, <1>5, NothingRead DEF DiskWrite, IInv, RdType

LEMMA WriteFailsStep ==
    ASSUME IInv, NEW S \in Requests, WriteFails(S)
    PROVE  IInv'
<1>1. S \subseteq Sector /\ L1Inv /\ L2Inv
  BY RequestIsSectors DEF IInv
<1>2. PICK new \in [S -> Value] :
        card' = [s \in Sector |-> IF s \in S /\ ready THEN new[s] ELSE card[s]]
  BY DEF WriteFails
<1>3. CardType'
  BY <1>1, <1>2 DEF WriteFails, IInv, CardType
<1>4. \A s \in Sector \ S : card'[s] = card[s]
  BY <1>2
<1>5. Dropped(S)
  BY DEF WriteFails
<1>6. /\ line' \in [Slots(arena) -> Line]
      /\ L1Good(arena, line', epoch, card')
      /\ qline' \in [QSlots -> Line]
      /\ qon => L2Good(active, qline', qepoch, card')
  BY <1>1, <1>4, <1>5, DroppedIsGood
<1>7. L1Inv'
  BY <1>1, <1>6 DEF WriteFails, L1Inv, L1Type
<1>8. L2Inv'
  BY <1>1, <1>6 DEF WriteFails, L2Inv, L2Type
<1>. QED BY <1>3, <1>7, <1>8, NothingRead DEF WriteFails, IInv, RdType

LEMMA StepIsGood == IInv /\ [SdNext]_sdvars => IInv'
<1>. SUFFICES ASSUME IInv, [SdNext]_sdvars PROVE IInv'
  OBVIOUS
<1>1. CASE EnableArena
  BY <1>1, EnableArenaStep
<1>2. CASE EnableQspi
  BY <1>2, EnableQspiStep
<1>3. CASE \E o \in Owner, n \in 0 .. QspiLines : SetFloor(o, n)
  BY <1>3, SetFloorStep
<1>4. CASE \E p \in QSlots, l \in OwnerLines : OwnerWrites(p, l)
  BY <1>4, OwnerWritesStep
<1>5. CASE DiskInitialize
  BY <1>5, DiskInitializeStep
<1>6. CASE \E S \in Requests : ReadHit(S) \/ ReadCard(S) \/ DiskWrite(S) \/ WriteFails(S) \/ Trim(S)
  BY <1>6, ReadHitStep, ReadCardStep, DiskWriteStep, WriteFailsStep DEF Trim
<1>7. CASE ReadStep
  BY <1>7, ReadStepStep
<1>8. CASE UNCHANGED sdvars
  <2>1. L1Inv' /\ L2Inv' /\ CardType'
    BY <1>8, LevelsStay DEF sdvars
  <2>. QED BY <1>8, <2>1 DEF sdvars, IInv, RdType
<1>. QED BY <1>1, <1>2, <1>3, <1>4, <1>5, <1>6, <1>7, <1>8 DEF SdNext

-----------------------------------------------------------------------------
(* The theorems.                                                           *)

\* Of L1 and of L2, every line is the card's sector, or blank, or of an epoch
\* gone by, or garbage; the lines a running read still needs are sectors.
THEOREM SdInvariance == SdSpec => []IInv
<1>1. SdInit => IInv
  BY InitIsGood
<1>2. IInv /\ [SdNext]_sdvars => IInv'
  BY StepIsGood
<1>. QED BY <1>1, <1>2, PTL DEF SdSpec

\* Type correctness: the lines of L1 are those of the arenas at every moment,
\* through every change of their sizes.
THEOREM TypeOKHolds == SdSpec => []TypeOK
<1>1. IInv => TypeOK
  BY DEF IInv, L1Inv, L1Type, L2Inv, L2Type, CardType, RdType, OutGood, TypeOK
<1>. QED BY <1>1, SdInvariance, PTL

\* What the invariant says of every line, a lookup finds.
LEMMA GoodLinesAreTrue == IInv => LinesTrue
<1>. SUFFICES ASSUME IInv, NEW s \in Sector
     PROVE  /\ InL1(s) => line[Slot(s)].data \in {card[s], Garbage}
            /\ InL2(s) => qline[QSlot(s)].data = card[s]
  BY DEF LinesTrue
<1>1. ASSUME InL1(s) PROVE line[Slot(s)].data \in {card[s], Garbage}
  <2>1. Slot(s) \in Slots(arena)
    BY <1>1, SectorHasSlot DEF InL1, IInv
  <2>. QED BY <1>1, <2>1 DEF InL1, IInv, L1Inv, L1Good, Slot
<1>2. ASSUME InL2(s) PROVE qline[QSlot(s)].data = card[s]
  <2>1. QSlot(s) \in QSlots
    BY SlotIsSlot, SdAssumption DEF QSlots, QSlot, Sector
  <2>. QED BY <1>2, <2>1 DEF InL2, IInv, L2Inv, L2Good
<1>. QED BY <1>1, <1>2

\* disk_read, disk_initialize and ff_qspi_cache_resize: neither level hands
\* out a sector's former contents or another's, whatever the arenas, the
\* floors and the card have been through.
THEOREM LinesTrueHolds == SdSpec => []LinesTrue
BY GoodLinesAreTrue, SdInvariance, PTL

\* ff_stack_cache_read_active and disk_read: what a read returns is the
\* card's, or what the NULL line yields.
THEOREM ReadsTrueHolds == SdSpec => []ReadsTrue
<1>1. IInv => ReadsTrue
  BY DEF IInv, OutGood, ReadsTrue
<1>. QED BY <1>1, SdInvariance, PTL

-----------------------------------------------------------------------------
(* Memory tiled by headers, and walks over them.                           *)

\* A header, and memory made of headers and other paragraphs.
Header == [type : {"M", "Z"}, psp : Nat, size : Nat]

MemType(m) == m \in [Para -> Header \cup {Data}]

\* Where the chains end.
Ends(m, l, p) == NextMcb(m, p) = Top \/ (NextMcb(m, p) = Root /\ l = 0)

\* A block ends where another header is, or where memory does; it is of type
\* Z exactly when the walk has nowhere to go from it.
BlockGood(m, C, l, p) ==
    /\ m[p] \in Header
    /\ NextMcb(m, p) \in C \cup {Top}
    /\ m[p].type = "Z" <=> Ends(m, l, p)

\* The headers C tile memory from the first paragraph to the last.
Tiled(m, C, l) ==
    /\ MemType(m) /\ C \subseteq Para /\ FirstMcb \in C /\ Root \in C /\ l \in {0, 1}
    /\ m[Root] = Mcb("M", SYSTEM, 0)
    /\ \A p \in C : BlockGood(m, C, l, p)
    /\ \A p \in C, q \in C : p < q => NextMcb(m, p) <= q

-----------------------------------------------------------------------------
\* The paragraphs there are.
LEMMA Bounds ==
    /\ Root \in Nat /\ Top \in Nat /\ 3 < Root /\ Root + 2 < Top /\ Top < HUGE /\ HUGE \in Nat
    /\ FirstMcb = 1 /\ Para = 1 .. Top - 1 /\ Para \subseteq Nat
    /\ \A q \in Para : q \in Nat /\ 1 <= q /\ q < Top
BY MemAssumption DEF Para, FirstMcb, HUGE

\* A header of the chain.
LEMMA BlockIs ==
    ASSUME NEW m, NEW C, NEW l, Tiled(m, C, l), NEW p \in C
    PROVE  /\ p \in Nat /\ 1 <= p /\ p < Top /\ p \in Para
           /\ m[p].size \in Nat /\ m[p].psp \in Nat /\ m[p].type \in {"M", "Z"}
           /\ NextMcb(m, p) = p + m[p].size + 1 /\ NextMcb(m, p) \in Nat
           /\ p < NextMcb(m, p) /\ NextMcb(m, p) <= Top
           /\ NextMcb(m, p) \in C \/ NextMcb(m, p) = Top
           /\ Valid(m, p)
<1>1. p \in Para /\ BlockGood(m, C, l, p) /\ p \in Nat /\ 1 <= p /\ p < Top
  BY Bounds DEF Tiled
<1>2. m[p].size \in Nat /\ m[p].psp \in Nat /\ m[p].type \in {"M", "Z"} /\ m[p] \in Header
  BY <1>1 DEF BlockGood, Header
<1>3. NextMcb(m, p) = p + m[p].size + 1 /\ NextMcb(m, p) \in Nat /\ p < NextMcb(m, p)
  BY <1>1, <1>2 DEF NextMcb
<1>4. NextMcb(m, p) \in C \/ NextMcb(m, p) = Top
  BY <1>1 DEF BlockGood
<1>5. NextMcb(m, p) <= Top
  <2>1. CASE NextMcb(m, p) = Top
    BY <2>1, Bounds
  <2>2. CASE NextMcb(m, p) \in C
    <3>1. NextMcb(m, p) \in Para
      BY <2>2 DEF Tiled
    <3>. QED BY <3>1, Bounds
  <2>. QED BY <2>1, <2>2, <1>4
<1>. QED BY <1>1, <1>2, <1>3, <1>4, <1>5 DEF Valid

\* Blocks do not overlap.
LEMMA Apart ==
    ASSUME NEW m, NEW C, NEW l, Tiled(m, C, l), NEW p \in C, NEW q \in C, p < q
    PROVE  NextMcb(m, p) <= q
BY DEF Tiled

-----------------------------------------------------------------------------
(* Walks.                                                                  *)

\* The equation by which Walk is defined, which some function satisfies: the
\* one that maps a paragraph to what can be reached from it.
IsFrom(m, f) ==
    f = [p \in Nat |->
            IF ~Valid(m, p) THEN {}
            ELSE IF m[p].type = "Z" THEN {p}
            ELSE {p} \cup f[NextMcb(m, p)]]

\* Whatever satisfies it, Walk does.
LEMMA WalkRule ==
    ASSUME NEW m, NEW f, IsFrom(m, f)
    PROVE  \E g : IsFrom(m, g) /\ \A s : Walk(m, s) = g[s]
<1> DEFINE g == CHOOSE h : IsFrom(m, h)
<1>1. IsFrom(m, g)
  OBVIOUS
<1>2. \A s : Walk(m, s) = g[s]
  BY DEF Walk, IsFrom
<1>. QED BY <1>1, <1>2

\* What is reached from a paragraph is what every set with it that is closed
\* under the links of headers has.
Closed(m, S) == \A x \in S : Valid(m, x) /\ m[x].type # "Z" => NextMcb(m, x) \in S

\* The headers in every closed set with p.
Reached(m, p) == {q \in Para : Valid(m, q) /\ \A S \in SUBSET Nat : p \in S /\ Closed(m, S) => q \in S}

\* They obey the equation.
LEMMA ReachedRule ==
    ASSUME NEW m, MemType(m), NEW p \in Nat
    PROVE  Reached(m, p) = IF ~Valid(m, p) THEN {}
                           ELSE IF m[p].type = "Z" THEN {p}
                           ELSE {p} \cup Reached(m, NextMcb(m, p))
<1>1. CASE ~Valid(m, p) \/ m[p].type = "Z"
  <2>1. Closed(m, {p}) /\ {p} \in SUBSET Nat
    BY <1>1 DEF Closed
  <2>2. \A q \in Reached(m, p) : q = p /\ Valid(m, q)
    BY <2>1 DEF Reached
  <2>3. CASE Valid(m, p)
    <3>1. p \in Reached(m, p)
      BY <2>3 DEF Reached, Valid
    <3>. QED BY <2>2, <2>3, <3>1, <1>1
  <2>. QED BY <2>2, <2>3
<1>2. CASE Valid(m, p) /\ m[p].type # "Z"
  <2> DEFINE n == NextMcb(m, p)
  <2>1. n \in Nat
    BY <1>2 DEF MemType, Valid, NextMcb, Header, Data
  <2> HIDE DEF n
  <2>2. p \in Reached(m, p)
    BY <1>2 DEF Reached, Valid
  <2>3. ASSUME NEW q \in Reached(m, n) PROVE q \in Reached(m, p)
    <3>1. \A S \in SUBSET Nat : p \in S /\ Closed(m, S) => n \in S
      BY <1>2 DEF Closed, n
    <3>. QED BY <3>1, <2>3 DEF Reached
  <2>4. ASSUME NEW q \in Reached(m, p), q # p PROVE q \in Reached(m, n)
    <3>1. ASSUME NEW S \in SUBSET Nat, n \in S, Closed(m, S) PROVE q \in S
      <4>1. Closed(m, S \cup {p})
        BY <3>1 DEF Closed, n
      <4>2. S \cup {p} \in SUBSET Nat /\ p \in S \cup {p}
        OBVIOUS
      <4>3. q \in S \cup {p}
        BY <4>1, <4>2, <2>4 DEF Reached
      <4>. QED BY <4>3, <2>4
    <3>. QED BY <3>1, <2>4 DEF Reached
  <2>5. Reached(m, p) = {p} \cup Reached(m, n)
    BY <2>2, <2>3, <2>4
  <2>. QED BY <2>5, <1>2 DEF n
<1>. QED BY <1>1, <1>2

\* So Walk does, in every memory, tiled or not.
LEMMA WalkIs ==
    ASSUME NEW m, MemType(m), NEW p \in Nat
    PROVE  Walk(m, p) = IF ~Valid(m, p) THEN {}
                        ELSE IF m[p].type = "Z" THEN {p}
                        ELSE {p} \cup Walk(m, NextMcb(m, p))
<1> DEFINE f == [q \in Nat |-> Reached(m, q)]
<1>1. ASSUME NEW q \in Nat
      PROVE  Reached(m, q) = IF ~Valid(m, q) THEN {}
                             ELSE IF m[q].type = "Z" THEN {q}
                             ELSE {q} \cup f[NextMcb(m, q)]
  <2>1. Valid(m, q) => NextMcb(m, q) \in Nat
    BY DEF MemType, Valid, NextMcb, Header, Data
  <2>2. Valid(m, q) => f[NextMcb(m, q)] = Reached(m, NextMcb(m, q))
    BY <2>1
  <2>. QED BY <2>2, ReachedRule
<1>2. IsFrom(m, f)
  BY <1>1 DEF IsFrom
<1> HIDE DEF f
<1>3. PICK g : IsFrom(m, g) /\ \A s : Walk(m, s) = g[s]
  BY <1>2, WalkRule
<1>4. g[p] = IF ~Valid(m, p) THEN {}
             ELSE IF m[p].type = "Z" THEN {p}
             ELSE {p} \cup g[NextMcb(m, p)]
  BY <1>3, Zenon DEF IsFrom
<1>. QED BY <1>3, <1>4

\* The least and the greatest of a set of paragraphs.
LEMMA LeastOf ==
    ASSUME NEW S, S \subseteq Nat, S # {}
    PROVE  \E x \in S : \A y \in S : x <= y
<1>1. PICK x \in S : \A y \in S : ~(<<y, x>> \in OpToRel(<, Nat))
  BY NatLessThanWellFounded, WFMin
<1>2. \A y \in S : ~(y < x)
  BY <1>1, Zenon DEF OpToRel
<1>. QED BY <1>2

\* The greatest of a set below a bound.
LEMMA GreatestOf ==
    ASSUME NEW n \in Nat, NEW S, S \subseteq 0 .. n, S # {}
    PROVE  \E x \in S : \A y \in S : y <= x
<1> DEFINE R == {n - s : s \in S}
<1>1. R \subseteq Nat /\ R # {}
  <2>1. R \subseteq Nat
    OBVIOUS
  <2>2. PICK s \in S : TRUE
    OBVIOUS
  <2>3. n - s \in R
    OBVIOUS
  <2>. QED BY <2>1, <2>3
<1>2. PICK r \in R : \A y \in R : r <= y
  <2> HIDE DEF R
  <2>. QED BY <1>1, LeastOf
<1>3. PICK x \in S : r = n - x
  OBVIOUS
<1>4. \A y \in S : n - x <= n - y
  BY <1>2, <1>3
<1>5. \A y \in S : y \in 0 .. n
  OBVIOUS
<1>. QED BY <1>4, <1>5

\* Max is the greatest, where there is one.
LEMMA MaxIs ==
    ASSUME NEW S, S \subseteq Nat, NEW x \in S, \A y \in S : y <= x
    PROVE  Max(S) = x
<1> DEFINE Top1(z) == z \in S /\ \A y \in S : z >= y
<1>1. Top1(x)
  OBVIOUS
<1>2. Max(S) = CHOOSE z : Top1(z)
  BY DEF Max
<1> HIDE DEF Top1
<1>3. Top1(Max(S))
  BY <1>1, <1>2
<1>4. Max(S) \in S /\ Max(S) >= x
  BY <1>3 DEF Top1
<1>5. x >= Max(S)
  BY <1>1, <1>4 DEF Top1
<1>6. Max(S) \in Nat /\ x \in Nat
  BY <1>4
<1>. QED BY <1>4, <1>5, <1>6

\* Min is the least, where there is one.
LEMMA MinIs ==
    ASSUME NEW S, S \subseteq Nat, NEW x \in S, \A y \in S : x <= y
    PROVE  Min(S) = x
<1> DEFINE Low1(z) == z \in S /\ \A y \in S : z <= y
<1>1. Low1(x)
  OBVIOUS
<1>2. Min(S) = CHOOSE z : Low1(z)
  BY DEF Min
<1> HIDE DEF Low1
<1>3. Low1(Min(S))
  BY <1>1, <1>2
<1>4. Min(S) \in S /\ Min(S) <= x
  BY <1>3 DEF Low1
<1>5. x <= Min(S)
  BY <1>1, <1>4 DEF Low1
<1>6. Min(S) \in Nat /\ x \in Nat
  BY <1>4
<1>. QED BY <1>4, <1>5, <1>6

\* The headers are numbers below Top.
LEMMA Headers ==
    ASSUME NEW m, NEW C, NEW l, Tiled(m, C, l)
    PROVE  /\ C \subseteq Nat /\ C \subseteq 0 .. Top /\ Top \in Nat /\ FirstMcb \in C /\ Root \in C
           /\ \A q \in C : q \in Nat /\ 1 <= q /\ q < Top
<1>1. \A q \in C : q \in Nat /\ 1 <= q /\ q < Top
  BY Bounds DEF Tiled
<1>2. \A q \in C : q \in 0 .. Top
  BY <1>1, Bounds
<1>. QED BY <1>1, <1>2, Bounds DEF Tiled

\* What a walk from s goes over, in memory tiled by C.
Part(C, l, s) == {q \in C : s <= q /\ (q < Root \/ Root <= s \/ l = 1)}

\* The link from a header that is not the last.
LEMMA PartGoesOn ==
    ASSUME NEW m, NEW C, NEW l, Tiled(m, C, l), NEW x \in C, ~Ends(m, l, x)
    PROVE  NextMcb(m, x) \in C /\ Part(C, l, x) = {x} \cup Part(C, l, NextMcb(m, x))
<1> DEFINE n == NextMcb(m, x)
<1>1. x \in Nat /\ n \in Nat /\ x < n /\ n \in C
  BY BlockIs DEF Ends
<1>2. \A q \in C : q \in Nat
  BY Bounds DEF Tiled
<1>3. n = Root => l = 1
  BY DEF Ends, Tiled
<1>4. x < Root => n <= Root
  BY Apart DEF Tiled
<1>5. \A q \in C : x < q => n <= q
  BY Apart
<1>6. Root \in Nat
  BY Bounds
<1> HIDE DEF n
<1>7. ASSUME NEW q \in C PROVE q \in Part(C, l, x) <=> q = x \/ q \in Part(C, l, n)
  BY <1>1, <1>2, <1>3, <1>4, <1>5, <1>6 DEF Part
<1>. QED BY <1>1, <1>7 DEF Part, n

\* Nothing follows the last.
LEMMA PartStops ==
    ASSUME NEW m, NEW C, NEW l, Tiled(m, C, l), NEW x \in C, Ends(m, l, x)
    PROVE  Part(C, l, x) = {x}
<1> DEFINE n == NextMcb(m, x)
<1>1. x \in Nat /\ n \in Nat /\ x < n
  BY BlockIs
<1>2. \A q \in C : q \in Nat /\ q < Top
  BY Bounds DEF Tiled
<1>3. n = Top \/ (n = Root /\ l = 0)
  BY DEF Ends
<1>4. \A q \in C : x < q => n <= q
  BY Apart
<1>5. Root \in Nat /\ Top \in Nat
  BY Bounds
<1> HIDE DEF n
<1>6. ASSUME NEW q \in C PROVE q \in Part(C, l, x) <=> q = x
  BY <1>1, <1>2, <1>3, <1>4, <1>5 DEF Part
<1>. QED BY <1>6 DEF Part

\* Walk is Part: the last header for which it was not would have a next one.
LEMMA WalkOver ==
    ASSUME NEW m, NEW C, NEW l, Tiled(m, C, l), NEW s \in C
    PROVE  Walk(m, s) = Part(C, l, s)
<1> DEFINE B == {x \in C : Walk(m, x) # Part(C, l, x)}
<1>1. SUFFICES ASSUME B # {} PROVE FALSE
  OBVIOUS
<1>2. PICK x \in B : \A y \in B : y <= x
  <2>1. B \subseteq 0 .. Top /\ Top \in Nat
    BY Headers
  <2> HIDE DEF B
  <2>. QED BY <1>1, <2>1, GreatestOf
<1>3. x \in C /\ x \in Nat /\ Valid(m, x) /\ x < NextMcb(m, x) /\ NextMcb(m, x) \in Nat
  BY BlockIs
<1>4. MemType(m) /\ (m[x].type = "Z" <=> Ends(m, l, x))
  BY DEF Tiled, BlockGood
<1>5. CASE Ends(m, l, x)
  <2>1. Walk(m, x) = {x}
    BY <1>3, <1>4, <1>5, WalkIs
  <2>. QED BY <1>3, <1>5, <2>1, PartStops
<1>6. CASE ~Ends(m, l, x)
  <2>1. Walk(m, x) = {x} \cup Walk(m, NextMcb(m, x))
    BY <1>3, <1>4, <1>6, WalkIs
  <2>2. NextMcb(m, x) \in C /\ Part(C, l, x) = {x} \cup Part(C, l, NextMcb(m, x))
    BY <1>3, <1>6, PartGoesOn
  <2>3. ~(NextMcb(m, x) \in B)
    BY <1>2, <1>3
  <2>. QED BY <2>1, <2>2, <2>3
<1>. QED BY <1>5, <1>6

\* A walk gets to an end.
LEMMA PartEnds ==
    ASSUME NEW m, NEW C, NEW l, Tiled(m, C, l), NEW s \in C
    PROVE  \E e \in Part(C, l, s) : m[e].type = "Z" /\ Ends(m, l, e) /\ \A q \in Part(C, l, s) : q <= e
<1>1. PICK e \in Part(C, l, s) : \A q \in Part(C, l, s) : q <= e
  <2>1. Part(C, l, s) \subseteq 0 .. Top /\ Top \in Nat
    BY Headers DEF Part
  <2>2. s \in Part(C, l, s)
    BY Bounds, BlockIs DEF Part
  <2>. QED BY <2>1, <2>2, GreatestOf
<1>2. e \in C /\ e < NextMcb(m, e) /\ e \in Nat /\ NextMcb(m, e) \in Nat /\ s \in Nat /\ s <= e
  BY BlockIs DEF Part
<1>3. CASE ~Ends(m, l, e)
  <2>1. NextMcb(m, e) \in C /\ Part(C, l, e) = {e} \cup Part(C, l, NextMcb(m, e))
    BY <1>2, <1>3, PartGoesOn
  <2>2. NextMcb(m, e) \in Part(C, l, NextMcb(m, e))
    BY <1>2, <2>1, Bounds DEF Part
  <2>3. NextMcb(m, e) \in Part(C, l, e)
    BY <2>1, <2>2
  <2>4. NextMcb(m, e) \in Part(C, l, s)
    BY <1>1, <1>2, <2>1, <2>3, Bounds DEF Part
  <2>. QED BY <1>1, <1>2, <2>4
<1>4. CASE Ends(m, l, e)
  BY <1>1, <1>2, <1>4 DEF Tiled, BlockGood
<1>. QED BY <1>3, <1>4

\* The block before a header.
LEMMA Before ==
    ASSUME NEW m, NEW C, NEW l, Tiled(m, C, l), NEW q \in C, q # FirstMcb
    PROVE  \E p \in C : p < q /\ NextMcb(m, p) = q
<1> DEFINE S == {x \in C : x < q}
<1>1. q \in Nat /\ 1 < q /\ q < Top /\ FirstMcb \in S
  BY Bounds, BlockIs DEF Tiled
<1>2. PICK p \in S : \A x \in S : x <= p
  <2>1. S \subseteq 0 .. Top /\ Top \in Nat
    BY Headers
  <2> HIDE DEF S
  <2>. QED BY <1>1, <2>1, GreatestOf
<1>3. p \in C /\ p < q
  OBVIOUS
<1>4. /\ p \in Nat /\ NextMcb(m, p) \in Nat /\ p < NextMcb(m, p)
      /\ NextMcb(m, p) \in C \/ NextMcb(m, p) = Top
      /\ NextMcb(m, p) <= q
  BY <1>3, BlockIs, Apart
<1>5. NextMcb(m, p) \in C
  BY <1>1, <1>4, Bounds
<1>6. ~(NextMcb(m, p) < q)
  BY <1>2, <1>4, <1>5
<1>. QED BY <1>1, <1>3, <1>4, <1>6

\* All blocks, those of conventional memory, and what the walks say of them.
LEMMA WalksAre ==
    ASSUME NEW m, NEW C, NEW l, Tiled(m, C, l)
    PROVE  /\ Blocks(m) = C
           /\ Walk(m, FirstMcb) = Part(C, l, FirstMcb)
           /\ Walk(m, Root) = {q \in C : Root <= q}
           /\ {q \in Walk(m, FirstMcb) : q < Root} = {q \in C : q < Root}
           /\ Root \in Walk(m, FirstMcb) <=> l = 1
           /\ l = 1 => Walk(m, FirstMcb) = C
<1>1. FirstMcb \in C /\ Root \in C /\ FirstMcb = 1 /\ 3 < Root /\ Root \in Nat
  BY Bounds DEF Tiled
<1>2. \A q \in C : q \in Nat /\ 1 <= q
  BY Bounds DEF Tiled
<1>3. Walk(m, FirstMcb) = Part(C, l, FirstMcb) /\ Walk(m, Root) = Part(C, l, Root)
  BY <1>1, WalkOver
<1>4. Part(C, l, Root) = {q \in C : Root <= q}
  BY <1>1, <1>2 DEF Part
<1>5. {q \in Part(C, l, FirstMcb) : q < Root} = {q \in C : q < Root}
  BY <1>1, <1>2 DEF Part
<1>6. Root \in Part(C, l, FirstMcb) <=> l = 1
  BY <1>1, <1>2 DEF Part
<1>7. l = 1 => Part(C, l, FirstMcb) = C
  BY <1>1, <1>2 DEF Part
<1>8. Part(C, l, FirstMcb) \cup Part(C, l, Root) = C
  <2>1. \A q \in C : q \in Part(C, l, FirstMcb) \/ q \in Part(C, l, Root)
    BY <1>1, <1>2 DEF Part
  <2>. QED BY <2>1 DEF Part
<1>. QED BY <1>3, <1>4, <1>5, <1>6, <1>7, <1>8 DEF Blocks

\* Every walk gets to its end.
LEMMA WholeWhole ==
    ASSUME NEW m, NEW C, NEW l, Tiled(m, C, l), NEW s \in C
    PROVE  Whole(m, s)
BY WalkOver, PartEnds DEF Whole

\* The chains tile both parts of memory.
LEMMA TiledTiles ==
    ASSUME NEW m, NEW C, NEW l, Tiled(m, C, l)
    PROVE  Tiles(m, FirstMcb, Root) /\ Tiles(m, Root, Top)
<1>1. FirstMcb \in C /\ Root \in C /\ Root # FirstMcb /\ FirstMcb < Root /\ Root \in Nat
  BY Bounds DEF Tiled
<1>2. Tiles(m, FirstMcb, Root)
  <2> DEFINE L == {q \in C : q < Root}
  <2>1. {q \in Walk(m, FirstMcb) : q < Root} = L
    BY WalksAre
  <2>2. PICK p \in C : p < Root /\ NextMcb(m, p) = Root
    BY <1>1, Before
  <2>3. \A q \in L : NextMcb(m, q) <= Root
    BY <1>1, Apart
  <2>4. \A q \in L : q <= p
    <3>1. ASSUME NEW q \in L, p < q PROVE FALSE
      BY <3>1, <2>2, <1>1, Apart, BlockIs
    <3>. QED BY <3>1, BlockIs
  <2>5. p \in L /\ L \subseteq Nat
    BY <2>2, Bounds DEF Tiled
  <2> HIDE DEF L
  <2>6. Max(L) = p
    BY <2>4, <2>5, MaxIs
  <2>. QED BY <2>1, <2>2, <2>3, <2>5, <2>6 DEF Tiles
<1>3. Tiles(m, Root, Top)
  <2> DEFINE U == {q \in C : Root <= q}
  <2>1. {q \in Walk(m, Root) : q < Top} = U
    BY WalksAre, BlockIs
  <2>2. PICK e \in Part(C, l, Root) : Ends(m, l, e) /\ \A q \in Part(C, l, Root) : q <= e
    BY <1>1, PartEnds
  <2>3. Part(C, l, Root) = U
    BY <1>1, WalkOver, WalksAre
  <2>4. \A q \in U : NextMcb(m, q) <= Top
    BY BlockIs
  <2>5. NextMcb(m, e) = Top
    BY <1>1, <2>2, <2>3, BlockIs DEF Ends
  <2>6. e \in U /\ U \subseteq Nat /\ \A q \in U : q <= e
    BY <2>2, <2>3, Bounds DEF Tiled
  <2> HIDE DEF U
  <2>7. Max(U) = e
    BY <2>6, MaxIs
  <2>. QED BY <2>1, <2>4, <2>5, <2>6, <2>7 DEF Tiles
<1>. QED BY <1>2, <1>3

-----------------------------------------------------------------------------
(* Joins.                                                                  *)

\* The headers that joinMCBs removes.
Merged(m, C, P) == UNION {FreeRun(m, C, p) : p \in P}

\* The last block of a run.
RunEnd(m, C, p) == IF FreeRun(m, C, p) = {} THEN p ELSE Max(FreeRun(m, C, p))

\* The bridge ends every run, so the rest of a walk decides on it.
LEMMA RunOfPart ==
    ASSUME NEW m, NEW C, NEW l, Tiled(m, C, l), NEW s \in C, NEW p \in Part(C, l, s)
    PROVE  FreeRun(m, Part(C, l, s), p) = FreeRun(m, C, p)
<1>1. ~IsFree(m, Root) /\ Root \in C
  BY DEF Tiled, IsFree, Mcb, FREE, SYSTEM
<1>2. \A q \in C : q \in Nat
  BY Headers
<1>3. Root \in Nat
  BY Bounds
<1>4. ASSUME NEW q \in FreeRun(m, C, p) PROVE q \in FreeRun(m, Part(C, l, s), p)
  BY <1>1, <1>2, <1>3, <1>4 DEF FreeRun, Part
<1>5. ASSUME NEW q \in FreeRun(m, Part(C, l, s), p) PROVE q \in FreeRun(m, C, p)
  <2>1. q \in C /\ q \in Part(C, l, s) /\ q > p
    BY <1>5 DEF FreeRun, Part
  <2>2. ASSUME NEW r \in C, p < r, r <= q PROVE r \in Part(C, l, s)
    BY <2>1, <2>2, <1>2, <1>3 DEF Part
  <2>. QED BY <1>5, <2>1, <2>2 DEF FreeRun
<1>. QED BY <1>4, <1>5

\* Joins over a walk and joins over all of memory are the same.
LEMMA JoinOfPart ==
    ASSUME NEW m, NEW C, NEW l, Tiled(m, C, l), NEW s \in C, NEW P, P \subseteq Part(C, l, s)
    PROVE  /\ JoinMcbs(m, Part(C, l, s), P) = JoinMcbs(m, C, P)
           /\ \A p \in Part(C, l, s) : Joined(m, Part(C, l, s), p) = Joined(m, C, p)
<1>1. \A p \in Part(C, l, s) : FreeRun(m, Part(C, l, s), p) = FreeRun(m, C, p)
  BY RunOfPart
<1>2. \A p \in Part(C, l, s) : Joined(m, Part(C, l, s), p) = Joined(m, C, p)
  BY <1>1 DEF Joined
<1>3. UNION {FreeRun(m, Part(C, l, s), p) : p \in P} = UNION {FreeRun(m, C, p) : p \in P}
  BY <1>1
<1>. QED BY <1>2, <1>3, Zenon DEF JoinMcbs

\* A run is what lies between its block and its end; the block that follows
\* has an owner.
LEMMA RunIs ==
    ASSUME NEW m, NEW C, NEW l, Tiled(m, C, l), NEW p \in C
    PROVE  LET e == RunEnd(m, C, p)
           IN  /\ e \in C /\ p <= e
               /\ FreeRun(m, C, p) = {r \in C : p < r /\ r <= e}
               /\ \A r \in C : p < r /\ r <= e => IsFree(m, r)
               /\ \A x \in C : x = NextMcb(m, e) => ~IsFree(m, x)
               /\ Joined(m, C, p) = [type |-> m[e].type, psp |-> m[p].psp, size |-> NextMcb(m, e) - 1 - p]
               /\ Joined(m, C, p) \in Header
<1> DEFINE R == FreeRun(m, C, p)
           e == RunEnd(m, C, p)
<1>1. /\ \A q \in C : q \in Nat /\ NextMcb(m, q) = q + m[q].size + 1 /\ m[q].size \in Nat
                      /\ m[q].type \in {"M", "Z"} /\ m[q].psp \in Nat /\ m[q] \in Header
  BY BlockIs DEF Tiled, BlockGood
<1>2. e \in C /\ p <= e /\ R = {r \in C : p < r /\ r <= e}
      /\ e = IF R = {} THEN p ELSE Max(R)
  <2>1. CASE R = {}
    BY <1>1, <2>1 DEF RunEnd
  <2>2. CASE R # {}
    <3>1. R \subseteq 0 .. Top /\ Top \in Nat /\ R \subseteq Nat /\ R \subseteq C
      BY Headers DEF FreeRun
    <3>2. PICK x \in R : \A y \in R : y <= x
      <4> HIDE DEF R
      <4>. QED BY <3>1, <2>2, GreatestOf
    <3>3. Max(R) = x
      <4> HIDE DEF R
      <4>. QED BY <3>1, <3>2, MaxIs
    <3>4. e = x
      BY <3>3, <2>2 DEF RunEnd
    <3>5. x \in C /\ x > p
      BY <3>2 DEF FreeRun
    <3>6. ASSUME NEW r \in C, p < r, r <= x PROVE r \in R
      BY <3>2, <3>5, <3>6, <1>1 DEF FreeRun
    <3>7. \A r \in R : r \in C /\ p < r /\ r <= x
      BY <3>2, <1>1 DEF FreeRun
    <3> HIDE DEF R, e
    <3>. QED BY <3>3, <3>4, <3>5, <3>6, <3>7, <1>1, <2>2
  <2>. QED BY <2>1, <2>2
<1> HIDE DEF e
<1>3. \A r \in C : p < r /\ r <= e => IsFree(m, r)
  BY <1>1, <1>2 DEF FreeRun
<1>4. ASSUME NEW x \in C, x = NextMcb(m, e), IsFree(m, x) PROVE FALSE
  <2>1. x > e /\ x > p /\ ~(x \in R)
    BY <1>1, <1>2, <1>4
  <2>2. ASSUME NEW r \in C, p < r, r <= x PROVE IsFree(m, r)
    <3>1. CASE r <= e
      BY <3>1, <2>2, <1>3
    <3>2. CASE e < r
      <4>1. x <= r
        BY <3>2, <1>2, <1>4, Apart
      <4>. QED BY <4>1, <2>2, <1>1, <1>4
    <3>. QED BY <3>1, <3>2, <1>1, <1>2
  <2>. QED BY <2>1, <2>2 DEF FreeRun
<1>5. Joined(m, C, p) = [type |-> m[e].type, psp |-> m[p].psp, size |-> NextMcb(m, e) - 1 - p]
  <2>1. NextMcb(m, e) - 1 - p = e + m[e].size - p
    BY <1>1, <1>2
  <2>2. m[p] = [type |-> m[p].type, psp |-> m[p].psp, size |-> m[p].size]
    BY <1>1 DEF Header
  <2>3. CASE R = {}
    <3>1. e = p /\ p + m[p].size - p = m[p].size
      BY <1>1, <1>2, <2>3
    <3>. QED BY <2>1, <2>2, <2>3, <3>1 DEF Joined
  <2>4. CASE R # {}
    <3>1. Joined(m, C, p) = [m[p] EXCEPT !.type = m[e].type, !.size = e + m[e].size - p]
      BY <1>2, <2>4 DEF Joined
    <3>. QED BY <2>1, <2>2, <3>1
  <2>. QED BY <2>3, <2>4
<1>6. NextMcb(m, e) - 1 - p \in Nat /\ m[e].type \in {"M", "Z"} /\ m[p].psp \in Nat
  BY <1>1, <1>2
<1>7. Joined(m, C, p) \in Header
  BY <1>5, <1>6 DEF Header
<1>. QED BY <1>2, <1>3, <1>4, <1>5, <1>7 DEF e

\* joinMCBs of blocks whose runs are disjoint: what follows a header of the
\* new chain is what followed the end of its run.
MayJoin(m, C, P) == P \subseteq C /\ ~(Root \in P) /\ P \cap Merged(m, C, P) = {}

\* The block of each header that is left.
LEMMA JoinedBlock ==
    ASSUME NEW m, NEW C, NEW l, Tiled(m, C, l), NEW P, MayJoin(m, C, P),
           NEW q \in C \ Merged(m, C, P)
    PROVE  LET n == JoinMcbs(m, C, P)
               D == C \ Merged(m, C, P)
           IN  \E e \in C :
                 /\ q <= e /\ NextMcb(n, q) = NextMcb(m, e)
                 /\ n[q] \in Header /\ n[q].type = m[e].type /\ n[q].psp = m[q].psp
                 /\ \A x \in D : q < x => e < x
                 /\ NextMcb(m, e) \in C => NextMcb(m, e) \in D
                 /\ q \in P \/ e = q
<1> DEFINE n == JoinMcbs(m, C, P)
           D == C \ Merged(m, C, P)
<1>1. \A x \in C : x \in Nat /\ NextMcb(m, x) = x + m[x].size + 1 /\ m[x].size \in Nat /\ x \in Para
                   /\ m[x] \in Header
  BY BlockIs DEF Tiled, BlockGood
<1>2. \A x \in Merged(m, C, P) : IsFree(m, x) /\ x \in C
  BY <1>1 DEF Merged, FreeRun
<1>3. CASE q \in P
  <2> DEFINE e == RunEnd(m, C, q)
  <2>1. /\ e \in C /\ q <= e
        /\ FreeRun(m, C, q) = {r \in C : q < r /\ r <= e}
        /\ \A x \in C : x = NextMcb(m, e) => ~IsFree(m, x)
        /\ Joined(m, C, q) = [type |-> m[e].type, psp |-> m[q].psp, size |-> NextMcb(m, e) - 1 - q]
        /\ Joined(m, C, q) \in Header
    BY RunIs
  <2> HIDE DEF e
  <2>2. n[q] = Joined(m, C, q)
    BY <1>1, <1>3 DEF JoinMcbs
  <2>3. NextMcb(n, q) = NextMcb(m, e)
    <3>1. NextMcb(n, q) = q + (NextMcb(m, e) - 1 - q) + 1
      BY <2>1, <2>2 DEF NextMcb
    <3>. QED BY <3>1, <2>1, <1>1
  <2>4. \A x \in D : q < x => e < x
    <3>1. \A x \in FreeRun(m, C, q) : x \in Merged(m, C, P)
      BY <1>3 DEF Merged
    <3>. QED BY <3>1, <2>1, <1>1
  <2>5. NextMcb(m, e) \in C => NextMcb(m, e) \in D
    BY <2>1, <1>2
  <2> HIDE DEF n, D
  <2>. QED BY <1>3, <2>1, <2>2, <2>3, <2>4, <2>5 DEF n, D
<1>4. CASE q \notin P
  <2>1. n[q] = m[q]
    <3>1. q \notin UNION {FreeRun(m, C, p) : p \in P}
      BY DEF Merged
    <3>. QED BY <3>1, <1>1, <1>4 DEF JoinMcbs
  <2>2. NextMcb(n, q) = NextMcb(m, q)
    BY <2>1 DEF NextMcb
  <2>3. ASSUME NextMcb(m, q) \in C, NextMcb(m, q) \in Merged(m, C, P) PROVE FALSE
    <3>1. PICK p \in P : NextMcb(m, q) \in FreeRun(m, C, p)
      BY <2>3 DEF Merged
    <3>2. p \in C /\ p # q /\ p < NextMcb(m, q)
      BY <3>1, <1>4, <1>1 DEF MayJoin, FreeRun
    <3>3. p < q
      <4>1. ~(q < p)
        BY <3>2, Apart, <1>1, <2>3
      <4>. QED BY <4>1, <3>2, <1>1
    <3>4. q \in FreeRun(m, C, p)
      BY <3>1, <3>3, <3>2, <1>1 DEF FreeRun
    <3>. QED BY <3>4 DEF Merged
  <2> HIDE DEF n
  <2>. QED BY <2>1, <2>2, <2>3, <1>1 DEF n
<1>. QED BY <1>3, <1>4

\* A join of disjoint runs leaves memory tiled.
LEMMA JoinTiles ==
    ASSUME NEW m, NEW C, NEW l, Tiled(m, C, l), NEW P, MayJoin(m, C, P)
    PROVE  Tiled(JoinMcbs(m, C, P), C \ Merged(m, C, P), l)
<1> DEFINE n == JoinMcbs(m, C, P)
           D == C \ Merged(m, C, P)
<1>1. \A x \in C : x \in Nat /\ x \in Para /\ m[x] \in Header
  BY BlockIs DEF Tiled, BlockGood
<1>2. FirstMcb \in D
  <2>1. \A p \in C : FirstMcb <= p
    BY Headers, Bounds
  <2>2. \A p \in P : ~(FirstMcb \in FreeRun(m, C, p))
    BY <2>1, <1>1, Headers DEF FreeRun, MayJoin
  <2>. QED BY <2>2, Headers DEF Merged
<1>3. Root \in D /\ n[Root] = m[Root]
  <2>1. ~IsFree(m, Root)
    BY DEF Tiled, IsFree, Mcb, FREE, SYSTEM
  <2>2. \A p \in P : ~(Root \in FreeRun(m, C, p))
    BY <2>1, <1>1, Headers DEF FreeRun, MayJoin
  <2>3. ~(Root \in UNION {FreeRun(m, C, p) : p \in P})
    BY <2>2
  <2>. QED BY <2>3, <1>1, Headers DEF Merged, MayJoin, JoinMcbs
<1>4. MemType(n)
  <2>1. \A p \in P : Joined(m, C, p) \in Header
    BY RunIs DEF MayJoin
  <2>2. \A q \in Para : n[q] \in Header \cup {Data}
    BY <2>1 DEF JoinMcbs, Tiled, MemType
  <2>. QED BY <2>2 DEF JoinMcbs, MemType
<1>5. ASSUME NEW q \in D PROVE BlockGood(n, D, l, q) /\ \A x \in D : q < x => NextMcb(n, q) <= x
  <2>1. PICK e \in C :
                 /\ q <= e /\ NextMcb(n, q) = NextMcb(m, e)
                 /\ n[q] \in Header /\ n[q].type = m[e].type /\ n[q].psp = m[q].psp
                 /\ \A x \in D : q < x => e < x
                 /\ NextMcb(m, e) \in C => NextMcb(m, e) \in D
    BY <1>5, JoinedBlock
  <2>2. BlockGood(m, C, l, e)
    BY DEF Tiled
  <2> HIDE DEF n, D
  <2>3. BlockGood(n, D, l, q)
    BY <2>1, <2>2 DEF BlockGood, Ends
  <2>4. \A x \in D : x \in C
    BY DEF D
  <2>. QED BY <2>1, <2>3, <2>4, Apart
<1> HIDE DEF n
<1>6. D \subseteq Para /\ l \in {0, 1} /\ n[Root] = Mcb("M", SYSTEM, 0)
  BY <1>3 DEF Tiled
<1>. QED BY <1>2, <1>3, <1>4, <1>5, <1>6 DEF Tiled, n

-----------------------------------------------------------------------------
(* Splits, owners and the link.                                            *)

\* Writes that leave the type and the size of every header.
SameShape(m, n, C) == \A p \in C : n[p] \in Header /\ n[p].type = m[p].type /\ n[p].size = m[p].size

\* Such writes leave memory tiled.
LEMMA ShapeTiles ==
    ASSUME NEW m, NEW C, NEW l, Tiled(m, C, l), NEW n, MemType(n), SameShape(m, n, C), n[Root] = m[Root]
    PROVE  Tiled(n, C, l)
<1>1. \A p \in C : NextMcb(n, p) = NextMcb(m, p)
  BY DEF NextMcb, SameShape
<1>2. \A p \in C : BlockGood(n, C, l, p)
  BY <1>1 DEF Tiled, BlockGood, Ends, SameShape
<1>. QED BY <1>1, <1>2 DEF Tiled

\* A block that is split.
Split(m, n, p, a, o1, o2) ==
    /\ n \in [Para -> Header \cup {Data}]
    /\ n[p] = Mcb("M", o1, a)
    /\ n[p + a + 1] = Mcb(m[p].type, o2, m[p].size - a - 1)
    /\ \A q \in Para : q # p /\ q # p + a + 1 => n[q] = m[q]

\* Two blocks tile what one did.
LEMMA SplitTiles ==
    ASSUME NEW m, NEW C, NEW l, Tiled(m, C, l), NEW p \in C, NEW a \in Nat, a < m[p].size,
           NEW o1 \in Nat, NEW o2 \in Nat, NEW n, Split(m, n, p, a, o1, o2)
    PROVE  /\ Tiled(n, C \cup {p + a + 1}, l) /\ p + a + 1 \in Para /\ p + a + 1 \notin C /\ p # Root
           /\ NextMcb(n, p + a + 1) = NextMcb(m, p)
<1>1. /\ p \in Nat /\ p < Top /\ p \in Para /\ m[p].size \in Nat /\ m[p].type \in {"M", "Z"}
      /\ NextMcb(m, p) = p + m[p].size + 1 /\ NextMcb(m, p) \in Nat /\ p < NextMcb(m, p) /\ NextMcb(m, p) <= Top
      /\ NextMcb(m, p) \in C \/ NextMcb(m, p) = Top
      /\ m[p].type = "Z" <=> Ends(m, l, p)
  BY BlockIs DEF Tiled, BlockGood
<1>2. PICK x \in Nat : x = p + a + 1
  BY <1>1
<1>3. p < x /\ x < NextMcb(m, p) /\ x < Top /\ x \in Para /\ 1 <= x
  BY <1>1, <1>2, Bounds
<1>4. x \notin C /\ x # p
  BY <1>1, <1>2, <1>3, Apart
<1>5. p # Root
  BY DEF Tiled, Mcb
<1>6. n[x] = Mcb(m[p].type, o2, m[p].size - a - 1) /\ n[p] = Mcb("M", o1, a)
      /\ \A q \in Para : q # p /\ q # x => n[q] = m[q]
  BY <1>2 DEF Split
<1>7. n[x] \in Header /\ n[p] \in Header /\ n[x].type = m[p].type /\ n[p].type = "M"
      /\ n[x].size = m[p].size - a - 1 /\ n[p].size = a
  BY <1>1, <1>6 DEF Header, Mcb
<1>8. NextMcb(n, x) = NextMcb(m, p) /\ NextMcb(n, p) = x
  <2>1. NextMcb(n, x) = x + (m[p].size - a - 1) + 1 /\ NextMcb(n, p) = p + a + 1
    BY <1>7 DEF NextMcb
  <2>. QED BY <2>1, <1>1, <1>2
<1>9. \A q \in C : q # p => n[q] = m[q] /\ NextMcb(n, q) = NextMcb(m, q)
  BY <1>4, <1>6 DEF NextMcb, Tiled
<1> DEFINE D == C \cup {x}
<1>10. ASSUME NEW q \in D PROVE BlockGood(n, D, l, q)
  <2>1. CASE q = x
    BY <2>1, <1>1, <1>7, <1>8 DEF BlockGood, Ends
  <2>2. CASE q = p
    <3>1. x # Root /\ x # Top
      BY <1>3, <1>4, Bounds DEF Tiled
    <3>. QED BY <2>2, <3>1, <1>7, <1>8 DEF BlockGood, Ends
  <2>3. CASE q \in C /\ q # p
    <3>1. BlockGood(m, C, l, q)
      BY <2>3 DEF Tiled
    <3>. QED BY <2>3, <3>1, <1>9 DEF BlockGood, Ends
  <2>. QED BY <2>1, <2>2, <2>3
<1>11. ASSUME NEW q \in D, NEW r \in D, q < r PROVE NextMcb(n, q) <= r
  <2>1. CASE q = x
    <3>1. r \in C /\ p < r
      BY <2>1, <1>11, <1>3, <1>1, Headers
    <3>. QED BY <2>1, <3>1, <1>8, Apart
  <2>2. CASE q = p
    <3>1. CASE r = x
      BY <2>2, <3>1, <1>8
    <3>2. CASE r \in C
      <4>1. NextMcb(m, p) <= r /\ r \in Nat
        BY <2>2, <3>2, <1>11, Apart, Headers
      <4>. QED BY <2>2, <4>1, <1>8, <1>3, <1>1
    <3>. QED BY <3>1, <3>2
  <2>3. CASE q \in C /\ q # p /\ r \in C
    BY <2>3, <1>9, <1>11, Apart
  <2>4. CASE q \in C /\ q # p /\ r = x
    <3>1. q \in Nat
      BY <2>4, Headers
    <3>2. q < p
      <4>1. ~(p < q)
        BY <2>4, <1>11, <3>1, <1>1, <1>3, Apart
      <4>. QED BY <4>1, <2>4, <3>1, <1>1
    <3>3. NextMcb(m, q) <= p /\ NextMcb(m, q) \in Nat
      BY <2>4, <3>2, Apart, BlockIs
    <3>. QED BY <2>4, <3>3, <1>1, <1>3, <1>9
  <2>. QED BY <2>1, <2>2, <2>3, <2>4
<1>12. n[Root] = Mcb("M", SYSTEM, 0)
  BY <1>5, <1>9 DEF Tiled
<1>13. MemType(n) /\ D \subseteq Para /\ FirstMcb \in D /\ Root \in D /\ l \in {0, 1}
  BY <1>3 DEF Split, MemType, Tiled
<1>14. Tiled(n, D, l)
  BY <1>10, <1>11, <1>12, <1>13 DEF Tiled
<1>. QED BY <1>2, <1>3, <1>4, <1>5, <1>8, <1>14

-----------------------------------------------------------------------------
\* The block e before the bridge has the type that the link n asks for.
Linked(m, C, l, n, e) ==
    /\ e \in C /\ e < Root /\ NextMcb(m, e) = Root
    /\ DosUmbLink(m, l, n) = [mem |-> [m EXCEPT ![e].type = IF n = 0 THEN "Z" ELSE "M"], link |-> n]
    /\ Tiled([m EXCEPT ![e].type = IF n = 0 THEN "Z" ELSE "M"], C, n)

\* INT 21h/5803h always succeeds: the last block of conventional memory gets
\* the type that the link asks for.
LEMMA UmbLinkIs ==
    ASSUME NEW m, NEW C, NEW l, Tiled(m, C, l), NEW n \in {0, 1}
    PROVE  \E e : Linked(m, C, l, n, e)
<1>1. FirstMcb \in C /\ Root \in C /\ Root # FirstMcb /\ FirstMcb < Root /\ Root \in Nat /\ l \in {0, 1}
  BY Bounds DEF Tiled
<1>2. PICK e \in C : e < Root /\ NextMcb(m, e) = Root
  BY <1>1, Before
<1>3. /\ e \in Nat /\ e \in Para /\ m[e] \in Header /\ m[e].type \in {"M", "Z"} /\ Root < Top
      /\ m[e].type = "Z" <=> l = 0
  <2>1. BlockGood(m, C, l, e) /\ NextMcb(m, e) = Root /\ Root # Top /\ Root < Top
    BY <1>2, Bounds DEF Tiled
  <2>2. m[e] \in Header /\ (m[e].type = "Z" <=> l = 0)
    BY <2>1, Zenon DEF BlockGood, Ends
  <2>3. e \in Nat /\ e \in Para /\ m[e].type \in {"M", "Z"}
    BY BlockIs
  <2>. QED BY <2>1, <2>2, <2>3
<1> DEFINE low == {p \in C : p < Root}
           k == [m EXCEPT ![e].type = IF n = 0 THEN "Z" ELSE "M"]
<1>4. {p \in Walk(m, FirstMcb) : p < Root} = low /\ (Root \in Walk(m, FirstMcb) <=> l = 1)
  BY WalksAre
<1>5. Max(low) = e
  <2>1. \A q \in low : q <= e
    <3>1. ASSUME NEW q \in C, q < Root, e < q PROVE FALSE
      BY <3>1, <1>2, <1>1, Apart, Headers
    <3>. QED BY <3>1, <1>3, Headers
  <2>2. e \in low /\ low \subseteq Nat
    BY <1>2, Headers
  <2> HIDE DEF low
  <2>. QED BY <2>1, <2>2, MaxIs
<1>6. low # {}
  BY <1>2
<1>7. m \in [Para -> Header \cup {Data}] /\ Valid(m, Root)
  BY <1>1, BlockIs DEF Tiled, MemType
<1>8. k[e] \in Header /\ k[e].size = m[e].size /\ k[e].type = (IF n = 0 THEN "Z" ELSE "M")
      /\ \A q \in Para : q # e => k[q] = m[q]
  BY <1>3, <1>7 DEF Header
<1>9. DosUmbLink(m, l, n) = [mem |-> k, link |-> n]
  <2>1. ASSUME n = l PROVE k = m
    <3>1. m[e].type = IF n = 0 THEN "Z" ELSE "M"
      BY <2>1, <1>3
    <3>2. [m[e] EXCEPT !.type = IF n = 0 THEN "Z" ELSE "M"] = m[e]
      BY <3>1, <1>3 DEF Header
    <3>. QED BY <3>2, <1>7
  <2> HIDE DEF low
  <2>. QED BY <2>1, <1>1, <1>2, <1>3, <1>4, <1>5, <1>6, <1>7 DEF DosUmbLink
<1>10. Tiled(k, C, n)
  <2>1. MemType(k)
    <3>1. \A q \in Para : k[q] \in Header \cup {Data}
      BY <1>7, <1>8
    <3>. QED BY <3>1, <1>7 DEF MemType
  <2>2. \A q \in C : NextMcb(k, q) = NextMcb(m, q)
    BY <1>8 DEF NextMcb, Tiled
  <2>3. ASSUME NEW q \in C PROVE BlockGood(k, C, n, q)
    <3>1. BlockGood(m, C, l, q) /\ NextMcb(k, q) = NextMcb(m, q) /\ q \in Nat
      BY <2>2, Headers DEF Tiled
    <3>2. CASE q = e
      BY <3>1, <3>2, <1>2, <1>3, <1>8, Bounds DEF BlockGood, Ends
    <3>3. CASE q # e
      <4>1. k[q] = m[q]
        BY <3>3, <1>8 DEF Tiled
      <4>2. NextMcb(m, q) # Root
        <5>1. ASSUME NextMcb(m, q) = Root PROVE q <= e
          <6>1. ~(e < q)
            BY <5>1, <1>2, <1>1, Apart, BlockIs
          <6>. QED BY <6>1, <1>3, <3>1
        <5>2. ASSUME NextMcb(m, q) = Root PROVE e <= q
          <6>1. ~(q < e)
            BY <5>2, <1>2, <1>1, Apart, BlockIs
          <6>. QED BY <6>1, <1>3, <3>1
        <5>. QED BY <5>1, <5>2, <1>3, <3>1, <3>3
      <4> HIDE DEF k
      <4>. QED BY <3>1, <4>1, <4>2, Zenon DEF BlockGood, Ends
    <3>. QED BY <3>2, <3>3
  <2>4. k[Root] = m[Root]
    BY <1>1, <1>2, <1>8 DEF Tiled
  <2> HIDE DEF k
  <2>. QED BY <2>1, <2>2, <2>3, <2>4 DEF Tiled
<1>. QED BY <1>2, <1>9, <1>10 DEF Linked

-----------------------------------------------------------------------------
(* Searches.                                                               *)

\* Where a search meets free memory: the first of every row of free blocks.
Starts(m, W) == {q \in W : IsFree(m, q) /\ ~\E r \in W : IsFree(m, r) /\ NextMcb(m, r) = q}

\* Room, by its domain and its values.
LEMMA RoomIs ==
    ASSUME NEW m, NEW W
    PROVE  DOMAIN Room(m, W) = Starts(m, W) /\ \A p \in Starts(m, W) : Room(m, W)[p] = Joined(m, W, p).size
BY DEF Room, Starts

\* Rows of free blocks are disjoint.
LEMMA MayJoinStarts ==
    ASSUME NEW m, NEW C, NEW l, Tiled(m, C, l), NEW s \in C, NEW P, P \subseteq Starts(m, Part(C, l, s))
    PROVE  MayJoin(m, C, P) /\ \A p \in P : IsFree(m, p)
<1>1. P \subseteq C /\ P \subseteq Part(C, l, s) /\ \A p \in P : IsFree(m, p)
  BY DEF Starts, Part
<1>2. ~(Root \in P)
  BY <1>1 DEF Tiled, IsFree, Mcb, FREE, SYSTEM
<1>3. ASSUME NEW p \in P, p \in Merged(m, C, P) PROVE FALSE
  <2>1. PICK o \in P : p \in FreeRun(m, C, o)
    BY <1>3 DEF Merged
  <2>2. o \in C /\ p \in C /\ o < p /\ o \in Nat /\ p \in Nat /\ p # FirstMcb
        /\ \A r \in C : o < r /\ r <= p => IsFree(m, r)
    BY <1>1, <2>1, Headers, Bounds DEF FreeRun
  <2>3. PICK x \in C : x < p /\ NextMcb(m, x) = p
    BY <2>2, Before
  <2>4. x \in Nat /\ o <= x
    <3>1. ~(x < o)
      BY <2>2, <2>3, Apart
    <3>. QED BY <3>1, <2>2, Headers
  <2>5. IsFree(m, x)
    BY <1>1, <2>2, <2>3, <2>4
  <2>6. x \in Part(C, l, s)
    BY <1>1, <2>2, <2>3, <2>4, Headers DEF Part
  <2>. QED BY <1>3, <2>3, <2>5, <2>6 DEF Starts
<1>. QED BY <1>1, <1>2, <1>3 DEF MayJoin

\* A row is no longer than memory, and the same for every walk over it.
LEMMA RoomBounds ==
    ASSUME NEW m, NEW C, NEW l, Tiled(m, C, l), NEW s \in C,
           NEW p \in Starts(m, Part(C, l, s))
    PROVE  /\ Joined(m, Part(C, l, s), p) = Joined(m, C, p)
           /\ Joined(m, C, p).size \in 0 .. Top
           /\ p \in Part(C, l, s) /\ p \in C /\ IsFree(m, p)
<1>1. p \in Part(C, l, s) /\ p \in C /\ IsFree(m, p)
  BY DEF Starts, Part
<1>2. Joined(m, Part(C, l, s), p) = Joined(m, C, p)
  <2>1. {p} \subseteq Part(C, l, s)
    BY <1>1
  <2>. QED BY <2>1, <1>1, JoinOfPart
<1>3. PICK e \in C : p <= e /\ Joined(m, C, p) = [type |-> m[e].type, psp |-> m[p].psp, size |-> NextMcb(m, e) - 1 - p]
  BY <1>1, RunIs
<1>4. NextMcb(m, e) \in Nat /\ e < NextMcb(m, e) /\ NextMcb(m, e) <= Top /\ e \in Nat /\ p \in Nat /\ Top \in Nat /\ 1 <= p
  BY <1>1, BlockIs, Bounds
<1>. QED BY <1>1, <1>2, <1>3, <1>4

\* The strategies of INT 21h/5801h, and the one of the loaders.
Fits == {"FIRST", "BEST", "LAST", "LARGEST"}

\* Every strategy settles for one of the blocks that fit.
LEMMA SettledIs ==
    ASSUME NEW F, F \subseteq Nat, F \subseteq 0 .. Top, NEW room, \A p \in F : room[p] \in 0 .. Top,
           F # {}, NEW fit \in Fits
    PROVE  \E p \in F : Settled(room, F, fit) = {p} /\ (fit = "FIRST" => Min(F) = p /\ \A q \in F : p <= q)
<1>1. Top \in Nat
  BY Bounds
<1>2. CASE fit = "FIRST"
  <2>1. PICK x \in F : \A y \in F : x <= y
    BY LeastOf
  <2>2. Min(F) = x
    BY <2>1, MinIs
  <2>. QED BY <1>2, <2>1, <2>2 DEF Settled
<1>3. CASE fit = "LAST"
  <2>1. PICK x \in F : \A y \in F : y <= x
    BY <1>1, GreatestOf
  <2>2. Max(F) = x
    BY <2>1, MaxIs
  <2>. QED BY <1>3, <2>2 DEF Settled
<1>4. CASE fit = "BEST"
  <2> DEFINE V == {room[p] : p \in F}
             G == {p \in F : \A q \in F : room[p] <= room[q]}
  <2>1. PICK v \in V : \A y \in V : v <= y
    <3>1. V \subseteq Nat /\ V # {}
      <4>1. PICK p \in F : TRUE
        OBVIOUS
      <4>2. room[p] \in V
        OBVIOUS
      <4>3. V \subseteq Nat
        OBVIOUS
      <4>. QED BY <4>2, <4>3
    <3> HIDE DEF V
    <3>. QED BY <3>1, LeastOf
  <2>2. PICK g \in F : v = room[g]
    OBVIOUS
  <2>3. g \in G /\ G \subseteq Nat
    BY <2>1, <2>2
  <2>4. PICK x \in G : \A y \in G : x <= y
    <3> HIDE DEF G
    <3>. QED BY <2>3, LeastOf
  <2>5. Min(G) = x
    <3> HIDE DEF G
    <3>. QED BY <2>3, <2>4, MinIs
  <2>. QED BY <1>4, <2>4, <2>5 DEF Settled
<1>5. CASE fit = "LARGEST"
  <2> DEFINE V == {room[p] : p \in F}
             G == {p \in F : \A q \in F : room[p] >= room[q]}
  <2>1. PICK v \in V : \A y \in V : y <= v
    <3>1. V \subseteq 0 .. Top /\ V # {}
      <4>1. PICK p \in F : TRUE
        OBVIOUS
      <4>2. room[p] \in V
        OBVIOUS
      <4>3. V \subseteq 0 .. Top
        OBVIOUS
      <4>. QED BY <4>2, <4>3
    <3> HIDE DEF V
    <3>. QED BY <1>1, <3>1, GreatestOf
  <2>2. PICK g \in F : v = room[g]
    OBVIOUS
  <2>3. g \in G /\ G \subseteq Nat
    BY <2>1, <2>2
  <2>4. PICK x \in G : \A y \in G : x <= y
    <3> HIDE DEF G
    <3>. QED BY <2>3, LeastOf
  <2>5. Min(G) = x
    <3> HIDE DEF G
    <3>. QED BY <2>3, <2>4, MinIs
  <2>. QED BY <1>5, <2>4, <2>5 DEF Settled
<1>. QED BY <1>2, <1>3, <1>4, <1>5 DEF Fits

\* There are n free paragraphs in a row where a walk from s comes by.
HasRoom(m, C, l, s, n) == \E p \in Part(C, l, s) : IsFree(m, p) /\ n <= m[p].size

\* What a search r over the free rows that begin at S comes to: it joins those
\* of P, finds a block or none, and tells how much there is.
Searched(m, C, S, size, r, P) ==
    /\ r.mem = JoinMcbs(m, C, P) /\ r.broken = FALSE
    /\ r.found = {} \/ \E p \in P : r.found = {p} /\ size <= Joined(m, C, p).size
    /\ r.biggest = Max({0} \cup {Joined(m, C, p).size : p \in S})
    /\ r.found = {} /\ size > 0 => \A p \in S : ~(size <= Joined(m, C, p).size)
    /\ (\A p \in S : ~(size <= Joined(m, C, p).size)) => P = S

\* A search, for the joins it does, for what it finds, and for what it misses.
LEMMA SearchIs ==
    ASSUME NEW m, NEW C, NEW l, Tiled(m, C, l), NEW s \in C, NEW size \in Nat, NEW fit \in Fits
    PROVE  \E P \in SUBSET Starts(m, Part(C, l, s)) :
              Searched(m, C, Starts(m, Part(C, l, s)), size, Search(m, s, size, fit), P)
<1> DEFINE W == Part(C, l, s)
           S == Starts(m, W)
           room == Room(m, W)
           F == {p \in DOMAIN room : room[p] >= size}
           P == Met(room, F, fit = "FIRST" /\ F # {})
<1>1. Walk(m, s) = W /\ Whole(m, s) = TRUE
  <2>1. Whole(m, s) \in BOOLEAN
    BY DEF Whole
  <2>. QED BY <2>1, WalkOver, WholeWhole
<1>2. DOMAIN room = S /\ \A p \in S : room[p] = Joined(m, C, p).size /\ room[p] \in 0 .. Top /\ p \in C /\ p \in Nat
  BY RoomIs, RoomBounds, Headers
<1>3. F = {p \in S : size <= Joined(m, C, p).size}
  BY <1>2
<1>4. S \subseteq W /\ S \subseteq C /\ S \subseteq 0 .. Top /\ S \subseteq Nat /\ Top \in Nat
  BY Headers DEF Starts, Part
<1>5. /\ Search(m, s, size, fit).mem = JoinMcbs(m, W, P)
      /\ Search(m, s, size, fit).broken = (~(fit = "FIRST" /\ F # {}) /\ ~TRUE)
      /\ Search(m, s, size, fit).found = {p \in Settled(room, F, fit) : (fit = "FIRST" /\ F # {}) \/ room[p] > 0}
      /\ Search(m, s, size, fit).biggest = Max({0} \cup {room[p] : p \in DOMAIN room})
  <2>1. Search(m, s, size, fit) = SearchOver(m, W, room, F, TRUE, fit)
    BY <1>1 DEF Search, SearchIn
  <2> HIDE DEF room, F, W
  <2>. QED BY <2>1 DEF SearchOver, P
<1> HIDE DEF room
<1>6. {room[p] : p \in DOMAIN room} = {Joined(m, C, p).size : p \in S}
  BY <1>2
<1>7. P \subseteq S /\ (F = {} => P = S)
  BY <1>2 DEF Met
<1>8. JoinMcbs(m, W, P) = JoinMcbs(m, C, P)
  <2>1. P \subseteq Part(C, l, s)
    BY <1>4, <1>7
  <2> HIDE DEF P
  <2>. QED BY <2>1, JoinOfPart
<1>9. CASE F = {}
  <2>1. Settled(room, F, fit) = {}
    BY <1>9 DEF Settled
  <2>2. Search(m, s, size, fit).found = {}
    BY <1>5, <2>1
  <2>3. \A p \in S : ~(size <= Joined(m, C, p).size)
    BY <1>3, <1>9
  <2>4. Searched(m, C, S, size, Search(m, s, size, fit), P)
    <3> HIDE DEF P, S, F
    <3>. QED BY <1>5, <1>6, <1>7, <1>8, <1>9, <2>2, <2>3 DEF Searched
  <2>. QED BY <1>7, <2>4
<1>10. CASE F # {}
  <2>1. F \subseteq Nat /\ F \subseteq 0 .. Top /\ \A p \in F : room[p] \in 0 .. Top
    BY <1>2, <1>3, <1>4
  <2>2. PICK p \in F : Settled(room, F, fit) = {p} /\ (fit = "FIRST" => Min(F) = p /\ \A q \in F : p <= q)
    <3> HIDE DEF F
    <3>. QED BY <2>1, <1>10, SettledIs
  <2>3. p \in S /\ size <= Joined(m, C, p).size /\ room[p] = Joined(m, C, p).size /\ room[p] \in Nat /\ p \in Nat
    BY <1>2, <1>3
  <2>4. p \in P
    BY <1>2, <2>2, <2>3 DEF Met
  <2>5. Search(m, s, size, fit).found = {} \/ Search(m, s, size, fit).found = {p}
    BY <1>5, <2>2
  <2>6. size > 0 => Search(m, s, size, fit).found # {}
    BY <1>5, <2>2, <2>3
  <2>7. ~\A q \in S : ~(size <= Joined(m, C, q).size)
    BY <2>3
  <2>8. Searched(m, C, S, size, Search(m, s, size, fit), P)
    <3> HIDE DEF P, S, F
    <3>. QED BY <1>5, <1>6, <1>7, <1>8, <2>3, <2>4, <2>5, <2>6, <2>7 DEF Searched
  <2>. QED BY <1>7, <2>8
<1>. QED BY <1>9, <1>10

-----------------------------------------------------------------------------
(* What a call leaves.                                                     *)

\* Only headers, old or new, have changed.
Rearranged(m, C, n, D) == \A q \in Para : n[q] # m[q] => q \in C \cup D

\* A call that has left memory n.
Works(m, C, l, n) == \E D : Tiled(n, D, l) /\ Rearranged(m, C, n, D)

\* A join only writes headers.
LEMMA JoinMoves ==
    ASSUME NEW m, NEW C, NEW l, Tiled(m, C, l), NEW P, MayJoin(m, C, P),
           NEW q \in Para, q \notin C
    PROVE  JoinMcbs(m, C, P)[q] = m[q]
<1>1. \A p \in P : ~(q \in FreeRun(m, C, p))
  BY DEF FreeRun
<1>2. ~(q \in P) /\ ~(q \in UNION {FreeRun(m, C, p) : p \in P})
  BY <1>1 DEF MayJoin
<1>. QED BY <1>2 DEF JoinMcbs

\* What is there after a join, at the block that was joined.
LEMMA JoinGives ==
    ASSUME NEW m, NEW C, NEW l, Tiled(m, C, l), NEW P, MayJoin(m, C, P), NEW p \in P
    PROVE  /\ p \in C \ Merged(m, C, P) /\ JoinMcbs(m, C, P)[p] = Joined(m, C, p)
           /\ IsFree(JoinMcbs(m, C, P), p) <=> IsFree(m, p)
           /\ m[p].size <= Joined(m, C, p).size
<1>1. p \in C /\ p \notin Merged(m, C, P) /\ p \in Para
  BY DEF MayJoin, Tiled
<1>2. JoinMcbs(m, C, P)[p] = Joined(m, C, p)
  BY <1>1 DEF JoinMcbs
<1>3. PICK e \in C : p <= e /\ Joined(m, C, p) = [type |-> m[e].type, psp |-> m[p].psp, size |-> NextMcb(m, e) - 1 - p]
  BY <1>1, RunIs
<1>4. /\ p \in Nat /\ e \in Nat /\ m[p].size \in Nat /\ m[e].size \in Nat
      /\ NextMcb(m, p) = p + m[p].size + 1 /\ NextMcb(m, e) = e + m[e].size + 1
      /\ p < e => NextMcb(m, p) <= e
  BY <1>1, BlockIs, Apart
<1>. QED BY <1>1, <1>2, <1>3, <1>4 DEF IsFree

\* What is known after a search r for size paragraphs in memory m.
FoundIn(m, C, l, r, size, D) ==
    /\ Tiled(r.mem, D, l) /\ D \subseteq C
    /\ \A q \in Para : r.mem[q] # m[q] => q \in C
    /\ r.found = {} \/ \E p \in D : r.found = {p} /\ IsFree(r.mem, p) /\ size <= r.mem[p].size

\* A search that has met no damaged header.
Sought(m, C, l, r, size) == r.broken = FALSE /\ \E D : FoundIn(m, C, l, r, size, D)

\* What a search comes to in memory that is tiled.
LEMMA SearchTiles ==
    ASSUME NEW m, NEW C, NEW l, Tiled(m, C, l), NEW s \in C, NEW size \in Nat, NEW fit \in Fits
    PROVE  Sought(m, C, l, Search(m, s, size, fit), size)
<1>1. PICK P \in SUBSET Starts(m, Part(C, l, s)) :
         Searched(m, C, Starts(m, Part(C, l, s)), size, Search(m, s, size, fit), P)
  BY SearchIs
<1> DEFINE r == Search(m, s, size, fit)
           D == C \ Merged(m, C, P)
<1>2. MayJoin(m, C, P) /\ \A p \in P : IsFree(m, p)
  BY MayJoinStarts
<1>3. r.mem = JoinMcbs(m, C, P) /\ r.broken = FALSE
      /\ (r.found = {} \/ \E p \in P : r.found = {p} /\ size <= Joined(m, C, p).size)
  BY <1>1 DEF Searched
<1>4. Tiled(r.mem, D, l) /\ D \subseteq C /\ \A q \in Para : r.mem[q] # m[q] => q \in C
  BY <1>2, <1>3, JoinTiles, JoinMoves
<1>5. ASSUME NEW p \in P PROVE p \in D /\ r.mem[p] = Joined(m, C, p) /\ IsFree(r.mem, p)
  BY <1>2, <1>3, JoinGives
<1>6. r.found = {} \/ \E p \in D : r.found = {p} /\ IsFree(r.mem, p) /\ size <= r.mem[p].size
  BY <1>3, <1>5
<1> HIDE DEF r, D
<1>7. FoundIn(m, C, l, r, size, D)
  BY <1>4, <1>6 DEF FoundIn
<1>8. Sought(m, C, l, r, size)
  BY <1>3, <1>7 DEF Sought
<1>. QED BY <1>8 DEF r

\* Processes are neither free memory nor the kernel.
LEMMA PspIs == FREE \in Nat /\ SYSTEM \in Nat /\ FREE # SYSTEM /\ \A ps \in Psp : ps \in Nat /\ ps # FREE /\ ps # SYSTEM
BY MemAssumption DEF FREE, SYSTEM

\* A block of the chain gets an owner.
LEMMA OwnerTiles ==
    ASSUME NEW m, NEW C, NEW l, Tiled(m, C, l), NEW p \in C, p # Root, NEW o \in Nat
    PROVE  Tiled([m EXCEPT ![p].psp = o], C, l) /\ \A q \in Para : [m EXCEPT ![p].psp = o][q] # m[q] => q \in C
<1> DEFINE n == [m EXCEPT ![p].psp = o]
<1>1. m \in [Para -> Header \cup {Data}] /\ p \in Para /\ m[p] \in Header /\ \A q \in C : m[q] \in Header /\ q \in Para
  BY DEF Tiled, MemType, BlockGood
<1>2. n[p] \in Header /\ n[p].type = m[p].type /\ n[p].size = m[p].size /\ \A q \in Para : q # p => n[q] = m[q]
  BY <1>1 DEF Header
<1>3. MemType(n)
  <2>1. \A q \in Para : n[q] \in Header \cup {Data}
    BY <1>1, <1>2
  <2>. QED BY <2>1, <1>1 DEF MemType
<1> HIDE DEF n
<1>4. SameShape(m, n, C)
  BY <1>1, <1>2 DEF SameShape
<1>5. n[Root] = m[Root]
  BY <1>2, Bounds
<1>6. Tiled(n, C, l)
  BY <1>3, <1>4, <1>5, ShapeTiles
<1>. QED BY <1>2, <1>6 DEF n

\* The bridge is never free.
LEMMA FreeIsNotRoot ==
    ASSUME NEW m, NEW C, NEW l, Tiled(m, C, l), NEW p, IsFree(m, p)
    PROVE  p # Root
BY DEF Tiled, IsFree, Mcb, FREE, SYSTEM

\* A free block is taken, whole or in part.
LEMMA TakeTiles ==
    ASSUME NEW m, NEW C, NEW l, Tiled(m, C, l), NEW p \in C, IsFree(m, p), NEW size \in Nat,
           size <= m[p].size, NEW fit \in Fits, NEW cu \in Psp
    PROVE  LET n == Take(m, p, size, fit, cu)
           IN  \E D : Tiled(n, D, l) /\ C \subseteq D /\ \A q \in Para : n[q] # m[q] => q \in D
<1> DEFINE n == Take(m, p, size, fit, cu)
<1>1. /\ m \in [Para -> Header \cup {Data}] /\ p \in Para /\ m[p].size \in Nat /\ m[p].type \in {"M", "Z"} /\ p \in Nat
      /\ p # Root /\ cu \in Nat /\ FREE \in Nat /\ p + m[p].size + 1 <= Top
  BY BlockIs, FreeIsNotRoot, PspIs DEF Tiled, MemType
<1>2. Top \in Nat /\ \A q \in Nat : 1 <= q /\ q < Top => q \in Para
  BY Bounds
<1>3. CASE fit = "LARGEST" \/ size = m[p].size
  <2>1. n = [m EXCEPT ![p].psp = cu]
    BY <1>3 DEF Take
  <2> HIDE DEF n
  <2>2. Tiled(n, C, l) /\ \A q \in Para : n[q] # m[q] => q \in C
    BY <2>1, <1>1, OwnerTiles
  <2>. QED BY <2>2 DEF n
<1>4. CASE fit # "LARGEST" /\ size # m[p].size /\ fit = "LAST"
  <2>1. n = [m EXCEPT ![p + m[p].size - size] = Mcb(m[p].type, cu, size),
                      ![p] = Mcb("M", FREE, m[p].size - size - 1)]
    BY <1>4 DEF Take
  <2>2. PICK a \in Nat : a = m[p].size - size - 1
    BY <1>1, <1>4
  <2>3. p + m[p].size - size = p + a + 1 /\ size = m[p].size - a - 1 /\ a < m[p].size /\ p + a + 1 # p
    BY <2>2, <1>1
  <2>4. Mcb("M", FREE, a) \in Header /\ Mcb(m[p].type, cu, size) \in Header
    BY <1>1 DEF Mcb, Header
  <2>5. p + a + 1 \in Para
    BY <2>3, <1>1, <1>2
  <2>6. Split(m, n, p, a, FREE, cu)
    BY <2>1, <2>2, <2>3, <2>4, <2>5, <1>1 DEF Split
  <2> HIDE DEF n
  <2>7. Tiled(n, C \cup {p + a + 1}, l)
    BY <2>3, <2>6, <1>1, SplitTiles
  <2>8. \A q \in Para : n[q] # m[q] => q \in C \cup {p + a + 1}
    BY <2>6 DEF Split
  <2>. QED BY <2>7, <2>8 DEF n
<1>5. CASE fit # "LARGEST" /\ size # m[p].size /\ fit # "LAST"
  <2>1. n = [m EXCEPT ![p + size + 1] = Mcb(m[p].type, FREE, m[p].size - size - 1),
                      ![p] = Mcb("M", cu, size)]
    BY <1>5 DEF Take
  <2>2. size < m[p].size /\ p + size + 1 # p /\ m[p].size - size - 1 \in Nat
    BY <1>1, <1>5
  <2>3. Mcb("M", cu, size) \in Header /\ Mcb(m[p].type, FREE, m[p].size - size - 1) \in Header
    BY <2>2, <1>1 DEF Mcb, Header
  <2>4. p + size + 1 \in Para
    BY <2>2, <1>1, <1>2
  <2>5. Split(m, n, p, size, cu, FREE)
    BY <2>1, <2>2, <2>3, <2>4, <1>1 DEF Split
  <2> HIDE DEF n
  <2>6. Tiled(n, C \cup {p + size + 1}, l)
    BY <2>2, <2>5, <1>1, SplitTiles
  <2>7. \A q \in Para : n[q] # m[q] => q \in C \cup {p + size + 1}
    BY <2>5 DEF Split
  <2>. QED BY <2>6, <2>7 DEF n
<1>. QED BY <1>3, <1>4, <1>5

\* The least of one.
LEMMA MinOfOne == \A p \in Nat : Min({p}) = p
<1> TAKE p \in Nat
<1>1. {p} \subseteq Nat /\ p \in {p} /\ \A y \in {p} : p <= y
  OBVIOUS
<1>. QED BY <1>1, MinIs

\* Searches in a row do what one does.
LEMMA SearchAgain ==
    ASSUME NEW m, NEW C, NEW l, Tiled(m, C, l), NEW s \in {FirstMcb, Root}, NEW t \in {FirstMcb, Root},
           NEW size \in Nat, NEW fit \in Fits, NEW size2 \in Nat, NEW fit2 \in Fits
    PROVE  Sought(m, C, l, Search(Search(m, s, size, fit).mem, t, size2, fit2), size2)
<1> DEFINE one == Search(m, s, size, fit)
           two == Search(one.mem, t, size2, fit2)
<1>1. s \in C
  BY DEF Tiled
<1>2. PICK E : FoundIn(m, C, l, one, size, E)
  BY <1>1, SearchTiles DEF Sought
<1> HIDE DEF one
<1>3. Tiled(one.mem, E, l) /\ t \in E /\ E \subseteq C
  BY <1>2 DEF FoundIn, Tiled
<1>4. Sought(one.mem, E, l, two, size2)
  BY <1>3, SearchTiles
<1> HIDE DEF two
<1>5. PICK D : FoundIn(one.mem, E, l, two, size2, D)
  BY <1>4 DEF Sought
<1>6. FoundIn(m, C, l, two, size2, D)
  BY <1>2, <1>5 DEF FoundIn
<1>7. Sought(m, C, l, two, size2)
  BY <1>4, <1>6 DEF Sought
<1>. QED BY <1>7 DEF one, two

\* A call that has returned a: memory is tiled, and it went well or not.
Returned(m, C, l, a) == Works(m, C, l, a.mem) /\ a.rc \in {"OK", "NOMEM"}

\* What an allocation comes to.
LEMMA AllocatedWorks ==
    ASSUME NEW m, NEW C, NEW l, NEW r, NEW size \in Nat, Sought(m, C, l, r, size), NEW fit \in Fits, NEW cu \in Psp
    PROVE  Returned(m, C, l, Allocated(r, size, fit, cu)) /\ (Allocated(r, size, fit, cu).rc = "OK" <=> r.found # {})
<1>1. PICK D : FoundIn(m, C, l, r, size, D)
  BY DEF Sought
<1>2. /\ r.broken = FALSE /\ Tiled(r.mem, D, l) /\ D \subseteq C
      /\ \A q \in Para : r.mem[q] # m[q] => q \in C
      /\ r.found = {} \/ \E p \in D : r.found = {p} /\ IsFree(r.mem, p) /\ size <= r.mem[p].size
  BY <1>1 DEF FoundIn, Sought
<1> DEFINE a == Allocated(r, size, fit, cu)
<1>3. CASE r.found = {}
  <2>1. a.mem = r.mem /\ a.rc = "NOMEM"
    BY <1>3, <1>2 DEF Allocated, Result
  <2>2. Rearranged(m, C, a.mem, D)
    BY <2>1, <1>2 DEF Rearranged
  <2> HIDE DEF a
  <2>3. Works(m, C, l, a.mem)
    BY <1>2, <2>1, <2>2 DEF Works
  <2>. QED BY <1>3, <2>1, <2>3 DEF a, Returned
<1>4. CASE r.found # {}
  <2>1. PICK p \in D : r.found = {p} /\ IsFree(r.mem, p) /\ size <= r.mem[p].size
    BY <1>4, <1>2
  <2>2. Min(r.found) = p
    BY <1>2, <2>1, MinOfOne, Headers
  <2>3. a.mem = Take(r.mem, p, size, fit, cu) /\ a.rc = "OK"
    BY <1>4, <1>2, <2>2 DEF Allocated, Result
  <2>4. PICK E : Tiled(a.mem, E, l) /\ D \subseteq E /\ \A q \in Para : a.mem[q] # r.mem[q] => q \in E
    BY <1>2, <2>1, <2>3, TakeTiles
  <2> HIDE DEF a
  <2>5. Rearranged(m, C, a.mem, E)
    BY <1>2, <2>4 DEF Rearranged
  <2>6. Works(m, C, l, a.mem)
    BY <2>4, <2>5 DEF Works
  <2>. QED BY <1>4, <2>3, <2>6 DEF a, Returned
<1>. QED BY <1>3, <1>4

\* INT 21h/48h leaves memory tiled, whatever the strategy and the area.
LEMMA AllocWorks ==
    ASSUME NEW m, NEW C, NEW l, Tiled(m, C, l), NEW size \in Nat, NEW fit \in Fit, NEW area \in Area, NEW cu \in Psp
    PROVE  Returned(m, C, l, DosMemAlloc(m, l, size, fit, area, cu))
<1> DEFINE s == Start(l, area)
           one == Search(m, s, size, fit)
           two == Search(one.mem, FirstMcb, size, fit)
<1>1. s \in {FirstMcb, Root} /\ s \in C /\ fit \in Fits /\ FirstMcb \in {FirstMcb, Root}
  BY DEF Start, Fit, Fits, Tiled
<1>2. DosMemAlloc(m, l, size, fit, area, cu) = Allocated(one, size, fit, cu)
      \/ DosMemAlloc(m, l, size, fit, area, cu) = Allocated(two, size, fit, cu)
  BY DEF DosMemAlloc, Fallback
<1> HIDE DEF s
<1>3. Sought(m, C, l, one, size)
  BY <1>1, SearchTiles
<1>4. Sought(m, C, l, two, size)
  BY <1>1, SearchAgain
<1> HIDE DEF one, two
<1>5. Returned(m, C, l, Allocated(one, size, fit, cu))
  BY <1>1, <1>3, AllocatedWorks
<1>6. Returned(m, C, l, Allocated(two, size, fit, cu))
  BY <1>1, <1>4, AllocatedWorks
<1>. QED BY <1>2, <1>5, <1>6

\* The loaders' allocation of all there is does.
LEMMA AllocLargestWorks ==
    ASSUME NEW m, NEW C, NEW l, Tiled(m, C, l), NEW cu \in Psp
    PROVE  Returned(m, C, l, DosMemAllocLargest(m, cu))
<1> DEFINE one == Search(m, FirstMcb, 0, "LARGEST")
<1>1. FirstMcb \in C /\ "LARGEST" \in Fits /\ 0 \in Nat
  BY DEF Fits, Tiled
<1>2. Sought(m, C, l, one, 0)
  BY <1>1, SearchTiles
<1>3. DosMemAllocLargest(m, cu) = Allocated(one, 0, "LARGEST", cu)
  BY DEF DosMemAllocLargest
<1> HIDE DEF one
<1>4. Returned(m, C, l, Allocated(one, 0, "LARGEST", cu))
  BY <1>1, <1>2, AllocatedWorks
<1>. QED BY <1>3, <1>4

-----------------------------------------------------------------------------
(* The room that searches find.                                            *)

\* A free block belongs to a row that begins somewhere on the same walk.
LEMMA RowOf ==
    ASSUME NEW m, NEW C, NEW l, Tiled(m, C, l), NEW s \in C, NEW p \in Part(C, l, s), IsFree(m, p)
    PROVE  \E x \in Starts(m, Part(C, l, s)) : m[p].size <= Joined(m, C, x).size
<1> DEFINE X == {x \in Part(C, l, s) : x <= p /\ \A r \in C : x <= r /\ r <= p => IsFree(m, r)}
<1>1. \A q \in C : q \in Nat
  BY Headers
<1>2. p \in C /\ p \in Nat
  BY <1>1 DEF Part
<1>3. p \in X /\ X \subseteq Nat
  <2>1. ASSUME NEW r \in C, p <= r, r <= p PROVE IsFree(m, r)
    <3>1. r = p
      BY <2>1, <1>1, <1>2
    <3>. QED BY <3>1
  <2>2. p \in X
    BY <2>1, <1>2
  <2>3. X \subseteq Nat
    BY <1>1 DEF Part
  <2>. QED BY <2>2, <2>3
<1>4. PICK x \in X : \A y \in X : x <= y
  <2> HIDE DEF X
  <2>. QED BY <1>3, LeastOf
<1>5. x \in C /\ x \in Nat /\ x <= p /\ x \in Part(C, l, s) /\ IsFree(m, x)
      /\ \A r \in C : x <= r /\ r <= p => IsFree(m, r)
  BY <1>1, <1>2 DEF Part
<1>6. ASSUME NEW r \in Part(C, l, s), IsFree(m, r), NextMcb(m, r) = x PROVE FALSE
  <2>1. r \in C /\ r \in Nat /\ r < x
    BY <1>6, <1>5, BlockIs DEF Part
  <2>2. ASSUME NEW y \in C, r <= y, y <= p PROVE IsFree(m, y)
    <3>1. CASE y = r
      BY <3>1, <1>6
    <3>2. CASE y # r
      <4>1. x <= y
        BY <3>2, <2>1, <2>2, <1>1, <1>6, Apart
      <4>. QED BY <4>1, <2>2, <1>5
    <3>. QED BY <3>1, <3>2
  <2>3. r \in X
    BY <1>6, <2>1, <2>2, <1>5, <1>2
  <2>. QED BY <2>1, <2>3, <1>4, <1>5
<1>7. x \in Starts(m, Part(C, l, s))
  BY <1>5, <1>6 DEF Starts
<1> DEFINE e == RunEnd(m, C, x)
<1>8. e \in C /\ x <= e /\ FreeRun(m, C, x) = {r \in C : x < r /\ r <= e}
      /\ Joined(m, C, x) = [type |-> m[e].type, psp |-> m[x].psp, size |-> NextMcb(m, e) - 1 - x]
  BY <1>5, RunIs
<1> HIDE DEF e, X
<1>9. p <= e
  <2>1. CASE x < p
    <3>1. \A r \in C : x < r /\ r <= p => IsFree(m, r)
      BY <1>1, <1>5
    <3>2. p \in FreeRun(m, C, x)
      BY <2>1, <3>1, <1>2, <1>5 DEF FreeRun
    <3>. QED BY <3>2, <1>8
  <2>2. CASE ~(x < p)
    BY <2>2, <1>1, <1>2, <1>5, <1>8
  <2>. QED BY <2>1, <2>2
<1>10. /\ e \in Nat /\ m[p].size \in Nat /\ m[e].size \in Nat
       /\ NextMcb(m, p) = p + m[p].size + 1 /\ NextMcb(m, e) = e + m[e].size + 1
       /\ p < e => NextMcb(m, p) <= e
  BY <1>2, <1>8, BlockIs, Apart
<1>11. m[p].size <= Joined(m, C, x).size
  BY <1>2, <1>5, <1>8, <1>9, <1>10
<1>. QED BY <1>7, <1>11

\* Joins take no room away.
LEMMA JoinKeepsRoom ==
    ASSUME NEW m, NEW C, NEW l, Tiled(m, C, l), NEW P, MayJoin(m, C, P), \A p \in P : IsFree(m, p),
           NEW s \in {FirstMcb, Root}, NEW n \in Nat, HasRoom(m, C, l, s, n)
    PROVE  HasRoom(JoinMcbs(m, C, P), C \ Merged(m, C, P), l, s, n)
<1> DEFINE D == C \ Merged(m, C, P)
           k == JoinMcbs(m, C, P)
<1>1. PICK p \in Part(C, l, s) : IsFree(m, p) /\ n <= m[p].size
  BY DEF HasRoom
<1>2. p \in C /\ p \in Nat /\ p \in Para /\ m[p].size \in Nat
  BY BlockIs DEF Part
<1>3. CASE p \in P
  <2>1. p \in D /\ k[p] = Joined(m, C, p) /\ IsFree(k, p) /\ m[p].size <= Joined(m, C, p).size
    BY <1>1, <1>3, JoinGives
  <2>2. p \in Part(D, l, s)
    BY <1>1, <2>1 DEF Part
  <2>3. Joined(m, C, p).size \in Nat
    BY <1>2, RunIs DEF Header
  <2> HIDE DEF k, D
  <2>4. n <= k[p].size
    BY <1>1, <1>2, <2>1, <2>3
  <2>. QED BY <2>1, <2>2, <2>4 DEF HasRoom, k, D
<1>4. CASE p \notin P /\ p \notin Merged(m, C, P)
  <2>1. k[p] = m[p]
    BY <1>2, <1>4 DEF JoinMcbs, Merged
  <2>2. p \in Part(D, l, s)
    BY <1>1, <1>2, <1>4 DEF Part
  <2> HIDE DEF k, D
  <2>3. IsFree(k, p) /\ n <= k[p].size
    BY <1>1, <2>1 DEF IsFree
  <2>. QED BY <2>2, <2>3 DEF HasRoom, k, D
<1>5. CASE p \in Merged(m, C, P)
  <2>1. PICK o \in P : p \in FreeRun(m, C, o)
    BY <1>5 DEF Merged
  <2>2. o \in C /\ o \in Nat /\ o < p /\ 1 <= o /\ \A r \in C : o < r /\ r <= p => IsFree(m, r)
    BY <2>1, <1>2, Headers DEF FreeRun, MayJoin
  <2>3. o \in D /\ k[o] = Joined(m, C, o) /\ IsFree(k, o)
    BY JoinGives
  <2> DEFINE e == RunEnd(m, C, o)
  <2>4. e \in C /\ FreeRun(m, C, o) = {r \in C : o < r /\ r <= e}
        /\ Joined(m, C, o) = [type |-> m[e].type, psp |-> m[o].psp, size |-> NextMcb(m, e) - 1 - o]
    BY <2>2, RunIs
  <2> HIDE DEF e
  <2>5. /\ e \in Nat /\ m[p].size \in Nat /\ m[e].size \in Nat
        /\ NextMcb(m, p) = p + m[p].size + 1 /\ NextMcb(m, e) = e + m[e].size + 1
        /\ p < e => NextMcb(m, p) <= e
        /\ p <= e
    BY <1>2, <2>1, <2>4, BlockIs, Apart
  <2>6. n <= Joined(m, C, o).size
    BY <1>1, <1>2, <2>2, <2>4, <2>5
  <2>7. s <= o /\ (o < Root \/ Root <= s \/ l = 1)
    <3>1. Root \in C /\ ~IsFree(m, Root) /\ Root \in Nat /\ FirstMcb = 1
      BY FreeIsNotRoot, Headers, Bounds
    <3>2. ~(o < Root /\ Root <= p)
      BY <2>2, <3>1
    <3>. QED BY <3>1, <3>2, <2>2, <1>1, <1>2 DEF Part
  <2>8. o \in Part(D, l, s)
    BY <2>3, <2>7 DEF Part
  <2> HIDE DEF k, D
  <2>9. n <= k[o].size
    BY <2>3, <2>6
  <2>. QED BY <2>3, <2>8, <2>9 DEF HasRoom, k, D
<1>. QED BY <1>3, <1>4, <1>5

\* What a search does to the room there is.
Keeps(m, C, l, s, size, fit, r, D) ==
    /\ FoundIn(m, C, l, r, size, D)
    /\ \A t \in {FirstMcb, Root}, n \in Nat : HasRoom(m, C, l, t, n) => HasRoom(r.mem, D, l, t, n)
    /\ size > 0 /\ HasRoom(m, C, l, s, size) => r.found # {}
    /\ r.biggest \in Nat
    /\ size = HUGE /\ r.biggest > 0 => HasRoom(r.mem, D, l, s, r.biggest)

\* A search finds room where there is some, and takes none away.
LEMMA SearchKeeps ==
    ASSUME NEW m, NEW C, NEW l, Tiled(m, C, l), NEW s \in C, NEW size \in Nat, NEW fit \in Fits
    PROVE  \E D : Keeps(m, C, l, s, size, fit, Search(m, s, size, fit), D)
<1> DEFINE S == Starts(m, Part(C, l, s))
           r == Search(m, s, size, fit)
<1>1. PICK P \in SUBSET S : Searched(m, C, S, size, r, P)
  BY SearchIs
<1> DEFINE D == C \ Merged(m, C, P)
<1>2. MayJoin(m, C, P) /\ \A p \in P : IsFree(m, p)
  BY MayJoinStarts
<1>3. /\ r.mem = JoinMcbs(m, C, P)
      /\ r.found = {} \/ \E p \in P : r.found = {p} /\ size <= Joined(m, C, p).size
      /\ r.biggest = Max({0} \cup {Joined(m, C, p).size : p \in S})
      /\ r.found = {} /\ size > 0 => \A p \in S : ~(size <= Joined(m, C, p).size)
      /\ (\A p \in S : ~(size <= Joined(m, C, p).size)) => P = S
  <2> HIDE DEF r, S
  <2>. QED BY <1>1 DEF Searched
<1>4. \A p \in S : Joined(m, C, p).size \in 0 .. Top /\ p \in Part(C, l, s)
  BY RoomBounds
<1>5. Top \in Nat /\ Top < HUGE /\ HUGE \in Nat
  BY Bounds
<1> HIDE DEF r, S
<1>6. FoundIn(m, C, l, r, size, D)
  <2>1. Tiled(r.mem, D, l) /\ D \subseteq C /\ \A q \in Para : r.mem[q] # m[q] => q \in C
    BY <1>2, <1>3, JoinTiles, JoinMoves
  <2>2. ASSUME NEW p \in P PROVE p \in D /\ r.mem[p] = Joined(m, C, p) /\ IsFree(r.mem, p)
    BY <1>2, <1>3, JoinGives
  <2>3. r.found = {} \/ \E p \in D : r.found = {p} /\ IsFree(r.mem, p) /\ size <= r.mem[p].size
    BY <1>3, <2>2
  <2>. QED BY <2>1, <2>3 DEF FoundIn
<1>7. ASSUME NEW t \in {FirstMcb, Root}, NEW n \in Nat, HasRoom(m, C, l, t, n)
      PROVE  HasRoom(r.mem, D, l, t, n)
  BY <1>2, <1>3, <1>7, JoinKeepsRoom
<1>8. ASSUME size > 0, HasRoom(m, C, l, s, size) PROVE r.found # {}
  <2>1. PICK p \in Part(C, l, s) : IsFree(m, p) /\ size <= m[p].size
    BY <1>8 DEF HasRoom
  <2>2. PICK x \in S : m[p].size <= Joined(m, C, x).size
    BY <2>1, RowOf DEF S
  <2>3. m[p].size \in Nat /\ Joined(m, C, x).size \in Nat
    BY <1>4, BlockIs DEF Part
  <2>4. size <= Joined(m, C, x).size
    BY <2>1, <2>2, <2>3
  <2>. QED BY <1>3, <1>8, <2>4
<1> DEFINE V == {0} \cup {Joined(m, C, p).size : p \in S}
<1>9. r.biggest \in V
  <2>1. V \subseteq 0 .. Top /\ V # {} /\ V \subseteq Nat
    BY <1>4, <1>5
  <2> HIDE DEF V
  <2>2. PICK v \in V : \A y \in V : y <= v
    BY <1>5, <2>1, GreatestOf
  <2>3. Max(V) = v
    BY <2>1, <2>2, MaxIs
  <2>. QED BY <1>3, <2>2, <2>3 DEF V
<1>10. r.biggest \in Nat
  BY <1>4, <1>9
<1>11. ASSUME size = HUGE, r.biggest > 0 PROVE HasRoom(r.mem, D, l, s, r.biggest)
  <2>1. P = S
    BY <1>3, <1>4, <1>11, <1>5
  <2>2. PICK p \in S : r.biggest = Joined(m, C, p).size
    BY <1>9, <1>10, <1>11
  <2>3. p \in D /\ r.mem[p] = Joined(m, C, p) /\ IsFree(r.mem, p)
    BY <1>2, <1>3, <2>1, JoinGives
  <2>4. p \in Part(D, l, s)
    BY <1>4, <2>3 DEF Part
  <2> HIDE DEF D
  <2>5. r.biggest <= r.mem[p].size
    BY <2>2, <2>3, <1>10
  <2>. QED BY <2>3, <2>4, <2>5 DEF HasRoom
<1>12. Keeps(m, C, l, s, size, fit, r, D)
  <2> HIDE DEF D
  <2>. QED BY <1>6, <1>7, <1>8, <1>10, <1>11 DEF Keeps
<1>. QED BY <1>12 DEF r

\* The greater of two.
LEMMA MaxOfTwo == \A a, b \in Nat : Max({a, b}) \in {a, b}
<1> TAKE a, b \in Nat
<1>1. PICK x \in {a, b} : \A y \in {a, b} : y <= x
  OBVIOUS
<1>2. {a, b} \subseteq Nat
  OBVIOUS
<1>. QED BY <1>1, <1>2, MaxIs

\* There is room for n where an allocation from this area looks.
Offers(m, C, l, area, n) ==
    HasRoom(m, C, l, Start(l, area), n) \/ (area = "U" /\ HasRoom(m, C, l, FirstMcb, n))

\* An allocation succeeds when there is room.
LEMMA AllocFinds ==
    ASSUME NEW m, NEW C, NEW l, Tiled(m, C, l), NEW size \in Nat, size > 0, NEW fit \in Fit, NEW area \in Area,
           NEW cu \in Psp, Offers(m, C, l, area, size)
    PROVE  DosMemAlloc(m, l, size, fit, area, cu).rc = "OK"
<1> DEFINE s == Start(l, area)
           one == Search(m, s, size, fit)
           two == Search(one.mem, FirstMcb, size, fit)
<1>1. s \in {FirstMcb, Root} /\ s \in C /\ fit \in Fits /\ FirstMcb \in {FirstMcb, Root} /\ FirstMcb \in C
  BY DEF Start, Fit, Fits, Tiled
<1>2. s = FirstMcb \/ l = 1
  BY DEF Start
<1>3. DosMemAlloc(m, l, size, fit, area, cu)
        = Allocated(IF ~one.broken /\ one.found = {} /\ area = "U" /\ l = 1 THEN two ELSE one, size, fit, cu)
  BY DEF DosMemAlloc, Fallback
<1>4. PICK D : Keeps(m, C, l, s, size, fit, one, D)
  BY <1>1, SearchKeeps
<1>5. Sought(m, C, l, one, size)
  BY <1>1, SearchTiles
<1>6. one.broken = FALSE /\ Tiled(one.mem, D, l)
  BY <1>4, <1>5 DEF Keeps, FoundIn, Sought
<1>7. Sought(m, C, l, two, size)
  BY <1>1, SearchAgain
<1>8. PICK E : Keeps(one.mem, D, l, FirstMcb, size, fit, two, E)
  <2> HIDE DEF one
  <2>1. FirstMcb \in D
    BY <1>6 DEF Tiled
  <2>. QED BY <1>1, <1>6, <2>1, SearchKeeps
<1>9. HasRoom(m, C, l, s, size) \/ (area = "U" /\ HasRoom(m, C, l, FirstMcb, size))
  BY DEF Offers
<1> HIDE DEF s, one, two
<1>10. CASE one.found # {}
  <2>1. Allocated(one, size, fit, cu).rc = "OK"
    BY <1>1, <1>5, <1>10, AllocatedWorks
  <2>. QED BY <1>3, <1>10, <2>1
<1>11. CASE one.found = {}
  <2>1. ~HasRoom(m, C, l, s, size)
    BY <1>4, <1>11 DEF Keeps
  <2>2. area = "U" /\ HasRoom(m, C, l, FirstMcb, size) /\ l = 1
    BY <1>2, <1>9, <2>1
  <2>3. HasRoom(one.mem, D, l, FirstMcb, size)
    BY <1>4, <1>1, <2>2 DEF Keeps
  <2>4. two.found # {}
    BY <1>8, <2>3 DEF Keeps
  <2>5. Allocated(two, size, fit, cu).rc = "OK"
    BY <1>1, <1>7, <2>4, AllocatedWorks
  <2>. QED BY <1>3, <1>6, <1>11, <2>2, <2>5
<1>. QED BY <1>10, <1>11

\* What a query leaves and tells.
QueryTells(m, C, l, area, big) ==
    /\ \E D : /\ Tiled(big.mem, D, l) /\ Rearranged(m, C, big.mem, D)
              /\ big.rc = "OK" => big.size \in Nat /\ big.size > 0 /\ Offers(big.mem, D, l, area, big.size)

\* A query leaves memory tiled and tells the truth.
LEMMA LargestTells ==
    ASSUME NEW m, NEW C, NEW l, Tiled(m, C, l), NEW area \in Area
    PROVE  QueryTells(m, C, l, area, DosMemLargest(m, l, area))
<1> DEFINE s == Start(l, area)
           one == Search(m, s, HUGE, "LARGEST")
           two == Search(one.mem, FirstMcb, HUGE, "LARGEST")
           big == DosMemLargest(m, l, area)
<1>1. s \in {FirstMcb, Root} /\ s \in C /\ "LARGEST" \in Fits /\ FirstMcb \in {FirstMcb, Root} /\ FirstMcb \in C
      /\ HUGE \in Nat
  BY Bounds DEF Start, Fits, Tiled
<1>2. big = LargestAfter(one, two, area)
  BY DEF DosMemLargest, LargestFrom
<1>3. PICK D : Keeps(m, C, l, s, HUGE, "LARGEST", one, D)
  BY <1>1, SearchKeeps
<1>4. Sought(m, C, l, one, HUGE)
  BY <1>1, SearchTiles
<1>5. /\ one.broken = FALSE /\ Tiled(one.mem, D, l) /\ D \subseteq C /\ FirstMcb \in D
      /\ \A q \in Para : one.mem[q] # m[q] => q \in C
  <2> HIDE DEF one
  <2>. QED BY <1>3, <1>4 DEF Keeps, FoundIn, Sought, Tiled
<1>6. Sought(m, C, l, two, HUGE)
  BY <1>1, SearchAgain
<1>7. PICK E : Keeps(one.mem, D, l, FirstMcb, HUGE, "LARGEST", two, E)
  <2> HIDE DEF one
  <2>. QED BY <1>1, <1>5, SearchKeeps
<1> HIDE DEF s, one, two, big
<1>8. two.broken = FALSE /\ Tiled(two.mem, E, l) /\ \A q \in Para : two.mem[q] # one.mem[q] => q \in D
  BY <1>6, <1>7 DEF Keeps, FoundIn, Sought
<1>9. Biggest(one) = one.biggest /\ Biggest(two) = two.biggest /\ one.biggest \in Nat /\ two.biggest \in Nat
  BY <1>5, <1>8, <1>3, <1>7 DEF Biggest, Keeps
<1>10. one.biggest > 0 => HasRoom(one.mem, D, l, s, one.biggest)
  BY <1>3 DEF Keeps
<1>11. two.biggest > 0 => HasRoom(two.mem, E, l, FirstMcb, two.biggest)
  BY <1>7 DEF Keeps
<1>12. one.biggest > 0 => HasRoom(two.mem, E, l, s, one.biggest)
  BY <1>1, <1>7, <1>9, <1>10 DEF Keeps
<1>13. CASE area = "U"
  <2> DEFINE n == Max({one.biggest, two.biggest})
  <2>1. n \in {one.biggest, two.biggest} /\ n \in Nat
    BY <1>9, MaxOfTwo
  <2>2. big.mem = two.mem /\ big.size = n /\ (big.rc = "OK" => n > 0)
    BY <1>2, <1>9, <1>13 DEF LargestAfter, LargestOf, Result
  <2> HIDE DEF n
  <2>3. n > 0 => Offers(two.mem, E, l, area, n)
    BY <1>11, <1>12, <1>13, <2>1 DEF Offers, s
  <2>4. Rearranged(m, C, two.mem, E)
    BY <1>5, <1>8 DEF Rearranged
  <2>. QED BY <1>8, <2>1, <2>2, <2>3, <2>4 DEF QueryTells, big
<1>14. CASE area # "U"
  <2>1. big.mem = one.mem /\ big.size = one.biggest /\ (big.rc = "OK" => one.biggest > 0)
    BY <1>2, <1>9, <1>14 DEF LargestAfter, LargestOf, Result
  <2>2. one.biggest > 0 => Offers(one.mem, D, l, area, one.biggest)
    BY <1>10 DEF Offers, s
  <2>3. Rearranged(m, C, one.mem, D)
    BY <1>5 DEF Rearranged
  <2>. QED BY <1>5, <1>9, <2>1, <2>2, <2>3 DEF QueryTells, big
<1>. QED BY <1>13, <1>14

\* It leaves memory tiled.
LEMMA LargestWorks ==
    ASSUME NEW m, NEW C, NEW l, Tiled(m, C, l), NEW area \in Area
    PROVE  Works(m, C, l, DosMemLargest(m, l, area).mem)
BY LargestTells DEF QueryTells, Works

\* What a query tells can be allocated: the rows it has joined stay joined.
LEMMA TiledObtains == Tiled(mem, Blocks(mem), link) => LargestIsObtainable
<1> SUFFICES ASSUME Tiled(mem, Blocks(mem), link), NEW area \in Area, NEW fit \in Fit, NEW ps \in Psp
             PROVE  Obtainable(DosMemLargest(mem, link, area), area, fit, ps)
  BY DEF LargestIsObtainable
<1> DEFINE big == DosMemLargest(mem, link, area)
<1>1. QueryTells(mem, Blocks(mem), link, area, big)
  BY LargestTells
<1> HIDE DEF big
<1>2. SUFFICES ASSUME big.rc = "OK" PROVE DosMemAlloc(big.mem, link, big.size, fit, area, ps).rc = "OK"
  BY DEF Obtainable, big
<1>3. PICK D : Tiled(big.mem, D, link) /\ big.size \in Nat /\ big.size > 0 /\ Offers(big.mem, D, link, area, big.size)
  BY <1>1, <1>2 DEF QueryTells
<1>. QED BY <1>3, AllocFinds

-----------------------------------------------------------------------------
(* The other calls.                                                        *)

\* INT 21h/49h.
LEMMA FreeWorks ==
    ASSUME NEW m, NEW C, NEW l, Tiled(m, C, l), NEW p \in C, p # Root
    PROVE  DosMemFree(m, p).rc = "OK" /\ Works(m, C, l, DosMemFree(m, p).mem)
<1>1. p \in Para /\ m[p].type \in {"M", "Z"}
  BY BlockIs
<1>2. DosMemFree(m, p) = Result([m EXCEPT ![p].psp = FREE], "OK", 0)
  BY <1>1 DEF DosMemFree
<1>3. DosMemFree(m, p).rc = "OK" /\ DosMemFree(m, p).mem = [m EXCEPT ![p].psp = FREE]
  BY <1>2 DEF Result
<1> DEFINE n == [m EXCEPT ![p].psp = FREE]
<1>4. Tiled(n, C, l) /\ \A q \in Para : n[q] # m[q] => q \in C
  BY PspIs, OwnerTiles
<1> HIDE DEF n
<1>5. Rearranged(m, C, n, C)
  BY <1>4 DEF Rearranged
<1>6. Works(m, C, l, n)
  BY <1>4, <1>5 DEF Works
<1>. QED BY <1>3, <1>6 DEF n

\* A resize joins what follows the block.
LEMMA RejoinedTiles ==
    ASSUME NEW m, NEW C, NEW l, Tiled(m, C, l), NEW p \in C, p # Root
    PROVE  /\ Tiled(Rejoined(m, p), C \ FreeRun(m, C, p), l)
           /\ \A q \in Para : Rejoined(m, p)[q] # m[q] => q \in C
           /\ \A q \in C : q <= p => q \in C \ FreeRun(m, C, p)
<1>1. p \in Nat /\ Walk(m, p) = Part(C, l, p) /\ p \in Part(C, l, p)
  <2>1. p \in Nat /\ Root \in Nat
    BY BlockIs, Bounds
  <2>. QED BY <2>1, WalkOver DEF Part
<1>2. Rejoined(m, p) = JoinMcbs(m, C, {p})
  BY <1>1, JoinOfPart DEF Rejoined
<1>3. Merged(m, C, {p}) = FreeRun(m, C, p)
  BY DEF Merged
<1>4. \A q \in C : q <= p => q \notin FreeRun(m, C, p)
  BY <1>1, Headers DEF FreeRun
<1>5. MayJoin(m, C, {p})
  BY <1>1, <1>3, <1>4 DEF MayJoin
<1>6. Tiled(JoinMcbs(m, C, {p}), C \ Merged(m, C, {p}), l)
  BY <1>5, JoinTiles
<1>7. \A q \in Para : JoinMcbs(m, C, {p})[q] # m[q] => q \in C
  BY <1>5, JoinMoves
<1>. QED BY <1>2, <1>3, <1>4, <1>6, <1>7

\* Memory k is m with one header more, at x.
IsCut(m, C, l, x, k) ==
    Tiled(k, C \cup {x}, l) /\ x \notin C /\ \A q \in Para : k[q] # m[q] => q \in C \cup {x}

\* A resize cuts the block.
LEMMA CutTiles ==
    ASSUME NEW m, NEW C, NEW l, Tiled(m, C, l), NEW p \in C, NEW size \in Nat, size < m[p].size
    PROVE  IsCut(m, C, l, p + size + 1, Cut(m, p, size))
<1> DEFINE x == p + size + 1
           n == Cut(m, p, size)
<1>1. /\ m \in [Para -> Header \cup {Data}] /\ p \in Para /\ p \in Nat /\ m[p] \in Header
      /\ m[p].size \in Nat /\ m[p].psp \in Nat /\ m[p].type \in {"M", "Z"} /\ p + m[p].size + 1 <= Top
  BY BlockIs DEF Tiled, MemType, BlockGood
<1>2. x \in Para /\ x # p /\ m[p].size - size - 1 \in Nat
  BY <1>1, Bounds
<1>3. n = [m EXCEPT ![x] = Mcb(m[p].type, FREE, m[p].size - size - 1),
                    ![p].size = size, ![p].type = "M"]
  BY DEF Cut
<1>4. FREE \in Nat
  BY PspIs
<1>5. Mcb(m[p].type, FREE, m[p].size - size - 1) \in Header /\ Mcb("M", m[p].psp, size) \in Header
  BY <1>1, <1>2, <1>4 DEF Mcb, Header
<1>6. n[p] = [m[p] EXCEPT !.size = size, !.type = "M"]
  BY <1>1, <1>2, <1>3
<1>7. n[p] = Mcb("M", m[p].psp, size)
  BY <1>1, <1>6 DEF Header, Mcb
<1>8. n[x] = Mcb(m[p].type, FREE, m[p].size - size - 1) /\ \A q \in Para : q # p /\ q # x => n[q] = m[q]
  BY <1>1, <1>2, <1>3
<1>9. DOMAIN n = Para /\ n = [q \in Para |-> n[q]]
  BY <1>1, <1>3
<1> HIDE DEF n
<1>10. n \in [Para -> Header \cup {Data}]
  <2>1. ASSUME NEW q \in Para PROVE n[q] \in Header \cup {Data}
    BY <1>1, <1>5, <1>7, <1>8
  <2>. QED BY <1>9, <2>1
<1>11. Split(m, n, p, size, m[p].psp, FREE)
  BY <1>7, <1>8, <1>10 DEF Split
<1>12. Tiled(n, C \cup {p + size + 1}, l) /\ p + size + 1 \notin C
  BY <1>1, <1>4, <1>11, SplitTiles
<1>13. \A q \in Para : n[q] # m[q] => q \in C \cup {p + size + 1}
  BY <1>8
<1>. QED BY <1>12, <1>13 DEF n, IsCut

\* A resize that succeeds sets the owner.
LEMMA OwnerWorks ==
    ASSUME NEW m, NEW C, NEW l, NEW n, NEW D, Tiled(n, D, l), Rearranged(m, C, n, D), NEW p \in D, p # Root, NEW o \in Nat
    PROVE  Works(m, C, l, [n EXCEPT ![p].psp = o])
<1> DEFINE k == [n EXCEPT ![p].psp = o]
<1>1. Tiled(k, D, l) /\ \A q \in Para : k[q] # n[q] => q \in D
  BY OwnerTiles
<1> HIDE DEF k
<1>2. Rearranged(m, C, k, D)
  BY <1>1 DEF Rearranged
<1>. QED BY <1>1, <1>2 DEF Works, k

\* The second half of a resize, after the join that growing does.
LEMMA ResizedWorks ==
    ASSUME NEW m, NEW C, NEW l, NEW n, NEW D, Tiled(n, D, l), D \subseteq C,
           \A q \in Para : n[q] # m[q] => q \in C, NEW p \in D, p # Root,
           NEW size \in Nat, NEW cu \in Psp
    PROVE  Returned(m, C, l, Resized(n, p, size, cu))
<1>1. n[p].size \in Nat /\ cu \in Nat /\ p \in Nat
  BY BlockIs, PspIs
<1>2. Rearranged(m, C, n, D)
  BY DEF Rearranged
<1>3. CASE size > n[p].size
  <2>1. Resized(n, p, size, cu).mem = n /\ Resized(n, p, size, cu).rc = "NOMEM"
    BY <1>3 DEF Resized, Result
  <2>. QED BY <1>2, <2>1 DEF Returned, Works
<1>4. CASE size = n[p].size
  <2>1. Resized(n, p, size, cu).mem = [n EXCEPT ![p].psp = cu] /\ Resized(n, p, size, cu).rc = "OK"
    BY <1>1, <1>4 DEF Resized, Result
  <2>2. Works(m, C, l, [n EXCEPT ![p].psp = cu])
    BY <1>1, <1>2, OwnerWorks
  <2>. QED BY <2>1, <2>2 DEF Returned
<1>5. CASE size < n[p].size
  <2> DEFINE x == p + size + 1
             cut == Cut(n, p, size)
             k == Rejoined(cut, x)
             E == D \cup {x}
             G == E \ FreeRun(cut, E, x)
  <2>1. Resized(n, p, size, cu) = Result([k EXCEPT ![p].psp = cu], "OK", 0)
    BY <1>1, <1>5 DEF Resized
  <2>2. Resized(n, p, size, cu).mem = [k EXCEPT ![p].psp = cu] /\ Resized(n, p, size, cu).rc = "OK"
    BY <2>1 DEF Result
  <2>3. Tiled(cut, E, l) /\ x \notin D /\ \A q \in Para : cut[q] # n[q] => q \in E
    <3>1. IsCut(n, D, l, x, cut)
      BY <1>5, CutTiles
    <3>. QED BY <3>1 DEF IsCut
  <2>4. x # Root /\ x \in E /\ p <= x /\ p \in E
    BY <2>3, <1>1 DEF Tiled
  <2> HIDE DEF cut, x, E
  <2>5. Tiled(k, G, l) /\ (\A q \in Para : k[q] # cut[q] => q \in E) /\ p \in G
    BY <2>3, <2>4, RejoinedTiles
  <2>6. x \in G
    <3>1. x \in Nat /\ x <= x
      BY <2>3, <2>4, Headers
    <3>. QED BY <2>3, <2>4, <3>1, RejoinedTiles DEF G, k
  <2>7. ASSUME NEW q \in Para, k[q] # m[q] PROVE q \in C \cup G
    <3>1. q \in E \/ q \in C
      BY <2>3, <2>5, <2>7
    <3>. QED BY <2>6, <3>1 DEF E
  <2> HIDE DEF k, G
  <2>8. Rearranged(m, C, k, G)
    BY <2>7 DEF Rearranged
  <2>9. Works(m, C, l, [k EXCEPT ![p].psp = cu])
    BY <1>1, <2>5, <2>8, OwnerWorks
  <2>. QED BY <2>2, <2>9 DEF Returned
<1>. QED BY <1>1, <1>3, <1>4, <1>5

\* INT 21h/4Ah.
LEMMA ChangeWorks ==
    ASSUME NEW m, NEW C, NEW l, Tiled(m, C, l), NEW p \in C, p # Root, NEW size \in Nat, NEW cu \in Psp
    PROVE  Returned(m, C, l, DosMemChange(m, p, size, cu))
<1>1. Valid(m, p)
  BY BlockIs
<1>2. CASE size > m[p].size
  <2> DEFINE n == Rejoined(m, p)
             D == C \ FreeRun(m, C, p)
  <2>1. DosMemChange(m, p, size, cu) = Resized(n, p, size, cu)
    BY <1>1, <1>2 DEF DosMemChange
  <2>2. p <= p
    BY Headers
  <2>3. Tiled(n, D, l) /\ (\A q \in Para : n[q] # m[q] => q \in C) /\ p \in D /\ D \subseteq C
    BY <2>2, RejoinedTiles
  <2> HIDE DEF n, D
  <2>. QED BY <2>1, <2>3, ResizedWorks
<1>3. CASE ~(size > m[p].size)
  <2>1. DosMemChange(m, p, size, cu) = Resized(m, p, size, cu)
    BY <1>1, <1>3 DEF DosMemChange
  <2>. QED BY <2>1, ResizedWorks
<1>. QED BY <1>2, <1>3

\* What a process that ends leaves.
TerminationLeaves(m, C, l, ps, end) ==
    /\ Tiled(end.mem, C, l) /\ end.size = l
    /\ \A q \in Para \ C : end.mem[q] = m[q]
    /\ \A q \in C : /\ end.mem[q].size = m[q].size
                    /\ end.mem[q].psp = IF m[q].psp = ps THEN FREE ELSE m[q].psp

\* The walk over both chains that frees the blocks of a process.
LEMMA ReleaseTiles ==
    ASSUME NEW m, NEW C, Tiled(m, C, 1), NEW ps \in Psp
    PROVE  /\ Tiled(Released(m, C, ps), C, 1)
           /\ \A q \in Para \ C : Released(m, C, ps)[q] = m[q]
           /\ \A q \in C : /\ Released(m, C, ps)[q].size = m[q].size
                           /\ Released(m, C, ps)[q].psp = IF m[q].psp = ps THEN FREE ELSE m[q].psp
<1> DEFINE n == Released(m, C, ps)
<1>1. \A q \in C : q \in Para /\ m[q] \in Header
  BY DEF Tiled, BlockGood
<1>2. m \in [Para -> Header \cup {Data}] /\ Root \in C /\ m[Root] = Mcb("M", SYSTEM, 0)
  BY DEF Tiled, MemType
<1>3. ps # SYSTEM /\ FREE \in Nat
  BY PspIs
<1>4. ASSUME NEW q \in C
      PROVE  /\ n[q] \in Header /\ n[q].type = m[q].type /\ n[q].size = m[q].size
             /\ n[q].psp = IF m[q].psp = ps THEN FREE ELSE m[q].psp
  <2>1. m[q] \in Header /\ n[q] = IF m[q].psp = ps THEN [m[q] EXCEPT !.psp = FREE] ELSE m[q]
    BY <1>1 DEF Released
  <2>. QED BY <2>1, <1>3 DEF Header
<1>5. \A q \in Para \ C : n[q] = m[q]
  BY DEF Released
<1>6. n[Root] = m[Root]
  BY <1>1, <1>2, <1>3 DEF Released, Mcb
<1>7. MemType(n)
  <2>1. ASSUME NEW q \in Para PROVE n[q] \in Header \cup {Data}
    BY <1>2, <1>4, <1>5
  <2>2. n = [q \in Para |-> n[q]]
    BY DEF Released
  <2> HIDE DEF n
  <2>. QED BY <2>1, <2>2 DEF MemType
<1>8. SameShape(m, n, C)
  BY <1>4 DEF SameShape
<1> HIDE DEF n
<1>9. Tiled(n, C, 1)
  BY <1>6, <1>7, <1>8, ShapeTiles
<1>. QED BY <1>4, <1>5, <1>9 DEF n

\* INT 21h/5803h leaves owners and sizes.
LinkLeaves(m, C, n, r) ==
    /\ Tiled(r.mem, C, n) /\ r.link = n
    /\ \A q \in Para \ C : r.mem[q] = m[q]
    /\ \A q \in C : r.mem[q].size = m[q].size /\ r.mem[q].psp = m[q].psp

\* Whatever the link was, and whatever it becomes.
LEMMA UmbLinkKeeps ==
    ASSUME NEW m, NEW C, NEW l, Tiled(m, C, l), NEW n \in {0, 1}
    PROVE  LinkLeaves(m, C, n, DosUmbLink(m, l, n))
<1>1. PICK e : Linked(m, C, l, n, e)
  BY UmbLinkIs
<1>2. /\ e \in C
      /\ DosUmbLink(m, l, n) = [mem |-> [m EXCEPT ![e].type = IF n = 0 THEN "Z" ELSE "M"], link |-> n]
      /\ Tiled([m EXCEPT ![e].type = IF n = 0 THEN "Z" ELSE "M"], C, n)
  BY <1>1 DEF Linked
<1> DEFINE k == [m EXCEPT ![e].type = IF n = 0 THEN "Z" ELSE "M"]
<1>3. m \in [Para -> Header \cup {Data}] /\ \A q \in C : q \in Para /\ m[q] \in Header
  BY DEF Tiled, MemType, BlockGood
<1>4. k[e] = [m[e] EXCEPT !.type = IF n = 0 THEN "Z" ELSE "M"]
  BY <1>2, <1>3
<1>5. k[e].size = m[e].size /\ k[e].psp = m[e].psp
  BY <1>3, <1>4 DEF Header
<1>6. \A q \in Para : q # e => k[q] = m[q]
  BY <1>3
<1>7. Tiled(k, C, n)
  BY <1>2
<1> HIDE DEF k
<1>8. /\ \A q \in Para \ C : k[q] = m[q]
      /\ \A q \in C : k[q].size = m[q].size /\ k[q].psp = m[q].psp
  BY <1>2, <1>3, <1>5, <1>6
<1>9. LinkLeaves(m, C, n, [mem |-> k, link |-> n])
  BY <1>7, <1>8 DEF LinkLeaves
<1>. QED BY <1>2, <1>9 DEF k

\* The link is set for the walk, and put back.
LEMMA TerminationGives ==
    ASSUME NEW m, NEW C, NEW l, Tiled(m, C, l), NEW ps \in Psp
    PROVE  TerminationLeaves(m, C, l, ps, FreeProcessMem(m, l, ps))
<1> DEFINE on == DosUmbLink(m, l, 1)
           n == Released(on.mem, C, ps)
           off == DosUmbLink(n, 1, l)
<1>1. /\ Tiled(on.mem, C, 1) /\ on.link = 1
      /\ \A q \in Para \ C : on.mem[q] = m[q]
      /\ \A q \in C : on.mem[q].size = m[q].size /\ on.mem[q].psp = m[q].psp
  <2>1. 1 \in {0, 1}
    OBVIOUS
  <2>2. LinkLeaves(m, C, 1, on)
    BY <2>1, UmbLinkKeeps
  <2> HIDE DEF on
  <2>. QED BY <2>2 DEF LinkLeaves
<1>2. Walk(on.mem, FirstMcb) = C
  <2> HIDE DEF on
  <2>. QED BY <1>1, WalksAre
<1>3. FreeProcessMem(m, l, ps) = Relinked(on, off)
  BY <1>1, <1>2 DEF FreeProcessMem, ReleasedIn
<1> HIDE DEF on
<1>4. /\ Tiled(n, C, 1)
      /\ \A q \in Para \ C : n[q] = on.mem[q]
      /\ \A q \in C : n[q].size = on.mem[q].size
      /\ \A q \in C : n[q].psp = IF on.mem[q].psp = ps THEN FREE ELSE on.mem[q].psp
  BY <1>1, ReleaseTiles
<1>5. l \in {0, 1}
  BY DEF Tiled
<1> HIDE DEF n
<1>6. /\ Tiled(off.mem, C, l) /\ off.link = l
      /\ \A q \in Para \ C : off.mem[q] = n[q]
      /\ \A q \in C : off.mem[q].size = n[q].size /\ off.mem[q].psp = n[q].psp
  <2>1. LinkLeaves(n, C, l, off)
    BY <1>4, <1>5, UmbLinkKeeps
  <2> HIDE DEF off
  <2>. QED BY <2>1 DEF LinkLeaves
<1>7. Relinked(on, off).mem = off.mem /\ Relinked(on, off).size = off.link
  BY DEF Relinked, Result
<1> HIDE DEF off
<1>. QED BY <1>1, <1>3, <1>4, <1>6, <1>7 DEF TerminationLeaves

\* No block of a process is left when it ends.
LEMMA TiledFreesAll == Tiled(mem, Blocks(mem), link) => TerminationFreesAll
<1> SUFFICES ASSUME Tiled(mem, Blocks(mem), link), NEW ps \in Psp
             PROVE  \E end \in {FreeProcessMem(mem, link, ps)} :
                      /\ \A p \in Walk(end.mem, FirstMcb) \cup Walk(end.mem, Root) : end.mem[p].psp # ps
                      /\ end.size = link
  BY DEF TerminationFreesAll
<1> DEFINE end == FreeProcessMem(mem, link, ps)
           C == Blocks(mem)
<1> HIDE DEF C
<1>1. TerminationLeaves(mem, C, link, ps, end)
  BY TerminationGives DEF C
<1> HIDE DEF end
<1>2. Blocks(end.mem) = C
  BY <1>1, WalksAre DEF TerminationLeaves
<1>3. Walk(end.mem, FirstMcb) \cup Walk(end.mem, Root) = C
  BY <1>2 DEF Blocks
<1>4. ps # FREE
  BY PspIs
<1>5. \A p \in C : end.mem[p].psp # ps
  BY <1>1, <1>4 DEF TerminationLeaves
<1>6. end.size = link
  BY <1>1 DEF TerminationLeaves
<1>. QED BY <1>3, <1>5, <1>6 DEF end

\* The chains as ChainsTile tells them.
LEMMA TiledIsTiled == Tiled(mem, Blocks(mem), link) => ChainsTile
<1> SUFFICES ASSUME Tiled(mem, Blocks(mem), link) PROVE ChainsTile
  OBVIOUS
<1>1. Tiles(mem, FirstMcb, Root) /\ Tiles(mem, Root, Top)
  BY TiledTiles
<1>2. link = 1 <=> Root \in Walk(mem, FirstMcb)
  BY WalksAre
<1>3. FirstMcb \in Blocks(mem) /\ Root \in Blocks(mem) /\ mem[Root] = Mcb("M", SYSTEM, 0)
  BY DEF Tiled
<1>4. Whole(mem, FirstMcb) /\ Whole(mem, Root)
  BY <1>3, WholeWhole
<1>. QED BY <1>1, <1>2, <1>3, <1>4 DEF ChainsTile

-----------------------------------------------------------------------------
(* Payloads, and the block that is lent.                                   *)

\* The paragraphs of a block after its header, and those of the free blocks.
Payload(m, p) == p + 1 .. p + m[p].size

FreeCells(m, C) == UNION {Payload(m, p) : p \in {x \in C : IsFree(m, x)}}

\* Payloads are apart, and no headers.
LEMMA PayloadApart ==
    ASSUME NEW m, NEW C, NEW l, Tiled(m, C, l), NEW p \in C
    PROVE  /\ \A x \in Payload(m, p) : x \in Para /\ x \in Nat
           /\ \A x \in C : x \notin Payload(m, p)
           /\ \A q \in C : q # p => Payload(m, p) \cap Payload(m, q) = {}
<1>1. /\ p \in Nat /\ 1 <= p /\ m[p].size \in Nat /\ NextMcb(m, p) = p + m[p].size + 1 /\ NextMcb(m, p) <= Top
  BY BlockIs
<1>2. \A x \in Payload(m, p) : x \in Para /\ x \in Nat
  BY <1>1, Bounds DEF Payload
<1>3. ASSUME NEW x \in C PROVE x \notin Payload(m, p)
  <2>1. x \in Nat /\ (p < x => NextMcb(m, p) <= x)
    BY Headers, Apart
  <2>. QED BY <2>1, <1>1 DEF Payload
<1>4. ASSUME NEW q \in C, q # p PROVE Payload(m, p) \cap Payload(m, q) = {}
  <2>1. /\ q \in Nat /\ m[q].size \in Nat /\ NextMcb(m, q) = q + m[q].size + 1
    BY BlockIs
  <2>2. (p < q => NextMcb(m, p) <= q) /\ (q < p => NextMcb(m, q) <= p)
    BY Apart
  <2>3. p < q \/ q < p
    BY <1>1, <2>1, <1>4
  <2>. QED BY <1>1, <2>1, <2>2, <2>3 DEF Payload
<1>. QED BY <1>2, <1>3, <1>4

\* Memory that has an owner is neither a header nor free.
LEMMA OwnedIs ==
    ASSUME NEW m, NEW C, NEW l, Tiled(m, C, l), NEW q \in Owned(m)
    PROVE  q \in Para /\ q \notin C /\ q \notin FreeCells(m, C)
<1>1. PICK p \in C : ~IsFree(m, p) /\ q \in Payload(m, p)
  BY WalksAre DEF Owned, Payload
<1>2. q \in Para /\ q \notin C
  BY <1>1, PayloadApart
<1>3. ASSUME NEW x \in C, IsFree(m, x), q \in Payload(m, x) PROVE FALSE
  <2>1. x # p
    BY <1>1, <1>3
  <2>. QED BY <1>1, <1>3, <2>1, PayloadApart
<1>. QED BY <1>2, <1>3 DEF FreeCells

\* Free memory is no header.
LEMMA FreeCellsAre ==
    ASSUME NEW m, NEW C, NEW l, Tiled(m, C, l), NEW q \in FreeCells(m, C)
    PROVE  q \in Para /\ q \notin C
BY PayloadApart DEF FreeCells

-----------------------------------------------------------------------------
\* The block that is lent: a free one of conventional memory, or none.
Lends(m, C, le, n) ==
    /\ \/ le = Nothing
       \/ \E p \in C : p < Root /\ IsFree(m, p) /\ le = [seg |-> p, paras |-> m[p].size]
    /\ n = le.paras \div LineParas

\* As many whole lines as fit.
LEMMA LinesFit ==
    ASSUME NEW s \in Nat, NEW a \in Nat \ {0}, NEW n, n = s \div a, NEW k \in 0 .. n - 1
    PROVE  /\ n \in Nat /\ k \in Nat /\ a * (k + 1) <= s /\ a * k + 1 <= s /\ a * k \in Nat
<1>1. n \in Nat /\ a * n <= s
  OBVIOUS
<1>2. k \in Nat /\ k + 1 <= n
  BY <1>1
<1>3. PICK d \in Nat : n = k + 1 + d
  <2>1. n - (k + 1) \in Nat /\ n = k + 1 + (n - (k + 1))
    BY <1>1, <1>2
  <2>. QED BY <2>1
<1>4. a * n = a * (k + 1) + a * d
  BY <1>2, <1>3
<1>5. a * d \in Nat /\ a * (k + 1) \in Nat /\ a * (k + 1) = a * k + a /\ a * k \in Nat
  BY <1>2
<1>. QED BY <1>1, <1>2, <1>4, <1>5

\* The cells of the arena are in the block.
LEMMA CellsLent ==
    ASSUME NEW m, NEW C, NEW l, Tiled(m, C, l), NEW le, NEW ar \in [Arena -> Nat], Lends(m, C, le, ar[2]), NEW s
    PROVE  /\ Cells(ar, le.seg, s) \subseteq FreeCells(m, C)
           /\ Heads(ar, le.seg) \subseteq FreeCells(m, C)
           /\ ar[2] > 0 => \E p \in C : /\ p < Root /\ IsFree(m, p) /\ le.seg = p
                                        /\ Cells(ar, le.seg, s) \subseteq Payload(m, p)
<1>1. LineParas \in Nat \ {0}
  BY LentAssumption
<1>2. CASE le = Nothing
  <2>1. ar[2] = 0
    BY <1>1, <1>2 DEF Lends, Nothing
  <2>2. 0 .. ar[2] - 1 = {}
    BY <2>1
  <2>. QED BY <2>1, <2>2 DEF Cells, Heads
<1>3. CASE le # Nothing
  <2>1. PICK p \in C : p < Root /\ IsFree(m, p) /\ le = [seg |-> p, paras |-> m[p].size]
    BY <1>3 DEF Lends
  <2>2. ar[2] = m[p].size \div LineParas /\ le.seg = p
    BY <2>1 DEF Lends
  <2>3. p \in Nat /\ m[p].size \in Nat
    BY BlockIs
  <2>4. \A k \in 0 .. ar[2] - 1 :
           /\ k \in Nat /\ LineParas * (k + 1) <= m[p].size /\ LineParas * k + 1 <= m[p].size /\ LineParas * k \in Nat
    BY <1>1, <2>2, <2>3, LinesFit
  <2>5. Cells(ar, p, s) \subseteq Payload(m, p)
    <3> DEFINE k == s - ar[0] - ar[1]
    <3>1. CASE k \in 0 .. ar[2] - 1
      <4>1. Cells(ar, p, s) = p + 1 + LineParas * k .. p + LineParas * (k + 1)
        BY <3>1 DEF Cells
      <4>2. LineParas * (k + 1) <= m[p].size /\ LineParas * k \in Nat /\ LineParas * (k + 1) \in Nat
        BY <2>4, <3>1, <1>1
      <4> HIDE DEF k
      <4>. QED BY <4>1, <4>2, <2>3 DEF Payload
    <3>2. CASE k \notin 0 .. ar[2] - 1
      BY <3>2 DEF Cells
    <3>. QED BY <3>1, <3>2
  <2>6. Heads(ar, p) \subseteq Payload(m, p)
    <3>1. ASSUME NEW k \in 0 .. ar[2] - 1 PROVE p + 1 + LineParas * k \in Payload(m, p)
      <4>1. LineParas * k + 1 <= m[p].size /\ LineParas * k \in Nat
        BY <2>4
      <4>. QED BY <4>1, <2>3 DEF Payload
    <3>. QED BY <3>1 DEF Heads
  <2>7. Payload(m, p) \subseteq FreeCells(m, C)
    BY <2>1 DEF FreeCells
  <2>. QED BY <2>1, <2>2, <2>5, <2>6, <2>7
<1>. QED BY <1>2, <1>3

\* The first of the largest free blocks, or none.
LEMMA LargestFreeIs ==
    ASSUME NEW m, NEW C, NEW l, Tiled(m, C, l)
    PROVE  LargestFree(m) = Nothing
           \/ \E p \in C : p < Root /\ IsFree(m, p) /\ LargestFree(m) = [seg |-> p, paras |-> m[p].size]
<1> DEFINE low == {p \in Walk(m, FirstMcb) : p < Root /\ IsFree(m, p) /\ m[p].size > 0}
           best == {p \in low : \A q \in low : m[q].size <= m[p].size}
<1>1. Walk(m, FirstMcb) \subseteq C
  BY WalksAre DEF Part
<1>2. LargestFree(m) = IF low = {} THEN Nothing ELSE [seg |-> Min(best), paras |-> m[Min(best)].size]
  BY DEF LargestFree
<1>3. \A p \in low : p \in C /\ p < Root /\ IsFree(m, p) /\ p \in Nat /\ m[p].size \in 0 .. Top
  BY <1>1, BlockIs, Bounds
<1> HIDE DEF low
<1>4. CASE low # {}
  <2> DEFINE V == {m[p].size : p \in low}
  <2>1. V \subseteq 0 .. Top /\ V # {} /\ Top \in Nat
    BY <1>3, <1>4, Bounds
  <2> HIDE DEF V
  <2>2. PICK v \in V : \A y \in V : y <= v
    BY <2>1, GreatestOf
  <2>3. PICK p \in low : m[p].size = v
    BY DEF V
  <2>4. p \in best
    BY <2>2, <2>3 DEF V
  <2>5. best \subseteq Nat /\ best # {}
    BY <1>3, <2>4
  <2>6. best \subseteq low
    OBVIOUS
  <2> HIDE DEF best
  <2>7. PICK x \in best : \A y \in best : x <= y
    BY <2>5, LeastOf
  <2>8. Min(best) = x
    BY <2>5, <2>7, MinIs
  <2>. QED BY <1>2, <1>3, <1>4, <2>6, <2>7, <2>8
<1>. QED BY <1>2, <1>4

\* refresh_ff_low_cache_arena always gets to the end.
LEMMA AlwaysEnds ==
    ASSUME NEW m, NEW C, NEW l, Tiled(m, C, l)
    PROVE  WalkEnds(m)
<1>1. FirstMcb \in C
  BY DEF Tiled
<1>. QED BY <1>1, WholeWhole DEF Whole, WalkEnds

-----------------------------------------------------------------------------
(* Steps.                                                                  *)

\* The inductive invariant.
LentInv ==
    /\ Tiled(mem, Blocks(mem), link)
    /\ Lends(mem, Blocks(mem), lent, arena[2])
    /\ IInv

\* What a step leaves: the invariant, and paragraphs that it has written were
\* headers, are headers, or are free now.
Left(m, C, D) ==
    \A q \in Para : m[q] # mem[q] => q \in C \cup D \cup FreeCells(m, D)

\* The step is as it should be.
GoodStep == LentInv' /\ Left(mem', Blocks(mem), Blocks(mem'))

\* The arenas and the lines, by their types.
LEMMA ArenaType == IInv => /\ arena \in [Arena -> Nat] /\ arena[2] \in Nat /\ DOMAIN line = Slots(arena)
                           /\ line = [p \in Slots(arena) |-> line[p]]
BY DEF IInv, L1Inv, L1Type, Arena

\* Lines that nobody has written to stay what they are.
LEMMA NotOverwritten ==
    ASSUME IInv, NEW W, \A p : Cells(arena, lent.seg, p) \cap W = {}
    PROVE  Overwritten(W) = line
<1>1. Overwritten(W) = [p \in Slots(arena) |-> line[p]]
  BY DEF Overwritten
<1>. QED BY <1>1, ArenaType

\* A call that has left the cache alone.
LEMMA CallKeeps ==
    ASSUME IInv, DosCall, UNCHANGED <<arena, line, epoch>>
    PROVE  IInv'
<1>1. UNCHANGED <<arena, line, epoch, active, floor, qline, qepoch, qon, ready, card>> /\ rd' = rd /\ out' = NoOut
  BY DEF DosCall
<1>2. L1Inv' /\ L2Inv' /\ CardType'
  BY <1>1, LevelsStay
<1>. QED BY <1>1, <1>2, NothingRead DEF IInv, RdType

\* A call that has moved the arena.
LEMMA CallMoves ==
    ASSUME IInv, DosCall, NEW n \in Nat, NEW moved \in BOOLEAN, ~(arena[2] = n /\ ~moved),
           NEW old, Enable(2, n, moved, old)
    PROVE  IInv' /\ arena'[2] = n
<1>1. UNCHANGED <<active, floor, qline, qepoch, qon, ready, card>> /\ rd' = rd /\ out' = NoOut
  BY DEF DosCall
<1>2. Enable(2, n, moved, line) /\ arena' = [arena EXCEPT ![2] = n] /\ 2 \in Arena
  BY DEF Enable, Arena
<1>3. L1Inv'
  BY <1>1, <1>2, EnableIsGood
<1>4. L2Inv' /\ CardType'
  BY <1>1 DEF IInv, L2Inv, L2Type, CardType
<1>5. arena'[2] = n
  BY <1>2, ArenaType
<1>. QED BY <1>1, <1>3, <1>4, <1>5, NothingRead DEF IInv, RdType

\* The paragraphs a call has written.
LEMMA ChangedIs ==
    ASSUME NEW m, NEW C, NEW D, Rearranged(mem, C, m, D)
    PROVE  Changed(m) \subseteq C \cup D
BY DEF Changed, Rearranged

\* refresh_ff_low_cache_arena after a call that has left memory m.
LEMMA RefreshGood ==
    ASSUME LentInv, DosCall, link' = link, NEW m, Works(mem, Blocks(mem), link, m), Returns(m, TRUE)
    PROVE  GoodStep
<1> DEFINE C == Blocks(mem)
           best == LargestFree(m)
           old == Overwritten(Changed(m))
           n == best.paras \div LineParas
<1>1. Tiled(mem, C, link) /\ Lends(mem, C, lent, arena[2]) /\ IInv /\ arena \in [Arena -> Nat]
  BY ArenaType DEF LentInv
<1> HIDE DEF C
<1>2. PICK D : Tiled(m, D, link) /\ Rearranged(mem, C, m, D)
  BY DEF Works, C
<1>3. best = Nothing \/ \E p \in D : p < Root /\ IsFree(m, p) /\ best = [seg |-> p, paras |-> m[p].size]
  BY <1>2, LargestFreeIs
<1>4. Lends(m, D, best, n)
  BY <1>3 DEF Lends
<1>5. n \in Nat
  <2>1. best.paras \in Nat
    BY <1>2, <1>3, BlockIs DEF Nothing
  <2> HIDE DEF best
  <2>. QED BY <2>1, LentAssumption
<1>6. WalkEnds(m) /\ Refresh(m, old)
  BY <1>2, AlwaysEnds DEF Returns
<1>7. ASSUME best = lent \/ (best.seg = lent.seg /\ n = arena[2])
      PROVE  n = arena[2] /\ best.seg = lent.seg /\ old = line
  <2>1. n = arena[2] /\ best.seg = lent.seg
    BY <1>1, <1>7 DEF Lends
  <2> HIDE DEF n, best
  <2>2. ASSUME NEW p PROVE Cells(arena, lent.seg, p) \cap Changed(m) = {}
    <3>1. Cells(arena, lent.seg, p) \subseteq FreeCells(mem, C)
      BY <1>1, CellsLent
    <3>2. Cells(arena, lent.seg, p) \subseteq FreeCells(m, D)
      BY <1>1, <1>2, <1>4, <2>1, CellsLent
    <3>3. \A q \in Cells(arena, lent.seg, p) : q \notin C /\ q \notin D
      BY <1>1, <1>2, <3>1, <3>2, FreeCellsAre
    <3>. QED BY <1>2, <3>3, ChangedIs
  <2>3. old = line
    BY <1>1, <2>2, NotOverwritten
  <2>. QED BY <2>1, <2>3
<1>8. Blocks(m) = D
  BY <1>2, WalksAre
<1>9. CASE best = lent \/ (best.seg = lent.seg /\ n = arena[2])
  <2>1. mem' = m /\ lent' = best /\ UNCHANGED <<arena, line, epoch>>
    BY <1>6, <1>7, <1>9 DEF Refresh, Enable
  <2>2. IInv'
    BY <1>1, <2>1, CallKeeps
  <2>3. arena'[2] = n
    BY <1>7, <1>9, <2>1
  <2> HIDE DEF n, best
  <2>4. LentInv'
    BY <1>2, <1>4, <1>8, <2>1, <2>2, <2>3 DEF LentInv
  <2>5. Left(m, C, D)
    BY <1>2 DEF Left, Rearranged
  <2>. QED BY <1>8, <2>1, <2>4, <2>5 DEF GoodStep, C
<1>10. CASE ~(best = lent \/ (best.seg = lent.seg /\ n = arena[2]))
  <2> DEFINE k == [q \in Para |-> IF q \in Heads(arena', best.seg) THEN Data ELSE m[q]]
             moved == best.seg # lent.seg
  <2>1. lent' = best /\ Enable(2, n, moved, old) /\ mem' = k
    BY <1>6, <1>10 DEF Refresh
  <2>2. ~(arena[2] = n /\ ~moved) /\ moved \in BOOLEAN
    BY <1>10
  <2> HIDE DEF n, best, old
  <2>3. IInv' /\ arena'[2] = n
    <3> HIDE DEF moved, k
    <3>. QED BY <1>1, <1>5, <2>1, <2>2, CallMoves
  <2>4. arena' \in [Arena -> Nat]
    BY <2>3 DEF IInv, L1Inv, L1Type
  <2>5. Heads(arena', best.seg) \subseteq FreeCells(m, D)
    BY <1>2, <1>4, <2>3, <2>4, CellsLent
  <2>6. \A q \in Heads(arena', best.seg) : q \notin D
    BY <1>2, <2>5, FreeCellsAre
  <2>7. m \in [Para -> Header \cup {Data}] /\ D \subseteq Para /\ Root \in D /\ \A q \in D : m[q] \in Header
    BY <1>2 DEF Tiled, MemType, BlockGood
  <2>8. \A q \in D : k[q] = m[q]
    BY <2>6, <2>7
  <2>9. \A q \in Para : k[q] # m[q] => q \in FreeCells(m, D)
    BY <2>5
  <2>10. MemType(k)
    BY <2>7 DEF MemType
  <2> HIDE DEF k
  <2>11. SameShape(m, k, D) /\ k[Root] = m[Root]
    BY <2>7, <2>8 DEF SameShape
  <2>12. Tiled(k, D, link)
    BY <1>2, <2>10, <2>11, ShapeTiles
  <2>13. Blocks(k) = D
    BY <2>12, WalksAre
  <2>14. Lends(k, D, best, n)
    BY <1>4, <2>8 DEF Lends, IsFree
  <2>15. FreeCells(k, D) = FreeCells(m, D)
    BY <2>8 DEF FreeCells, IsFree, Payload
  <2>16. LentInv'
    BY <2>1, <2>3, <2>12, <2>13, <2>14 DEF LentInv
  <2>17. Left(k, C, D)
    BY <1>2, <2>9, <2>15 DEF Left, Rearranged
  <2>. QED BY <2>1, <2>13, <2>16, <2>17 DEF GoodStep, C
<1>. QED BY <1>9, <1>10

\* A call that changes neither owners nor sizes, and does not refresh.
SameBlocks(m, C) ==
    /\ \A q \in Para \ C : m[q] = mem[q]
    /\ \A q \in C : m[q].size = mem[q].size /\ m[q].psp = mem[q].psp

\* SetUmbLink, and a process that ends without memory.
LEMMA SameGood ==
    ASSUME LentInv, DosCall, NEW m, Tiled(m, Blocks(mem), link'), SameBlocks(m, Blocks(mem)), Returns(m, FALSE)
    PROVE  GoodStep
<1> DEFINE C == Blocks(mem)
<1>1. Tiled(mem, C, link) /\ Lends(mem, C, lent, arena[2]) /\ IInv /\ arena \in [Arena -> Nat]
      /\ Tiled(m, C, link') /\ SameBlocks(m, C)
  BY ArenaType DEF LentInv
<1> HIDE DEF C
<1>2. mem' = m /\ lent' = lent /\ line' = Overwritten(Changed(m)) /\ UNCHANGED <<arena, epoch>>
  BY DEF Returns
<1>3. Overwritten(Changed(m)) = line
  <2>1. ASSUME NEW p PROVE Cells(arena, lent.seg, p) \cap Changed(m) = {}
    <3>1. Cells(arena, lent.seg, p) \subseteq FreeCells(mem, C)
      BY <1>1, CellsLent
    <3>2. \A q \in Cells(arena, lent.seg, p) : q \notin C
      BY <1>1, <3>1, FreeCellsAre
    <3>3. \A q \in Changed(m) : q \in C
      BY <1>1 DEF SameBlocks, Changed
    <3>. QED BY <3>2, <3>3
  <2>. QED BY <1>1, <2>1, NotOverwritten
<1>4. IInv'
  BY <1>1, <1>2, <1>3, CallKeeps
<1>5. Blocks(m) = C
  BY <1>1, WalksAre
<1>6. Lends(m, C, lent, arena[2])
  BY <1>1 DEF Lends, IsFree, SameBlocks
<1>7. LentInv'
  BY <1>1, <1>2, <1>4, <1>5, <1>6 DEF LentInv
<1>8. Left(m, C, C)
  BY <1>1 DEF Left, SameBlocks
<1>. QED BY <1>2, <1>5, <1>7, <1>8 DEF GoodStep, C

\* A call that refreshes unless it met a damaged header: it met none.
LEMMA ReturnedIs ==
    ASSUME LentInv, DosCall, link' = link, NEW r, Returned(mem, Blocks(mem), link, r), Returns(r.mem, r.rc # "MCBDESTRY")
    PROVE  GoodStep
<1>1. (r.rc # "MCBDESTRY") = TRUE /\ Works(mem, Blocks(mem), link, r.mem)
  BY DEF Returned
<1>2. Returns(r.mem, TRUE)
  BY <1>1
<1>. QED BY <1>1, <1>2, RefreshGood

\* INT 21h/48h and the loaders.
LEMMA AllocateStep ==
    ASSUME LentInv, NEW ps \in Psp, Allocate(ps)
    PROVE  GoodStep
<1>1. Tiled(mem, Blocks(mem), link) /\ DosCall /\ link' = link
  BY DEF LentInv, Allocate
<1>2. CASE \E size \in Sizes, fit \in Fit, area \in Area :
             \E r \in {DosMemAlloc(mem, link, size, fit, area, ps)} : Returns(r.mem, r.rc # "MCBDESTRY")
  <2>1. PICK size \in Sizes, fit \in Fit, area \in Area :
          \E r \in {DosMemAlloc(mem, link, size, fit, area, ps)} : Returns(r.mem, r.rc # "MCBDESTRY")
    BY <1>2
  <2> DEFINE r == DosMemAlloc(mem, link, size, fit, area, ps)
  <2>2. Returns(r.mem, r.rc # "MCBDESTRY") /\ size \in Nat
    BY <2>1, LentAssumption
  <2>3. Returned(mem, Blocks(mem), link, r)
    BY <1>1, <2>2, AllocWorks
  <2> HIDE DEF r
  <2>. QED BY <1>1, <2>2, <2>3, ReturnedIs
<1>3. CASE \E r \in {DosMemAllocLargest(mem, ps)} : Returns(r.mem, r.rc # "MCBDESTRY")
  <2> DEFINE r == DosMemAllocLargest(mem, ps)
  <2>1. Returns(r.mem, r.rc # "MCBDESTRY")
    BY <1>3
  <2>2. Returned(mem, Blocks(mem), link, r)
    BY <1>1, AllocLargestWorks
  <2> HIDE DEF r
  <2>. QED BY <1>1, <2>1, <2>2, ReturnedIs
<1>. QED BY <1>2, <1>3 DEF Allocate

\* DosMemLargest.
LEMMA QueryLargestStep ==
    ASSUME LentInv, NEW area \in Area, QueryLargest(area)
    PROVE  GoodStep
<1>1. Tiled(mem, Blocks(mem), link) /\ DosCall /\ link' = link
  BY DEF LentInv, QueryLargest
<1> DEFINE r == DosMemLargest(mem, link, area)
<1>2. Returns(r.mem, WalkEnds(r.mem))
  BY DEF QueryLargest
<1>3. Works(mem, Blocks(mem), link, r.mem)
  BY <1>1, LargestWorks
<1> HIDE DEF r
<1>4. WalkEnds(r.mem) = TRUE
  BY <1>3, AlwaysEnds DEF Works, WalkEnds
<1>5. Returns(r.mem, TRUE)
  BY <1>2, <1>4
<1>. QED BY <1>1, <1>3, <1>5, RefreshGood

\* The bridge is the kernel's.
LEMMA NotTheBridge ==
    ASSUME LentInv, NEW p, mem[p].psp # SYSTEM
    PROVE  p # Root
BY DEF LentInv, Tiled, Mcb

\* INT 21h/49h.
LEMMA FreeStep ==
    ASSUME LentInv, NEW p \in Blocks(mem), Free(p)
    PROVE  GoodStep
<1>1. Tiled(mem, Blocks(mem), link) /\ DosCall /\ link' = link /\ p # Root
  BY NotTheBridge DEF LentInv, Free
<1> DEFINE r == DosMemFree(mem, p)
<1>2. Returns(r.mem, r.rc = "OK")
  BY DEF Free
<1>3. Works(mem, Blocks(mem), link, r.mem) /\ r.rc = "OK"
  BY <1>1, FreeWorks
<1> HIDE DEF r
<1>4. Returns(r.mem, TRUE)
  BY <1>2, <1>3
<1>. QED BY <1>1, <1>3, <1>4, RefreshGood

\* INT 21h/4Ah and 31h.
LEMMA ResizeStep ==
    ASSUME LentInv, NEW p \in Blocks(mem), NEW size \in Sizes, NEW ps \in Psp, Resize1(p, size, ps)
    PROVE  GoodStep
<1>1. Tiled(mem, Blocks(mem), link) /\ DosCall /\ link' = link /\ p # Root /\ size \in Nat
  BY NotTheBridge, LentAssumption DEF LentInv, Resize1
<1> DEFINE r == DosMemChange(mem, p, size, ps)
<1>2. Returns(r.mem, r.rc # "MCBDESTRY")
  BY DEF Resize1
<1>3. Returned(mem, Blocks(mem), link, r)
  BY <1>1, ChangeWorks
<1> HIDE DEF r
<1>. QED BY <1>1, <1>2, <1>3, ReturnedIs

\* FreeProcessMem: when it freed nothing, it did not refresh.
LEMMA TerminateStep ==
    ASSUME LentInv, NEW ps \in Psp, Terminate(ps)
    PROVE  GoodStep
<1> DEFINE r == FreeProcessMem(mem, link, ps)
           C == Blocks(mem)
           b == \E p \in Changed(r.mem) : mem[p].psp = ps
<1>1. Tiled(mem, Blocks(mem), link) /\ DosCall
  BY DEF LentInv, Terminate
<1>2. Returns(r.mem, b) /\ link' = r.size
  BY DEF Terminate
<1>3. TerminationLeaves(mem, C, link, ps, r)
  BY <1>1, TerminationGives
<1> HIDE DEF r, C
<1>4. /\ Tiled(r.mem, C, link) /\ link' = link
      /\ \A q \in Para \ C : r.mem[q] = mem[q]
      /\ \A q \in C : /\ r.mem[q].size = mem[q].size
                      /\ r.mem[q].psp = IF mem[q].psp = ps THEN FREE ELSE mem[q].psp
  BY <1>2, <1>3 DEF TerminationLeaves
<1>5. CASE b
  <2>1. b = TRUE
    BY <1>5
  <2> HIDE DEF b
  <2>2. Returns(r.mem, TRUE)
    BY <1>2, <2>1
  <2>3. Works(mem, C, link, r.mem)
    BY <1>4 DEF Works, Rearranged
  <2>. QED BY <1>1, <1>4, <2>2, <2>3, RefreshGood DEF C
<1>6. CASE ~b
  <2>1. b = FALSE
    BY <1>6
  <2>2. ASSUME NEW q \in C, mem[q].psp = ps PROVE FALSE
    <3>1. r.mem[q].psp = FREE /\ ps # FREE /\ q \in Para
      BY <1>4, <2>2, PspIs DEF Tiled
    <3>2. q \in Changed(r.mem)
      BY <2>2, <3>1 DEF Changed
    <3>. QED BY <1>6, <2>2, <3>2
  <2>3. SameBlocks(r.mem, C)
    BY <1>4, <2>2 DEF SameBlocks
  <2> HIDE DEF b
  <2>4. Returns(r.mem, FALSE)
    BY <1>2, <2>1
  <2>. QED BY <1>1, <1>4, <2>3, <2>4, SameGood DEF C
<1>. QED BY <1>5, <1>6

\* INT 21h/5803h.
LEMMA SetUmbLinkStep ==
    ASSUME LentInv, NEW n \in {0, 1}, SetUmbLink(n)
    PROVE  GoodStep
<1> DEFINE r == DosUmbLink(mem, link, n)
<1>1. Tiled(mem, Blocks(mem), link) /\ DosCall
  BY DEF LentInv, SetUmbLink
<1>2. Returns(r.mem, FALSE) /\ link' = r.link
  BY DEF SetUmbLink
<1>3. LinkLeaves(mem, Blocks(mem), n, r)
  BY <1>1, UmbLinkKeeps
<1> HIDE DEF r
<1>4. Tiled(r.mem, Blocks(mem), link') /\ SameBlocks(r.mem, Blocks(mem))
  BY <1>2, <1>3 DEF LinkLeaves, SameBlocks
<1>. QED BY <1>1, <1>2, <1>4, SameGood

\* Paragraphs that are not headers are written.
LEMMA WritesGood ==
    ASSUME LentInv, NEW k, k \in [Para -> Header \cup {Data}], \A q \in Blocks(mem) : k[q] = mem[q]
    PROVE  Tiled(k, Blocks(mem), link) /\ Blocks(k) = Blocks(mem) /\ FreeCells(k, Blocks(mem)) = FreeCells(mem, Blocks(mem))
           /\ \A n : Lends(mem, Blocks(mem), lent, n) => Lends(k, Blocks(mem), lent, n)
<1> DEFINE C == Blocks(mem)
<1>1. Tiled(mem, C, link) /\ \A q \in C : k[q] = mem[q]
  BY DEF LentInv
<1> HIDE DEF C
<1>2. MemType(k) /\ Root \in C /\ \A q \in C : mem[q] \in Header
  BY <1>1 DEF MemType, Tiled, BlockGood
<1>3. SameShape(mem, k, C) /\ k[Root] = mem[Root]
  BY <1>1, <1>2 DEF SameShape
<1>4. Tiled(k, C, link)
  BY <1>1, <1>2, <1>3, ShapeTiles
<1>5. Blocks(k) = C
  BY <1>4, WalksAre
<1>6. FreeCells(k, C) = FreeCells(mem, C)
  BY <1>1 DEF FreeCells, IsFree, Payload
<1>7. \A n : Lends(mem, C, lent, n) => Lends(k, C, lent, n)
  BY <1>1 DEF Lends, IsFree
<1>. QED BY <1>4, <1>5, <1>6, <1>7 DEF C

\* A program writes where the arena is not.
LEMMA ProgramWritesStep ==
    ASSUME LentInv, NEW q \in Owned(mem), ProgramWrites(q)
    PROVE  LentInv'
<1> DEFINE k == [mem EXCEPT ![q] = Data]
<1>1. /\ Tiled(mem, Blocks(mem), link) /\ Lends(mem, Blocks(mem), lent, arena[2]) /\ IInv /\ arena \in [Arena -> Nat]
      /\ mem \in [Para -> Header \cup {Data}] /\ DosCall
  BY ArenaType DEF LentInv, ProgramWrites, Tiled, MemType
<1>2. q \in Para /\ q \notin Blocks(mem) /\ q \notin FreeCells(mem, Blocks(mem))
  BY <1>1, OwnedIs
<1>3. k \in [Para -> Header \cup {Data}] /\ \A x \in Blocks(mem) : k[x] = mem[x]
  BY <1>1, <1>2
<1>4. mem' = k /\ line' = Overwritten({q}) /\ UNCHANGED <<link, lent, arena, epoch>>
  BY DEF ProgramWrites
<1>5. Overwritten({q}) = line
  <2>1. ASSUME NEW p PROVE Cells(arena, lent.seg, p) \cap {q} = {}
    BY <1>1, <1>2, CellsLent
  <2>. QED BY <1>1, <2>1, NotOverwritten
<1>6. IInv'
  BY <1>1, <1>4, <1>5, CallKeeps
<1> HIDE DEF k
<1>7. Tiled(k, Blocks(mem), link) /\ Blocks(k) = Blocks(mem) /\ Lends(k, Blocks(mem), lent, arena[2])
  BY <1>1, <1>3, WritesGood
<1>. QED BY <1>4, <1>6, <1>7 DEF LentInv

\* The cache does not choose the size of arena 2.
LEMMA CacheKeepsArena ==
    ASSUME IInv, CacheStep
    PROVE  SdNext /\ arena'[2] = arena[2]
<1>1. SdNext
  BY DEF CacheStep, SdNext
<1>2. CASE EnableArena
  <2>1. PICK a \in Arena, moved \in BOOLEAN : \E n \in ArenaLines[a] : Enable(a, n, moved, line)
    BY <1>2 DEF EnableArena
  <2>2. PICK n \in ArenaLines[a] : Enable(a, n, moved, line)
    BY <2>1
  <2>3. a # 2
    BY LentAssumption
  <2>4. arena' = arena \/ arena' = [arena EXCEPT ![a] = n]
    BY <2>2 DEF Enable
  <2>5. arena \in [Arena -> Nat] /\ 2 \in Arena
    BY ArenaType DEF Arena
  <2>6. arena'[2] = arena[2]
    BY <2>3, <2>4, <2>5
  <2>. QED BY <1>1, <2>6
<1>3. CASE ~EnableArena
  <2>1. DiskInitialize => arena' = arena
    BY DEF DiskInitialize
  <2>2. ReadStep => arena' = arena
    BY DEF ReadStep
  <2>3. \A S \in Requests : ReadHit(S) \/ ReadCard(S) \/ DiskWrite(S) \/ WriteFails(S) \/ Trim(S) => arena' = arena
    BY DEF ReadHit, ReadCard, DiskWrite, WriteFails, Trim
  <2>4. arena' = arena
    BY <1>3, <2>1, <2>2, <2>3 DEF CacheStep
  <2>. QED BY <1>1, <2>4
<1>. QED BY <1>1, <1>2, <1>3

\* The cache writes in the block it was lent, and nowhere else.
LEMMA CacheStepGood ==
    ASSUME LentInv, CacheStep
    PROVE  GoodStep
<1> DEFINE C == Blocks(mem)
<1>1. /\ Tiled(mem, C, link) /\ Lends(mem, C, lent, arena[2]) /\ IInv
      /\ mem \in [Para -> Header \cup {Data}] /\ C \subseteq Para
  BY DEF LentInv, Tiled, MemType
<1>2. SdNext /\ arena'[2] = arena[2] /\ link' = link /\ lent' = lent
  BY <1>1, CacheKeepsArena DEF CacheStep
<1>3. IInv'
  BY <1>1, <1>2, StepIsGood
<1>4. arena' \in [Arena -> Nat]
  BY <1>3 DEF IInv, L1Inv, L1Type
<1> HIDE DEF C
<1>5. \A p : Cells(arena', lent.seg, p) \subseteq FreeCells(mem, C)
  BY <1>1, <1>2, <1>4, CellsLent
<1>6. \A p : \A q \in Cells(arena', lent.seg, p) : q \notin C
  BY <1>1, <1>5, FreeCellsAre
<1>7. mem' = [q \in Para |->
              IF \E p \in Slots(arena') : /\ q \in Cells(arena', lent.seg, p)
                                          /\ p \in Slots(arena) => line'[p] # line[p]
              THEN Data ELSE mem[q]]
  BY DEF CacheStep, LinesToMem
<1>8. \A q \in C : mem'[q] = mem[q]
  BY <1>1, <1>6, <1>7
<1>9. \A q \in Para : mem'[q] # mem[q] => q \in FreeCells(mem, C)
  BY <1>5, <1>7
<1>10. mem' \in [Para -> Header \cup {Data}]
  BY <1>1, <1>7
<1>11. Tiled(mem', C, link) /\ Blocks(mem') = C /\ FreeCells(mem', C) = FreeCells(mem, C)
       /\ Lends(mem', C, lent, arena[2])
  BY <1>1, <1>8, <1>10, WritesGood DEF C
<1>12. LentInv'
  BY <1>2, <1>3, <1>11 DEF LentInv
<1>13. Left(mem', C, C)
  BY <1>9, <1>11 DEF Left
<1>. QED BY <1>11, <1>12, <1>13 DEF GoodStep, C

-----------------------------------------------------------------------------
(* The specification.                                                      *)

\* Memory at the start.
LEMMA MemInitTiled ==
    ASSUME MemInit
    PROVE  Tiled(mem, {FirstMcb, LowUsed + 2, Root, Root + 1}, link)
<1> DEFINE f == LowUsed + 2
           t == Root + 1
           C == {FirstMcb, f, Root, t}
<1>1. /\ LowUsed \in Nat /\ Root \in Nat /\ Top \in Nat /\ LowUsed + 3 < Root /\ Root + 2 < Top /\ FirstMcb = 1
      /\ FREE \in Nat /\ SYSTEM \in Nat /\ Para = 1 .. Top - 1
  BY MemAssumption, PspIs, Bounds
<1>2. /\ FirstMcb \in Para /\ f \in Para /\ Root \in Para /\ t \in Para
      /\ FirstMcb < f /\ f < Root /\ Root < t /\ f # FirstMcb /\ f # Root /\ f # t /\ Root # FirstMcb /\ t # FirstMcb /\ t # Root
  BY <1>1
<1>3. link = 0 /\ mem = [p \in Para |->
                CASE p = FirstMcb -> Mcb("M", SYSTEM, LowUsed)
                  [] p = f        -> Mcb("Z", FREE, Root - LowUsed - 3)
                  [] p = Root     -> Mcb("M", SYSTEM, 0)
                  [] p = t        -> Mcb("Z", FREE, Top - Root - 2)
                  [] OTHER        -> Data]
  BY DEF MemInit
<1>4. /\ mem[FirstMcb] = Mcb("M", SYSTEM, LowUsed)
      /\ mem[f] = Mcb("Z", FREE, Root - LowUsed - 3)
      /\ mem[Root] = Mcb("M", SYSTEM, 0)
      /\ mem[t] = Mcb("Z", FREE, Top - Root - 2)
      /\ \A p \in Para \ C : mem[p] = Data
      /\ mem = [p \in Para |-> mem[p]]
  <2> HIDE DEF f, t
  <2>. QED BY <1>2, <1>3
<1>5. /\ Mcb("M", SYSTEM, LowUsed) \in Header /\ Mcb("Z", FREE, Root - LowUsed - 3) \in Header
      /\ Mcb("M", SYSTEM, 0) \in Header /\ Mcb("Z", FREE, Top - Root - 2) \in Header
  <2>1. Root - LowUsed - 3 \in Nat /\ Top - Root - 2 \in Nat
    BY <1>1
  <2>. QED BY <1>1, <2>1 DEF Mcb, Header
<1>6. /\ NextMcb(mem, FirstMcb) = f /\ NextMcb(mem, f) = Root
      /\ NextMcb(mem, Root) = t /\ NextMcb(mem, t) = Top
  <2>1. mem[FirstMcb].size = LowUsed /\ mem[f].size = Root - LowUsed - 3 /\ mem[Root].size = 0 /\ mem[t].size = Top - Root - 2
    BY <1>4 DEF Mcb
  <2>2. /\ NextMcb(mem, FirstMcb) = FirstMcb + LowUsed + 1 /\ NextMcb(mem, f) = f + (Root - LowUsed - 3) + 1
        /\ NextMcb(mem, Root) = Root + 0 + 1 /\ NextMcb(mem, t) = t + (Top - Root - 2) + 1
    BY <2>1, Zenon DEF NextMcb
  <2> HIDE DEF C
  <2>3. /\ FirstMcb + LowUsed + 1 = f /\ f + (Root - LowUsed - 3) + 1 = Root
        /\ Root + 0 + 1 = t /\ t + (Top - Root - 2) + 1 = Top
    BY <1>1
  <2>. QED BY <2>2, <2>3
<1>7. mem[FirstMcb].type = "M" /\ mem[f].type = "Z" /\ mem[Root].type = "M" /\ mem[t].type = "Z"
  BY <1>4 DEF Mcb
<1>8. MemType(mem)
  <2> HIDE DEF f, t
  <2>. QED BY <1>4, <1>5 DEF MemType
<1>9. f # Top /\ t # Top
  BY <1>1
<1>10. Root \in Nat /\ Top \in Nat /\ f \in Nat /\ t \in Nat /\ FirstMcb \in Nat
  BY <1>1
<1> HIDE DEF f, t
<1>11. \A p \in C : BlockGood(mem, C, link, p)
  BY <1>2, <1>3, <1>4, <1>5, <1>6, <1>7, <1>9 DEF BlockGood, Ends
<1>12. \A p \in C, q \in C : p < q => NextMcb(mem, p) <= q
  BY <1>2, <1>6, <1>10
<1>. QED BY <1>2, <1>3, <1>4, <1>8, <1>11, <1>12 DEF Tiled, f, t

\* The start, with no arena.
LEMMA LentInitGood == LentInit => LentInv
<1> SUFFICES ASSUME LentInit PROVE LentInv
  OBVIOUS
<1> DEFINE C == {FirstMcb, LowUsed + 2, Root, Root + 1}
<1>1. Tiled(mem, C, link)
  BY MemInitTiled DEF LentInit
<1> HIDE DEF C
<1>2. Blocks(mem) = C
  BY <1>1, WalksAre
<1>3. IInv
  BY InitIsGood DEF LentInit
<1>4. lent = Nothing /\ arena[2] = 0
  BY DEF LentInit, SdInit, Arena
<1>5. 0 \div LineParas = 0
  BY LentAssumption
<1>6. Lends(mem, C, lent, arena[2])
  BY <1>4, <1>5 DEF Lends, Nothing
<1>. QED BY <1>1, <1>2, <1>3, <1>6 DEF LentInv

\* Nothing happens.
LEMMA StutterGood ==
    ASSUME LentInv, UNCHANGED vars
    PROVE  GoodStep
<1>1. UNCHANGED <<mem, link, lent, arena>> /\ UNCHANGED sdvars
  BY DEF vars, sdvars
<1>2. IInv'
  BY <1>1, StepIsGood DEF LentInv
<1>3. Blocks(mem)' = Blocks(mem)
  BY <1>1
<1>4. LentInv'
  BY <1>1, <1>2, <1>3 DEF LentInv
<1>. QED BY <1>1, <1>4 DEF GoodStep, Left

\* Every step but a program's.
LEMMA StepGood ==
    ASSUME LentInv, [LentNext]_vars
    PROVE  GoodStep \/ (LentInv' /\ \E q \in Owned(mem) : ProgramWrites(q))
<1>1. ASSUME NEW ps \in Psp, Allocate(ps) \/ Terminate(ps) PROVE GoodStep
  BY <1>1, AllocateStep, TerminateStep
<1>2. ASSUME NEW area \in Area, QueryLargest(area) PROVE GoodStep
  BY <1>2, QueryLargestStep
<1>3. ASSUME NEW p \in Blocks(mem), Free(p) PROVE GoodStep
  BY <1>3, FreeStep
<1>4. ASSUME NEW p \in Blocks(mem), NEW size \in Sizes, NEW ps \in Psp, Resize1(p, size, ps) PROVE GoodStep
  BY <1>4, ResizeStep
<1>5. ASSUME NEW n \in {0, 1}, SetUmbLink(n) PROVE GoodStep
  BY <1>5, SetUmbLinkStep
<1>6. ASSUME NEW q \in Owned(mem), ProgramWrites(q) PROVE LentInv'
  BY <1>6, ProgramWritesStep
<1>7. CacheStep => GoodStep
  BY CacheStepGood
<1>8. UNCHANGED vars => GoodStep
  BY StutterGood
<1>. QED BY <1>1, <1>2, <1>3, <1>4, <1>5, <1>6, <1>7, <1>8 DEF LentNext

\* Every state of the two together: the DOS calls of memmgr.cpp and the steps
\* of sdcard.c keep memory tiled, the arena in its block, and the cache true.
THEOREM LentInvariance == LentSpec => []LentInv
<1>1. LentInit => LentInv
  BY LentInitGood
<1>2. LentInv /\ [LentNext]_vars => LentInv'
  BY StepGood DEF GoodStep
<1>. QED BY <1>1, <1>2, PTL DEF LentSpec

\* DosMemAlloc, DosMemFree, DosMemChange, FreeProcessMem, DosUmbLink: the
\* chains tile memory through every split and join.
THEOREM ChainsTileHolds == LentSpec => []ChainsTile
<1>1. LentInv => ChainsTile
  BY TiledIsTiled DEF LentInv
<1>. QED BY <1>1, LentInvariance, PTL

\* DosMemLargest and DosMemAlloc: what the first tells, the second can do, with
\* any strategy.
THEOREM LargestIsObtainableHolds == LentSpec => []LargestIsObtainable
<1>1. LentInv => LargestIsObtainable
  BY TiledObtains DEF LentInv
<1>. QED BY <1>1, LentInvariance, PTL

\* FreeProcessMem gives back all blocks of the process and leaves the link.
THEOREM TerminationFreesAllHolds == LentSpec => []TerminationFreesAll
<1>1. LentInv => TerminationFreesAll
  BY TiledFreesAll DEF LentInv
<1>. QED BY <1>1, LentInvariance, PTL

\* refresh_ff_low_cache_arena: the arena lies in one free block, and no line that
\* DOS has written to is taken for a sector.
THEOREM LentIsFreeHolds == LentSpec => []LentIsFree
<1>1. LentInv => LentIsFree
  <2> SUFFICES ASSUME LentInv, arena[2] > 0
               PROVE  \E p \in Walk(mem, FirstMcb) :
                         /\ p < Root /\ IsFree(mem, p)
                         /\ \A s \in Slots(arena) : Cells(arena, lent.seg, s) \subseteq p + 1 .. p + mem[p].size
    BY GoodLinesAreTrue DEF LentIsFree, LentInv
  <2> DEFINE C == Blocks(mem)
  <2>1. Tiled(mem, C, link) /\ Lends(mem, C, lent, arena[2]) /\ arena \in [Arena -> Nat]
    BY ArenaType DEF LentInv
  <2> HIDE DEF C
  <2>2. \A s : \E p \in C : /\ p < Root /\ IsFree(mem, p) /\ lent.seg = p
                            /\ Cells(arena, lent.seg, s) \subseteq Payload(mem, p)
    BY <2>1, CellsLent
  <2>3. PICK p \in C : p < Root /\ IsFree(mem, p) /\ lent.seg = p
    BY <2>2
  <2>4. \A s \in Slots(arena) : Cells(arena, lent.seg, s) \subseteq p + 1 .. p + mem[p].size
    BY <2>2, <2>3 DEF Payload
  <2>5. p \in Walk(mem, FirstMcb)
    BY <2>1, <2>3, WalksAre
  <2>. QED BY <2>3, <2>4, <2>5
<1>. QED BY <1>1, LentInvariance, PTL

\* No call and no step of the cache writes to memory that has an owner before
\* and after it.
THEOREM ProgramsUntouchedHolds == LentSpec => ProgramsUntouched
<1> DEFINE W == \E q \in Owned(mem) : ProgramWrites(q)
           U == WrittenByStep \cap Owned(mem) \cap Owned(mem') = {}
<1>1. LentInv /\ [LentNext]_vars => [W \/ U]_vars
  <2> SUFFICES ASSUME LentInv, [LentNext]_vars, ~W, NEW q \in WrittenByStep, q \in Owned(mem), q \in Owned(mem') PROVE FALSE
    OBVIOUS
  <2>1. GoodStep
    BY StepGood
  <2> DEFINE C == Blocks(mem)
             D == Blocks(mem')
  <2>2. Tiled(mem, C, link) /\ LentInv' /\ Left(mem', C, D)
    BY <2>1 DEF GoodStep, LentInv
  <2>3. Tiled(mem', D, link') /\ Lends(mem', D, lent', arena'[2]) /\ arena' \in [Arena -> Nat]
    BY <2>2 DEF LentInv, IInv, L1Inv, L1Type
  <2> HIDE DEF C, D
  <2>4. q \notin C /\ q \notin D /\ q \notin FreeCells(mem', D) /\ q \in Para
    BY <2>2, <2>3, OwnedIs
  <2>5. mem'[q] = mem[q]
    BY <2>2, <2>4 DEF Left
  <2>6. PICK p \in Slots(arena') : q \in Cells(arena', lent'.seg, p)
    BY <2>5 DEF WrittenByStep
  <2>7. Cells(arena', lent'.seg, p) \subseteq FreeCells(mem', D)
    BY <2>3, CellsLent
  <2>. QED BY <2>4, <2>6, <2>7
<1>2. ProgramsUntouched <=> [][W \/ U]_vars
  BY DEF ProgramsUntouched
<1>. QED BY <1>1, <1>2, LentInvariance, PTL DEF LentSpec

=============================================================================
