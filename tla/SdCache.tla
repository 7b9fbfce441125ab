------------------------------ MODULE SdCache ------------------------------
(***************************************************************************)
(* The two-level sector cache of src/drivers/sdcard/sdcard.c.  L1 is       *)
(* direct mapped over up to three arenas of SRAM, L2 over the tail of the  *)
(* QSPI PSRAM that its other owners leave free; both are write-through.    *)
(* The arenas come and go (arena 2 is the largest free block of DOS), and  *)
(* every such change moves every sector to another slot.                   *)
(*                                                                         *)
(* Contents are opaque.  An L1 line is known by its slot: the memory of an *)
(* arena is only read through lines whose epoch says they were stored      *)
(* since the arena was attached.  A multi-sector hit is copied sector by   *)
(* sector (ReadStep); nothing else runs in between, core 0 being its only  *)
(* user.  The host link cache behind dc_read is a stub in this build.      *)
(***************************************************************************)
EXTENDS Integers

CONSTANTS
    Sectors,    \* sectors of the card
    MaxCount,   \* sectors of one request
    Value,      \* contents of a sector
    Garbage,    \* what a read through a NULL line yields: bytes of address 8
    Foreign,    \* what another owner of the memory has left in a line
    ArenaLines, \* the sizes each arena may have, in lines
    OwnerLines, \* what reclaimed memory of L2 may look like, read as a line
    QspiLines,  \* lines between the minimum and the ceiling of L2
    MaxEpoch    \* the largest value of the epoch counters, 2^32 - 1

ASSUME SdAssumption ==
    /\ Sectors \in Nat \ {0}
    /\ MaxCount \in Nat \ {0}
    /\ Value # {}
    /\ Garbage \notin Value /\ Foreign \notin Value /\ Garbage # Foreign
    /\ ArenaLines \in [0 .. 2 -> SUBSET Nat]
    /\ OwnerLines \subseteq [tag : 0 .. Sectors - 1, epoch : 0 .. MaxEpoch, data : Value \cup {Garbage, Foreign}]
    /\ QspiLines \in Nat \ {0}
    /\ MaxEpoch \in Nat \ {0}

Sector == 0 .. Sectors - 1
Arena  == 0 .. 2
Owner  == {"XMS", "NATIVE"}
Bytes  == Value \cup {Garbage, Foreign}
Line   == [tag : Sector, epoch : 0 .. MaxEpoch, data : Bytes]
Idle   == [on |-> FALSE]

VARIABLES
    arena,   \* ff_stack_cache_arena: line_count of each (0: no storage)
    line,    \* the lines of L1, by slot
    epoch,   \* ff_stack_cache_epoch
    active,  \* ff_qspi_cache_active_lines
    floor,   \* ff_qspi_cache_owner_floor, in lines above the minimum
    qline,   \* the memory of L2, by slot, whoever owns it
    qepoch,  \* ff_qspi_cache_epoch
    qon,     \* ff_qspi_cache_enabled
    ready,   \* ~STA_NOINIT
    card,    \* the contents of the card
    rd,      \* the cached read in progress
    out      \* what the last read has returned, for its sectors

sdvars == <<arena, line, epoch, active, floor, qline, qepoch, qon, ready, card, rd, out>>

-----------------------------------------------------------------------------
(* Slots and lines.                                                        *)

Total(a) == a[0] + a[1] + a[2]
Slots(a) == 0 .. Total(a) - 1
QSlots   == 0 .. QspiLines - 1

Slot(s)  == s % Total(arena)
QSlot(s) == s % QspiLines

\* An invalid line: a lookup stops at its epoch, whatever tag and contents it
\* has, and a store replaces all three.
Blank == [tag |-> 0, epoch |-> 0, data |-> Garbage]

InL1(s) ==
    /\ Total(arena) # 0
    /\ line[Slot(s)].epoch = epoch
    /\ line[Slot(s)].tag = s

InL2(s) ==
    /\ qon
    /\ QSlot(s) < active
    /\ qline[QSlot(s)].epoch = qepoch
    /\ qline[QSlot(s)].tag = s

\* The lines of the two levels after the sectors of S, with the contents of
\* src, have been stored in ascending order: the last one on a slot stays.
Last(S) == CHOOSE s \in S : \A t \in S : t <= s

Stored(S, src) ==
    [p \in Slots(arena) |->
        LET here == {s \in S : Slot(s) = p}
        IN  IF here = {} THEN line[p]
            ELSE [tag |-> Last(here), epoch |-> epoch, data |-> src[Last(here)]]]

QStored(S, src) ==
    [p \in QSlots |->
        LET here == {s \in S : QSlot(s) = p}
        IN  IF ~qon \/ p >= active \/ here = {} THEN qline[p]
            ELSE [tag |-> Last(here), epoch |-> qepoch, data |-> src[Last(here)]]]

\* Mutant: a failed write drops its sectors from L1 only.
DroppedL1(S) ==
    /\ line' = [p \in Slots(arena) |->
                   IF line[p].epoch = epoch /\ line[p].tag \in S
                   THEN Blank ELSE line[p]]
    /\ qline' = qline

\* ff_stack_cache_invalidate_range, of both levels.
Dropped(S) ==
    /\ line' = [p \in Slots(arena) |->
                   IF line[p].epoch = epoch /\ line[p].tag \in S
                   THEN Blank ELSE line[p]]
    /\ qline' = [p \in QSlots |->
                   IF qon /\ p < active /\ qline[p].epoch = qepoch /\ qline[p].tag \in S
                   THEN Blank ELSE qline[p]]

\* The sectors of a request; the card refuses one that runs past its end.
Request(s, n) == s .. s + n - 1

Requests == {S \in {Request(s, n) : s \in Sector, n \in 1 .. MaxCount} : S \subseteq Sector}

NoOut == [s \in {} |-> Garbage]

-----------------------------------------------------------------------------
SdInit ==
    /\ arena = [a \in Arena |-> 0]
    /\ line = [p \in {} |-> Blank]
    /\ epoch = 1
    /\ active = 0
    /\ floor = [o \in Owner |-> 0]
    /\ qline = [p \in QSlots |-> Blank]
    /\ qepoch = 1
    /\ qon = FALSE
    /\ ready = FALSE
    /\ card \in [Sector -> Value]
    /\ rd = Idle
    /\ out = NoOut

\* sdcard_enable_ff_cache_arena: arena a gets n lines, `moved' if they are
\* not where they were.  If the geometry is unchanged the lines stay as they
\* are, which is old.
Enable(a, n, moved, old) ==
    IF arena[a] = n /\ ~moved THEN line' = old /\ UNCHANGED <<arena, epoch>>
    ELSE /\ arena' = [arena EXCEPT ![a] = n]
         /\ line' = [p \in Slots(arena') |-> Blank]
         /\ epoch' = 1

\* sdcard_enable_ff_stack_cache and sdcard_enable_ff_dos_cache.
EnableArena ==
    /\ ~rd.on
    /\ \E a \in Arena, moved \in BOOLEAN : \E n \in ArenaLines[a] :
         /\ n = 0 => ~moved
         /\ Enable(a, n, moved, line)
    /\ out' = NoOut
    /\ UNCHANGED <<active, floor, qline, qepoch, qon, ready, card, rd>>

\* What the floors leave of L2.
Active(f) ==
    LET top == IF f["XMS"] >= f["NATIVE"] THEN f["XMS"] ELSE f["NATIVE"]
    IN  IF top >= QspiLines THEN 0 ELSE QspiLines - top

\* Mutant: lines given back by an owner are taken as they are.
ResizeKeeps(f, old) == active' = Active(f) /\ qline' = qline

\* ff_qspi_cache_resize, with L2 enabled: what grows starts invalid.
Resize(f, old) ==
    /\ active' = Active(f)
    /\ qline' = [p \in QSlots |->
                   IF old <= p /\ p < Active(f) THEN Blank
                   ELSE qline[p]]

EnableQspi ==
    /\ ~rd.on
    /\ ~qon
    /\ qon' = TRUE
    /\ qepoch' = 1
    /\ Resize(floor, 0)
    /\ out' = NoOut
    /\ UNCHANGED <<arena, line, epoch, floor, ready, card, rd>>

\* sdcard_ff_qspi_cache_set_floor: XMS moves its floor both ways, the native
\* heap only up (arm_ff_qspi_claim_until).
SetFloor(o, n) ==
    /\ ~rd.on
    /\ o = "NATIVE" => n > floor[o]
    /\ floor' = [floor EXCEPT ![o] = n]
    /\ IF qon THEN Resize(floor', active) ELSE active' = 0 /\ UNCHANGED qline
    /\ out' = NoOut
    /\ UNCHANGED <<arena, line, epoch, qepoch, qon, ready, card, rd>>

\* The owner of reclaimed memory writes into it.
OwnerWrites(p, l) ==
    /\ ~rd.on
    /\ p >= active
    /\ qline' = [qline EXCEPT ![p] = l]
    /\ out' = NoOut
    /\ UNCHANGED <<arena, line, epoch, active, floor, qepoch, qon, ready, card, rd>>

\* ff_stack_cache_invalidate_all, of L1 and of L2.  A counter that wraps to
\* the invalid epoch starts again from 1, with every line invalid.
Bump ==
    IF Total(arena) = 0 THEN UNCHANGED <<epoch, line>>
    ELSE IF epoch = MaxEpoch
    THEN epoch' = 1 /\ line' = [p \in Slots(arena) |-> Blank]
    ELSE epoch' = epoch + 1 /\ UNCHANGED line

QBump ==
    IF ~qon THEN UNCHANGED <<qepoch, qline>>
    ELSE IF qepoch = MaxEpoch
    THEN /\ qepoch' = 1
         /\ qline' = [p \in QSlots |->
                        IF p < active THEN Blank ELSE qline[p]]
    ELSE qepoch' = qepoch + 1 /\ UNCHANGED qline

\* disk_initialize: the card may have been replaced; it may not come up.
DiskInitialize ==
    /\ ~rd.on
    /\ Bump
    /\ QBump
    /\ ready' \in BOOLEAN
    /\ card' \in [Sector -> Value]
    /\ out' = NoOut
    /\ UNCHANGED <<arena, active, floor, qon, rd>>

-----------------------------------------------------------------------------
(* disk_read, disk_write and CTRL_TRIM.                                    *)

\* ff_stack_cache_read_active has found every sector in L1 or L2.
ReadHit(S) ==
    /\ ~rd.on
    /\ ready
    /\ \A s \in S : InL1(s) \/ InL2(s)
    /\ rd' = [on |-> TRUE, left |-> S]
    /\ out' = NoOut
    /\ UNCHANGED <<arena, line, epoch, active, floor, qline, qepoch, qon, ready, card>>

\* Its second loop, for the next sector: an L2 hit is promoted into L1, onto
\* whatever its slot held; a sector that is no longer there is read through
\* the NULL that ff_qspi_cache_find returns, and stored in L1 like a hit.
Next1 == CHOOSE s \in rd.left : \A t \in rd.left : s <= t

Found(s) ==
    IF InL1(s) THEN line[Slot(s)].data
    ELSE IF InL2(s) THEN qline[QSlot(s)].data ELSE Garbage

Promoted(s) == IF InL1(s) THEN line ELSE Stored({s}, [t \in {s} |-> Found(t)])

ReadStep ==
    /\ rd.on
    /\ LET s == Next1 IN
         /\ out' = [t \in DOMAIN out \cup {s} |-> IF t = s THEN Found(s) ELSE out[t]]
         /\ line' = Promoted(s)
         /\ rd' = IF rd.left = {s} THEN Idle ELSE [rd EXCEPT !.left = @ \ {s}]
    /\ UNCHANGED <<arena, epoch, active, floor, qline, qepoch, qon, ready, card>>

\* The card serves the rest and both levels keep it.
ReadCard(S) ==
    /\ ~rd.on
    /\ ready
    /\ \E s \in S : ~InL1(s) /\ ~InL2(s)
    /\ out' = [s \in S |-> card[s]]
    /\ line' = Stored(S, card)
    /\ qline' = QStored(S, card)
    /\ UNCHANGED <<arena, epoch, active, floor, qepoch, qon, ready, card, rd>>

Written(S, new) ==
    /\ card' = [s \in Sector |-> IF s \in S THEN new[s] ELSE card[s]]
    /\ line' = Stored(S, new)
    /\ qline' = QStored(S, new)

DiskWrite(S) ==
    /\ ~rd.on
    /\ ready
    /\ \E new \in [S -> Value] : Written(S, new)
    /\ out' = NoOut
    /\ UNCHANGED <<arena, epoch, active, floor, qepoch, qon, ready, rd>>

\* A write that fails may have reached any part of its sectors; a trim that
\* succeeds leaves them with contents of the card's choice.
WriteFails(S) ==
    /\ ~rd.on
    /\ \E new \in [S -> Value] :
         card' = [s \in Sector |-> IF s \in S /\ ready THEN new[s] ELSE card[s]]
    /\ Dropped(S)
    /\ out' = NoOut
    /\ UNCHANGED <<arena, epoch, active, floor, qepoch, qon, ready, rd>>

Trim(S) ==
    /\ ready
    /\ WriteFails(S)

SdNext ==
    \/ EnableArena
    \/ EnableQspi
    \/ \E o \in Owner, n \in 0 .. QspiLines : SetFloor(o, n)
    \/ \E p \in QSlots, l \in OwnerLines : OwnerWrites(p, l)
    \/ DiskInitialize
    \/ \E S \in Requests : ReadHit(S) \/ ReadCard(S) \/ DiskWrite(S) \/ WriteFails(S) \/ Trim(S)
    \/ ReadStep

SdSpec == SdInit /\ [][SdNext]_sdvars

-----------------------------------------------------------------------------
(* Properties.                                                             *)

TypeOK ==
    /\ arena \in [Arena -> Nat]
    /\ line \in [Slots(arena) -> Line]
    /\ epoch \in 1 .. MaxEpoch
    /\ active \in 0 .. QspiLines
    /\ floor \in [Owner -> Nat]
    /\ qline \in [QSlots -> Line]
    /\ qepoch \in 1 .. MaxEpoch
    /\ qon \in BOOLEAN
    /\ ready \in BOOLEAN
    /\ card \in [Sector -> Value]
    /\ \/ rd = Idle
       \/ rd.on /\ rd = [on |-> TRUE, left |-> rd.left] /\ rd.left \subseteq Sector /\ rd.left # {}
    /\ \A s \in DOMAIN out : s \in Sector /\ out[s] \in Bytes

\* A sector that either level would hand out is the sector on the card, or
\* what a read through NULL has left there: no change of the arenas, of the
\* reclaim floor, of the card or of the epochs makes an old one valid again.
LinesTrue ==
    \A s \in Sector :
        /\ InL1(s) => line[Slot(s)].data \in {card[s], Garbage}
        /\ InL2(s) => qline[QSlot(s)].data = card[s]

\* A read through the cache returns the card's sectors, or for some of them
\* the garbage of a NULL line: never a sector's former contents, nor another's.
ReadsTrue == \A s \in DOMAIN out : out[s] \in {card[s], Garbage}

\* "prove the complete request is present ... before modifying the
\* destination buffer" (read_active): what is then copied is the request.
ReadsComplete == \A s \in DOMAIN out : out[s] # Garbage

=============================================================================
