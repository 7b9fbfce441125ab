---------------------------- MODULE Ega128Paging ----------------------------
(***************************************************************************)
(* The demand-paged guest RAM of boards without QSPI PSRAM                 *)
(* (src/src/ega128_paging.c): an 8 MiB guest address space behind a small  *)
(* write-back page cache in SRAM, with a round-robin victim, a tiny list   *)
(* of recently used page -> slot pairs, and a backing store that is either *)
(* an SPI PSRAM (BOARD_M1, never fails) or a page file on the SD card      *)
(* (every read and write may fail).                                        *)
(*                                                                         *)
(* The statics of the C file are the fields of one record, because map_page*)
(* is called several times by one access that straddles two pages and the  *)
(* calls have to compose.  `lost' is a history field with no counterpart   *)
(* in the code: the pages whose contents a backing fault has damaged.      *)
(***************************************************************************)
EXTENDS Integers

CONSTANTS
    PageCount,  \* PAGE_COUNT
    SlotCount,  \* cache_page_count
    HotCount,   \* HOT_PAGE_COUNT
    PageSize,   \* EGA128_PAGE_SIZE
    Byte,       \* values of a guest byte
    Width,      \* widths of a guest access
    Media       \* the backing stores the board may have

ASSUME SizesAssumption ==
    /\ PageCount \in Nat \ {0}
    /\ SlotCount \in Nat \ {0}
    /\ HotCount \in Nat \ {0}
    /\ PageSize \in Nat \ {0}
    /\ 0 \in Byte
    /\ Width \subseteq 1 .. PageSize + 1  \* an access touches at most two pages
    /\ Media \subseteq {"spi", "file"}

VARIABLES
    c,      \* the cache: see Cache
    medium, \* "spi" (use_spi_psram) or "file" (pagefile_open)
    ret     \* what the last call returned

vars == <<c, medium, ret>>

Page   == 0 .. PageCount - 1
Slot   == 0 .. SlotCount - 1
Hot    == 1 .. HotCount
Offset == 0 .. PageSize - 1
Frame  == [Offset -> Byte]

NoPage == PageCount     \* INVALID_PAGE, a page number no page has
NoSlot == SlotCount     \* the 0xff that fills hot_slot[]
Zeroes == [o \in Offset |-> 0]

Cache == [cache_page    : [Slot -> Page \cup {NoPage}],
          cache_dirty   : [Slot -> BOOLEAN],
          ram_pages     : [Slot -> Frame],
          hot_page      : [Hot -> Page \cup {NoPage}],
          hot_slot      : [Hot -> Slot \cup {NoSlot}],
          victim        : Slot,
          backing_valid : SUBSET Page,
          backing       : [Page -> Frame],
          lost          : SUBSET Page]

\* What the two transfers of one eviction do: w and r say whether the write
\* and the read succeed; a write that fails (f_write short or in error) has
\* put the bytes at the offsets `torn' into the file.
Outcome == [w : BOOLEAN, r : BOOLEAN, torn : SUBSET Offset]
NoFault == [w |-> TRUE, r |-> TRUE, torn |-> {}]

First(S) == CHOOSE x \in S : \A y \in S : x <= y

-----------------------------------------------------------------------------
(* Backing store: backing_page_valid, backing_read, backing_write.         *)

\* The page as the backing store holds it: a page never written reads as 0.
BackingView(x, p) == IF p \in x.backing_valid THEN x.backing[p] ELSE Zeroes

\* backing_read and, when it fails, the memset of map_page.
BackingRead(x, p, io) ==
    IF io.r THEN BackingView(x, p) ELSE Zeroes

ReadFails(x, p, io) == p \in x.backing_valid /\ ~io.r

BackingWrite(x, p, d, io) ==
    IF io.w
    THEN [x EXCEPT !.backing[p] = d, !.backing_valid = @ \cup {p}]
    ELSE [x EXCEPT !.backing[p] = [o \in Offset |-> IF o \in io.torn THEN d[o] ELSE @[o]]]

-----------------------------------------------------------------------------
(* map_page.                                                               *)

HotHits(x, p) == {i \in Hot : /\ x.hot_page[i] = p
                              /\ x.hot_slot[i] \in Slot
                              /\ x.cache_page[x.hot_slot[i]] = p}

Resident(x, p) == {s \in Slot : x.cache_page[s] = p}

\* The slot map_page returns: hot list, then full scan, then the victim.
MapSlot(x, p) ==
    IF HotHits(x, p) # {} THEN x.hot_slot[First(HotHits(x, p))]
    ELSE IF Resident(x, p) # {} THEN First(Resident(x, p))
    ELSE x.victim

\* The outcomes open to map_page(p): nothing is transferred on a hit, only a
\* dirty victim is written and only a page written before is read.
Outcomes(x, p) ==
    IF medium = "spi" \/ Resident(x, p) # {} THEN {NoFault}
    ELSE {io \in Outcome :
            /\ io.w => io.torn = {}
            /\ x.cache_dirty[x.victim] \/ io.w
            /\ p \in x.backing_valid \/ io.r}

HotPageRemember(x, p, s) ==
    [x EXCEPT
        !.hot_page = [i \in Hot |-> IF i = 1 THEN p ELSE x.hot_page[i - 1]],
        !.hot_slot = [i \in Hot |-> IF i = 1 THEN s ELSE x.hot_slot[i - 1]]]

Touch(x, s, wr) == [x EXCEPT !.cache_dirty[s] = @ \/ wr]

\* The victim's contents go to the backing store; a failure is only logged.
Evict(x, s, io) ==
    LET old == x.cache_page[s]
    IN  IF old # NoPage /\ x.cache_dirty[s]
        THEN [BackingWrite(x, old, x.ram_pages[s], io)
                EXCEPT !.lost = IF io.w THEN @ ELSE @ \cup {old}]
        ELSE x

Fill(x, s, p, wr, io) ==
    [x EXCEPT !.ram_pages[s]   = BackingRead(x, p, io),
              !.cache_page[s]  = p,
              !.cache_dirty[s] = wr,
              !.lost           = IF ReadFails(x, p, io) THEN @ \cup {p} ELSE @]

\* Mutant: the round-robin pointer is not wrapped.
NextVictimNoWrap(v) == v + 1

NextVictim(v) == IF v + 1 = SlotCount THEN 0 ELSE v + 1

Miss(x, p, wr, io) ==
    LET s == x.victim
        y == Fill(Evict(x, s, io), s, p, wr, io)
    IN  HotPageRemember([y EXCEPT !.victim = NextVictim(s)], p, s)

MapPage(x, p, wr, io) ==
    IF HotHits(x, p) # {} THEN Touch(x, MapSlot(x, p), wr)
    ELSE IF Resident(x, p) # {}
         THEN HotPageRemember(Touch(x, MapSlot(x, p), wr), p, MapSlot(x, p))
    ELSE Miss(x, p, wr, io)

\* Stores through a pointer into slot s: d overwrites the offsets of its domain.
Poke(x, s, d) ==
    [x EXCEPT !.ram_pages[s] = [o \in Offset |-> IF o \in DOMAIN d THEN d[o] ELSE @[o]]]

-----------------------------------------------------------------------------
(* The accesses.                                                           *)

Straddles(o, k) == o + k > PageSize
InRange(p, o, k) == ~Straddles(o, k) \/ p + 1 \in Page

\* The part of a k-byte value at offset o that falls in the first and in the
\* second page, as functions on offsets of that page.
LowPart(o, k, v) == [x \in {y \in Offset : o <= y /\ y < o + k} |-> v[x - o]]
HighPart(o, k, v) == [x \in {y \in Offset : y < o + k - PageSize} |-> v[x + PageSize - o]]

\* ega128_paging_init, after which guest_ram_base points at the cache.  (When
\* it returns false the machine does not start.)
Init ==
    /\ c = [cache_page    |-> [s \in Slot |-> NoPage],
            cache_dirty   |-> [s \in Slot |-> FALSE],
            ram_pages     |-> [s \in Slot |-> Zeroes],
            hot_page      |-> [i \in Hot |-> NoPage],
            hot_slot      |-> [i \in Hot |-> NoSlot],
            victim        |-> 0,
            backing_valid |-> {},
            backing       |-> [p \in Page |-> Zeroes],
            lost          |-> {}]
    /\ medium \in Media
    /\ ret = [op |-> "none"]

\* pload8/16/32 inside one page.
Load(p, o, k, io) ==
    LET y == MapPage(c, p, FALSE, io)
        d == y.ram_pages[MapSlot(c, p)]
    IN  /\ ~Straddles(o, k)
        /\ c' = y
        /\ ret' = [op |-> "load", val |-> [i \in 0 .. k - 1 |-> d[o + i]]]

\* pload16/32 across a page boundary: the C expression leaves open which of
\* the byte loads comes first, so either page may be mapped first.
LoadStraddle(p, o, k, lowFirst, io1, io2) ==
    LET p1 == IF lowFirst THEN p ELSE p + 1
        p2 == IF lowFirst THEN p + 1 ELSE p
        y  == MapPage(c, p1, FALSE, io1)
        z  == MapPage(y, p2, FALSE, io2)
        d1 == y.ram_pages[MapSlot(c, p1)]
        d2 == z.ram_pages[MapSlot(y, p2)]
        lo == IF lowFirst THEN d1 ELSE d2
        hi == IF lowFirst THEN d2 ELSE d1
    IN  /\ io2 \in Outcomes(y, p2)
        /\ c' = z
        /\ ret' = [op  |-> "load",
                   val |-> [i \in 0 .. k - 1 |-> IF o + i < PageSize THEN lo[o + i]
                                                 ELSE hi[o + i - PageSize]]]

\* pstore8/16/32 inside one page.
Store(p, o, k, v, io) ==
    /\ ~Straddles(o, k)
    /\ c' = Poke(MapPage(c, p, TRUE, io), MapSlot(c, p), LowPart(o, k, v))
    /\ ret' = [op |-> "store"]

\* Mutant: the second page is mapped without write access.
StoreStraddleHighClean(p, o, k, v, io1, io2) ==
    LET y == Poke(MapPage(c, p, TRUE, io1), MapSlot(c, p), LowPart(o, k, v))
    IN  /\ io2 \in Outcomes(y, p + 1)
        /\ c' = Poke(MapPage(y, p + 1, FALSE, io2), MapSlot(y, p + 1), HighPart(o, k, v))
        /\ ret' = [op |-> "store"]

\* pstore16/32 across a page boundary: byte stores, the low page first.
StoreStraddle(p, o, k, v, io1, io2) ==
    LET y == Poke(MapPage(c, p, TRUE, io1), MapSlot(c, p), LowPart(o, k, v))
    IN  /\ io2 \in Outcomes(y, p + 1)
        /\ c' = Poke(MapPage(y, p + 1, TRUE, io2), MapSlot(y, p + 1), HighPart(o, k, v))
        /\ ret' = [op |-> "store"]

\* ega128_page_ptr / ega128_guest_ptr: only the pointer is returned.
PagePtr(p, wr, io) ==
    /\ c' = MapPage(c, p, wr, io)
    /\ ret' = [op |-> "ptr", slot |-> MapSlot(c, p), page |-> p]

\* ega128_cache_ptr_to_linear, for a pointer into slot s.
CachePtrToLinear(x, s) == x.cache_page[s]

\* Mutant: the flush loop stops before the last slot.
DirtySlotsShort(x) == {s \in 0 .. SlotCount - 2 : x.cache_page[s] # NoPage /\ x.cache_dirty[s]}

\* ega128_paging_flush: dirty slots in slot order up to the first write that
\* fails (slot f; SlotCount when none does), then f_sync.
DirtySlots(x) == {s \in Slot : x.cache_page[s] # NoPage /\ x.cache_dirty[s]}

Written(x, f, q) == {s \in DirtySlots(x) : s < f /\ x.cache_page[s] = q}

FlushTo(x, f, torn) ==
    [x EXCEPT
        !.backing = [q \in Page |->
            IF Written(x, f, q) # {} THEN x.ram_pages[First(Written(x, f, q))]
            ELSE IF f \in DirtySlots(x) /\ x.cache_page[f] = q
                 THEN [o \in Offset |-> IF o \in torn THEN x.ram_pages[f][o]
                                        ELSE x.backing[q][o]]
            ELSE x.backing[q]],
        !.backing_valid = @ \cup {q \in Page : Written(x, f, q) # {}},
        !.cache_dirty   = [s \in Slot |-> x.cache_dirty[s] /\ ~(s \in DirtySlots(x) /\ s < f)]]

Flush(f, torn, sync) ==
    /\ IF f = SlotCount THEN torn = {} ELSE f \in DirtySlots(c) /\ medium = "file"
    /\ medium = "spi" => sync
    /\ c' = FlushTo(c, f, torn)
    /\ ret' = [op |-> "flush", val |-> f = SlotCount /\ sync]

Access ==
    \E p \in Page, o \in Offset, k \in Width : \E io \in Outcomes(c, p) :
        \/ Load(p, o, k, io)
        \/ \E v \in [0 .. k - 1 -> Byte] : Store(p, o, k, v, io)

AccessStraddle ==
    \E p \in Page, o \in Offset, k \in Width :
        /\ p + 1 \in Page
        /\ Straddles(o, k)
        /\ \/ \E lowFirst \in BOOLEAN :
                \E io1 \in Outcomes(c, IF lowFirst THEN p ELSE p + 1), io2 \in Outcome :
                    LoadStraddle(p, o, k, lowFirst, io1, io2)
           \/ \E v \in [0 .. k - 1 -> Byte] :
                \E io1 \in Outcomes(c, p), io2 \in Outcome :
                    StoreStraddle(p, o, k, v, io1, io2)

Pointer == \E p \in Page, wr \in BOOLEAN : \E io \in Outcomes(c, p) : PagePtr(p, wr, io)

FlushAll == \E f \in 0 .. SlotCount, torn \in SUBSET Offset, sync \in BOOLEAN :
                Flush(f, torn, sync)

Next == (Access \/ AccessStraddle \/ Pointer \/ FlushAll) /\ UNCHANGED medium

Spec == Init /\ [][Next]_vars

-----------------------------------------------------------------------------
(* Properties.                                                             *)

\* Type invariant: the statics of ega128_paging.c hold values of their types.
TypeOK ==
    /\ c \in Cache
    /\ medium \in Media

\* What the guest reads at page p: the cached frame if there is one.
GuestView(x, p) ==
    IF Resident(x, p) # {} THEN x.ram_pages[First(Resident(x, p))] ELSE BackingView(x, p)

AliasFree(x) ==
    \A s, t \in Slot : x.cache_page[s] = x.cache_page[t] /\ x.cache_page[s] # NoPage => s = t

\* No guest page is cached in two slots.  The hot list may name a slot whose
\* page was replaced long ago; map_page must never believe it and load the
\* page a second time, or half of the stores would go to a frame nobody reads.
NoAlias == AliasFree(c)

CleanSlotsAgree(x) ==
    \A s \in Slot : x.cache_page[s] # NoPage /\ ~x.cache_dirty[s] =>
        \/ x.ram_pages[s] = BackingView(x, x.cache_page[s])
        \/ x.cache_page[s] \in x.lost

\* A clean frame equals its backing copy, so evicting it without a write
\* loses nothing; only a page whose read failed may disagree.
CleanAgrees == CleanSlotsAgree(c)

\* A flush that reports success has put all of guest RAM into the backing
\* store: nothing the guest wrote is left only in SRAM.
FlushReportsTruth ==
    [][ret'.op = "flush" /\ ret'.val =>
        \A p \in Page \ c.lost : BackingView(c', p) = GuestView(c, p)]_vars

\* The address that ega128_cache_ptr_to_linear recovers from a pointer just
\* handed out by ega128_page_ptr is the address the pointer was made for.
PtrRoundTrip == ret.op = "ptr" => CachePtrToLinear(c, ret.slot) = ret.page

\* Paged guest RAM is plain memory.
Ram == INSTANCE GuestRam WITH
    ram <- [p \in Page |-> GuestView(c, p)],
    lost <- c.lost
PlainMemory == Ram!Spec
=============================================================================
