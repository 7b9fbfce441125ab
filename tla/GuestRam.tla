------------------------------ MODULE GuestRam ------------------------------
(***************************************************************************)
(* What the pageable guest RAM promises to the CPU cores, to the BIOS and  *)
(* to the DOS kernel (the pload/pstore contract of src/src/mem.h): it is   *)
(* plain byte-addressed memory.  The only way to lose contents is a fault  *)
(* of the backing store (pagefile on the SD card), and then only the pages *)
(* that fault names.  An address is a pair of a page and an offset, so an  *)
(* access of several bytes may run into the next page.                     *)
(***************************************************************************)
EXTENDS Integers

CONSTANTS
    PageCount,  \* guest pages (PAGE_COUNT)
    PageSize,   \* bytes in a page (EGA128_PAGE_SIZE)
    Byte,       \* values of a byte; 0 is what a fresh page holds
    Width       \* widths of an access, in bytes (1, 2, 4)

VARIABLES
    ram,    \* ram[p][o]: the byte at offset o of page p
    lost,   \* pages that a backing fault has hit so far
    ret     \* what the last call returned: a record [op, val]

Page   == 0 .. PageCount - 1
Offset == 0 .. PageSize - 1

\* The accesses that stay inside guest RAM.
InRange(p, o, k) == o + k <= PageSize \/ p + 1 \in Page

\* Where byte i of an access at <<p, o>> lives.
CellPage(p, o, i)   == IF o + i < PageSize THEN p ELSE p + 1
CellOffset(o, i)    == IF o + i < PageSize THEN o + i ELSE o + i - PageSize
Cell(r, p, o, i)    == r[CellPage(p, o, i)][CellOffset(o, i)]

\* r after the k bytes v are stored at <<p, o>>.
Put(r, p, o, k, v) ==
    [q \in Page |-> [x \in Offset |->
        IF q = p /\ x \in o .. o + k - 1 THEN v[x - o]
        ELSE IF q = p + 1 /\ x + PageSize \in o .. o + k - 1 THEN v[x + PageSize - o]
        ELSE r[q][x]]]

\* Only pages that a fault has hit may differ from r.
KeptExceptLost(r) ==
    /\ lost \subseteq lost'
    /\ lost' \subseteq Page
    /\ \A q \in Page \ lost' : ram'[q] = r[q]

-----------------------------------------------------------------------------
Init ==
    /\ ram = [p \in Page |-> [o \in Offset |-> 0]]
    /\ lost = {}
    /\ ret = [op |-> "none"]

\* A load returns, byte by byte, what was stored last.
Load(p, o, k) ==
    /\ ret'.op = "load"
    /\ KeptExceptLost(ram)
    /\ \A i \in 0 .. k - 1 :
          CellPage(p, o, i) \notin lost' => ret'.val[i] = Cell(ram, p, o, i)

Store(p, o, k, v) ==
    /\ ret' = [op |-> "store"]
    /\ KeptExceptLost(Put(ram, p, o, k, v))

\* A pointer into the page is handed out: nothing changes for the guest.
Resolve == ret'.op = "ptr" /\ KeptExceptLost(ram)

Flush ==
    /\ ret'.op = "flush"
    /\ lost' = lost
    /\ KeptExceptLost(ram)

Next ==
    \/ Resolve
    \/ Flush
    \/ \E p \in Page, o \in Offset, k \in Width :
          /\ InRange(p, o, k)
          /\ \/ Load(p, o, k)
             \/ \E v \in [0 .. k - 1 -> Byte] : Store(p, o, k, v)

Spec == Init /\ [][Next]_<<ram, lost, ret>>
=============================================================================
