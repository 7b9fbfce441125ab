----------------------------- MODULE DosMemory -----------------------------
(***************************************************************************)
(* The DOS memory manager (src/src/fdos/memmgr.cpp): memory is tiled by    *)
(* blocks, each a header paragraph (MCB) and its payload, in a chain from  *)
(* LoL->first_mcb up to the bridge at LoL->uppermem_root and on through    *)
(* upper memory when the two are linked.  Free neighbours are joined only  *)
(* when a search or a resize walks over them.                              *)
(*                                                                         *)
(* A paragraph is a valid header or Data; a header that has been joined to *)
(* another is marked by its size and is Data from then on.  The calls are  *)
(* operators from memory to memory and a return code; LentMemory makes     *)
(* actions of them.  The links of the chain are sums that stay below 10000h*)
(* here, so the checks for a header that is not above its own never fire.  *)
(***************************************************************************)
EXTENDS Integers, FiniteSetsExt

CONSTANTS
    Root,    \* LoL->uppermem_root, the paragraph of the bridge
    Top,     \* the paragraph after the last
    Psp,     \* processes
    LowUsed  \* paragraphs of the kernel's block below the first free one

FREE   == 0      \* FREE_PSP
SYSTEM == 8      \* the owner of the kernel's blocks and of the bridge
HUGE   == 65535  \* more paragraphs than there are

ASSUME MemAssumption ==
    /\ LowUsed \in Nat
    /\ Root \in Nat /\ Root > LowUsed + 3
    /\ Top \in Nat /\ Top > Root + 2 /\ Top < HUGE
    /\ Psp \subseteq Nat \ {FREE, SYSTEM}

Para == 1 .. Top - 1

VARIABLES
    mem,  \* the paragraphs
    link  \* LoL->uppermem_link

Data == [type |-> "data"]
Mcb(t, o, n) == [type |-> t, psp |-> o, size |-> n]

-----------------------------------------------------------------------------
(* Headers and the walk over them.                                         *)

FirstMcb == 1

Valid(m, p) == p \in Para /\ m[p].type \in {"M", "Z"}
IsFree(m, p) == m[p].psp = FREE

NextMcb(m, p) == p + m[p].size + 1

\* The valid headers a walk from s goes over, until one of type Z or one that
\* is damaged.
Walk(m, s) ==
    LET from[p \in Nat] ==
            IF ~Valid(m, p) THEN {}
            ELSE IF m[p].type = "Z" THEN {p}
            ELSE {p} \cup from[NextMcb(m, p)]
    IN  from[s]

\* It got to the end.
Whole(m, s) == \E p \in Walk(m, s) : m[p].type = "Z"

\* The free blocks that follow p without a gap: joinMCBs(p) merges these.
FreeRun(m, C, p) ==
    {q \in C : q > p /\ \A r \in C : p < r /\ r <= q => IsFree(m, r)}

\* Mutant: the merged block keeps its own type.
JoinedKeepsType(m, C, p) ==
    LET run == FreeRun(m, C, p)
        end == Max(run)
    IN  IF run = {} THEN m[p] ELSE [m[p] EXCEPT !.size = end + m[end].size - p]

\* The header p gets from joinMCBs.
Joined(m, C, p) ==
    LET run == FreeRun(m, C, p)
        end == Max(run)
    IN  IF run = {} THEN m[p]
        ELSE [m[p] EXCEPT !.type = m[end].type, !.size = end + m[end].size - p]

\* joinMCBs for each p of P, whose runs are disjoint.
JoinMcbs(m, C, P) ==
    LET merged == UNION {FreeRun(m, C, p) : p \in P}
    IN  [q \in Para |-> IF q \in P THEN Joined(m, C, q)
                        ELSE IF q \in merged THEN Data ELSE m[q]]

-----------------------------------------------------------------------------
(* DosMemAlloc.                                                            *)

Fit  == {"FIRST", "BEST", "LAST"}
Area == {"LOW", "UO", "U"}  \* conventional; upper only; upper, then any

\* Where a search begins.
Start(l, area) == IF l = 1 /\ area # "LOW" THEN Root ELSE FirstMcb

\* The sizes of the free blocks of the walk C, each joined with its run.
Room(m, C) ==
    [p \in {q \in C : IsFree(m, q) /\ ~\E r \in C : IsFree(m, r) /\ NextMcb(m, r) = q}
        |-> Joined(m, C, p).size]

\* The block a fit settles for among those of enough room.
Settled(room, fits, fit) ==
    IF fits = {} THEN {}
    ELSE CASE fit = "FIRST"   -> {Min(fits)}
           [] fit = "BEST"    -> {Min({p \in fits : \A q \in fits : room[p] <= room[q]})}
           [] fit = "LAST"    -> {Max(fits)}
           [] fit = "LARGEST" -> {Min({p \in fits : \A q \in fits : room[p] >= room[q]})}

\* The search over C: every free block it meets is joined; FIRST stops at the
\* first that fits.  A damaged header ends it, unless FIRST stopped before.  A
\* block of no size is only found by FIRST.
Met(room, fits, early) ==
    IF early THEN {p \in DOMAIN room : p <= Min(fits)} ELSE DOMAIN room

SearchOver(m, C, room, fits, whole, fit) ==
    LET early == fit = "FIRST" /\ fits # {}
    IN  [mem     |-> JoinMcbs(m, C, Met(room, fits, early)),
         broken  |-> ~early /\ ~whole,
         found   |-> {p \in Settled(room, fits, fit) : early \/ room[p] > 0},
         biggest |-> Max({0} \cup {room[p] : p \in DOMAIN room})]

SearchIn(m, C, room, whole, size, fit) ==
    SearchOver(m, C, room, {p \in DOMAIN room : room[p] >= size}, whole, fit)

Search(m, s, size, fit) ==
    SearchIn(m, Walk(m, s), Room(m, Walk(m, s)), Whole(m, s), size, fit)

\* The block taken from p, split at its end for LAST and at its start else.
Take(m, p, size, fit, cu) ==
    LET old == m[p] IN
    IF fit = "LARGEST" \/ size = old.size THEN [m EXCEPT ![p].psp = cu]
    ELSE IF fit = "LAST"
    THEN [m EXCEPT ![p + old.size - size] = Mcb(old.type, cu, size),
                   ![p] = Mcb("M", FREE, old.size - size - 1)]
    ELSE [m EXCEPT ![p + size + 1] = Mcb(old.type, FREE, old.size - size - 1),
                   ![p] = Mcb("M", cu, size)]

TakenAt(m, p, size, fit) ==
    IF fit = "LAST" THEN p + m[p].size - size ELSE p

Result(m, rc, n) == [mem |-> m, rc |-> rc, size |-> n]

\* What the last search r comes to: the block it found is taken.
Allocated(r, size, fit, cu) ==
    IF r.broken THEN Result(r.mem, "MCBDESTRY", 0)
    ELSE IF r.found = {} THEN Result(r.mem, "NOMEM", r.biggest)
    ELSE Result(Take(r.mem, Min(r.found), size, fit, cu), "OK",
                TakenAt(r.mem, Min(r.found), size, fit))

\* Mutant: upper memory first is taken for upper memory only.
NoFallback(one, l, size, fit, area) == one

\* Upper memory first (U) searches again without it.
Fallback(one, l, size, fit, area) ==
    IF ~one.broken /\ one.found = {} /\ area = "U" /\ l = 1
    THEN Search(one.mem, FirstMcb, size, fit) ELSE one

\* DosMemAlloc with a strategy of INT 21h/5801h, for the process cu.
DosMemAlloc(m, l, size, fit, area, cu) ==
    Allocated(Fallback(Search(m, Start(l, area), size, fit), l, size, fit, area), size, fit, cu)

\* DosMemAlloc(0, LARGEST), which ExecMemAlloc falls back to, always starts
\* in conventional memory.
DosMemAllocLargest(m, cu) == Allocated(Search(m, FirstMcb, 0, "LARGEST"), 0, "LARGEST", cu)

\* DosMemLargest: a request for FFFFh paragraphs that cannot be met, in upper
\* memory and, for U, in conventional memory as well.
Biggest(r) == IF r.broken THEN 0 ELSE r.biggest

LargestOf(m, n) == Result(m, IF n > 0 THEN "OK" ELSE "NOMEM", n)

LargestAfter(one, two, area) ==
    IF area = "U" THEN LargestOf(two.mem, Max({Biggest(one), Biggest(two)}))
    ELSE LargestOf(one.mem, Biggest(one))

LargestFrom(one, area) == LargestAfter(one, Search(one.mem, FirstMcb, HUGE, "LARGEST"), area)

DosMemLargest(m, l, area) == LargestFrom(Search(m, Start(l, area), HUGE, "LARGEST"), area)

-----------------------------------------------------------------------------
(* The other calls.                                                        *)

\* DosMemFree; a header is freeable whatever its size says.
DosMemFree(m, p) ==
    IF p \notin Para \/ m[p].type \notin {"M", "Z"} THEN Result(m, "INVLDMCB", 0)
    ELSE Result([m EXCEPT ![p].psp = FREE], "OK", 0)

\* DosMemChange, which reports the size it could have given.  A call that
\* fails has joined the free blocks that follow all the same.
Cut(m, p, size) ==
    [m EXCEPT ![p + size + 1] = Mcb(m[p].type, FREE, m[p].size - size - 1),
              ![p].size = size, ![p].type = "M"]

Rejoined(m, q) == JoinMcbs(m, Walk(m, q), {q})

Resized(m, p, size, cu) ==
    IF size > m[p].size THEN Result(m, "NOMEM", m[p].size)
    ELSE IF size = m[p].size THEN Result([m EXCEPT ![p].psp = cu], "OK", 0)
    ELSE Result([Rejoined(Cut(m, p, size), p + size + 1) EXCEPT ![p].psp = cu], "OK", 0)

DosMemChange(m, p, size, cu) ==
    IF ~Valid(m, p) THEN Result(m, "MCBDESTRY", 0)
    ELSE Resized(IF size > m[p].size THEN Rejoined(m, p) ELSE m, p, size, cu)

\* DosUmbLink(n): the last conventional block becomes type Z, or M again; the
\* flag follows only if it did.
DosUmbLink(m, l, n) ==
    LET low == {p \in Walk(m, FirstMcb) : p < Root}
        end == Max(low)
        met == Root \in Walk(m, FirstMcb)
    IN  IF n = l \/ low = {} THEN [mem |-> m, link |-> l]
        ELSE IF n = 0 /\ (met \/ m[end].type = "Z")
        THEN [mem |-> IF met THEN [m EXCEPT ![end].type = "Z"] ELSE m, link |-> 0]
        ELSE IF n = 1 /\ m[end].type = "Z" /\ NextMcb(m, end) = Root /\ Valid(m, Root)
        THEN [mem |-> [m EXCEPT ![end].type = "M"], link |-> 1]
        ELSE [mem |-> m, link |-> l]

\* FreeProcessMem: with the two chains linked for the time of the walk.
Released(m, C, ps) ==
    [p \in Para |-> IF p \in C /\ m[p].psp = ps THEN [m[p] EXCEPT !.psp = FREE] ELSE m[p]]

Relinked(on, off) ==
    Result(off.mem, IF Whole(on.mem, FirstMcb) THEN "OK" ELSE "MCBDESTRY", off.link)

ReleasedIn(on, l, ps) ==
    Relinked(on, DosUmbLink(Released(on.mem, Walk(on.mem, FirstMcb), ps), on.link, l))

\* Mutant: upper memory is not linked for the walk.
FreeProcessUnlinked(m, l, ps) == ReleasedIn([mem |-> m, link |-> l], l, ps)

FreeProcessMem(m, l, ps) == ReleasedIn(DosUmbLink(m, l, 1), l, ps)

\* DosMemCheck.
DosMemCheck(m) == Whole(m, FirstMcb)

\* PreConfig2 and umb_init, after configDone: a block of the kernel and one
\* free block in conventional memory; the bridge and one free block above.
MemInit ==
    /\ mem = [p \in Para |->
                CASE p = FirstMcb     -> Mcb("M", SYSTEM, LowUsed)
                  [] p = LowUsed + 2  -> Mcb("Z", FREE, Root - LowUsed - 3)
                  [] p = Root         -> Mcb("M", SYSTEM, 0)
                  [] p = Root + 1     -> Mcb("Z", FREE, Top - Root - 2)
                  [] OTHER            -> Data]
    /\ link = 0

-----------------------------------------------------------------------------
(* Properties.                                                             *)

Tiles(m, s, e) ==
    LET C == {p \in Walk(m, s) : p < e}
    IN  C # {} /\ NextMcb(m, Max(C)) = e /\ \A p \in C : NextMcb(m, p) <= e

\* The two chains tile conventional and upper memory, through every split and
\* join; the bridge between them is never merged into a block, and it is in
\* the chain exactly when the link flag says so.
ChainsTile ==
    /\ Tiles(mem, FirstMcb, Root)
    /\ Tiles(mem, Root, Top)
    /\ mem[Root] = Mcb("M", SYSTEM, 0)
    /\ link = 1 <=> Root \in Walk(mem, FirstMcb)
    /\ Whole(mem, FirstMcb) /\ Whole(mem, Root)

Obtainable(big, area, fit, ps) ==
    big.rc = "OK" => DosMemAlloc(big.mem, link, big.size, fit, area, ps).rc = "OK"

\* What DosMemLargest reports can then be allocated with any strategy of the
\* same area, as the loaders of programs do in two calls.
LargestIsObtainable ==
    \A area \in Area, fit \in Fit, ps \in Psp :
        Obtainable(DosMemLargest(mem, link, area), area, fit, ps)

\* A process that ends gives back all its blocks, those in upper memory too
\* when it has unlinked it, and the link stays as it was.
TerminationFreesAll ==
    \A ps \in Psp :
        \E end \in {FreeProcessMem(mem, link, ps)} :
            /\ \A p \in Walk(end.mem, FirstMcb) \cup Walk(end.mem, Root) : end.mem[p].psp # ps
            /\ end.size = link

=============================================================================
