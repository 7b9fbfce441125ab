----------------------------- MODULE LentMemory -----------------------------
(***************************************************************************)
(* The DOS memory manager lends the payload of the largest free block of   *)
(* conventional memory to the sector cache, as its arena 2 (memmgr.cpp,    *)
(* refresh_ff_low_cache_arena).  The same paragraphs are then seen by DOS  *)
(* as free memory and by the cache as lines, and each side writes to them: *)
(* DOS its headers, the cache the sectors it keeps.                        *)
(*                                                                         *)
(* DOS calls run to completion, between the steps of the cache.  Programs  *)
(* write to the payload of blocks that have an owner and never past it.    *)
(* This is the build without paged guest RAM (with it arena 2 is never     *)
(* attached) and without L2.                                               *)
(***************************************************************************)
EXTENDS DosMemory, SdCache

CONSTANTS
    LineParas,  \* paragraphs of a line: 520 bytes are 32 and a half
    Sizes       \* sizes that programs ask for

ASSUME LentAssumption ==
    /\ LineParas \in Nat \ {0}
    /\ Sizes \subseteq Nat
    /\ ArenaLines[2] = {}  \* arena 2 is DOS's alone

VARIABLE lent  \* ff_low_cache_seg and ff_low_cache_paras

vars == <<mem, link, lent, sdvars>>

Nothing == [seg |-> 0, paras |-> 0]

-----------------------------------------------------------------------------
(* The paragraphs of arena 2.                                              *)

\* Those of the line in slot p.
Cells(ar, seg, p) ==
    LET n == p - ar[0] - ar[1]
    IN  IF n \in 0 .. ar[2] - 1
        THEN seg + 1 + LineParas * n .. seg + LineParas * (n + 1) ELSE {}

Heads(ar, seg) == {seg + 1 + LineParas * n : n \in 0 .. ar[2] - 1}

\* The lines after somebody else has written to the paragraphs W.
Overwritten(W) ==
    [p \in Slots(arena) |->
        IF Cells(arena, lent.seg, p) \cap W # {} THEN [line[p] EXCEPT !.data = Foreign]
        ELSE line[p]]

\* The memory after the cache has changed lines: no header survives there.
LinesToMem ==
    mem' = [q \in Para |->
              IF \E p \in Slots(arena') : /\ q \in Cells(arena', lent.seg, p)
                                          /\ p \in Slots(arena) => line'[p] # line[p]
              THEN Data ELSE mem[q]]

-----------------------------------------------------------------------------
(* refresh_ff_low_cache_arena.                                             *)

\* Mutant: the first of the largest blocks, free or not.
LargestAny(m) ==
    LET low   == {p \in Walk(m, FirstMcb) : p < Root /\ m[p].size > 0}
        best  == {p \in low : \A q \in low : m[q].size <= m[p].size}
    IN  IF low = {} THEN Nothing ELSE [seg |-> Min(best), paras |-> m[Min(best)].size]

\* The first of the largest free blocks below the bridge.
LargestFree(m) ==
    LET low   == {p \in Walk(m, FirstMcb) : p < Root /\ IsFree(m, p) /\ m[p].size > 0}
        best  == {p \in low : \A q \in low : m[q].size <= m[p].size}
    IN  IF low = {} THEN Nothing ELSE [seg |-> Min(best), paras |-> m[Min(best)].size]

\* A walk that meets a damaged header before it gets to the end, or to the
\* bridge, changes nothing.
WalkEnds(m) == \E p \in Walk(m, FirstMcb) : m[p].type = "Z" \/ NextMcb(m, p) = Root

\* Mutant: a block that shrinks in place keeps its lines.
RefreshMoved(m, old) ==
    LET best == LargestFree(m)
    IN  IF ~WalkEnds(m) \/ best.seg = lent.seg
        THEN lent' = lent /\ mem' = m /\ line' = old /\ UNCHANGED <<arena, epoch>>
        ELSE /\ lent' = best
             /\ Enable(2, best.paras \div LineParas, best.seg # lent.seg, old)
             /\ mem' = m

\* The arena moves with the block; attaching it clears the epochs in the first
\* paragraph of every line.
Refresh(m, old) ==
    LET best == LargestFree(m)
        same == best.seg = lent.seg /\ best.paras \div LineParas = arena[2]
    IN  IF ~WalkEnds(m) \/ best = lent
        THEN lent' = lent /\ mem' = m /\ line' = old /\ UNCHANGED <<arena, epoch>>
        ELSE /\ lent' = best
             /\ Enable(2, best.paras \div LineParas, best.seg # lent.seg, old)
             /\ mem' = IF same THEN m
                       ELSE [q \in Para |-> IF q \in Heads(arena', best.seg) THEN Data ELSE m[q]]

Blocks(m) == Walk(m, FirstMcb) \cup Walk(m, Root)

Owned(m) ==
    UNION {p + 1 .. p + m[p].size : p \in {q \in Blocks(m) : ~IsFree(m, q)}}

-----------------------------------------------------------------------------
(* The DOS calls.                                                          *)

Changed(m) == {q \in Para : m[q] # mem[q]}

\* A call leaves memory m and refreshes the arena, or does not.
Returns(m, refreshed) ==
    IF refreshed THEN Refresh(m, Overwritten(Changed(m)))
    ELSE mem' = m /\ lent' = lent /\ line' = Overwritten(Changed(m)) /\ UNCHANGED <<arena, epoch>>

DosCall ==
    /\ ~rd.on
    /\ out' = NoOut
    /\ UNCHANGED <<active, floor, qline, qepoch, qon, ready, card, rd>>

\* INT 21h/48h, and the loaders' DosMemAlloc(0, LARGEST).
Allocate(ps) ==
    /\ DosCall
    /\ \/ \E size \in Sizes, fit \in Fit, area \in Area :
            \E r \in {DosMemAlloc(mem, link, size, fit, area, ps)} :
                Returns(r.mem, r.rc # "MCBDESTRY")
       \/ \E r \in {DosMemAllocLargest(mem, ps)} : Returns(r.mem, r.rc # "MCBDESTRY")
    /\ UNCHANGED link

QueryLargest(area) ==
    /\ DosCall
    /\ \E r \in {DosMemLargest(mem, link, area)} : Returns(r.mem, WalkEnds(r.mem))
    /\ UNCHANGED link

\* INT 21h/49h of a block.
Free(p) ==
    /\ DosCall
    /\ mem[p].psp # SYSTEM
    /\ \E r \in {DosMemFree(mem, p)} : Returns(r.mem, r.rc = "OK")
    /\ UNCHANGED link

\* INT 21h/4Ah, which checks the chain first, and the resize of INT 21h/31h.
Resize1(p, size, ps) ==
    /\ DosCall
    /\ mem[p].psp # SYSTEM
    /\ DosMemCheck(mem)
    /\ \E r \in {DosMemChange(mem, p, size, ps)} : Returns(r.mem, r.rc # "MCBDESTRY")
    /\ UNCHANGED link

Terminate(ps) ==
    /\ DosCall
    /\ \E r \in {FreeProcessMem(mem, link, ps)} :
           /\ Returns(r.mem, \E p \in Changed(r.mem) : mem[p].psp = ps)
           /\ link' = r.size

\* INT 21h/5803h.
SetUmbLink(n) ==
    /\ DosCall
    /\ \E r \in {DosUmbLink(mem, link, n)} : Returns(r.mem, FALSE) /\ link' = r.link

\* A program writes to its memory.
ProgramWrites(q) ==
    /\ DosCall
    /\ mem' = [mem EXCEPT ![q] = Data]
    /\ line' = Overwritten({q})
    /\ UNCHANGED <<link, lent, arena, epoch>>

CacheStep ==
    /\ \/ EnableArena
       \/ DiskInitialize
       \/ \E S \in Requests : ReadHit(S) \/ ReadCard(S) \/ DiskWrite(S) \/ WriteFails(S) \/ Trim(S)
       \/ ReadStep
    /\ LinesToMem
    /\ UNCHANGED <<link, lent>>

LentInit == MemInit /\ SdInit /\ lent = Nothing

LentNext ==
    \/ \E ps \in Psp : Allocate(ps) \/ Terminate(ps)
    \/ \E area \in Area : QueryLargest(area)
    \/ \E p \in Blocks(mem) : Free(p)
    \/ \E p \in Blocks(mem), size \in Sizes, ps \in Psp : Resize1(p, size, ps)
    \/ \E n \in {0, 1} : SetUmbLink(n)
    \/ \E q \in Owned(mem) : ProgramWrites(q)
    \/ CacheStep

LentSpec == LentInit /\ [][LentNext]_vars

-----------------------------------------------------------------------------
(* Properties.                                                             *)

\* "every DOS memory-map change recomputes the largest block before control
\* returns to the caller" (memmgr.cpp): the arena never reaches out of the
\* payload of one free block, whatever calls have split and joined it.  And
\* what DOS writes into it is never taken for a sector (LinesTrue).
LentIsFree ==
    /\ LinesTrue
    /\ arena[2] > 0 =>
         \E p \in Walk(mem, FirstMcb) :
            /\ p < Root /\ IsFree(mem, p)
            /\ \A s \in Slots(arena) : Cells(arena, lent.seg, s) \subseteq p + 1 .. p + mem[p].size

\* What a step writes: headers, and the lines of arena 2.
WrittenByStep ==
    {q \in Para : mem'[q] # mem[q]} \cup
    UNION {Cells(arena', lent'.seg, p) : p \in {s \in Slots(arena') : s \in Slots(arena) => line'[s] # line[s]}}

\* Memory that has an owner before and after a step of DOS or of the cache is
\* not written by it: no split, join, sector or epoch lands in a program.
ProgramsUntouched ==
    [][(\E q \in Owned(mem) : ProgramWrites(q)) \/ WrittenByStep \cap Owned(mem) \cap Owned(mem') = {}]_vars

=============================================================================
