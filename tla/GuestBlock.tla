----------------------------- MODULE GuestBlock -----------------------------
(***************************************************************************)
(* Native block transfers over the paged guest RAM: guest_read_block,      *)
(* guest_write_block, guest_find_byte_spans and guest_move_block of        *)
(* src/src/mem.h and fmemcpy of src/src/fdos/kernel.c.  Each is a loop over*)
(* spans that do not cross a page; an iteration resolves host pointers     *)
(* through map_page and copies through them.  One iteration is one step,   *)
(* and no other core touches guest RAM while a transfer runs.              *)
(*                                                                         *)
(* The windows of EMS and VGA are outside the addresses used here, and the *)
(* backing store is the SPI PSRAM, which does not fail.                    *)
(***************************************************************************)
EXTENDS Ega128Paging, Sequences

CONSTANTS
    Ops,    \* the transfers to explore: subset of BlockOps
    MaxLen  \* longest transfer

ASSUME BlockAssumption == MaxLen \in Nat /\ 1 \in Width

VARIABLE blk    \* the transfer in progress, or the last one

bvars == <<c, medium, ret, blk>>

BlockOps == {"read", "write", "find", "move", "moveup", "movedown", "fmemcpy"}

Addr      == 0 .. PageCount * PageSize - 1
PageOf(a) == a \div PageSize
Off(a)    == a % PageSize
Span(a)   == PageSize - Off(a)
MinOf(S)  == First(S)

\* Guest RAM as one array, and n bytes of an image from address a on.
Image(x)         == [a \in Addr |-> GuestView(x, PageOf(a))[Off(a)]]
Slice(im, a, n)  == [i \in 1 .. n |-> im[a + i - 1]]

\* im with the bytes v at address a.
Over(im, a, v) == [b \in Addr |-> IF b \in a .. a + Len(v) - 1 THEN v[b - a + 1] ELSE im[b]]

\* memchr: index of the first byte equal to v, or -1.
FindIn(s, v) ==
    LET hits == {i \in DOMAIN s : s[i] = v}
    IN  IF hits = {} THEN -1 ELSE First(hits) - 1

\* n bytes read, or written, through a pointer to address a in slot s.
ReadAt(x, s, a, n)  == [i \in 1 .. n |-> x.ram_pages[s][Off(a) + i - 1]]
WriteAt(x, s, a, v) ==
    [x EXCEPT !.ram_pages[s] =
        [o \in Offset |-> IF o \in Off(a) .. Off(a) + Len(v) - 1 THEN v[o - Off(a) + 1] ELSE @[o]]]

BlockInit ==
    /\ Init
    /\ blk = [op |-> "none", left |-> 0]

Idle == blk.left = 0

\* The guest's own stores between transfers (its loads map pages the way a
\* one-byte guest_read_block does).
GuestStore ==
    /\ Idle
    /\ \E p \in Page, o \in Offset, v \in [{0} -> Byte] : Store(p, o, 1, v, NoFault)
    /\ blk' = [op |-> "none", left |-> 0]

\* A transfer is called.  want is guest RAM as it must be afterwards and
\* answer what the caller must be given; these, from, to, len and stale are
\* history.
Call(op, src, dst, n, data, want, answer) ==
    /\ Idle
    /\ blk' = [op |-> op, src |-> src, dst |-> dst, left |-> n, data |-> data,
               out |-> <<>>, at |-> 0, want |-> want, answer |-> answer,
               from |-> src, to |-> dst, len |-> n, stale |-> FALSE]
    /\ UNCHANGED <<c, ret>>

Ranges == {r \in Addr \X (1 .. MaxLen) : r[1] + r[2] - 1 \in Addr}

\* Mutant: the directions of the overlapping moves are swapped.
MoveKindSwapped(src, dst, n) ==
    IF dst > src /\ dst - src < n THEN "moveup"
    ELSE IF src > dst /\ src - dst < n THEN "movedown"
    ELSE "move"

\* guest_move_block chooses by overlap; fmemcpy always goes upwards and is
\* called for disjoint ranges.
MoveKind(src, dst, n) ==
    IF dst > src /\ dst - src < n THEN "movedown"
    ELSE IF src > dst /\ src - dst < n THEN "moveup"
    ELSE "move"

Start(ops) ==
    LET im == Image(c)
    IN  \E r \in Ranges :
          LET a == r[1] n == r[2] IN
          \/ "read" \in ops /\ Call("read", a, 0, n, <<>>, im, Slice(im, a, n))
          \/ "write" \in ops /\ \E v \in [1 .. n -> Byte] :
                                    Call("write", 0, a, n, v, Over(im, a, v), <<>>)
          \/ "find" \in ops /\ \E b \in Byte :
                                   Call("find", a, 0, n, b, im, FindIn(Slice(im, a, n), b))
          \/ \E d \in Addr \ {a}, op \in {"movedown", "moveup", "move", "fmemcpy"} \cap ops :
                /\ d + n - 1 \in Addr
                /\ MoveKind(a, d, n) = IF op = "fmemcpy" THEN "move" ELSE op
                /\ Call(op, a, d, n, <<>>, Over(im, d, Slice(im, a, n)), <<>>)

\* One iteration of each loop.
ReadStep ==
    LET s == MapSlot(c, PageOf(blk.src))
        y == MapPage(c, PageOf(blk.src), FALSE, NoFault)
        n == MinOf({blk.left, Span(blk.src)})
    IN  /\ blk.op = "read"
        /\ c' = y
        /\ blk' = [blk EXCEPT !.out = @ \o ReadAt(y, s, blk.src, n),
                              !.src = @ + n, !.left = @ - n]

\* Mutant: the native source pointer does not advance.
WriteStepSameSource ==
    LET s == MapSlot(c, PageOf(blk.dst))
        y == MapPage(c, PageOf(blk.dst), TRUE, NoFault)
        n == MinOf({blk.left, Span(blk.dst)})
    IN  /\ blk.op = "write"
        /\ c' = WriteAt(y, s, blk.dst, SubSeq(blk.data, 1, n))
        /\ blk' = [blk EXCEPT !.at = @ + n, !.dst = @ + n, !.left = @ - n]

WriteStep ==
    LET s == MapSlot(c, PageOf(blk.dst))
        y == MapPage(c, PageOf(blk.dst), TRUE, NoFault)
        n == MinOf({blk.left, Span(blk.dst)})
    IN  /\ blk.op = "write"
        /\ c' = WriteAt(y, s, blk.dst, SubSeq(blk.data, blk.at + 1, blk.at + n))
        /\ blk' = [blk EXCEPT !.at = @ + n, !.dst = @ + n, !.left = @ - n]

\* Mutant: the index of a hit is counted from its own span.
FindStepSpanIndex ==
    LET s == MapSlot(c, PageOf(blk.src))
        y == MapPage(c, PageOf(blk.src), FALSE, NoFault)
        n == MinOf({blk.left, Span(blk.src)})
        q == FindIn(ReadAt(y, s, blk.src, n), blk.data)
    IN  /\ blk.op = "find"
        /\ c' = y
        /\ blk' = IF q # -1 THEN [blk EXCEPT !.out = q, !.left = 0]
                  ELSE [blk EXCEPT !.out = -1, !.at = @ + n, !.src = @ + n, !.left = @ - n]

\* guest_find_byte_spans returns from the middle of the loop on a hit.
FindStep ==
    LET s == MapSlot(c, PageOf(blk.src))
        y == MapPage(c, PageOf(blk.src), FALSE, NoFault)
        n == MinOf({blk.left, Span(blk.src)})
        q == FindIn(ReadAt(y, s, blk.src, n), blk.data)
    IN  /\ blk.op = "find"
        /\ c' = y
        /\ blk' = IF q # -1 THEN [blk EXCEPT !.out = blk.at + q, !.left = 0]
                  ELSE [blk EXCEPT !.out = -1, !.at = @ + n, !.src = @ + n, !.left = @ - n]

\* The overlapping moves go byte by byte: pload8, then pstore8.
ByteMove(x, src, dst) ==
    LET y == MapPage(x, PageOf(src), FALSE, NoFault)
        b == ReadAt(y, MapSlot(x, PageOf(src)), src, 1)
        z == MapPage(y, PageOf(dst), TRUE, NoFault)
    IN  WriteAt(z, MapSlot(y, PageOf(dst)), dst, b)

MoveUpStep ==
    /\ blk.op = "moveup"
    /\ c' = ByteMove(c, blk.src, blk.dst)
    /\ blk' = [blk EXCEPT !.src = @ + 1, !.dst = @ + 1, !.left = @ - 1]

MoveDownStep ==
    /\ blk.op = "movedown"
    /\ c' = ByteMove(c, blk.src + blk.left - 1, blk.dst + blk.left - 1)
    /\ blk' = [blk EXCEPT !.left = @ - 1]

\* Mutant: the iteration is not cut at the end of the destination's span.
SpanMoveLong(op, srcFirst, srcWr) ==
    LET p1 == PageOf(IF srcFirst THEN blk.src ELSE blk.dst)
        p2 == PageOf(IF srcFirst THEN blk.dst ELSE blk.src)
        y  == MapPage(c, p1, IF srcFirst THEN srcWr ELSE TRUE, NoFault)
        z  == MapPage(y, p2, IF srcFirst THEN TRUE ELSE srcWr, NoFault)
        s1 == MapSlot(c, p1)
        s2 == MapSlot(y, p2)
        n  == MinOf({blk.left, Span(blk.src)})
        from == IF srcFirst THEN s1 ELSE s2
        to   == IF srcFirst THEN s2 ELSE s1
    IN  /\ blk.op = op
        /\ c' = WriteAt(z, to, blk.dst, ReadAt(z, from, blk.src, n))
        /\ blk' = [blk EXCEPT !.src = @ + n, !.dst = @ + n, !.left = @ - n,
                              !.stale = @ \/ z.cache_page[s1] # p1]

\* The disjoint move resolves the source, then the destination, and copies
\* with both pointers: the first is not looked up again, even when mapping the
\* second page has taken its slot (stale).
SpanMove(op, srcFirst, srcWr) ==
    LET p1 == PageOf(IF srcFirst THEN blk.src ELSE blk.dst)
        p2 == PageOf(IF srcFirst THEN blk.dst ELSE blk.src)
        y  == MapPage(c, p1, IF srcFirst THEN srcWr ELSE TRUE, NoFault)
        z  == MapPage(y, p2, IF srcFirst THEN TRUE ELSE srcWr, NoFault)
        s1 == MapSlot(c, p1)
        s2 == MapSlot(y, p2)
        n  == MinOf({blk.left, Span(blk.src), Span(blk.dst)})
        from == IF srcFirst THEN s1 ELSE s2
        to   == IF srcFirst THEN s2 ELSE s1
    IN  /\ blk.op = op
        /\ c' = WriteAt(z, to, blk.dst, ReadAt(z, from, blk.src, n))
        /\ blk' = [blk EXCEPT !.src = @ + n, !.dst = @ + n, !.left = @ - n,
                              !.stale = @ \/ z.cache_page[s1] # p1]

MoveStep    == SpanMove("move", TRUE, FALSE)
FmemcpyStep == SpanMove("fmemcpy", FALSE, TRUE)

Step ==
    /\ ~Idle
    /\ \/ ReadStep \/ WriteStep \/ FindStep
       \/ MoveUpStep \/ MoveDownStep \/ MoveStep \/ FmemcpyStep
    /\ UNCHANGED ret

BlockNext == (GuestStore \/ Start(Ops) \/ Step) /\ UNCHANGED medium

BlockSpec == BlockInit /\ [][BlockNext]_bvars

-----------------------------------------------------------------------------
(* Properties.                                                             *)

Finished(op) == blk.op = op /\ blk.left = 0

\* However many pages were evicted on the way, reads and searches give the
\* caller the bytes guest RAM held when they were called and change nothing,
\* a block write changes the bytes of its range and no other, and overlapping
\* moves have the semantics of memmove.
TransfersAreExact ==
    /\ \A op \in {"read", "find"} : Finished(op) => blk.out = blk.answer
    /\ \A op \in {"read", "find", "write", "moveup", "movedown"} :
          Finished(op) => Image(c) = blk.want

\* The disjoint copies are exact as long as no pointer went stale: that is the
\* only way they can fail.
MovesExactUnlessStale ==
    \A op \in {"move", "fmemcpy"} : Finished(op) /\ ~blk.stale => Image(c) = blk.want
=============================================================================
