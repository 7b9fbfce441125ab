------------------------- MODULE BufferCacheFat12 -------------------------
(***************************************************************************)
(* A FAT12 entry that straddles two sectors of the FAT (fattab.cpp): both  *)
(* link_fat and read_fat_guest take the buffer of the first sector, then   *)
(* the buffer of the second, and go on using the first.                    *)
(***************************************************************************)
EXTENDS BufferCache

\* getFATblock: getblk, and the mark that makes flush1 write every FAT.
GetFATblock(g) ==
    IF g.ok THEN [g EXCEPT !.x.flag[g.x.firstbuf] = @ \cup {"FAT", "VALID"}] ELSE g

GetFATblocks(x, u, b) == {GetFATblock(g) : g \in Getblks(x, u, b, FALSE)}

\* link_fat: both halves of the entry are edited (the sectors become v and w)
\* after both buffers have been fetched, g and then h.
LinkFatStraddle(u, b, v, w, g, h) ==
    LET bp  == g.x.firstbuf
        bp1 == h.x.firstbuf
    IN  /\ g.ok
        /\ k' = IF h.ok
                THEN [h.x EXCEPT !.flag[bp1] = @ \cup {"DIRTY", "VALID"},
                                 !.data[bp] = v, !.data[bp1] = w,
                                 !.flag[bp] = @ \cup {"DIRTY", "VALID"}]
                ELSE h.x
        /\ want' = IF h.ok THEN [want EXCEPT ![u][b] = v, ![u][b + 1] = w] ELSE want
        /\ suspect' = suspect \cup g.bad \cup h.bad
        /\ ret' = IF h.ok THEN [op |-> "link", bp |-> bp, bp1 |-> bp1] ELSE Plain

NextFat12 ==
    \/ BufNext
    \/ \E u \in Unit, b \in FatBlock, v, w \in Value :
          /\ b + 1 \in FatBlock
          /\ \E g \in GetFATblocks(k, u, b) : \E h \in GetFATblocks(g.x, u, b + 1) :
                LinkFatStraddle(u, b, v, w, g, h)

SpecFat12 == BufInit /\ [][NextFat12]_bufvars

\* "blockio.c LRU logic ensures that bp != bp1" (fattab.cpp, link_fat): the
\* two halves of a straddling entry are in two different buffers.
TwoFatBuffersDiffer == ret.op = "link" => ret.bp # ret.bp1
=============================================================================
