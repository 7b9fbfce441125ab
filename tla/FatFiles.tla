------------------------------ MODULE FatFiles ------------------------------
(***************************************************************************)
(* Files on a FAT volume (src/src/fdos/fattab.cpp, fatfs.cpp): chains that *)
(* are followed, extended, cut and wiped one FAT access at a time, file    *)
(* handles that cache a place in a chain and reach the directory only when *)
(* they are closed, and calls that stop half way when a sector cannot be   *)
(* read or the buffers cannot be flushed.                                  *)
(*                                                                         *)
(* DOS runs one call at a time; its steps are the FAT entries it looks at  *)
(* or writes, the directory entries and the sectors it transfers. A        *)
(* cluster is one sector here. SHARE is never installed, so                *)
(* merge_file_changes does nothing; the guest opens a file once at a time  *)
(* and leaves an open file's name alone.                                   *)
(***************************************************************************)
EXTENDS Integers, FiniteSets

CONSTANTS
    LastCluster,  \* dpb_size: clusters are 2..LastCluster
    File,         \* slots of the directories
    Handle,       \* entries of the system file table
    SecSize,      \* dpb_secsize
    Count,        \* what the guest asks to read or write
    Position,     \* where in a file
    MaxFaults,    \* bound: failing reads, transfers and flushes
    MaxSince,     \* bound: calls on a volume that may be damaged
    None,
    Orphan        \* a table entry that no handle leads to any more

ASSUME FatAssumption ==
    /\ LastCluster \in Nat /\ LastCluster >= 2
    /\ SecSize \in Nat \ {0} /\ Count \subseteq Nat /\ Position \subseteq Nat /\ MaxFaults \in Nat /\ MaxSince \in Nat

\* The marks are no entries of a directory and no fnodes.
ASSUME MarksAssumption ==
    /\ None \notin [start : Int, size : Int]
    /\ \A mark \in {None, Orphan} :
           mark \notin [file : File, start : Int, size : Int, pos : Int, cluster : Int, rel : Int, clean : BOOLEAN]

Cluster == 2..LastCluster
FREE    == 0                 \* a free entry; also a file without clusters
Error   == 1                 \* next_cluster: the entry cannot be read, or makes no sense
LAST    == LastCluster + 1   \* LONG_LAST_CLUSTER
NewEntry  == LAST + 1        \* failures of extend: at the entry of the new cluster,
LastEntry == LAST + 2        \* or of the last one of the chain
UNKNCLUSTER  == 0            \* no hint where to look for free clusters
UNKNCLSTFREE == -1           \* the free count is not known: 0xffff, -1 in its 16 bits

VARIABLES
    vol,     \* the FAT, and the free count and the hint of the DPB
    dir,     \* directory entries: start and size, or None
    sft,     \* the system file table
    call,    \* the call in progress
    faults,  \* failures so far
    seeded,  \* history: a failure left a directory entry or a handle at freed clusters
    since,   \* calls since then
    steps    \* history: steps of the call in progress

fatvars == <<vol, dir, sft, call, faults, seeded, since, steps>>

Fresh(f, e) == [file |-> f, start |-> e.start, size |-> e.size, pos |-> 0,
                cluster |-> e.start, rel |-> 0, clean |-> TRUE]
NoCall == [pc |-> "idle", ret |-> None, h |-> None, mode |-> None, count |-> 0, left |-> 0,
         at |-> 0, from |-> 0, first |-> 0, run |-> 0, wanted |-> 0, st |-> 0,
         fn |-> None]

FatInit ==
    /\ sft = [h \in Handle |-> None] /\ call = NoCall /\ since = 0 /\ steps = 0
    /\ \/ /\ vol = [fat |-> [c \in Cluster |-> FREE], nfree |-> UNKNCLSTFREE, hint |-> UNKNCLUSTER]
          /\ dir = [f \in File |-> None] /\ faults = 0 /\ seeded = FALSE
       \/ \* a damaged volume with one file on it
          /\ \E t \in [Cluster -> Cluster \cup {FREE, LAST}] :
                vol = [fat |-> t, nfree |-> UNKNCLSTFREE, hint |-> UNKNCLUSTER]
          /\ \E f \in File, s \in Cluster, z \in {0, 2 * SecSize} :
                dir = [g \in File |-> IF g = f THEN [start |-> s, size |-> z] ELSE None]
          /\ faults = MaxFaults /\ seeded = TRUE

Lowest(S) == CHOOSE c \in S : \A d \in S : c <= d

Works == UNCHANGED faults
Fails == faults < MaxFaults /\ faults' = faults + 1

-----------------------------------------------------------------------------
Freed(fat) == {c \in Cluster : fat[c] = FREE}

\* Mutant of LinkFat: every entry written counts, whatever it was before.
LinkFatBlind(v, c, x) ==
    [v EXCEPT !.fat[c] = x,
              !.nfree = IF @ = UNKNCLSTFREE THEN @ ELSE @ + (IF x = FREE THEN 1 ELSE -1)]

\* link_fat writes an entry and keeps the free count with it.
LinkFat(v, c, x) ==
    LET adjust == (IF v.fat[c] = FREE THEN -1 ELSE 0) + (IF x = FREE THEN 1 ELSE 0)
    IN  [v EXCEPT !.fat[c] = x, !.nfree = IF @ = UNKNCLSTFREE THEN @ ELSE @ + adjust]

\* next_cluster does not lead to a free cluster.
NextCluster(fat, c) ==
    IF fat[c] \in Cluster /\ fat[fat[c]] = FREE THEN Error ELSE fat[c]

\* find_fat_free looks once round the FAT from the hint on, and takes an entry
\* it cannot read (unread) for a used one.
FindFatFree(v, unread) ==
    LET idx   == IF v.hint = UNKNCLUSTER THEN 2 ELSE v.hint
        free  == Freed(v.fat) \ unread
        ahead == {c \in free : c >= idx}
    IN  IF ahead # {} THEN Lowest(ahead) ELSE IF free # {} THEN Lowest(free) ELSE LAST

\* Mutant of Extend: the chain leads to the new cluster before it is marked.
ExtendChainFirst(v, fn, failure) ==
    LET new   == FindFatFree(v, {failure})
        found == [v EXCEPT !.hint = IF new = LAST THEN UNKNCLUSTER ELSE new]
        led   == IF fn.cluster = FREE THEN found ELSE LinkFat(found, fn.cluster, new)
        f     == IF fn.cluster = FREE THEN [fn EXCEPT !.start = new] ELSE fn
    IN  IF new = LAST \/ failure = LastEntry THEN [vol |-> found, fn |-> fn, got |-> LAST]
        ELSE IF failure = NewEntry THEN [vol |-> led, fn |-> f, got |-> LAST]
        ELSE [vol |-> LinkFat(led, new, LAST), fn |-> f, got |-> new]

\* extend: the new cluster becomes the end of the chain in the FAT before the
\* chain or the fnode leads to it. A failure is a cluster find_fat_free cannot
\* look at, or an access to the entry of the new or the last cluster.
Extend(v, fn, failure) ==
    LET new    == FindFatFree(v, {failure})
        found  == [v EXCEPT !.hint = IF new = LAST THEN UNKNCLUSTER ELSE new]
        linked == LinkFat(found, new, LAST)
        failed(w) == [vol |-> w, fn |-> fn, got |-> LAST]
    IN  IF new = LAST \/ failure = NewEntry THEN failed(found)
        ELSE IF fn.cluster = FREE
        THEN [vol |-> linked, fn |-> [fn EXCEPT !.start = new], got |-> new]
        ELSE IF failure = LastEntry \/ NextCluster(linked.fat, fn.cluster) # LAST THEN failed(linked)
        ELSE [vol |-> LinkFat(linked, fn.cluster, new), fn |-> fn, got |-> new]

-----------------------------------------------------------------------------
(* The course of a read or write: each operator is the call after a point  *)
(* of the code.                                                            *)

Return(c)  == [c EXCEPT !.pc = "return"]   \* fnode_to_sft, then the end
Abandon(c) == [c EXCEPT !.pc = "abandon"]  \* the end without fnode_to_sft

Put(c, x, rel) == [c EXCEPT !.fn.cluster = x, !.fn.rel = rel]

\* map_cluster goes on from the cluster the fnode has, or for an earlier place
\* from the start of the chain.
Map(c, at, ret) ==
    LET d == [c EXCEPT !.pc = IF c.fn.cluster = FREE THEN "map" ELSE "walk", !.at = at, !.ret = ret]
    IN  IF at \div SecSize < c.fn.rel THEN Put(d, c.fn.start, 0) ELSE d

\* Mutant of Loop: a read at the very end of the file goes on.
LoopPastEnd(c) ==
    IF c.left = 0 \/ (c.mode = "read" /\ c.fn.pos > c.fn.size) THEN Return(c)
    ELSE Map(c, c.fn.pos, "loop")

\* The top of rwblock's loop.
Loop(c) ==
    IF c.left = 0 \/ (c.mode = "read" /\ c.fn.pos >= c.fn.size) THEN Return(c)
    ELSE Map(c, c.fn.pos, "loop")

\* shrink_file wants the cluster of the last byte the file keeps.
ShrinkFile(c) ==
    IF c.fn.pos = 0 /\ c.fn.cluster = FREE THEN Return(c)
    ELSE Map(c, IF c.fn.pos > 0 THEN c.fn.pos - 1 ELSE 0, "shrink")

\* A write of nothing makes the file end at its position.
Extended(c) ==
    IF c.count > 0 THEN Loop(c)
    ELSE IF c.mode = "read" THEN Return(c)
    ELSE ShrinkFile([c EXCEPT !.fn.size = c.fn.pos])

\* A run of whole sectors grows while the chain goes on contiguously.
Grow(c) == IF c.run < c.wanted THEN Map(c, c.fn.pos, "run") ELSE [c EXCEPT !.pc = "run"]

StartRun(c) ==
    LET room == IF c.mode = "read" /\ c.left > c.fn.size - c.fn.pos
                THEN c.fn.size - c.fn.pos ELSE c.left
        wanted == room \div SecSize
    IN  IF c.fn.pos % SecSize # 0 \/ wanted = 0 THEN [c EXCEPT !.pc = "sector"]
        ELSE Grow([c EXCEPT !.from = c.fn.pos, !.first = c.fn.cluster, !.run = 1,
                            !.wanted = wanted, !.fn.pos = @ + SecSize])

\* Mutant of GrowRun: the next cluster joins the run wherever it lies.
GrowRunAnyway(c) == Grow([c EXCEPT !.run = @ + 1, !.fn.pos = c.from + (c.run + 1) * SecSize])

GrowRun(c) ==
    IF c.fn.cluster # c.first + c.run THEN [c EXCEPT !.pc = "run"]
    ELSE Grow([c EXCEPT !.run = @ + 1, !.fn.pos = c.from + (c.run + 1) * SecSize])

Advanced(c, n) ==
    LET d == [c EXCEPT !.left = @ - n, !.from = 0, !.first = 0, !.run = 0, !.wanted = 0]
    IN  Loop(IF c.mode = "write" /\ c.fn.pos > c.fn.size THEN [d EXCEPT !.fn.size = c.fn.pos] ELSE d)

Mapped(c) ==
    LET d == [c EXCEPT !.at = 0, !.ret = None]
    IN  CASE c.ret = "extend" -> Extended(d)
          [] c.ret = "loop"   -> StartRun(d)
          [] c.ret = "run"    -> GrowRun(d)
          [] c.ret = "shrink" -> [d EXCEPT !.pc = "cut"]

\* dos_extend gives the file what it could get.
NotMapped(c) ==
    CASE c.ret = "extend" -> Return(IF c.fn.cluster = FREE THEN c
                                    ELSE [c EXCEPT !.fn.size = (c.fn.rel + 1) * SecSize])
      [] c.ret = "loop"   -> Return(c)
      [] c.ret = "run"    -> [c EXCEPT !.pc = "run"]
      [] c.ret = "shrink" -> Abandon(c)

-----------------------------------------------------------------------------
(* map_cluster *)

Growing == call.mode = "write" /\ call.ret # "shrink"
Target  == call.at \div SecSize

\* The call goes on as c, or ends there. A request names its position (lseek
\* comes first where it differs), so a handle between calls keeps none.
Become(c) ==
    /\ call' = IF c.pc \in {"return", "abandon"} THEN NoCall ELSE c
    /\ sft' = IF c.pc = "return" THEN [sft EXCEPT ![c.h] = [c.fn EXCEPT !.pos = 0]] ELSE sft

\* extend, for the first cluster of the file or for one more.
ExtendChain(rel) ==
    /\ \E failure \in {0, NewEntry, LastEntry} \cup Cluster :
          /\ IF failure = 0 THEN Works ELSE Fails
          /\ LET e == Extend(vol, call.fn, failure)
                 c == [call EXCEPT !.fn = e.fn, !.pc = "walk"]
             IN  /\ vol' = e.vol
                 /\ Become(IF e.got = LAST THEN NotMapped(c) ELSE Put(c, e.got, rel))
    /\ UNCHANGED <<dir, seeded>>

MapEmpty ==
    /\ call.pc = "map"
    /\ \/ Growing /\ ExtendChain(call.fn.rel)
       \/ ~Growing /\ Become(NotMapped(call)) /\ UNCHANGED <<vol, dir, faults, seeded>>

Arrive ==
    /\ call.pc = "walk" /\ call.fn.rel = Target
    /\ Become(Mapped(call))
    /\ UNCHANGED <<vol, dir, faults, seeded>>

WalkChain ==
    /\ call.pc = "walk" /\ call.fn.rel # Target
    /\ \E next \in {NextCluster(vol.fat, call.fn.cluster), Error} :
          /\ IF next = NextCluster(vol.fat, call.fn.cluster) THEN Works ELSE Fails
          /\ ~(next = LAST /\ Growing)
          /\ Become(IF next \in Cluster THEN Put(call, next, call.fn.rel + 1) ELSE NotMapped(call))
    /\ UNCHANGED <<vol, dir, seeded>>

WalkOn ==
    /\ call.pc = "walk" /\ call.fn.rel # Target
    /\ Growing /\ NextCluster(vol.fat, call.fn.cluster) = LAST
    /\ ExtendChain(call.fn.rel + 1)

-----------------------------------------------------------------------------
(* rwblock *)

BetweenCalls == call = NoCall
Open(h)      == sft[h] \notin {None, Orphan}
IsOpen(f)    == \E h \in Handle : Open(h) /\ sft[h].file = f

\* rwblock: a write past the end first makes the chain reach its position
\* (dos_extend), or with nothing to write the byte before it, when that is the
\* last of a cluster.
Transfer(h, p, mode, count) ==
    /\ BetweenCalls /\ Open(h)
    /\ LET fn == [sft[h] EXCEPT !.pos = p, !.clean = @ /\ mode = "read"]
           c  == [NoCall EXCEPT !.h = h, !.mode = mode, !.count = count, !.left = count, !.fn = fn]
       IN  Become(IF mode = "write" /\ p > fn.size
                  THEN Map(c, IF count = 0 /\ p % SecSize = 0 THEN p - 1 ELSE p, "extend")
                  ELSE Extended(c))
    /\ UNCHANGED <<vol, dir, faults, seeded>>

\* A run goes to or comes from the disk at once; if that fails the position
\* goes back to where it began.
DoRun ==
    /\ call.pc = "run"
    /\ \/ Works /\ Become(Advanced(call, call.run * SecSize))
       \/ Fails /\ Become(Return([call EXCEPT !.fn.pos = call.from]))
    /\ UNCHANGED <<vol, dir, seeded>>

\* A part of a sector goes through a buffer.
DoSector ==
    /\ call.pc = "sector"
    /\ LET room == SecSize - (call.fn.pos % SecSize)
           upto == IF call.left < room THEN call.left ELSE room
           rest == call.fn.size - call.fn.pos
           n    == IF call.mode = "read" /\ rest < upto THEN rest ELSE upto
       IN  \/ Works /\ Become(Advanced([call EXCEPT !.fn.pos = @ + n], n))
           \/ Fails /\ Become(Return(call))
    /\ UNCHANGED <<vol, dir, seeded>>

\* shrink_file ends the chain at the cluster it found, or lets go of the first.
CutChain ==
    /\ call.pc = "cut"
    /\ LET fn    == call.fn
           next  == NextCluster(vol.fat, fn.cluster)
           empty == fn.size = 0
           c     == IF empty THEN [call EXCEPT !.fn.cluster = FREE, !.fn.start = FREE] ELSE call
       IN  \/ Fails /\ Become(Abandon(call)) /\ UNCHANGED vol
           \/ Works /\ next \in {FREE, Error} /\ Become(Abandon(call)) /\ UNCHANGED vol
           \/ Works /\ next = LAST /\ ~empty /\ Become(Return(call)) /\ UNCHANGED vol
           \/ /\ Works /\ next \notin {FREE, Error} /\ (empty \/ next # LAST)
              /\ vol' = LinkFat(vol, fn.cluster, IF empty THEN FREE ELSE LAST)
              /\ Become([c EXCEPT !.pc = "wipe", !.ret = "flush", !.st = next])
    /\ UNCHANGED <<dir, seeded>>

\* Mutant of Wipe: the last cluster of the chain is not freed.
WipeShort ==
    /\ call.pc = "wipe"
    /\ LET st   == call.st
           next == IF st = LAST THEN LAST ELSE NextCluster(vol.fat, st)
           done == [call EXCEPT !.pc = call.ret, !.ret = None, !.st = 0]
       IN  \/ Works /\ next \in {FREE, Error, LAST} /\ call' = done /\ UNCHANGED vol
           \/ Fails /\ st # LAST /\ call' = done /\ UNCHANGED vol
           \/ /\ Works /\ st # LAST /\ next \in Cluster
              /\ vol' = [LinkFat(vol, st, FREE) EXCEPT
                            !.hint = IF @ = UNKNCLUSTER \/ @ > st THEN st ELSE @]
              /\ call' = [call EXCEPT !.st = next]
    /\ UNCHANGED <<dir, sft, seeded>>

\* wipe_out_clusters frees a chain from st on, and stops at what it cannot read.
Wipe ==
    /\ call.pc = "wipe"
    /\ LET st   == call.st
           next == IF st = LAST THEN LAST ELSE NextCluster(vol.fat, st)
           done == [call EXCEPT !.pc = call.ret, !.ret = None, !.st = 0]
       IN  \/ Works /\ (st = LAST \/ next \in {FREE, Error}) /\ call' = done /\ UNCHANGED vol
           \/ Fails /\ st # LAST /\ call' = done /\ UNCHANGED vol
           \/ /\ Works /\ st # LAST /\ next \notin {FREE, Error}
              /\ vol' = [LinkFat(vol, st, FREE) EXCEPT
                            !.hint = IF @ = UNKNCLUSTER \/ @ > st THEN st ELSE @]
              /\ call' = [call EXCEPT !.st = next]
    /\ UNCHANGED <<dir, sft, seeded>>

\* shrink_file flushes the buffers before it counts as done.
FlushShrunk ==
    /\ call.pc = "flush"
    /\ \/ Works /\ Become(Return(call)) /\ UNCHANGED seeded
       \/ Fails /\ Become(Abandon(call)) /\ seeded' = TRUE
    /\ UNCHANGED <<vol, dir>>

-----------------------------------------------------------------------------
(* Opening, closing and the directory *)

\* dos_open of a file that is there.
OpenFile(f, h) ==
    /\ BetweenCalls /\ sft[h] = None /\ dir[f] # None /\ ~IsOpen(f)
    /\ sft' = [sft EXCEPT ![h] = Fresh(f, dir[f])]
    /\ UNCHANGED <<vol, dir, call, faults, seeded>>

Empty == [start |-> FREE, size |-> 0]
StartOf(f) == IF dir[f] = None THEN FREE ELSE dir[f].start

\* The clusters of f go first (wipe_out), then its entry.
WipeOut(f, c) ==
    call' = [c EXCEPT !.fn = Fresh(f, Empty), !.st = StartOf(f),
                      !.pc = IF StartOf(f) = FREE THEN c.ret ELSE "wipe",
                      !.ret = IF StartOf(f) = FREE THEN None ELSE @]

\* dos_open with O_CREAT or O_TRUNC.
Create(f, h) ==
    /\ BetweenCalls /\ sft[h] = None /\ ~IsOpen(f)
    /\ WipeOut(f, [NoCall EXCEPT !.h = h, !.ret = "create"])
    /\ UNCHANGED <<vol, dir, sft, faults, seeded>>

Delete(f) ==
    /\ BetweenCalls /\ dir[f] # None /\ ~IsOpen(f)
    /\ WipeOut(f, [NoCall EXCEPT !.ret = "delete"])
    /\ UNCHANGED <<vol, dir, sft, faults, seeded>>

\* dir_write: the entry is written; or its sector cannot be read, and it keeps
\* leading to what was wiped out; or it is written and cannot be flushed.
WriteEntry ==
    /\ call.pc \in {"create", "delete"}
    /\ LET f == call.fn.file
           written == [dir EXCEPT ![f] = IF call.pc = "create" THEN Empty ELSE None]
       IN  \/ /\ Works /\ dir' = written /\ UNCHANGED seeded
              /\ sft' = IF call.pc = "create" THEN [sft EXCEPT ![call.h] = Fresh(f, Empty)] ELSE sft
           \/ Fails /\ UNCHANGED <<dir, sft>> /\ seeded' = (seeded \/ StartOf(f) # FREE)
           \/ Fails /\ dir' = written /\ UNCHANGED <<sft, seeded>>
    /\ call' = NoCall
    /\ UNCHANGED vol

\* dos_rename into another directory: the old entry is deleted, then the new
\* one written.
Move(f, g) ==
    /\ BetweenCalls /\ dir[f] # None /\ dir[g] = None /\ ~IsOpen(f)
    /\ \/ /\ Works /\ dir' = [dir EXCEPT ![f] = None]
          /\ call' = [NoCall EXCEPT !.pc = "move", !.fn = Fresh(g, dir[f])]
       \/ Fails /\ UNCHANGED <<dir, call>>
       \/ Fails /\ dir' = [dir EXCEPT ![f] = None] /\ UNCHANGED call
    /\ UNCHANGED <<vol, sft, seeded>>

EndMove ==
    /\ call.pc = "move"
    /\ LET fn == call.fn
       IN  \/ (Works \/ Fails) /\ dir' = [dir EXCEPT ![fn.file] = [start |-> fn.start, size |-> fn.size]]
           \/ Fails /\ UNCHANGED dir
    /\ call' = NoCall
    /\ UNCHANGED <<vol, sft, seeded>>

\* dos_close writes back what a write changed; DosCloseSft frees the entry of
\* the table if that and the flush went well; the handle is gone in any case.
\* When the directory misses what was written it may lead to freed clusters.
Close(h) ==
    /\ BetweenCalls /\ Open(h)
    /\ LET fn == sft[h]
           written == IF fn.clean THEN dir
                      ELSE [dir EXCEPT ![fn.file] = [start |-> fn.start, size |-> fn.size]]
       IN  \/ /\ Works /\ dir' = written /\ UNCHANGED seeded
              /\ sft' = [sft EXCEPT ![h] = None]
           \/ /\ Fails /\ dir' = written /\ UNCHANGED seeded
              /\ sft' = [sft EXCEPT ![h] = Orphan]
           \/ /\ ~fn.clean /\ Fails /\ UNCHANGED dir /\ seeded' = TRUE
              /\ sft' = [sft EXCEPT ![h] = Orphan]
    /\ UNCHANGED <<vol, call>>

\* dos_free counts the free clusters when the count is not known; an entry it
\* cannot read counts as used.
DosFree ==
    /\ BetweenCalls /\ vol.nfree = UNKNCLSTFREE
    /\ \E unread \in {{}} \cup {{c} : c \in Cluster} :
          /\ IF unread = {} THEN Works ELSE Fails
          /\ LET free == Freed(vol.fat) \ unread
             IN  vol' = [vol EXCEPT !.nfree = Cardinality(free),
                                    !.hint = IF free = {} THEN @ ELSE Lowest(free)]
    /\ UNCHANGED <<dir, sft, call, seeded>>

Proceed ==
    /\ \/ MapEmpty \/ Arrive \/ WalkChain \/ WalkOn
       \/ DoRun \/ DoSector \/ CutChain \/ Wipe \/ FlushShrunk \/ WriteEntry \/ EndMove
    /\ steps' = IF call' = NoCall THEN 0 ELSE steps + 1
    /\ UNCHANGED since

Ask ==
    /\ \/ \E h \in Handle : \/ \E p \in Position, mode \in {"read", "write"}, n \in Count :
                                  Transfer(h, p, mode, n)
                            \/ Close(h)
                            \/ \E f \in File : OpenFile(f, h) \/ Create(f, h)
       \/ \E f \in File : Delete(f) \/ \E g \in File : Move(f, g)
       \/ DosFree
    /\ IF seeded THEN since < MaxSince /\ since' = since + 1 ELSE UNCHANGED since
    /\ UNCHANGED steps

FatNext == Proceed \/ Ask

FatSpec == FatInit /\ [][FatNext]_fatvars

-----------------------------------------------------------------------------
\* The chain that starts at a cluster: Nth gives its links, one after another,
\* up to what ends it.
Nth(c) == LET n[i \in 0..LastCluster] ==
                  IF i = 0 THEN c ELSE IF n[i - 1] \in Cluster THEN vol.fat[n[i - 1]] ELSE n[i - 1]
          IN  n
Chain(c)  == {Nth(c)[i] : i \in 0..LastCluster} \cap Cluster

\* What a file is now: as its handle has it while it is open.
Current(f) ==
    IF IsOpen(f) THEN LET h == CHOOSE g \in Handle : Open(g) /\ sft[g].file = f
                      IN  [start |-> sft[h].start, size |-> sft[h].size]
    ELSE dir[f]
Files == {f \in File : IsOpen(f) \/ dir[f] # None}

\* The promise of the file system, between calls: every file is a chain of
\* used clusters that ends, long enough for its size and shared with no other
\* file, and the cluster an open handle remembers is the one of that place in
\* the file. It holds whatever single access failed, unless a failure left an
\* entry or a handle at freed clusters ("crosslink seed", wipe_out).
FilesWhole ==
    BetweenCalls /\ ~seeded =>
        /\ \A f \in Files :
              LET e == Current(f)
              IN  /\ e.start # FREE => Nth(e.start)[LastCluster] = LAST
                  /\ e.size <= Cardinality(Chain(e.start)) * SecSize
        /\ \A f, g \in Files : f # g => Chain(Current(f).start) \cap Chain(Current(g).start) = {}
        /\ \A h \in Handle : Open(h) => Nth(sft[h].start)[sft[h].rel] = sft[h].cluster

\* Without failures no cluster is lost: between calls each is free or in the
\* chain of a file, also when a write ran into a full disk and gave up, or a
\* file was cut, wiped and grown again.
NothingLost ==
    BetweenCalls /\ faults = 0 /\ ~seeded =>
        Cluster = Freed(vol.fat) \cup UNION {Chain(Current(f).start) : f \in Files}

\* A known free count (what DOS reports without looking at the FAT) is right,
\* and after failures at least not too high, on damaged volumes too.
FreeCountTrue ==
    \/ vol.nfree = UNKNCLSTFREE
    \/ /\ vol.nfree <= Cardinality(Freed(vol.fat))
       /\ faults = 0 => vol.nfree = Cardinality(Freed(vol.fat))

\* What a read or write moves, one sector or a run of sectors found to be
\* contiguous, lies where the chain of the file has those places.
TransfersInPlace ==
    ~seeded =>
        /\ call.pc = "run" => \A i \in 0..(call.run - 1) :
              Nth(call.fn.start)[call.from \div SecSize + i] = call.first + i
        /\ call.pc = "sector" => Nth(call.fn.start)[call.fn.pos \div SecSize] = call.fn.cluster

\* Every call comes to an end, on a damaged FAT with cycles and cross links
\* too: it takes a few steps for each place it can reach and each cluster.
CallsEnd ==
    \A n \in Count, p \in Position :
        (\A m \in Count, q \in Position : m + q <= n + p) =>
            steps <= 4 * ((n + p) \div SecSize + LastCluster)
=============================================================================
