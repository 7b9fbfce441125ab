---------------------------- MODULE BufferCache ----------------------------
(***************************************************************************)
(* The sector cache of the DOS kernel (src/src/fdos/blockio.cpp): a ring of*)
(* buffers in guest memory, linked both ways by offsets and entered at     *)
(* LoL->firstbuf, that the file system reads and writes sectors through,   *)
(* and the transfers that go round it: whole-sector reads and writes of    *)
(* files (fatfs.cpp, rwblock), INT 26h (fdos_2528.c) and INT 21h/7305h.    *)
(*                                                                         *)
(* A sector is one opaque value, a partial write of it any new value.  A   *)
(* drive is FatSize sectors of FAT, stored Fats times, and then data.      *)
(* `want' and `suspect' are history: the last contents the file system was *)
(* told it had stored, and the sectors that a disk error or a write behind *)
(* the cache's back has cost that guarantee.                               *)
(***************************************************************************)
EXTENDS Integers

CONSTANTS
    BufCount,  \* LoL->nbuffers
    Unit,      \* drives
    FatSize,   \* dpb_fatsize
    Fats,      \* dpb_fats
    DataSize,  \* sectors after the FATs
    MaxRun,    \* sectors of one direct transfer
    Value      \* contents of a sector

ASSUME CacheAssumption ==
    /\ BufCount \in Nat \ {0}
    /\ FatSize \in Nat \ {0}
    /\ Fats \in Nat \ {0}
    /\ DataSize \in Nat
    /\ MaxRun \in Nat
    /\ 0 \in Unit  \* config_init_buffers leaves b_unit 0 in every buffer
    /\ 0 \in Value

VARIABLES
    k,        \* the cache and the disks: see Kernel
    want,     \* history: the contents each sector should have
    suspect,  \* history: the sectors whose contents are not vouched for
    ret       \* what the last flush_buffers or direct read returned

bufvars == <<k, want, suspect, ret>>

Buf       == 0 .. BufCount - 1
Block     == 0 .. FatSize * Fats + DataSize - 1
FatBlock  == 0 .. FatSize - 1
DataBlock == FatSize * Fats .. FatSize * Fats + DataSize - 1
Flag      == {"VALID", "DIRTY", "FAT", "UNCACHE"}

Kernel == [firstbuf : Buf,
           prev     : [Buf -> Buf],
           next     : [Buf -> Buf],
           unit     : [Buf -> Unit],
           blkno    : [Buf -> Block],
           flag     : [Buf -> SUBSET Flag],
           data     : [Buf -> Value],
           disk     : [Unit -> [Block -> Value]]]

\* The copy of sector b in the i-th FAT.
Mirror(b, i) == b + i * FatSize

-----------------------------------------------------------------------------
(* dskxfer.  After any number of retries a transfer succeeds, fails, or is *)
(* given up by an INT 24h handler that answers "ignore", in which case     *)
(* dskxfer reports success.                                                *)

Result == {"ok", "fail", "ignored"}

-----------------------------------------------------------------------------
(* searchblock and the ring.                                               *)

\* The buffers in the order of the do-while loops: Walk(x)[i] after i steps.
Walk(x) ==
    LET at[i \in 0 .. BufCount] == IF i = 0 THEN x.firstbuf ELSE x.next[at[i - 1]]
    IN  at

Laps(x) == LET at == Walk(x) IN {i \in 1 .. BufCount : at[i] = x.firstbuf}

\* The walk is back at firstbuf within nbuffers steps; otherwise searchblock
\* reports a bad link and the kernel halts, and the other loops never end.
Closed(x) == Laps(x) # {}

Least(S)    == CHOOSE i \in S : \A j \in S : i <= j
Greatest(S) == CHOOSE i \in S : \A j \in S : i >= j

Place(x) == 0 .. Least(Laps(x)) - 1
Ring(x)  == LET at == Walk(x) IN {at[i] : i \in Place(x)}

Holds(x, p, u, b) == "VALID" \in x.flag[p] /\ x.unit[p] = u /\ x.blkno[p] = b

\* Places of the walk whose buffer has, or has not, a flag.
With(x, f)    == LET at == Walk(x) IN {i \in Place(x) : f \in x.flag[at[i]]}
Without(x, f) == Place(x) \ With(x, f)

\* Mutant: a block of another drive counts as a hit.
HitsAnyUnit(x, u, b) == {i \in Place(x) : \E w \in Unit : Holds(x, Walk(x)[i], w, b)}

Hits(x, u, b) == LET at == Walk(x) IN {i \in Place(x) : Holds(x, at[i], u, b)}

\* The buffer a miss takes: the last one to be released early; the last
\* non-FAT one if fewer than three hold FAT sectors and the first one does;
\* else the one before firstbuf.
Victim(x) ==
    IF With(x, "UNCACHE") # {} THEN Walk(x)[Greatest(With(x, "UNCACHE"))]
    ELSE IF /\ "FAT" \in x.flag[x.firstbuf]
            /\ \A i, j, l \in With(x, "FAT") : i = j \/ j = l \/ i = l
            /\ Without(x, "FAT") # {}
         THEN Walk(x)[Greatest(Without(x, "FAT"))]
    ELSE x.prev[x.firstbuf]

\* Mutant: the last store of move_buffer is left out.
MoveBufferNoNext(x, bp) ==
    LET prev == x.prev[bp]
        next == x.next[bp]
        first == x.firstbuf
    IN  [x EXCEPT !.prev[next] = prev,  !.next[prev] = next,
                  !.prev[bp] = x.prev[first], !.next[bp] = first, !.prev[first] = bp]

\* move_buffer, with the order of its loads and stores: first.prev is read
\* before bp is unlinked, so that moving the last buffer of the ring links it
\* to itself and drops the others.  firstbuf is set by the caller.
MoveBuffer(x, bp) ==
    LET prev == x.prev[bp]
        next == x.next[bp]
        first == x.firstbuf
        firstPrev == x.prev[first]
    IN  [x EXCEPT !.prev[next] = prev,  !.next[prev] = next,
                  !.prev[bp] = firstPrev, !.next[bp] = first,
                  !.prev[first] = bp,   !.next[firstPrev] = bp]

ToFront(x, p) ==
    IF p = x.firstbuf THEN x ELSE [MoveBuffer(x, p) EXCEPT !.firstbuf = p]

SearchBlock(x, u, b) ==
    IF Hits(x, u, b) # {}
    THEN LET p == Walk(x)[Least(Hits(x, u, b))]
         IN  ToFront([x EXCEPT !.flag[p] = @ \ {"UNCACHE"}], p)
    ELSE LET p == Victim(x)
         IN  ToFront([x EXCEPT !.flag[p] = @ \cup {"UNCACHE"}], p)

-----------------------------------------------------------------------------
(* flush1 and getblk.                                                      *)

\* Mutant: a buffer released early is not written back.
DirtyKept(x, p) == {"VALID", "DIRTY"} \subseteq x.flag[p] /\ "UNCACHE" \notin x.flag[p]

Dirty(x, p) == {"VALID", "DIRTY"} \subseteq x.flag[p]

Copies(x, p) == IF "FAT" \in x.flag[p] THEN 0 .. Fats - 1 ELSE {0}

\* The results open to the writes of flush1(p): none if there is no write.
WriteResults(x, p) == IF Dirty(x, p) THEN [Copies(x, p) -> Result] ELSE {<<>>}

\* The buffer's sector, and for a FAT sector every copy of it.
Written(x, p, w) ==
    [x EXCEPT !.disk[x.unit[p]] =
        [b \in Block |->
            IF \E i \in DOMAIN w : w[i] = "ok" /\ Mirror(x.blkno[p], i) = b
            THEN x.data[p] ELSE @[b]]]

Failed(w) == \E i \in DOMAIN w : w[i] = "fail"

\* Mutant: only the first FAT is written.
Flush1FirstFat(x, p, w) ==
    [Written(x, p, [i \in DOMAIN w \cap {0} |-> w[i]])
        EXCEPT !.flag[p] = @ \ (IF Failed(w) THEN {"DIRTY", "VALID"} ELSE {"DIRTY"})]

Flush1(x, p, w) ==
    [Written(x, p, w)
        EXCEPT !.flag[p] = @ \ (IF Failed(w) THEN {"DIRTY", "VALID"} ELSE {"DIRTY"})]

\* The sectors that the writes of flush1(p) may leave wrong.
Damage(x, p, w) ==
    IF \E i \in DOMAIN w : w[i] # "ok" THEN {<<x.unit[p], x.blkno[p]>>} ELSE {}

\* The transfers of getblk(b, u): w are the results of the write-back, r
\* that of the read, junk what a read that fails leaves in the buffer.
Outcomes(x, u, b, overwrite) ==
    LET y == SearchBlock(x, u, b)
        p == y.firstbuf
    IN  IF "UNCACHE" \notin y.flag[p]
        THEN {[w |-> <<>>, r |-> "ok", junk |-> 0]}
        ELSE {io \in [w : WriteResults(y, p), r : Result, junk : Value] :
                /\ overwrite \/ Failed(io.w) => io.r = "ok"
                /\ io.r = "ok" => io.junk = 0}

\* getblk: the buffer is firstbuf of x; ok says whether it was returned, bad
\* names the sectors that errors have cost.
Getblk(x, u, b, overwrite, io) ==
    LET y == SearchBlock(x, u, b)
        p == y.firstbuf
        z == Flush1(y, p, io.w)
        d == [z EXCEPT !.data[p] = IF overwrite THEN @
                                   ELSE IF io.r = "ok" THEN z.disk[u][b] ELSE io.junk]
    IN  IF "UNCACHE" \notin y.flag[p] THEN [ok |-> TRUE, x |-> y, bad |-> {}]
        ELSE IF Failed(io.w) THEN [ok |-> FALSE, x |-> z, bad |-> Damage(y, p, io.w)]
        \* The read has failed: the buffer still passes for its old sector.
        ELSE IF io.r = "fail"
             THEN [ok |-> FALSE, x |-> d,
                   bad |-> Damage(y, p, io.w) \cup
                           {q \in {<<y.unit[p], y.blkno[p]>>} : "VALID" \in y.flag[p]}]
        ELSE [ok  |-> TRUE,
              x   |-> [d EXCEPT !.flag[p] = {"VALID"}, !.unit[p] = u, !.blkno[p] = b],
              bad |-> Damage(y, p, io.w) \cup (IF io.r = "ok" THEN {} ELSE {<<u, b>>})]

\* Every way a call of getblk can end.
Getblks(x, u, b, overwrite) ==
    {Getblk(x, u, b, overwrite, io) : io \in Outcomes(x, u, b, overwrite)}

-----------------------------------------------------------------------------
(* Operations that run over the whole ring.                                *)

\* The buffers of S that an operation writes back, with results w[p].
WriteBacks(x, S) == [{p \in S : Dirty(x, p)} -> [0 .. Fats - 1 -> Result]]

ResultsOf(x, p, w) == IF p \in DOMAIN w THEN [i \in Copies(x, p) |-> w[p][i]] ELSE <<>>

\* flush1 of every buffer of S, in the order of the walk.
FlushSet(x, S, w) ==
    LET run[i \in 0 .. BufCount] ==
            IF i = 0 THEN x
            ELSE LET p == Walk(x)[i - 1]
                 IN  IF i - 1 \in Place(x) /\ p \in S
                     THEN Flush1(run[i - 1], p, ResultsOf(x, p, w)) ELSE run[i - 1]
    IN  run[BufCount]

FlushFailed(x, w) == \E p \in DOMAIN w : Failed(ResultsOf(x, p, w))

FlushDamage(x, w) == UNION {Damage(x, p, ResultsOf(x, p, w)) : p \in DOMAIN w}

OfUnit(x, u) == {p \in Ring(x) : x.unit[p] = u}

\* The buffers DeleteBlockInBufferCache finds for the sectors B of drive u.
Cached(x, u, B) == {p \in Ring(x) : \E b \in B : Holds(x, p, u, b)}

\* setinvld, and DeleteBlockInBufferCache for a write: flags cleared.
Clear(x, S) == [x EXCEPT !.flag = [p \in Buf |-> IF p \in S THEN {} ELSE @[p]]]

Setinvld(x, u) == Clear(x, OfUnit(x, u))

\* The sectors whose only good copy is in the buffers S.
Unwritten(x, S) == {<<x.unit[p], x.blkno[p]>> : p \in {q \in S : Dirty(x, q)}}

\* A direct write of v to the sectors B of drive u.  If it fails or is
\* ignored, any of the sectors may have been written.
Stored(x, u, B, v) == [x EXCEPT !.disk[u] = [b \in Block |-> IF b \in B THEN v ELSE @[b]]]

WantStored(u, B, v) == [want EXCEPT ![u] = [b \in Block |-> IF b \in B THEN v ELSE @[b]]]

\* The FAT sectors of which B holds a copy.
FatsIn(B) == {b \in FatBlock : \E i \in 0 .. Fats - 1 : Mirror(b, i) \in B}

On(u, B) == {u} \X B

-----------------------------------------------------------------------------
(* The calls of the file system.                                           *)

\* The return of a call that no property asks about.
Plain == [op |-> "other"]

\* config_init_buffers: the ring over freshly zeroed memory.
BufInit ==
    /\ k = [firstbuf |-> 0,
            prev     |-> [p \in Buf |-> IF p = 0 THEN BufCount - 1 ELSE p - 1],
            next     |-> [p \in Buf |-> IF p = BufCount - 1 THEN 0 ELSE p + 1],
            unit     |-> [p \in Buf |-> 0],
            blkno    |-> [p \in Buf |-> 0],
            flag     |-> [p \in Buf |-> {}],
            data     |-> [p \in Buf |-> 0],
            disk     |-> [u \in Unit |-> [b \in Block |-> 0]]]
    /\ want = [u \in Unit |-> [b \in Block |-> 0]]
    /\ suspect = {}
    /\ ret = Plain

\* The flags a reader adds: none, early release at the end of the file, or
\* the mark of a FAT sector (getFATblock).
ReadMarks(b) == IF b \in FatBlock THEN {{"FAT", "VALID"}} ELSE {{}, {"UNCACHE"}}

\* A part of a sector read through the cache: file data (rwblock), a
\* directory entry or a FAT entry inside one sector (next_cluster).
Read(mark, g) ==
    LET p == g.x.firstbuf
    IN  /\ k' = IF g.ok THEN [g.x EXCEPT !.flag[p] = @ \cup mark] ELSE g.x
        /\ suspect' = suspect \cup g.bad
        /\ ret' = Plain
        /\ UNCHANGED want

\* Only clear_dir overwrites whole sectors, and releases all but the first.
WriteMarks(b, overwrite) ==
    IF b \in FatBlock THEN {{"FAT"}} ELSE IF overwrite THEN {{}, {"UNCACHE"}} ELSE {{}}

\* A part of a sector written through the cache: file data, a directory
\* entry, a FAT entry inside one sector (link_fat); or a new directory's
\* sector, which is not read first (v is then zeroes).
Write(u, b, v, mark, g) ==
    LET p == g.x.firstbuf
    IN  /\ k' = IF g.ok
                THEN [g.x EXCEPT !.data[p] = v, !.flag[p] = @ \cup {"VALID", "DIRTY"} \cup mark]
                ELSE g.x
        /\ want' = IF g.ok THEN [want EXCEPT ![u][b] = v] ELSE want
        /\ suspect' = suspect \cup g.bad
        /\ ret' = Plain

\* flush_buffers of one drive.
FlushBuffers(u, w) ==
    /\ k' = FlushSet(k, OfUnit(k, u), w)
    /\ suspect' = suspect \cup FlushDamage(k, w)
    /\ ret' = [op |-> "flush", unit |-> u, ok |-> ~FlushFailed(k, w)]
    /\ UNCHANGED want

\* flush (disk reset): every buffer is written back and dropped.
FlushAll(w) ==
    LET y == FlushSet(k, Ring(k), w)
    IN  /\ k' = [y EXCEPT !.flag = [p \in Buf |-> IF p \in Ring(k) THEN @[p] \ {"VALID"}
                                                 ELSE @[p]]]
        /\ suspect' = suspect \cup FlushDamage(k, w)
        /\ ret' = Plain
        /\ UNCHANGED want

\* media_check with the answer M_DONT_KNOW: a drive with dirty buffers is
\* taken for unchanged (dirty_buffers), the others are forgotten.
MediaDontKnow(u) ==
    /\ ~ \E p \in OfUnit(k, u) : Dirty(k, p)
    /\ k' = Setinvld(k, u)
    /\ ret' = Plain
    /\ UNCHANGED <<want, suspect>>

\* M_CHANGED, another medium: it holds a volume of its own (contents n).
MediaReplaced(u, n) ==
    /\ k' = [Setinvld(k, u) EXCEPT !.disk[u] = n]
    /\ want' = [want EXCEPT ![u] = n]
    /\ suspect' = {q \in suspect : q[1] # u}
    /\ ret' = Plain

\* M_CHANGED, the same medium put back: what was not written back is gone.
MediaReinserted(u) ==
    /\ k' = Setinvld(k, u)
    /\ suspect' = suspect \cup Unwritten(k, OfUnit(k, u))
    /\ ret' = Plain
    /\ UNCHANGED want

-----------------------------------------------------------------------------
(* Transfers that go round the cache, of the sectors B of drive u.         *)

\* rwblock reading whole sectors: cached copies are written back first, and
\* nobody looks whether that failed.
DirectRead(u, B, w, r) ==
    LET y == FlushSet(k, Cached(k, u, B), w)
    IN  /\ k' = y
        /\ suspect' = suspect \cup FlushDamage(k, w)
        /\ ret' = IF r = "ok" THEN [op |-> "direct", unit |-> u, val |-> [b \in B |-> y.disk[u][b]]]
                  ELSE Plain
        /\ UNCHANGED want

\* What a direct write of v leaves: `torn' are the sectors it reached.
Transferred(x, u, B, v, r, torn) == Stored(x, u, IF r = "ok" THEN B ELSE torn, v)

\* rwblock writing whole sectors: cached copies are dropped first.
DirectWrite(u, B, v, r, torn) ==
    /\ k' = Transferred(Clear(k, Cached(k, u, B)), u, B, v, r, torn)
    /\ want' = IF r = "fail" THEN want ELSE WantStored(u, B, v)
    /\ suspect' = suspect \cup (IF r = "ok" THEN {} ELSE On(u, B))
    /\ ret' = Plain

\* INT 26h: only the first sector, lo, is dropped from the cache; an error
\* drops everything of the drive.  It may write into the FATs.
AbsoluteWrite(u, lo, B, v, r, torn) ==
    LET y == Clear(k, Cached(k, u, {lo}))
        z == Transferred(y, u, B, v, r, torn)
        fats == On(u, FatsIn(B))
    IN  /\ r # "ignored"  \* no critical error is raised
        /\ k' = IF r = "ok" THEN z ELSE Setinvld(z, u)
        /\ want' = IF r = "ok" THEN WantStored(u, B, v) ELSE want
        /\ suspect' = suspect \cup fats \cup
                IF r = "ok" THEN On(u, {b \in B : Cached(y, u, {b}) # {}})
                ELSE On(u, B) \cup Unwritten(y, OfUnit(y, u))
        /\ ret' = Plain

\* INT 21h/7305h: after a success everything of the drive is dropped, what
\* was not written back too; after an error nothing is.
ExtendedWrite(u, B, v, r, torn) ==
    LET z == Transferred(k, u, B, v, r, torn)
        fats == On(u, FatsIn(B))
    IN  /\ r # "ignored"
        /\ k' = IF r = "ok" THEN Setinvld(z, u) ELSE z
        /\ want' = IF r = "ok" THEN WantStored(u, B, v) ELSE want
        /\ suspect' = suspect \cup fats \cup
                IF r = "ok" THEN Unwritten(k, OfUnit(k, u)) \ On(u, B) ELSE On(u, B)
        /\ ret' = Plain

-----------------------------------------------------------------------------

\* A run of sectors, and what a transfer of it may reach: sectors go in order.
Runs(S) == {b .. b + n - 1 : b \in S, n \in 1 .. MaxRun} \cap SUBSET S

Torn(B, r) == IF r = "ok" THEN {{}} ELSE {{b \in B : b < n} : n \in B \cup {Greatest(B) + 1}}

\* The contents of a formatted volume: the FATs agree.
Volume == {n \in [Block -> Value] :
              \A b \in FatBlock, i \in 0 .. Fats - 1 : n[Mirror(b, i)] = n[b]}

Cache ==
    \E u \in Unit, b \in FatBlock \cup DataBlock :
        \/ \E g \in Getblks(k, u, b, FALSE), mark \in ReadMarks(b) : Read(mark, g)
        \/ \E overwrite \in {FALSE, (b \in DataBlock)} :
              \E g \in Getblks(k, u, b, overwrite),
                 v \in IF overwrite THEN {0} ELSE Value,
                 mark \in WriteMarks(b, overwrite) : Write(u, b, v, mark, g)

Maintain ==
    \/ \E u \in Unit :
          \/ \E w \in WriteBacks(k, OfUnit(k, u)) : FlushBuffers(u, w)
          \/ MediaDontKnow(u)
          \/ \E n \in Volume : MediaReplaced(u, n)
          \/ MediaReinserted(u)
    \/ \E w \in WriteBacks(k, Ring(k)) : FlushAll(w)

Direct ==
    \E u \in Unit, r \in Result :
        \/ \E B \in Runs(DataBlock) :
              \/ \E w \in WriteBacks(k, Cached(k, u, B)) : DirectRead(u, B, w, r)
              \/ \E v \in Value, torn \in Torn(B, r) : DirectWrite(u, B, v, r, torn)
        \/ \E B \in Runs(Block), v \in Value : \E torn \in Torn(B, r) :
              \/ AbsoluteWrite(u, Least(B), B, v, r, torn)
              \/ ExtendedWrite(u, B, v, r, torn)

BufNext == Cache \/ Maintain \/ Direct

BufSpec == BufInit /\ [][BufNext]_bufvars

-----------------------------------------------------------------------------
(* Properties.                                                             *)

\* Type invariant: the buffer headers and the disks hold what they can hold.
BufTypeOK ==
    /\ k \in Kernel
    /\ want \in [Unit -> [Block -> Value]]
    /\ suspect \subseteq Unit \X Block

\* The buffers form a ring: following next from firstbuf leads back to it.
\* If it does not, searchblock halts the kernel ("bad buffer link") and the
\* loops of setinvld and flush_buffers never end.
RingClosed == BufTypeOK /\ Closed(k)

\* What the next reader of a sector gets.
View(u, b) ==
    LET S == Cached(k, u, {b})
    IN  IF S # {} THEN k.data[CHOOSE p \in S : TRUE] ELSE k.disk[u][b]

\* A transfer round the cache has returned what was last written through it.
DirectReadsCurrent ==
    ret.op = "direct" => \A b \in DOMAIN ret.val :
        <<ret.unit, b>> \in suspect \/ ret.val[b] = want[ret.unit][b]

\* No sector that was not hit by an error is stale or lost: what a reader
\* gets next, through the cache or round it, is what was last written,
\* whatever was evicted, flushed, forgotten on a media change or transferred
\* round the cache in between.
CacheCoherent ==
    /\ DirectReadsCurrent
    /\ \A u \in Unit, b \in FatBlock \cup DataBlock :
          <<u, b>> \in suspect \/ View(u, b) = want[u][b]

\* Every copy of the FAT on the disk agrees, except for sectors that are
\* waiting in a dirty buffer or were hit by an error.
FatsAgree ==
    \A u \in Unit, b \in FatBlock, i \in 0 .. Fats - 1 :
        \/ <<u, b>> \in suspect
        \/ \E p \in Cached(k, u, {b}) : Dirty(k, p)
        \/ k.disk[u][Mirror(b, i)] = k.disk[u][b]

\* A flush_buffers that reports success has put every sector of the drive on
\* the disk: callers report the file system consistent on the strength of it.
FlushReportsTruth ==
    ret.op = "flush" /\ ret.ok => \A b \in FatBlock \cup DataBlock :
        <<ret.unit, b>> \in suspect \/ k.disk[ret.unit][b] = want[ret.unit][b]
=============================================================================
