----------------------------- MODULE FatLayout -----------------------------
(***************************************************************************)
(* What the proofs about FatFiles keep true of every state: the invariant  *)
(* of the free count (IInv), the layout of the volume (WInv), and the      *)
(* steps that the call in progress has left (SInv).                        *)
(*                                                                         *)
(* A layout says of each cluster whose it is and which place it has there. *)
(* The FAT, the directory, the handles and the call in progress describe   *)
(* the same layout at every step of a call, also between the steps of one  *)
(* that wipes, cuts or extends a chain, and whatever single access fails.  *)
(***************************************************************************)
EXTENDS FatFiles

Entry == Cluster \cup {FREE, LAST}
Start == Cluster \cup {FREE}

\* What is known of the free count after n failures.
CountTrue(v, n) ==
    \/ v.nfree = UNKNCLSTFREE
    \/ /\ v.nfree <= Cardinality(Freed(v.fat))
       /\ n = 0 => v.nfree = Cardinality(Freed(v.fat))

\* Every entry of the FAT is one, and the count agrees with them.
VolGood(v, n) ==
    /\ v \in [fat : [Cluster -> Entry], nfree : Int, hint : Int]
    /\ CountTrue(v, n)

\* The fields of an fnode and of a call.
FnFields == {"file", "start", "size", "pos", "cluster", "rel", "clean"}
CallFields == {"pc", "ret", "h", "mode", "count", "left", "at", "from", "first", "run", "wanted", "st", "fn"}

\* An fnode leads to clusters; one that is in a chain has a start.
FnGood(fn) ==
    /\ fn = [x \in FnFields |-> fn[x]]
    /\ fn.start \in Start /\ fn.cluster \in Start
    /\ fn.cluster # FREE => fn.start # FREE

\* The places map_cluster returns to, and those after a chain has been wiped.
MapReturn  == {"extend", "loop", "run", "shrink"}
WipeReturn == {"flush", "create", "delete"}

\* A call, and what the steps of one lead to.
Shaped(k) == k = [x \in CallFields |-> k[x]]

CallGood(k) ==
    /\ Shaped(k)
    /\ k.pc # "idle" => FnGood(k.fn)
    /\ k.pc \in {"map", "walk"} => k.ret \in MapReturn
    /\ k.pc \in {"walk", "cut"} => k.fn.cluster # FREE
    /\ k.pc = "wipe" => k.ret \in WipeReturn /\ k.st \in Cluster \cup {LAST}

\* What handles and the directory remember.
SftGood(s) ==
    /\ s = [h \in Handle |-> s[h]]
    /\ \A h \in Handle : s[h] \notin {None, Orphan} => FnGood(s[h])

DirGood(d) ==
    /\ d = [f \in File |-> d[f]]
    /\ \A f \in File : d[f] # None => d[f].start \in Start

\* The inductive invariant of the free count.
IInv ==
    /\ faults \in Nat
    /\ VolGood(vol, faults)
    /\ CallGood(call)
    /\ SftGood(sft)
    /\ DirGood(dir)

-----------------------------------------------------------------------------
(* The layout of the volume.                                               *)

\* Whose a cluster is: a file's, of the chain that is being wiped, or nobody's.
Loose   == CHOOSE o : o \notin File
Nobody == CHOOSE o : o \notin File \cup {Loose}
Owner  == File \cup {Loose}

\* The owner of a cluster and its place there, and how many clusters each owner has.
Layout == [own : [Cluster -> Owner \cup {Nobody}], idx : [Cluster -> Nat], len : [Owner -> Nat]]

\* The call with another size of its file, or another place and account of a run.
Sized(k, z) == [k EXCEPT !.fn.size = z]
Sought(k, from, first, run, wanted, pos) ==
    [k EXCEPT !.from = from, !.first = first, !.run = run, !.wanted = wanted, !.fn.pos = pos]

\* Cluster c is the i-th of o.
Is(y, o, i, c) == c \in Cluster /\ y.own[c] = o /\ y.idx[c] = i

\* The FAT leads from each place of an owner to the next one, and ends after the
\* last; no place is taken twice.
Laid(fat, y) ==
    /\ y \in Layout
    /\ \A c \in Cluster : y.own[c] # Nobody =>
          /\ y.idx[c] < y.len[y.own[c]]
          /\ IF y.idx[c] + 1 = y.len[y.own[c]] THEN fat[c] = LAST
             ELSE Is(y, y.own[c], y.idx[c] + 1, fat[c])
    /\ \A c, d \in Cluster : y.own[c] # Nobody /\ y.own[c] = y.own[d] /\ y.idx[c] = y.idx[d] => c = d

\* Without a failure what is nobody's is free.
Kept(fat, y, n) == n = 0 => \A c \in Cluster : y.own[c] = Nobody => fat[c] = FREE

\* A start cluster is the first of its owner.
Leads(y, o, s) == IF s = FREE THEN y.len[o] = 0 ELSE Is(y, o, 0, s)

\* An entry of f, or what a handle knows of it.
EntryAt(y, f, e) == Leads(y, f, e.start) /\ e.size \in Nat /\ e.size <= y.len[f] * SecSize

\* An fnode: the cluster it remembers is the one of the place it remembers.
FnAt(y, fn) ==
    /\ fn.file \in File /\ EntryAt(y, fn.file, fn) /\ fn.rel \in Nat /\ fn.pos \in Nat /\ fn.clean \in BOOLEAN
    /\ IF fn.start = FREE THEN fn.cluster = FREE /\ fn.rel = 0
       ELSE Is(y, fn.file, fn.rel, fn.cluster)

\* A handle of a file that had no clusters when it was last written back.
Blank(fn) ==
    /\ fn.file \in File /\ fn.start = FREE /\ fn.size = 0 /\ fn.rel = 0 /\ fn.pos \in Nat /\ fn.clean \in BOOLEAN
    /\ fn.cluster = FREE

\* An fnode that nothing was written through agrees with the directory.
Clean(fn) == fn.clean => dir[fn.file].start = fn.start /\ dir[fn.file].size = fn.size

\* A read or write of an open file.
Moving(y, k) ==
    /\ k.h \in Handle /\ Open(k.h) /\ sft[k.h].file = k.fn.file
    /\ k.mode \in {"read", "write"} /\ k.left \in Nat /\ k.count \in Nat
    /\ FnAt(y, k.fn) /\ Clean(k.fn) /\ (k.mode = "write" => ~k.fn.clean)

\* The run of sectors found so far lies where the file has these places.
RunAt(y, k) ==
    /\ k.from \in Nat /\ k.from % SecSize = 0 /\ k.run \in Nat \ {0} /\ k.wanted \in Nat
    /\ k.run <= k.wanted /\ k.wanted * SecSize <= k.left
    /\ k.fn.pos = k.from + k.run * SecSize
    /\ \A i \in 0 .. k.run - 1 : Is(y, k.fn.file, k.from \div SecSize + i, k.first + i)
    /\ k.first \in Nat

\* Why map_cluster looks for a place.
Wants(y, k, at, ret) ==
    /\ at \in Nat /\ ret \in MapReturn
    /\ ret = "extend" => k.mode = "write" /\ k.fn.pos <= at + 1
    /\ ret = "loop" => at = k.fn.pos /\ (k.mode = "read" => k.fn.pos < k.fn.size)
    /\ ret = "run" => at = k.fn.pos /\ RunAt(y, k) /\ k.run < k.wanted
    /\ ret = "shrink" => /\ k.mode = "write" /\ k.fn.size = k.fn.pos /\ k.fn.start # FREE
                         /\ at = IF k.fn.size > 0 THEN k.fn.size - 1 ELSE 0

\* map_cluster is on its way to the place from before it.
Mapping(y, k) ==
    /\ Wants(y, k, k.at, k.ret) /\ k.fn.rel <= k.at \div SecSize
    /\ k.pc = "map" <=> k.fn.cluster = FREE

\* Where a read or write can be before its end.
RwPc == {"map", "walk", "run", "sector", "cut"}

\* What a read or write knows of the chain at each of its points.
RwAt(y, k) ==
    /\ Moving(y, k)
    /\ k.pc \in {"map", "walk"} => Mapping(y, k)
    /\ k.pc \in {"sector", "cut"} => k.fn.start # FREE
    /\ k.pc = "run" => RunAt(y, k)
    /\ k.pc = "sector" => k.fn.rel = k.fn.pos \div SecSize /\ (k.mode = "read" => k.fn.pos < k.fn.size)
    /\ k.pc = "cut" => /\ k.mode = "write" /\ k.fn.size = k.fn.pos /\ k.fn.size <= (k.fn.rel + 1) * SecSize
                       /\ k.fn.size = 0 => k.fn.rel = 0

\* The handle of a call in progress: as it was, which may be empty.
Stale(y, fn) == FnAt(y, fn) \/ Blank(fn)

\* The courses of a call: it has cut the file; it goes on from k as m; it is a
\* read or write; it makes or deletes a name; it makes one.
Shrinking(k) == k.pc = "flush" \/ (k.pc = "wipe" /\ k.ret = "flush")
Goes(y, k, m) == RwAt(y, m) /\ m.h = k.h /\ m.pc \in RwPc \cup {"return"}
InRw(k)      == k.pc \in RwPc \/ Shrinking(k)
Naming(k)    == k.pc \in {"create", "delete"} \/ (k.pc = "wipe" /\ k.ret \in {"create", "delete"})
Creating(k)  == k.pc = "create" \/ (k.pc = "wipe" /\ k.ret = "create")

\* The chain that is being wiped is the one the call is at.
LooseAt(y, k) == IF k.pc = "wipe" /\ k.st # LAST THEN Is(y, Loose, 0, k.st) ELSE y.len[Loose] = 0

\* The call in progress agrees with the layout.
CallAt(y, k) ==
    /\ LooseAt(y, k)
    /\ InRw(k) => RwAt(y, k)
    /\ k.pc \in RwPc => Stale(y, sft[k.h])
    /\ Shrinking(k) => k.mode = "write"
    /\ Naming(k) => /\ k.fn.file \in File /\ ~IsOpen(k.fn.file) /\ y.len[k.fn.file] = 0
                    /\ StartOf(k.fn.file) = FREE /\ dir[k.fn.file] # None => dir[k.fn.file].size = 0
                    /\ Creating(k) => k.h \in Handle /\ sft[k.h] = None
    /\ k.pc = "move" => /\ k.fn.file \in File /\ ~IsOpen(k.fn.file) /\ dir[k.fn.file] = None
                        /\ EntryAt(y, k.fn.file, k.fn)

\* Every open file has an entry, and one handle.
HandlesGood ==
    /\ \A h \in Handle : Open(h) =>
          /\ sft[h].file \in File /\ dir[sft[h].file] # None
          /\ Clean(sft[h])
    /\ \A h, g \in Handle : Open(h) /\ Open(g) /\ sft[h].file = sft[g].file => h = g

\* The handles not in X, and the closed files not in X, agree with the layout.
Others(y, X) == \A h \in Handle \ X : Open(h) => FnAt(y, sft[h])
Rest(y, X) ==
    \A f \in File \ X : ~IsOpen(f) =>
        IF dir[f] = None THEN y.len[f] = 0 ELSE EntryAt(y, f, dir[f])

\* The handle and the file that the call speaks for.
Busy(k) == IF InRw(k) THEN {k.h} ELSE {}
Held(k) == IF k.pc = "idle" THEN {} ELSE {k.fn.file}

\* The state is laid out as y says.
WellLaid(y) ==
    /\ Laid(vol.fat, y) /\ Kept(vol.fat, y, faults)
    /\ HandlesGood /\ Others(y, Busy(call)) /\ Rest(y, Held(call))
    /\ CallAt(y, call)

\* The layout changes: a cluster becomes the last of o; o lets go of its
\* clusters; those from place r on are cut off; the first that was cut off is freed.
\* Joins and Cuts are the writes of the FAT that go with the first and the third.
Appended(y, o, c) ==
    [own |-> [y.own EXCEPT ![c] = o], idx |-> [y.idx EXCEPT ![c] = y.len[o]], len |-> [y.len EXCEPT ![o] = @ + 1]]
Joins(fat, fat2, y, o, c, last) ==
    /\ Laid(fat, y) /\ o \in Owner /\ c \in Cluster /\ y.own[c] = Nobody /\ fat2[c] = LAST
    /\ y.len[o] # 0 => Is(y, o, y.len[o] - 1, last) /\ fat2[last] = c
    /\ \A d \in Cluster \ {c} : ~Is(y, o, y.len[o] - 1, d) => fat2[d] = fat[d]
Drop(y, o) ==
    [own |-> [d \in Cluster |-> IF y.own[d] = o THEN Nobody ELSE y.own[d]], idx |-> y.idx, len |-> [y.len EXCEPT ![o] = 0]]
Behind(y, o, r) == {d \in Cluster : y.own[d] = o /\ y.idx[d] >= r}
Split(y, o, r) ==
    [own |-> [d \in Cluster |-> IF d \in Behind(y, o, r) THEN Loose ELSE y.own[d]],
     idx |-> [d \in Cluster |-> IF d \in Behind(y, o, r) THEN y.idx[d] - r ELSE y.idx[d]],
     len |-> [y.len EXCEPT ![o] = r, ![Loose] = y.len[o] - r]]
Cuts(fat, fat2, y, o, r) ==
    /\ Laid(fat, y) /\ y.len[Loose] = 0 /\ o \in File /\ r \in Nat /\ r <= y.len[o]
    /\ \A d \in Cluster : IF Is(y, o, r - 1, d) THEN fat2[d] = LAST ELSE fat2[d] = fat[d]
Shift(y, c) ==
    [own |-> [y.own EXCEPT ![c] = Nobody],
     idx |-> [d \in Cluster |-> IF y.own[d] = Loose /\ d # c THEN y.idx[d] - 1 ELSE y.idx[d]],
     len |-> [y.len EXCEPT ![Loose] = @ - 1]]

\* The clusters of f come under the name g.
Rename(y, f, g) ==
    [own |-> [d \in Cluster |-> IF y.own[d] = f THEN g ELSE y.own[d]], idx |-> y.idx,
     len |-> [y.len EXCEPT ![f] = 0, ![g] = y.len[f]]]

\* The FAT changes at the first of the clusters that were cut off.
Frees(fat, fat2, y, c) ==
    Laid(fat, y) /\ Is(y, Loose, 0, c) /\ \A d \in Cluster : d # c => fat2[d] = fat[d]

\* Nothing changes for the owners not in O.
SameBut(y, z, O) ==
    \A p \in Owner \ O : z.len[p] = y.len[p] /\ \A i, c : Is(y, p, i, c) => Is(z, p, i, c)

\* z is y with one more cluster of f.
Grown(y, z, f) == y.len[f] \in Nat /\ z.len[f] = y.len[f] + 1 /\ \A i, d : Is(y, f, i, d) => Is(z, f, i, d)

\* z is y with the clusters of o from place r on cut off.
CutOff(y, z, o, r) ==
    /\ SameBut(y, z, {o, Loose}) /\ z.len[o] = r /\ z.len[Loose] = y.len[o] - r
    /\ \A i, d : Is(y, o, i, d) => IF i < r THEN Is(z, o, i, d) ELSE Is(z, Loose, i - r, d)
    /\ \A d \in Cluster : z.own[d] = Nobody => y.own[d] = Nobody

\* z is y without the first of the clusters that were cut off.
Shifted(fat, y, z, c) ==
    /\ SameBut(y, z, {Loose}) /\ z.len[Loose] = y.len[Loose] - 1
    /\ IF fat[c] = LAST THEN z.len[Loose] = 0 ELSE Is(z, Loose, 0, fat[c])
    /\ \A d \in Cluster : z.own[d] = Nobody => d = c \/ y.own[d] = Nobody

\* z is y with the clusters of f under the name g.
Named(y, z, f, g) ==
    /\ SameBut(y, z, {f, g}) /\ z.len[f] = 0 /\ z.len[g] = y.len[f] /\ z.len[Loose] = y.len[Loose]
    /\ \A i, d : Is(y, f, i, d) => Is(z, g, i, d)
    /\ \A d \in Cluster : z.own[d] = Nobody => y.own[d] = Nobody

\* The calls of two moments are about the same file.
Kin(k, m) ==
    /\ m.h = k.h /\ m.mode = k.mode /\ m.count = k.count
    /\ m.fn.file = k.fn.file /\ m.fn.start = k.fn.start /\ m.fn.clean = k.fn.clean

\* The layout invariant: the state is laid out in some way, unless a failure has
\* seeded a cross link.
WInv == seeded \/ \E y : WellLaid(y)
-----------------------------------------------------------------------------
(* The steps a call has left. A read or write goes on from place to place  *)
(* of its file, up to where the request ends, whatever the FAT is.         *)

\* No request reaches behind m.
Reach(m) == m \in Nat /\ \A n \in Count, p \in Position : n + p <= m

Measured(fn) == fn.size \in Nat /\ fn.pos \in Nat /\ fn.rel \in Nat

\* The run found so far is of the sectors that are asked for.
RunUpTo(m, k) ==
    /\ k.from \in Nat /\ k.from % SecSize = 0 /\ k.run \in Nat \ {0} /\ k.wanted \in Nat
    /\ k.run <= k.wanted /\ k.wanted * SecSize <= k.left
    /\ k.fn.pos = k.from + k.run * SecSize /\ k.from + k.left <= m

\* Where map_cluster is asked to go.
Seeks(m, k, at, ret) ==
    /\ at \in Nat /\ at <= m /\ ret \in MapReturn
    /\ ret # "run" => k.fn.pos + k.left <= m
    /\ ret = "extend" => IF k.count = 0 THEN k.fn.pos # 0 /\ (k.fn.pos - 1) \div SecSize = at \div SecSize
                         ELSE at = k.fn.pos
    /\ ret = "loop" => at = k.fn.pos /\ k.left # 0 /\ (k.mode = "read" => k.fn.pos < k.fn.size)
    /\ ret = "run" => at = k.fn.pos /\ RunUpTo(m, k) /\ k.run < k.wanted

\* A read or write that needs nothing behind m, and has not gone too far.
UnderWay(m, k) ==
    /\ Measured(k.fn) /\ k.left \in Nat /\ k.count \in Nat
    /\ k.pc \in {"map", "walk"} => Seeks(m, k, k.at, k.ret) /\ k.fn.rel <= k.at \div SecSize
    /\ k.pc = "map" => k.ret # "run"
    /\ k.pc = "run" => RunUpTo(m, k) /\ k.fn.rel <= k.fn.pos \div SecSize /\ k.fn.cluster # FREE
    /\ k.pc = "sector" => /\ k.fn.rel = k.fn.pos \div SecSize /\ k.left # 0 /\ k.fn.pos + k.left <= m
                          /\ k.mode = "read" => k.fn.pos < k.fn.size

\* From place rel of the file to the target and on: four steps for each place,
\* to look for it, find it, end a run there and transfer it, and less where some
\* of that is done.
Ahead(m, rel) == 4 * (m \div SecSize - rel)
Way(m, rel, target, ret) ==
    CASE ret = "extend" -> Ahead(m, rel) + LastCluster + 4
      [] ret = "shrink" -> Ahead(m, rel) + LastCluster + 3
      [] ret = "loop"   -> Ahead(m, rel) + (IF rel = target THEN 2 ELSE -1)
      [] ret = "run"    -> Ahead(m, rel) + (IF rel = target THEN 4 ELSE 1)

\* What map_cluster and all that follows it take.
MapLeft(m, k, at, ret) ==
    Way(m, IF at \div SecSize < k.fn.rel THEN 0 ELSE k.fn.rel, at \div SecSize, ret)
        + (IF k.fn.cluster = FREE THEN 1 ELSE 0)

\* At most these steps of a read or write are left.
RwLeft(m, k) ==
    CASE k.pc = "map"    -> Way(m, k.fn.rel, k.at \div SecSize, k.ret) + 1
      [] k.pc = "walk"   -> Way(m, k.fn.rel, k.at \div SecSize, k.ret)
      [] k.pc = "run"    -> Ahead(m, k.fn.rel) + (IF k.fn.rel = k.fn.pos \div SecSize THEN 3 ELSE 0)
      [] k.pc = "sector" -> Ahead(m, k.fn.rel) + 1
      [] k.pc = "cut"    -> LastCluster + 2

\* Wiping takes a step for each cluster in use, then the call is nearly done.
InUse(fat) == {c \in Cluster : fat[c] # FREE}
StepsLeft(m, fat, k) ==
    IF k.pc \in RwPc THEN RwLeft(m, k)
    ELSE IF k.pc = "wipe" THEN Cardinality(InUse(fat)) + 2
    ELSE IF k.pc = "idle" THEN 0 ELSE 1

\* The end of a call, or a read or write with n steps left at most.
Nears(m, k, n) ==
    /\ k.pc \in RwPc \cup {"return", "abandon"} /\ Measured(k.fn)
    /\ k.pc \in RwPc => UnderWay(m, k) /\ RwLeft(m, k) <= n

\* Sizes, positions and places that the directory and the handles remember.
Known(d, s) ==
    /\ \A f \in File : d[f] # None => d[f].size \in Nat
    /\ \A h \in Handle : s[h] \notin {None, Orphan} => Measured(s[h])

\* The invariant of the steps, where no request reaches behind m.
SInv(m) ==
    /\ Known(dir, sft)
    /\ steps \in Nat /\ (BetweenCalls => steps = 0)
    /\ call.pc # "idle" => Measured(call.fn)
    /\ call.pc \in RwPc => UnderWay(m, call)
    /\ steps + StepsLeft(m, vol.fat, call) <= 4 * (m \div SecSize + LastCluster)
=============================================================================
