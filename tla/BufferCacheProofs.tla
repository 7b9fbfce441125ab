------------------------- MODULE BufferCacheProofs -------------------------
(***************************************************************************)
(* The sector cache of the DOS kernel is sound for any number of buffers,  *)
(* drives, FATs and sectors.                                               *)
(*                                                                         *)
(* move_buffer leaves two shapes of the ring: the one config_init_buffers  *)
(* made, over empty buffers, and a first buffer linked to itself. Only the *)
(* first buffer can hold a sector, and the walks over the ring come to an  *)
(* IF about it. The rest of the invariant is about that buffer: its flags  *)
(* fit its sector, what it or else the disk holds is what was last         *)
(* written, and the copies of a FAT sector differ only below it. Each      *)
(* operation keeps this except for the sectors that it adds to suspect.    *)
(***************************************************************************)
EXTENDS BufferCache, WellFoundedInduction, TLAPS

\* The sectors that the file system caches: the first FAT and the data.
File == FatBlock \cup DataBlock

\* The ring as config_init_buffers has made it.
Fresh(x) ==
    /\ x.firstbuf = 0
    /\ x.prev = [p \in Buf |-> IF p = 0 THEN BufCount - 1 ELSE p - 1]
    /\ x.next = [p \in Buf |-> IF p = BufCount - 1 THEN 0 ELSE p + 1]
    /\ x.flag = [p \in Buf |-> {}]

\* The ring after the first miss.
Alone(x) == x.prev[x.firstbuf] = x.firstbuf /\ x.next[x.firstbuf] = x.firstbuf

Shape(x) == Fresh(x) \/ Alone(x)

\* flush1 writes all copies of a sector if, and only if, it is one of the FAT.
FlagsGood(x) ==
    LET p == x.firstbuf
    IN  /\ "FAT" \in x.flag[p] => x.blkno[p] \in FatBlock
        /\ Dirty(x, p) /\ x.blkno[p] \in FatBlock => "FAT" \in x.flag[p]
        /\ "VALID" \in x.flag[p] => x.blkno[p] \in File

\* wt is what was last written; su is what an error or a caller has cost.
DataGood(x, wt, su) ==
    \A u \in Unit, b \in File :
        \/ <<u, b>> \in su
        \/ /\ Holds(x, x.firstbuf, u, b) => x.data[x.firstbuf] = wt[u][b]
           /\ (Holds(x, x.firstbuf, u, b) /\ Dirty(x, x.firstbuf)) \/ x.disk[u][b] = wt[u][b]

MirrorGood(x, su) ==
    \A u \in Unit, b \in FatBlock, i \in 0 .. Fats - 1 :
        \/ <<u, b>> \in su
        \/ Holds(x, x.firstbuf, u, b) /\ Dirty(x, x.firstbuf)
        \/ x.disk[u][Mirror(b, i)] = x.disk[u][b]

Good(x, wt, su) == FlagsGood(x) /\ DataGood(x, wt, su) /\ MirrorGood(x, su)

Sound(x, wt, su) ==
    /\ x \in Kernel /\ wt \in [Unit -> [Block -> Value]] /\ su \subseteq Unit \X Block
    /\ Shape(x) /\ Good(x, wt, su)

IInv == Sound(k, want, suspect) /\ DirectReadsCurrent /\ FlushReportsTruth

-----------------------------------------------------------------------------
(* Walks of the ring.                                                      *)

LEMMA LeastNat ==
    ASSUME NEW T, T \subseteq Nat, T # {}
    PROVE  \E m \in T : \A n \in T : m <= n
<1>1. \E m \in T : \A n \in T : ~ <<n, m>> \in OpToRel(<, Nat)
  BY NatLessThanWellFounded, WFMin
<1>2. \A m, n \in T : n < m => <<n, m>> \in OpToRel(<, Nat)
  BY DEF OpToRel
<1>3. PICK m \in T : \A n \in T : ~ <<n, m>> \in OpToRel(<, Nat)
  BY <1>1
<1>4. ASSUME NEW n \in T PROVE m <= n
  <2>1. ~ n < m
    BY <1>2, <1>3
  <2>2. m \in Nat /\ n \in Nat
    OBVIOUS
  <2> QED
    BY <2>1, <2>2
<1> QED
  BY <1>4

LEMMA Steady ==
    ASSUME NEW N \in Nat \ {0}, NEW f, \A i \in 2 .. N : f[i] = f[i - 1]
    PROVE  \A i \in 1 .. N : f[i] = f[1]
<1> DEFINE T == {i \in 1 .. N : f[i] # f[1]}
<1> SUFFICES ASSUME T # {} PROVE FALSE
  OBVIOUS
<1>1. T \subseteq Nat
  OBVIOUS
<1> HIDE DEF T
<1>2. PICK m \in T : \A n \in T : m <= n
  BY <1>1, LeastNat
<1>3. m \in 2 .. N /\ m - 1 \notin T
  BY <1>2 DEF T
<1> QED
  BY <1>2, <1>3 DEF T

\* What Walk(x) is, as a fact about a function: the loop of searchblock.
IsWalk(x, at) ==
    at = [i \in 0 .. BufCount |-> IF i = 0 THEN x.firstbuf ELSE x.next[at[i - 1]]]

LEMMA WalkRule ==
    ASSUME NEW x, NEW at, IsWalk(x, at)
    PROVE  IsWalk(x, Walk(x))
BY DEF Walk, IsWalk

LEMMA WalkAlone ==
    ASSUME NEW x, Alone(x)
    PROVE  Walk(x)[0] = x.firstbuf /\ Walk(x)[1] = x.firstbuf
<1> DEFINE at == [i \in 0 .. BufCount |-> x.firstbuf]
<1>1. IsWalk(x, at)
  BY CacheAssumption DEF Alone, IsWalk
<1>2. IsWalk(x, Walk(x))
  <2> HIDE DEF at
  <2> QED
    BY <1>1, WalkRule
<1>3. Walk(x)[0] = x.firstbuf
  BY <1>2, CacheAssumption DEF IsWalk
<1> QED
  BY <1>2, <1>3, CacheAssumption DEF Alone, IsWalk

LEMMA WalkFresh ==
    ASSUME NEW x, Fresh(x)
    PROVE  \A i \in 0 .. BufCount : Walk(x)[i] = IF i = BufCount THEN 0 ELSE i
<1> DEFINE at == [i \in 0 .. BufCount |-> IF i = BufCount THEN 0 ELSE i]
<1>1. IsWalk(x, at)
  <2>1. ASSUME NEW i \in 0 .. BufCount
        PROVE  at[i] = IF i = 0 THEN x.firstbuf ELSE x.next[at[i - 1]]
    BY CacheAssumption DEF Fresh, Buf
  <2> QED
    BY <2>1 DEF IsWalk
<1>2. IsWalk(x, Walk(x))
  <2> HIDE DEF at
  <2> QED
    BY <1>1, WalkRule
<1> DEFINE T == {i \in 0 .. BufCount : Walk(x)[i] # at[i]}
<1> SUFFICES ASSUME T # {} PROVE FALSE
  OBVIOUS
<1>3. T \subseteq 0 .. BufCount
  OBVIOUS
<1> HIDE DEF T
<1>4. PICK m \in T : \A n \in T : m <= n
  <2>1. T \subseteq Nat
    BY <1>3, CacheAssumption
  <2> QED
    BY <2>1, LeastNat
<1>5. m # 0
  BY <1>2, CacheAssumption DEF Fresh, T, IsWalk
<1>6. Walk(x)[m - 1] = at[m - 1] /\ m \in 1 .. BufCount
  <2>1. m \in 1 .. BufCount
    BY <1>3, <1>4, <1>5, CacheAssumption
  <2>2. m - 1 \in 0 .. BufCount /\ ~ m <= m - 1
    BY <2>1, CacheAssumption
  <2>3. m - 1 \notin T
    BY <1>4, <2>2
  <2> QED
    BY <2>1, <2>2, <2>3 DEF T
<1>7. Walk(x)[m] = x.next[Walk(x)[m - 1]]
  BY <1>2, <1>6, CacheAssumption DEF IsWalk
<1>8. at[m] = x.next[at[m - 1]]
  <2>1. m \in 0 .. BufCount /\ m # 0
    BY <1>6, CacheAssumption
  <2> HIDE DEF at
  <2> QED
    BY <1>1, <2>1 DEF IsWalk
<1> QED
  BY <1>4, <1>6, <1>7, <1>8 DEF T

LEMMA LeastIs ==
    ASSUME NEW S \in SUBSET Nat, NEW m \in S, \A j \in S : m <= j
    PROVE  Least(S) = m
<1>1. Least(S) \in S /\ \A j \in S : Least(S) <= j
  BY DEF Least
<1>2. Least(S) \in Nat /\ m \in Nat /\ Least(S) <= m /\ m <= Least(S)
  BY <1>1
<1> QED
  BY <1>2

LEMMA RingAlone ==
    ASSUME NEW x, Alone(x)
    PROVE  Closed(x) /\ Place(x) = {0} /\ Ring(x) = {x.firstbuf}
<1>1. 1 \in Laps(x) /\ Laps(x) \subseteq Nat /\ \A j \in Laps(x) : 1 <= j
  BY WalkAlone, CacheAssumption DEF Laps
<1>2. Least(Laps(x)) = 1
  BY <1>1, LeastIs
<1>3. Place(x) = {0}
  BY <1>2 DEF Place
<1> QED
  BY <1>1, <1>3, WalkAlone DEF Closed, Ring

LEMMA RingFresh ==
    ASSUME NEW x, Fresh(x)
    PROVE  Closed(x) /\ Place(x) = Buf /\ Ring(x) = Buf
<1>1. Laps(x) = {BufCount}
  <2>1. \A i \in 1 .. BufCount : Walk(x)[i] = 0 <=> i = BufCount
    BY WalkFresh, CacheAssumption
  <2> QED
    BY <2>1, CacheAssumption DEF Laps, Fresh
<1>2. Least(Laps(x)) = BufCount
  BY <1>1, LeastIs, CacheAssumption
<1>3. Place(x) = Buf
  BY <1>2 DEF Place, Buf
<1>4. \A i \in Buf : Walk(x)[i] = i
  BY WalkFresh, CacheAssumption DEF Buf
<1> QED
  BY <1>1, <1>3, <1>4 DEF Closed, Ring

-----------------------------------------------------------------------------
(* searchblock.                                                            *)

LEMMA OfSingleton ==
    ASSUME NEW i \in Nat
    PROVE  Least({i}) = i /\ Greatest({i}) = i
BY DEF Least, Greatest

LEMMA VictimAlone ==
    ASSUME NEW x, Alone(x)
    PROVE  Victim(x) = x.firstbuf
<1>1. Place(x) = {0} /\ Walk(x)[0] = x.firstbuf /\ Least({0}) = 0 /\ Greatest({0}) = 0
  BY RingAlone, WalkAlone, OfSingleton
<1>2. \A f : With(x, f) = IF f \in x.flag[x.firstbuf] THEN {0} ELSE {}
  BY <1>1 DEF With
<1>3. \A f : f \in x.flag[x.firstbuf] => Without(x, f) = {}
  BY <1>1, <1>2 DEF Without
<1> QED
  BY <1>1, <1>2, <1>3 DEF Victim, Alone

LEMMA VictimFresh ==
    ASSUME NEW x, Fresh(x)
    PROVE  Victim(x) = BufCount - 1
<1>1. Place(x) = Buf /\ \A i \in Buf : Walk(x)[i] \in Buf
  BY RingFresh, WalkFresh, CacheAssumption DEF Buf
<1>2. With(x, "UNCACHE") = {}
  BY <1>1 DEF With, Fresh
<1>3. 0 \in Buf
  BY CacheAssumption DEF Buf
<1> QED
  BY <1>2, <1>3 DEF Victim, Fresh

\* What searchblock may do to the kernel's data: move a buffer to the front,
\* and mark it. A buffer of the untouched ring is as empty as any other.
\* What searchblock makes of a ring: the buffer it found, alone.
Moved(x, y) ==
    /\ y \in Kernel /\ Alone(y)
    /\ y.unit = x.unit /\ y.blkno = x.blkno /\ y.data = x.data /\ y.disk = x.disk
    /\ y.flag[y.firstbuf] \ {"UNCACHE"} = x.flag[x.firstbuf] \ {"UNCACHE"}
    /\ y.firstbuf = x.firstbuf \/ y.flag[y.firstbuf] \subseteq {"UNCACHE"}

LEMMA SearchHit ==
    ASSUME NEW x \in Kernel, Shape(x), NEW u, NEW b, Holds(x, x.firstbuf, u, b)
    PROVE  /\ SearchBlock(x, u, b) = [x EXCEPT !.flag[x.firstbuf] = @ \ {"UNCACHE"}]
           /\ Alone(x)
<1>1. Alone(x)
  BY DEF Shape, Fresh, Holds, Kernel
<1>2. Place(x) = {0} /\ Walk(x)[0] = x.firstbuf /\ Least({0}) = 0
  BY <1>1, RingAlone, WalkAlone, OfSingleton
<1>3. Hits(x, u, b) = {0}
  BY <1>2 DEF Hits
<1> QED
  BY <1>1, <1>2, <1>3 DEF SearchBlock, ToFront, Kernel

LEMMA SearchMiss ==
    ASSUME NEW x \in Kernel, Shape(x), NEW u, NEW b, ~ Holds(x, x.firstbuf, u, b)
    PROVE  LET y == SearchBlock(x, u, b)
           IN  Moved(x, y) /\ "UNCACHE" \in y.flag[y.firstbuf]
<1>1. CASE Alone(x)
  <2>1. Place(x) = {0} /\ Walk(x)[0] = x.firstbuf
    BY <1>1, RingAlone, WalkAlone
  <2>2. Hits(x, u, b) = {}
    BY <2>1 DEF Hits
  <2>3. SearchBlock(x, u, b) = [x EXCEPT !.flag[x.firstbuf] = @ \cup {"UNCACHE"}]
    BY <1>1, <2>2, VictimAlone DEF SearchBlock, ToFront, Kernel
  <2> DEFINE y == [x EXCEPT !.flag[x.firstbuf] = @ \cup {"UNCACHE"}]
  <2>4. y \in Kernel
    BY DEF Kernel, Flag
  <2>5. y.flag[x.firstbuf] = x.flag[x.firstbuf] \cup {"UNCACHE"}
    BY DEF Kernel
  <2>6. y.firstbuf = x.firstbuf /\ y.prev = x.prev /\ y.next = x.next
        /\ y.unit = x.unit /\ y.blkno = x.blkno /\ y.data = x.data /\ y.disk = x.disk
    BY DEF Kernel
  <2> HIDE DEF y
  <2> QED
    BY <1>1, <2>3, <2>4, <2>5, <2>6 DEF Moved, Alone, y
<1>2. CASE Fresh(x) /\ ~ Alone(x)
  <2> DEFINE q == BufCount - 1
             m == [x EXCEPT !.flag[q] = @ \cup {"UNCACHE"}]
             y == [MoveBuffer(m, q) EXCEPT !.firstbuf = q]
  <2>1. Place(x) = Buf /\ \A i \in Buf : Walk(x)[i] \in Buf
    BY <1>2, RingFresh, WalkFresh, CacheAssumption DEF Buf
  <2>2. Hits(x, u, b) = {}
    BY <1>2, <2>1 DEF Hits, Holds, Fresh
  <2>3. 0 \in Buf /\ q \in Buf /\ q # 0
    <3>1. 0 \in Buf /\ q \in Buf
      BY CacheAssumption DEF Buf
    <3> QED
      BY <1>2, <3>1, CacheAssumption DEF Fresh, Alone
  <2>4. SearchBlock(x, u, b) = y
    BY <1>2, <2>2, <2>3, VictimFresh DEF SearchBlock, ToFront, Fresh, Kernel
  <2>5. x.firstbuf = 0 /\ x.prev[0] = q /\ x.next[q] = 0 /\ x.prev[q] = q - 1 /\ q - 1 \in Buf
    BY <1>2, <2>3, CacheAssumption DEF Fresh, Buf
  <2>6. m \in Kernel /\ m.prev = x.prev /\ m.next = x.next /\ m.firstbuf = x.firstbuf
        /\ m.flag[q] = {"UNCACHE"}
        /\ m.unit = x.unit /\ m.blkno = x.blkno /\ m.data = x.data /\ m.disk = x.disk
    BY <1>2, <2>3 DEF Kernel, Fresh, Flag
  <2> HIDE DEF m, q
  <2>7. y \in Kernel /\ Alone(y)
    <3> DEFINE m1 == [m EXCEPT !.prev[0] = q - 1]
               m2 == [m1 EXCEPT !.next[q - 1] = 0]
               m3 == [m2 EXCEPT !.prev[q] = q]
               m4 == [m3 EXCEPT !.next[q] = 0]
               m5 == [m4 EXCEPT !.prev[0] = q]
               m6 == [m5 EXCEPT !.next[q] = q]
    <3>1. MoveBuffer(m, q) = m6
      BY <2>5, <2>6 DEF MoveBuffer
    <3>2. m1 \in Kernel
      BY <2>3, <2>5, <2>6 DEF Kernel
    <3>3. m2 \in Kernel
      <4> HIDE DEF m1
      <4> QED
        BY <2>3, <2>5, <3>2 DEF Kernel
    <3>4. m3 \in Kernel
      <4> HIDE DEF m2
      <4> QED
        BY <2>3, <2>5, <3>3 DEF Kernel
    <3>5. m4 \in Kernel
      <4> HIDE DEF m3
      <4> QED
        BY <2>3, <2>5, <3>4 DEF Kernel
    <3>6. m3.prev[q] = q
      <4> HIDE DEF m2
      <4> QED
        BY <2>3, <3>3 DEF Kernel
    <3>7. m5 \in Kernel /\ m5.prev[q] = q
      <4> HIDE DEF m3
      <4>1. m4.prev = m3.prev
        BY <3>4 DEF Kernel
      <4> HIDE DEF m4
      <4> QED
        BY <2>3, <2>5, <3>5, <3>6, <4>1 DEF Kernel
    <3>8. m6 \in Kernel /\ m6.prev[q] = q /\ m6.next[q] = q
      <4> HIDE DEF m5
      <4> QED
        BY <2>3, <2>5, <3>7 DEF Kernel
    <3> HIDE DEF m6
    <3> QED
      BY <2>3, <3>1, <3>8 DEF Kernel, Alone
  <2>9. y.flag[q] = {"UNCACHE"} /\ y.firstbuf = q /\ x.flag[0] = {}
        /\ y.unit = x.unit /\ y.blkno = x.blkno /\ y.data = x.data /\ y.disk = x.disk
    BY <1>2, <2>3, <2>6 DEF Fresh, Kernel, MoveBuffer
  <2> HIDE DEF y
  <2> QED
    BY <2>4, <2>5, <2>7, <2>9 DEF Moved
<1> QED
  BY <1>1, <1>2 DEF Shape

-----------------------------------------------------------------------------
(* flush1 of several buffers is flush1 of the first one.                   *)

LEMMA Kept ==
    ASSUME NEW N \in Nat, NEW f, NEW v, f[0] = v,
           \A i \in 1 .. N : f[i - 1] = v => f[i] = v
    PROVE  f[N] = v
<1> DEFINE T == {i \in 0 .. N : f[i] # v}
<1> SUFFICES ASSUME T # {} PROVE FALSE
  OBVIOUS
<1>1. T \subseteq Nat
  OBVIOUS
<1> HIDE DEF T
<1>2. PICK m \in T : \A n \in T : m <= n
  BY <1>1, LeastNat
<1>3. m \in 1 .. N /\ m - 1 \notin T
  BY <1>2 DEF T
<1> QED
  BY <1>2, <1>3 DEF T

\* One step of FlushSet, and what its local function is.
FlushNext(x, S, w, y, i) ==
    IF i \in Place(x) /\ Walk(x)[i] \in S
    THEN Flush1(y, Walk(x)[i], ResultsOf(x, Walk(x)[i], w)) ELSE y

\* run: the kernel before each place of the loop of flush_buffers.
IsRun(x, S, w, run) ==
    run = [i \in 0 .. BufCount |-> IF i = 0 THEN x ELSE FlushNext(x, S, w, run[i - 1], i - 1)]

LEMMA RunRule ==
    ASSUME NEW x, NEW S, NEW w, NEW at, IsRun(x, S, w, at)
    PROVE  \E run : IsRun(x, S, w, run) /\ FlushSet(x, S, w) = run[BufCount]
<1> DEFINE run == CHOOSE run : IsRun(x, S, w, run)
<1>1. IsRun(x, S, w, run)
  OBVIOUS
<1>2. FlushSet(x, S, w) = run[BufCount]
  BY DEF FlushSet, IsRun, FlushNext
<1> QED
  BY <1>1, <1>2

LEMMA NothingToFlush ==
    ASSUME NEW x \in Kernel, NEW p \in Buf, x.flag[p] = {}
    PROVE  Flush1(x, p, <<>>) = x
<1>1. Written(x, p, <<>>) = x
  BY DEF Written, Kernel
<1>2. ~ Failed(<<>>)
  BY DEF Failed
<1> QED
  BY <1>1, <1>2 DEF Flush1, Kernel

\* What FlushSet comes to, as only the first buffer can be dirty.
FlushFront(x, S, w) ==
    IF x.firstbuf \in S THEN Flush1(x, x.firstbuf, ResultsOf(x, x.firstbuf, w)) ELSE x

LEMMA FlushSetIs ==
    ASSUME NEW x \in Kernel, Shape(x), NEW S, NEW w \in WriteBacks(x, S)
    PROVE  FlushSet(x, S, w) = FlushFront(x, S, w)
<1>1. CASE Alone(x)
  <2> DEFINE y == FlushFront(x, S, w)
             at == [i \in 0 .. BufCount |-> IF i = 0 THEN x ELSE y]
  <2>1. Place(x) = {0} /\ Walk(x)[0] = x.firstbuf
    BY <1>1, RingAlone, WalkAlone
  <2>2. FlushNext(x, S, w, x, 0) = y
    BY <2>1 DEF FlushNext, FlushFront
  <2>3. \A z, i : i # 0 => FlushNext(x, S, w, z, i) = z
    BY <2>1 DEF FlushNext
  <2> HIDE DEF y
  <2>4. IsRun(x, S, w, at)
    <3>1. ASSUME NEW i \in 0 .. BufCount
          PROVE  at[i] = IF i = 0 THEN x ELSE FlushNext(x, S, w, at[i - 1], i - 1)
      <4>1. CASE i = 0
        BY <4>1
      <4>2. CASE i = 1
        <5>1. at[1] = y /\ at[0] = x
          BY CacheAssumption
        <5> QED
          BY <2>2, <4>2, <5>1
      <4>3. CASE i \in 2 .. BufCount
        <5>1. at[i] = y /\ at[i - 1] = y /\ i - 1 # 0 /\ i # 0
          BY <4>3, CacheAssumption
        <5> QED
          BY <2>3, <5>1
      <4> QED
        BY <4>1, <4>2, <4>3, CacheAssumption
    <3> QED
      BY <3>1 DEF IsRun
  <2> HIDE DEF at
  <2>5. PICK run : IsRun(x, S, w, run) /\ FlushSet(x, S, w) = run[BufCount]
    BY <2>4, RunRule
  <2>6. run[0] = x /\ run[1] = FlushNext(x, S, w, run[0], 0)
    BY <2>5, CacheAssumption DEF IsRun
  <2>7. ASSUME NEW i \in 2 .. BufCount PROVE run[i] = run[i - 1]
    <3>1. i \in 0 .. BufCount /\ i # 0 /\ i - 1 # 0
      BY CacheAssumption
    <3>2. run[i] = FlushNext(x, S, w, run[i - 1], i - 1)
      BY <2>5, <3>1 DEF IsRun
    <3> QED
      BY <2>3, <3>1, <3>2
  <2>8. run[BufCount] = run[1]
    <3>1. \A i \in 1 .. BufCount : run[i] = run[1]
      BY <2>7, Steady, CacheAssumption
    <3> QED
      BY <3>1, CacheAssumption
  <2> QED
    BY <2>2, <2>5, <2>6, <2>8 DEF y
<1>2. CASE Fresh(x)
  <2> DEFINE at == [i \in 0 .. BufCount |-> x]
  <2>1. ASSUME NEW i PROVE FlushNext(x, S, w, x, i) = x
    <3>1. ASSUME i \in Place(x) PROVE Flush1(x, Walk(x)[i], ResultsOf(x, Walk(x)[i], w)) = x
      <4>1. Walk(x)[i] \in Buf
        BY <1>2, <3>1, RingFresh, WalkFresh, CacheAssumption DEF Buf
      <4>2. x.flag[Walk(x)[i]] = {}
        BY <1>2, <4>1 DEF Fresh
      <4>3. ResultsOf(x, Walk(x)[i], w) = <<>>
        BY <4>2 DEF ResultsOf, WriteBacks, Dirty
      <4> QED
        BY <4>1, <4>2, <4>3, NothingToFlush
    <3> QED
      BY <3>1 DEF FlushNext
  <2>2. IsRun(x, S, w, at)
    <3>1. ASSUME NEW i \in 0 .. BufCount
          PROVE  at[i] = IF i = 0 THEN x ELSE FlushNext(x, S, w, at[i - 1], i - 1)
      <4>1. i # 0 => i - 1 \in 0 .. BufCount
        BY CacheAssumption
      <4> QED
        BY <2>1, <4>1
    <3> QED
      BY <3>1 DEF IsRun
  <2> HIDE DEF at
  <2>3. PICK run : IsRun(x, S, w, run) /\ FlushSet(x, S, w) = run[BufCount]
    BY <2>2, RunRule
  <2>4. run[0] = x
    BY <2>3, CacheAssumption DEF IsRun
  <2>5. ASSUME NEW i \in 1 .. BufCount, run[i - 1] = x PROVE run[i] = x
    <3>1. i \in 0 .. BufCount /\ i # 0
      BY CacheAssumption
    <3> QED
      BY <2>1, <2>3, <2>5, <3>1 DEF IsRun
  <2>6. run[BufCount] = x
    BY <2>4, <2>5, Kept, CacheAssumption
  <2>7. FlushFront(x, S, w) = x
    <3>1. x.firstbuf \in Buf /\ x.flag[x.firstbuf] = {}
      BY <1>2 DEF Fresh, Kernel
    <3>2. ResultsOf(x, x.firstbuf, w) = <<>>
      BY <3>1 DEF ResultsOf, WriteBacks, Dirty
    <3> QED
      BY <3>1, <3>2, NothingToFlush DEF FlushFront
  <2> QED
    BY <2>3, <2>6, <2>7
<1> QED
  BY <1>1, <1>2 DEF Shape

LEMMA MirrorIs ==
    ASSUME NEW b \in FatBlock, NEW i \in 0 .. Fats - 1
    PROVE  /\ Mirror(b, i) \in Block /\ Mirror(b, i) \notin DataBlock
           /\ \A c \in FatBlock, j \in 0 .. Fats - 1 : Mirror(c, j) = Mirror(b, i) => c = b /\ j = i
<1>1. \A l \in Nat, m \in Nat : l < m => l * FatSize + FatSize <= m * FatSize
  <2> SUFFICES ASSUME NEW l \in Nat, NEW m \in Nat, l < m
               PROVE  l * FatSize + FatSize <= m * FatSize
    OBVIOUS
  <2>1. PICK d \in Nat : m = l + 1 + d
    <3>1. m - l - 1 \in Nat /\ m = l + 1 + (m - l - 1)
      OBVIOUS
    <3> QED
      BY <3>1
  <2>2. m * FatSize = l * FatSize + FatSize + d * FatSize
    BY <2>1, CacheAssumption
  <2>3. d * FatSize \in Nat /\ l * FatSize \in Nat
    BY CacheAssumption
  <2> QED
    BY <2>2, <2>3, CacheAssumption
<1>2. \A l \in Nat : l * FatSize \in Nat
  BY CacheAssumption
<1>3. Fats * FatSize = FatSize * Fats
  BY CacheAssumption
<1>4. i * FatSize + FatSize <= Fats * FatSize
  BY <1>1, CacheAssumption
<1>5. Mirror(b, i) \in Block /\ Mirror(b, i) \notin DataBlock
  BY <1>2, <1>3, <1>4, CacheAssumption DEF Mirror, Block, DataBlock, FatBlock
<1>6. ASSUME NEW c \in FatBlock, NEW j \in 0 .. Fats - 1, Mirror(c, j) = Mirror(b, i)
      PROVE  c = b /\ j = i
  <2>1. j \in Nat /\ i \in Nat /\ j * FatSize \in Nat /\ i * FatSize \in Nat
    BY <1>2, CacheAssumption
  <2>2. ~ j < i
    BY <1>1, <1>6, <2>1, CacheAssumption DEF Mirror, FatBlock
  <2>3. ~ i < j
    BY <1>1, <1>6, <2>1, CacheAssumption DEF Mirror, FatBlock
  <2>4. j = i
    BY <2>1, <2>2, <2>3
  <2> QED
    BY <1>6, <2>1, <2>4, CacheAssumption DEF Mirror, FatBlock
<1> QED
  BY <1>5, <1>6

LEMMA FirstCopy ==
    /\ 0 \in 0 .. Fats - 1
    /\ \A b \in Int : Mirror(b, 0) = b
    /\ FatBlock \subseteq Block /\ DataBlock \subseteq Block /\ Block \subseteq Int
    /\ FatBlock \cap DataBlock = {}
BY MirrorIs, CacheAssumption DEF Mirror, FatBlock, DataBlock, Block

-----------------------------------------------------------------------------
(* searchblock and flush1 keep what is good.                               *)

LEMMA Searched ==
    ASSUME NEW x \in Kernel, Shape(x), NEW u, NEW b
    PROVE  LET y == SearchBlock(x, u, b)
           IN  /\ Moved(x, y)
               /\ Holds(x, x.firstbuf, u, b) =>
                      Holds(y, y.firstbuf, u, b) /\ "UNCACHE" \notin y.flag[y.firstbuf]
               /\ ~ Holds(x, x.firstbuf, u, b) => "UNCACHE" \in y.flag[y.firstbuf]
<1>1. CASE Holds(x, x.firstbuf, u, b)
  <2> DEFINE y == [x EXCEPT !.flag[x.firstbuf] = @ \ {"UNCACHE"}]
  <2>1. SearchBlock(x, u, b) = y /\ Alone(x)
    BY <1>1, SearchHit
  <2>2. y \in Kernel
    BY DEF Kernel
  <2>3. y.flag[x.firstbuf] = x.flag[x.firstbuf] \ {"UNCACHE"}
    BY DEF Kernel
  <2>4. y.firstbuf = x.firstbuf /\ y.prev = x.prev /\ y.next = x.next
        /\ y.unit = x.unit /\ y.blkno = x.blkno /\ y.data = x.data /\ y.disk = x.disk
    BY DEF Kernel
  <2> HIDE DEF y
  <2> QED
    BY <1>1, <2>1, <2>2, <2>3, <2>4 DEF Moved, Alone, Holds
<1>2. CASE ~ Holds(x, x.firstbuf, u, b)
  BY <1>2, SearchMiss
<1> QED
  BY <1>1, <1>2

LEMMA SameHeld ==
    ASSUME NEW x \in Kernel, NEW y, Moved(x, y)
    PROVE  /\ \A f \in Flag : f # "UNCACHE" =>
                  (f \in y.flag[y.firstbuf] <=> f \in x.flag[x.firstbuf])
           /\ y.firstbuf = x.firstbuf
              \/ ("VALID" \notin x.flag[x.firstbuf] /\ "FAT" \notin x.flag[x.firstbuf])
BY DEF Moved, Flag

LEMMA GoodMoved ==
    ASSUME NEW x \in Kernel, NEW y, Moved(x, y), NEW wt, NEW su, Good(x, wt, su)
    PROVE  Good(y, wt, su)
<1>1. \A f \in {"VALID", "DIRTY", "FAT"} : f \in y.flag[y.firstbuf] <=> f \in x.flag[x.firstbuf]
  BY SameHeld DEF Flag
<1>2. /\ y.unit = x.unit /\ y.blkno = x.blkno /\ y.data = x.data /\ y.disk = x.disk
      /\ y.firstbuf = x.firstbuf
         \/ ("VALID" \notin x.flag[x.firstbuf] /\ "FAT" \notin x.flag[x.firstbuf])
  BY SameHeld DEF Moved
<1>3. Dirty(y, y.firstbuf) <=> Dirty(x, x.firstbuf)
  BY <1>1 DEF Dirty
<1>4. \A u, b : Holds(y, y.firstbuf, u, b) <=> Holds(x, x.firstbuf, u, b)
  BY <1>1, <1>2 DEF Holds
<1>5. FlagsGood(y)
  BY <1>1, <1>2 DEF Good, FlagsGood, Dirty
<1>6. DataGood(y, wt, su)
  <2>1. \A u, b : Holds(x, x.firstbuf, u, b) => y.data[y.firstbuf] = x.data[x.firstbuf]
    BY <1>2 DEF Holds
  <2> QED
    BY <1>2, <1>3, <1>4, <2>1 DEF Good, DataGood
<1>7. MirrorGood(y, su)
  BY <1>2, <1>3, <1>4 DEF Good, MirrorGood
<1> QED
  BY <1>5, <1>6, <1>7 DEF Good

\* The sectors of a drive that flush1 of the first buffer writes.
WritesTo(x, w, b) ==
    \E i \in DOMAIN w : w[i] = "ok" /\ Mirror(x.blkno[x.firstbuf], i) = b

LEMMA Flush1Is ==
    ASSUME NEW x \in Kernel, NEW w \in WriteResults(x, x.firstbuf)
    PROVE  LET p == x.firstbuf
               y == Flush1(x, p, w)
           IN  /\ y \in Kernel
               /\ y.firstbuf = p /\ y.prev = x.prev /\ y.next = x.next
               /\ y.unit = x.unit /\ y.blkno = x.blkno /\ y.data = x.data
               /\ y.flag[p] = x.flag[p] \ (IF Failed(w) THEN {"DIRTY", "VALID"} ELSE {"DIRTY"})
               /\ \A u \in Unit, b \in Block :
                     y.disk[u][b] = IF u = x.unit[p] /\ WritesTo(x, w, b)
                                    THEN x.data[p] ELSE x.disk[u][b]
<1> DEFINE p == x.firstbuf
           d == [b \in Block |-> IF WritesTo(x, w, b) THEN x.data[p] ELSE x.disk[x.unit[p]][b]]
           f == x.flag[p] \ (IF Failed(w) THEN {"DIRTY", "VALID"} ELSE {"DIRTY"})
           y == [x EXCEPT !.disk[x.unit[p]] = d, !.flag[p] = f]
<1>1. Written(x, p, w) = [x EXCEPT !.disk[x.unit[p]] = d]
  BY DEF Written, WritesTo, Kernel
<1>2. Flush1(x, p, w) = y
  BY <1>1 DEF Flush1, Kernel
<1>3. p \in Buf /\ x.unit[p] \in Unit
  BY DEF Kernel
<1>4. d \in [Block -> Value] /\ f \in SUBSET Flag
  BY DEF Kernel
<1>5. \A b \in Block : d[b] = IF WritesTo(x, w, b) THEN x.data[p] ELSE x.disk[x.unit[p]][b]
  OBVIOUS
<1> HIDE DEF d, f
<1>6. y \in Kernel
  BY <1>3, <1>4 DEF Kernel
<1>7. y.firstbuf = p /\ y.prev = x.prev /\ y.next = x.next
      /\ y.unit = x.unit /\ y.blkno = x.blkno /\ y.data = x.data /\ y.flag[p] = f
  BY <1>3, <1>4 DEF Kernel
<1>8. \A u \in Unit : y.disk[u] = IF u = x.unit[p] THEN d ELSE x.disk[u]
  BY <1>3, <1>4 DEF Kernel
<1> HIDE DEF y
<1> QED
  BY <1>2, <1>5, <1>6, <1>7, <1>8 DEF f

LEMMA WritesHere ==
    ASSUME NEW x \in Kernel, FlagsGood(x), NEW w \in WriteResults(x, x.firstbuf)
    PROVE  LET c == x.blkno[x.firstbuf]
           IN  /\ \A b \in File : WritesTo(x, w, b) => b = c
               /\ \A b \in FatBlock, i \in 0 .. Fats - 1 : WritesTo(x, w, Mirror(b, i)) => b = c
<1> DEFINE p == x.firstbuf
           c == x.blkno[p]
<1>1. CASE ~ Dirty(x, p)
  <2>1. DOMAIN w = {}
    BY <1>1 DEF WriteResults
  <2> QED
    BY <2>1 DEF WritesTo
<1>2. CASE Dirty(x, p)
  <2>1. DOMAIN w = Copies(x, p) /\ c \in File
    BY <1>2 DEF WriteResults, FlagsGood, Dirty
  <2>2. CASE "FAT" \in x.flag[p]
    <3>1. DOMAIN w = 0 .. Fats - 1 /\ c \in FatBlock
      BY <2>1, <2>2 DEF Copies, FlagsGood
    <3>2. ASSUME NEW b \in FatBlock, NEW i \in 0 .. Fats - 1, WritesTo(x, w, Mirror(b, i)) PROVE b = c
      BY <3>1, <3>2, MirrorIs DEF WritesTo
    <3>3. ASSUME NEW b \in File, WritesTo(x, w, b) PROVE b = c
      <4>1. b \notin DataBlock
        BY <3>1, <3>3, MirrorIs DEF WritesTo
      <4>2. b \in FatBlock /\ b = Mirror(b, 0) /\ 0 \in 0 .. Fats - 1
        BY <4>1, FirstCopy DEF File
      <4> QED
        BY <3>2, <3>3, <4>2
    <3> QED
      BY <3>2, <3>3
  <2>3. CASE "FAT" \notin x.flag[p]
    <3>1. DOMAIN w = {0} /\ c \in DataBlock /\ Mirror(c, 0) = c
      BY <1>2, <2>1, <2>3, FirstCopy DEF Copies, FlagsGood, File
    <3>2. \A b \in FatBlock, i \in 0 .. Fats - 1 : Mirror(b, i) # c
      BY <3>1, MirrorIs
    <3> QED
      BY <3>1, <3>2 DEF WritesTo
  <2> QED
    BY <2>2, <2>3
<1> QED
  BY <1>1, <1>2

LEMMA GoodFlushed ==
    ASSUME NEW x \in Kernel, NEW w \in WriteResults(x, x.firstbuf),
           NEW wt, NEW su, Good(x, wt, su)
    PROVE  LET y == Flush1(x, x.firstbuf, w)
           IN  /\ ~ Dirty(y, x.firstbuf)
               /\ Good(y, wt, su \cup Damage(x, x.firstbuf, w))
<1> DEFINE p == x.firstbuf
           c == x.blkno[p]
           y == Flush1(x, p, w)
           sv == su \cup Damage(x, p, w)
<1>1. /\ y \in Kernel /\ y.firstbuf = p
      /\ y.unit = x.unit /\ y.blkno = x.blkno /\ y.data = x.data
      /\ y.flag[p] = x.flag[p] \ (IF Failed(w) THEN {"DIRTY", "VALID"} ELSE {"DIRTY"})
      /\ \A u \in Unit, b \in Block :
            y.disk[u][b] = IF u = x.unit[p] /\ WritesTo(x, w, b) THEN x.data[p] ELSE x.disk[u][b]
  BY Flush1Is
<1>2. /\ \A b \in File : WritesTo(x, w, b) => b = c
      /\ \A b \in FatBlock, i \in 0 .. Fats - 1 : WritesTo(x, w, Mirror(b, i)) => b = c
  BY WritesHere DEF Good
<1>3. FlagsGood(x) /\ DataGood(x, wt, su) /\ MirrorGood(x, su)
  BY DEF Good
<1>4. p \in Buf /\ x.unit[p] \in Unit /\ c \in Block
  BY DEF Kernel
<1>5. \/ Damage(x, p, w) = {<<x.unit[p], c>>}
      \/ Damage(x, p, w) = {} /\ \A i \in DOMAIN w : w[i] = "ok"
  BY DEF Damage
<1>6. DOMAIN w = IF Dirty(x, p) THEN Copies(x, p) ELSE {}
  BY DEF WriteResults
<1>7. File \subseteq Block /\ \A b \in FatBlock : b \in File /\ Mirror(b, 0) = b
  BY FirstCopy DEF File
<1>8. \A b \in FatBlock, i \in 0 .. Fats - 1 : Mirror(b, i) \in Block
  BY MirrorIs
<1>9. 0 \in 0 .. Fats - 1 /\ \A b \in Block : Mirror(b, 0) = b
  BY FirstCopy
<1> HIDE DEF y
<1>10. ~ Dirty(y, p)
  BY <1>1 DEF Dirty
<1>11. FlagsGood(y)
  BY <1>1, <1>3, <1>10 DEF FlagsGood
<1>12. \A u, b : Holds(y, p, u, b) => Holds(x, p, u, b)
  BY <1>1 DEF Holds
<1>13. ASSUME NEW u \in Unit, NEW b \in File, <<u, b>> \notin sv
       PROVE  (Holds(y, p, u, b) => y.data[p] = wt[u][b]) /\ y.disk[u][b] = wt[u][b]
  <2>1. /\ Holds(x, p, u, b) => x.data[p] = wt[u][b]
        /\ (Holds(x, p, u, b) /\ Dirty(x, p)) \/ x.disk[u][b] = wt[u][b]
    BY <1>3, <1>13 DEF DataGood
  <2>2. CASE Holds(x, p, u, b) /\ Dirty(x, p)
    <3>1. u = x.unit[p] /\ b = c /\ Damage(x, p, w) = {} /\ 0 \in DOMAIN w /\ w[0] = "ok"
      BY <1>5, <1>6, <1>9, <1>13, <2>2 DEF Holds, Copies
    <3>2. WritesTo(x, w, b)
      BY <1>4, <1>9, <3>1 DEF WritesTo
    <3> QED
      BY <1>1, <1>4, <2>1, <2>2, <3>1, <3>2
  <2>3. CASE ~ (Holds(x, p, u, b) /\ Dirty(x, p))
    <3>1. WritesTo(x, w, b) => Dirty(x, p) /\ "VALID" \in x.flag[p]
      BY <1>6 DEF WritesTo, Dirty
    <3>2. ~ (u = x.unit[p] /\ WritesTo(x, w, b))
      BY <1>2, <2>3, <3>1 DEF Holds
    <3>3. y.disk[u][b] = x.disk[u][b]
      BY <1>1, <1>7, <3>2
    <3> QED
      BY <1>1, <1>12, <2>1, <2>3, <3>3
  <2> QED
    BY <2>2, <2>3
<1>14. DataGood(y, wt, sv)
  BY <1>1, <1>13 DEF DataGood
<1>15. ASSUME NEW u \in Unit, NEW b \in FatBlock, NEW i \in 0 .. Fats - 1, <<u, b>> \notin sv
       PROVE  y.disk[u][Mirror(b, i)] = y.disk[u][b]
  <2>1. \/ Holds(x, p, u, b) /\ Dirty(x, p)
        \/ x.disk[u][Mirror(b, i)] = x.disk[u][b]
    BY <1>3, <1>15 DEF MirrorGood
  <2>2. CASE Holds(x, p, u, b) /\ Dirty(x, p)
    <3>1. u = x.unit[p] /\ b = c /\ "FAT" \in x.flag[p]
      BY <1>3, <2>2 DEF Holds, FlagsGood
    <3>2. DOMAIN w = 0 .. Fats - 1 /\ \A j \in DOMAIN w : w[j] = "ok"
      BY <1>5, <1>6, <1>15, <2>2, <3>1 DEF Copies
    <3>3. WritesTo(x, w, Mirror(b, i)) /\ WritesTo(x, w, b)
      BY <1>7, <1>9, <3>1, <3>2 DEF WritesTo
    <3> QED
      BY <1>1, <1>7, <1>8, <3>1, <3>3
  <2>3. CASE ~ (Holds(x, p, u, b) /\ Dirty(x, p))
    <3>1. \A d : WritesTo(x, w, d) => Dirty(x, p) /\ "VALID" \in x.flag[p]
      BY <1>6 DEF WritesTo, Dirty
    <3>2. u = x.unit[p] => ~ WritesTo(x, w, b) /\ ~ WritesTo(x, w, Mirror(b, i))
      BY <1>2, <1>7, <2>3, <3>1 DEF Holds
    <3> QED
      BY <1>1, <1>7, <1>8, <2>1, <2>3, <3>2
  <2> QED
    BY <2>2, <2>3
<1>16. MirrorGood(y, sv)
  BY <1>1, <1>15 DEF MirrorGood
<1> QED
  BY <1>10, <1>11, <1>14, <1>16 DEF Good, y

-----------------------------------------------------------------------------
(* getblk.                                                                 *)

\* A sector that is not vouched for while a condition holds.
Also(c, q) == IF c THEN {q} ELSE {}

LEMMA Gotten ==
    ASSUME NEW x \in Kernel, Shape(x), NEW u \in Unit, NEW b \in File, NEW overwrite \in BOOLEAN,
           NEW g \in Getblks(x, u, b, overwrite), NEW wt, NEW su, Good(x, wt, su)
    PROVE  /\ g.x \in Kernel /\ Alone(g.x) /\ g.bad \subseteq Unit \X Block
           /\ Good(g.x, wt, su \cup g.bad \cup Also(overwrite /\ g.ok, <<u, b>>))
           /\ g.ok => Holds(g.x, g.x.firstbuf, u, b)
<1> DEFINE y == SearchBlock(x, u, b)
           p == y.firstbuf
<1>1. PICK io \in Outcomes(x, u, b, overwrite) : g = Getblk(x, u, b, overwrite, io)
  BY DEF Getblks
<1>2. /\ Moved(x, y) /\ y \in Kernel /\ Alone(y)
      /\ "UNCACHE" \notin y.flag[p] => Holds(y, p, u, b)
  BY Searched DEF Moved
<1>3. p \in Buf /\ y.unit[p] \in Unit /\ y.blkno[p] \in Block /\ b \in Block
  BY <1>2, FirstCopy DEF Kernel, File
<1> DEFINE s0 == su \cup Also(overwrite /\ g.ok, <<u, b>>)
<1>4. Good(x, wt, s0)
  BY DEF Good, DataGood, MirrorGood
<1>5. Good(y, wt, s0)
  BY <1>2, <1>4, GoodMoved
<1> DEFINE z == Flush1(y, p, io.w)
           v == IF overwrite THEN z.data[p] ELSE IF io.r = "ok" THEN z.disk[u][b] ELSE io.junk
           d == [z EXCEPT !.data[p] = v]
           e == [d EXCEPT !.flag[p] = {"VALID"}, !.unit[p] = u, !.blkno[p] = b]
           old == {q \in {<<y.unit[p], y.blkno[p]>>} : "VALID" \in y.flag[p]}
           s1 == s0 \cup Damage(y, p, io.w)
<1>6. CASE "UNCACHE" \notin y.flag[p]
  <2>1. g.ok = TRUE /\ g.x = y /\ g.bad = {}
    BY <1>1, <1>6 DEF Getblk
  <2> HIDE DEF y, s0
  <2>2. su \cup g.bad \cup Also(overwrite /\ g.ok, <<u, b>>) = s0
    BY <2>1 DEF s0
  <2> QED
    BY <1>2, <1>5, <1>6, <2>1, <2>2
<1>7. CASE "UNCACHE" \in y.flag[p]
  <2>1. /\ io.w \in WriteResults(y, p) /\ io.r \in Result /\ io.junk \in Value
        /\ overwrite \/ Failed(io.w) => io.r = "ok"
    BY <1>1, <1>7 DEF Outcomes
  <2>2. /\ Failed(io.w) => g = [ok |-> FALSE, x |-> z, bad |-> Damage(y, p, io.w)]
        /\ ~ Failed(io.w) /\ io.r = "fail" =>
              g = [ok |-> FALSE, x |-> d, bad |-> Damage(y, p, io.w) \cup old]
        /\ ~ Failed(io.w) /\ io.r # "fail" =>
              g = [ok |-> TRUE, x |-> e,
                   bad |-> Damage(y, p, io.w) \cup (IF io.r = "ok" THEN {} ELSE {<<u, b>>})]
    BY <1>1, <1>7 DEF Getblk
  <2>3. /\ z \in Kernel /\ z.firstbuf = p /\ z.prev = y.prev /\ z.next = y.next
        /\ z.unit = y.unit /\ z.blkno = y.blkno /\ z.data = y.data
        /\ z.flag[p] \subseteq y.flag[p]
    BY <1>2, <2>1, Flush1Is
  <2>4. ~ Dirty(z, p) /\ Good(z, wt, s1)
    BY <1>2, <1>5, <2>1, GoodFlushed
  <2>5. Damage(y, p, io.w) \subseteq Unit \X Block /\ old \subseteq Unit \X Block
    BY <1>3 DEF Damage
  <2> HIDE DEF y, z, s0
  <2>6. v \in Value
    BY <1>3, <2>1, <2>3 DEF Kernel
  <2>7. /\ ~ overwrite /\ io.r = "ok" => v = z.disk[u][b]
    OBVIOUS
  <2> HIDE DEF v
  <2>8. Alone(z)
    BY <1>2, <2>3 DEF Alone
  <2>9. /\ d \in Kernel /\ d.firstbuf = p /\ d.prev = z.prev /\ d.next = z.next
        /\ d.unit = z.unit /\ d.blkno = z.blkno /\ d.flag = z.flag /\ d.disk = z.disk
        /\ d.data[p] = v
    BY <1>3, <2>3, <2>6 DEF Kernel
  <2> HIDE DEF d
  <2>10. /\ e \in Kernel /\ e.firstbuf = p /\ e.prev = z.prev /\ e.next = z.next
         /\ e.unit[p] = u /\ e.blkno[p] = b /\ e.flag[p] = {"VALID"} /\ e.disk = z.disk
         /\ e.data[p] = v
    BY <1>3, <2>9 DEF Kernel, Flag
  <2> HIDE DEF e
  <2>11. \A n \in Unit, c \in File : <<n, c>> \in s1 \/ z.disk[n][c] = wt[n][c]
    BY <2>3, <2>4 DEF Good, DataGood
  <2>12. \A n \in Unit, c \in FatBlock, i \in 0 .. Fats - 1 :
            <<n, c>> \in s1 \/ z.disk[n][Mirror(c, i)] = z.disk[n][c]
    BY <2>3, <2>4 DEF Good, MirrorGood
  <2>13. CASE Failed(io.w)
    <3>1. g.ok = FALSE /\ g.x = z /\ g.bad = Damage(y, p, io.w)
      BY <2>2, <2>13
    <3>2. su \cup g.bad \cup Also(overwrite /\ g.ok, <<u, b>>) = s1
      BY <3>1 DEF s0
    <3> QED
      BY <2>3, <2>4, <2>5, <2>8, <3>1, <3>2
  <2>14. CASE ~ Failed(io.w) /\ io.r = "fail"
    <3>1. g.ok = FALSE /\ g.x = d /\ g.bad = Damage(y, p, io.w) \cup old
      BY <2>2, <2>14
    <3>2. su \cup g.bad \cup Also(overwrite /\ g.ok, <<u, b>>) = s1 \cup old
      BY <3>1 DEF s0
    <3>3. FlagsGood(d)
      BY <2>3, <2>4, <2>9 DEF Good, FlagsGood, Dirty
    <3>4. \A n, c : Holds(d, p, n, c) => <<n, c>> \in old
      BY <2>3, <2>9 DEF Holds
    <3> HIDE DEF s1, old
    <3>5. DataGood(d, wt, s1 \cup old)
      BY <2>9, <2>11, <3>4 DEF DataGood
    <3>6. MirrorGood(d, s1 \cup old)
      <4>1. ASSUME NEW n \in Unit, NEW c \in FatBlock, NEW i \in 0 .. Fats - 1, <<n, c>> \notin s1
            PROVE  d.disk[n][Mirror(c, i)] = d.disk[n][c]
        <5>1. z.disk[n][Mirror(c, i)] = z.disk[n][c]
          BY <2>12, <4>1
        <5> QED
          BY <2>9, <5>1
      <4> QED
        BY <4>1 DEF MirrorGood
    <3> QED
      BY <2>5, <2>8, <2>9, <2>3, <3>1, <3>2, <3>3, <3>5, <3>6 DEF Good, Alone
  <2>15. CASE ~ Failed(io.w) /\ io.r # "fail"
    <3> DEFINE s2 == s1 \cup (IF io.r = "ok" THEN {} ELSE {<<u, b>>})
    <3>1. g.ok = TRUE /\ g.x = e
          /\ g.bad = Damage(y, p, io.w) \cup (IF io.r = "ok" THEN {} ELSE {<<u, b>>})
      BY <2>2, <2>15
    <3>2. su \cup g.bad \cup Also(overwrite /\ g.ok, <<u, b>>) = s2
      BY <3>1 DEF s0
    <3>3. FlagsGood(e)
      BY <2>10 DEF FlagsGood, Dirty
    <3>4. <<u, b>> \in s2 \/ v = z.disk[u][b]
      BY <2>7, <3>1 DEF s0, Also
    <3>5. s1 \subseteq s2
      OBVIOUS
    <3>6. \A n, c : Holds(e, p, n, c) => n = u /\ c = b
      BY <2>10 DEF Holds
    <3>7. Holds(e, p, u, b)
      BY <2>10 DEF Holds
    <3>8. s2 \ s1 \subseteq {<<u, b>>} /\ g.bad \subseteq Unit \X Block
      BY <1>3, <2>5, <3>1
    <3> HIDE DEF s1, s2
    <3>9. DataGood(e, wt, s2)
      <4>1. ASSUME NEW n \in Unit, NEW c \in File, <<n, c>> \notin s2
            PROVE  e.disk[n][c] = wt[n][c] /\ (Holds(e, p, n, c) => e.data[p] = wt[n][c])
        <5>1. e.disk[n][c] = wt[n][c] /\ z.disk[n][c] = wt[n][c]
          BY <2>10, <2>11, <3>5, <4>1
        <5> QED
          BY <2>10, <3>4, <3>6, <4>1, <5>1
      <4> QED
        BY <2>10, <4>1 DEF DataGood
    <3>10. MirrorGood(e, s2)
      <4>1. ASSUME NEW n \in Unit, NEW c \in FatBlock, NEW i \in 0 .. Fats - 1, <<n, c>> \notin s2
            PROVE  e.disk[n][Mirror(c, i)] = e.disk[n][c]
        <5>1. z.disk[n][Mirror(c, i)] = z.disk[n][c]
          BY <2>12, <3>5, <4>1
        <5> QED
          BY <2>10, <5>1
      <4> QED
        BY <4>1 DEF MirrorGood
    <3> QED
      BY <2>8, <2>3, <2>10, <3>1, <3>2, <3>3, <3>7, <3>8, <3>9, <3>10 DEF Good, Alone
  <2> QED
    BY <2>13, <2>14, <2>15
<1> QED
  BY <1>6, <1>7

-----------------------------------------------------------------------------
(* The ring again: only the first buffer can hold anything.                *)

LEMMA RingIs ==
    ASSUME NEW x \in Kernel, Shape(x)
    PROVE  /\ Closed(x) /\ Ring(x) \subseteq Buf /\ x.firstbuf \in Ring(x) /\ x.firstbuf \in Buf
           /\ \A p \in Ring(x) : p = x.firstbuf \/ x.flag[p] = {}
<1>1. x.firstbuf \in Buf
  BY DEF Kernel
<1>2. CASE Alone(x)
  BY <1>1, <1>2, RingAlone
<1>3. CASE Fresh(x)
  BY <1>1, <1>3, RingFresh DEF Fresh
<1> QED
  BY <1>2, <1>3 DEF Shape

LEMMA CachedIs ==
    ASSUME NEW x \in Kernel, Shape(x), NEW u, NEW B
    PROVE  Cached(x, u, B) = IF \E b \in B : Holds(x, x.firstbuf, u, b) THEN {x.firstbuf} ELSE {}
<1>1. \A p \in Ring(x) : \A b : Holds(x, p, u, b) => p = x.firstbuf
  BY RingIs DEF Holds
<1> QED
  BY <1>1, RingIs DEF Cached

LEMMA GoodMore ==
    ASSUME NEW x, NEW wt, NEW su, NEW sv, su \subseteq sv, Good(x, wt, su)
    PROVE  Good(x, wt, sv)
BY DEF Good, DataGood, MirrorGood

LEMMA Flushed ==
    ASSUME NEW x \in Kernel, Shape(x), NEW S \in SUBSET Buf, NEW w \in WriteBacks(x, S),
           NEW wt, NEW su, Good(x, wt, su)
    PROVE  LET y == FlushSet(x, S, w)
           IN  /\ y \in Kernel /\ Shape(y) /\ Good(y, wt, su \cup FlushDamage(x, w))
               /\ FlushDamage(x, w) \subseteq Unit \X Block
               /\ y.firstbuf = x.firstbuf /\ y.unit = x.unit /\ y.blkno = x.blkno /\ y.data = x.data
               /\ y.flag[y.firstbuf] \subseteq x.flag[x.firstbuf]
               /\ x.firstbuf \in S => ~ Dirty(y, y.firstbuf)
<1> DEFINE p == x.firstbuf
           o == ResultsOf(x, p, w)
           y == FlushSet(x, S, w)
<1>1. y = IF p \in S THEN Flush1(x, p, o) ELSE x
  BY FlushSetIs DEF FlushFront
<1>2. DOMAIN w = {q \in S : Dirty(x, q)} /\ \A q \in DOMAIN w : w[q] \in [0 .. Fats - 1 -> Result]
  BY DEF WriteBacks
<1>3. FlushDamage(x, w) \subseteq Unit \X Block
  <2>1. \A q \in DOMAIN w : <<x.unit[q], x.blkno[q]>> \in Unit \X Block
    BY <1>2 DEF Kernel
  <2> QED
    BY <2>1 DEF FlushDamage, Damage
<1>4. CASE p \notin S
  BY <1>1, <1>3, <1>4, GoodMore
<1>5. CASE p \in S
  <2>1. o \in WriteResults(x, p)
    <3>1. CASE Dirty(x, p)
      <4>1. Copies(x, p) \subseteq 0 .. Fats - 1
        BY FirstCopy DEF Copies
      <4>2. o = [i \in Copies(x, p) |-> w[p][i]] /\ w[p] \in [0 .. Fats - 1 -> Result]
        BY <1>2, <1>5, <3>1 DEF ResultsOf
      <4>3. [i \in Copies(x, p) |-> w[p][i]] \in [Copies(x, p) -> Result]
        BY <4>1, <4>2
      <4> HIDE DEF o
      <4>4. o \in [Copies(x, p) -> Result]
        BY <4>2, <4>3
      <4> QED
        BY <3>1, <4>4 DEF WriteResults
    <3>2. CASE ~ Dirty(x, p)
      BY <1>2, <3>2 DEF ResultsOf, WriteResults
    <3> QED
      BY <3>1, <3>2
  <2>2. Damage(x, p, o) \subseteq FlushDamage(x, w)
    <3>1. CASE Dirty(x, p)
      BY <1>2, <1>5, <3>1 DEF FlushDamage
    <3>2. CASE ~ Dirty(x, p)
      <4>1. o = <<>>
        BY <1>2, <3>2 DEF ResultsOf
      <4> QED
        BY <4>1 DEF Damage
    <3> QED
      BY <3>1, <3>2
  <2> HIDE DEF o
  <2>3. y = Flush1(x, p, o)
    BY <1>1, <1>5
  <2>4. /\ y \in Kernel /\ y.firstbuf = p /\ y.prev = x.prev /\ y.next = x.next
        /\ y.unit = x.unit /\ y.blkno = x.blkno /\ y.data = x.data /\ y.flag[p] \subseteq x.flag[p]
    BY <2>1, <2>3, Flush1Is
  <2>5. ~ Dirty(y, p) /\ Good(y, wt, su \cup Damage(x, p, o))
    BY <2>1, <2>3, GoodFlushed
  <2>6. su \cup Damage(x, p, o) \subseteq su \cup FlushDamage(x, w)
    BY <2>2
  <2>7. Good(y, wt, su \cup FlushDamage(x, w))
    BY <2>5, <2>6, GoodMore
  <2>8. Shape(y)
    <3>1. CASE Alone(x)
      BY <2>4, <3>1 DEF Alone, Shape
    <3>2. CASE Fresh(x)
      <4>1. p \in Buf /\ x.flag[p] = {}
        BY <3>2 DEF Fresh, Kernel
      <4>2. o = <<>>
        BY <1>2, <4>1 DEF ResultsOf, Dirty, o
      <4>3. y = x
        BY <2>3, <4>1, <4>2, NothingToFlush
      <4> QED
        BY <4>3
    <3> QED
      BY <3>1, <3>2 DEF Shape
  <2> HIDE DEF y
  <2> QED
    BY <1>3, <2>4, <2>5, <2>7, <2>8 DEF y
<1> QED
  BY <1>4, <1>5

LEMMA Cleared ==
    ASSUME NEW x \in Kernel, Shape(x), NEW S
    PROVE  LET y == Clear(x, S)
           IN  /\ y \in Kernel /\ Shape(y)
               /\ y.firstbuf = x.firstbuf /\ y.unit = x.unit /\ y.blkno = x.blkno
               /\ y.data = x.data /\ y.disk = x.disk
               /\ y.flag[y.firstbuf] = IF x.firstbuf \in S THEN {} ELSE x.flag[x.firstbuf]
<1> DEFINE f == [p \in Buf |-> IF p \in S THEN {} ELSE x.flag[p]]
           y == [x EXCEPT !.flag = f]
<1>1. Clear(x, S) = y
  BY DEF Clear
<1>2. x.firstbuf \in Buf /\ f \in [Buf -> SUBSET Flag]
  BY DEF Kernel
<1>3. f[x.firstbuf] = IF x.firstbuf \in S THEN {} ELSE x.flag[x.firstbuf]
  BY <1>2
<1>4. Fresh(x) => f = [p \in Buf |-> {}]
  BY DEF Fresh
<1> HIDE DEF f
<1>5. /\ y \in Kernel /\ y.firstbuf = x.firstbuf /\ y.unit = x.unit /\ y.blkno = x.blkno
      /\ y.data = x.data /\ y.disk = x.disk /\ y.prev = x.prev /\ y.next = x.next /\ y.flag = f
  BY <1>2 DEF Kernel
<1> HIDE DEF y
<1>6. Shape(y)
  BY <1>4, <1>5 DEF Shape, Fresh, Alone
<1> QED
  BY <1>1, <1>3, <1>5, <1>6

LEMMA StoredIs ==
    ASSUME NEW x \in Kernel, Shape(x), NEW u \in Unit, NEW T, NEW v \in Value
    PROVE  LET y == Stored(x, u, T, v)
           IN  /\ y \in Kernel /\ Shape(y)
               /\ y.firstbuf = x.firstbuf /\ y.unit = x.unit /\ y.blkno = x.blkno
               /\ y.data = x.data /\ y.flag = x.flag
               /\ \A n \in Unit, c \in Block :
                     y.disk[n][c] = IF n = u /\ c \in T THEN v ELSE x.disk[n][c]
<1> DEFINE d == [c \in Block |-> IF c \in T THEN v ELSE x.disk[u][c]]
           y == [x EXCEPT !.disk[u] = d]
<1>1. Stored(x, u, T, v) = y
  BY DEF Stored, Kernel
<1>2. d \in [Block -> Value] /\ \A c \in Block : d[c] = IF c \in T THEN v ELSE x.disk[u][c]
  BY DEF Kernel
<1> HIDE DEF d
<1>3. /\ y \in Kernel /\ y.firstbuf = x.firstbuf /\ y.unit = x.unit /\ y.blkno = x.blkno
      /\ y.data = x.data /\ y.flag = x.flag /\ y.prev = x.prev /\ y.next = x.next
      /\ \A n \in Unit : y.disk[n] = IF n = u THEN d ELSE x.disk[n]
  BY <1>2 DEF Kernel
<1> HIDE DEF y
<1>4. Shape(y)
  BY <1>3 DEF Shape, Fresh, Alone
<1> QED
  BY <1>1, <1>2, <1>3, <1>4

-----------------------------------------------------------------------------
(* What the operations do with a buffer they have got.                     *)

LEMMA Marked ==
    ASSUME NEW x \in Kernel, Alone(x), NEW wt, NEW su, Good(x, wt, su),
           NEW u, NEW b, Holds(x, x.firstbuf, u, b),
           NEW mark \in SUBSET {"FAT", "VALID", "UNCACHE"}, "FAT" \in mark => b \in FatBlock
    PROVE  LET y == [x EXCEPT !.flag[x.firstbuf] = @ \cup mark]
           IN  y \in Kernel /\ Alone(y) /\ Good(y, wt, su)
<1> DEFINE p == x.firstbuf
           y == [x EXCEPT !.flag[p] = @ \cup mark]
<1>1. p \in Buf /\ mark \subseteq Flag /\ "VALID" \in x.flag[p] /\ x.blkno[p] = b
  BY DEF Kernel, Flag, Holds
<1>2. /\ y \in Kernel /\ y.firstbuf = p /\ y.prev = x.prev /\ y.next = x.next
      /\ y.unit = x.unit /\ y.blkno = x.blkno /\ y.data = x.data /\ y.disk = x.disk
      /\ y.flag[p] = x.flag[p] \cup mark
  BY <1>1 DEF Kernel
<1> HIDE DEF y
<1>3. Dirty(y, p) <=> Dirty(x, p)
  BY <1>1, <1>2 DEF Dirty
<1>4. \A n, c : Holds(y, p, n, c) <=> Holds(x, p, n, c)
  BY <1>1, <1>2 DEF Holds
<1>5. FlagsGood(y)
  BY <1>1, <1>2, <1>3 DEF Good, FlagsGood
<1>6. DataGood(y, wt, su)
  <2> SUFFICES ASSUME NEW n \in Unit, NEW c \in File, <<n, c>> \notin su
               PROVE  /\ Holds(y, y.firstbuf, n, c) => y.data[y.firstbuf] = wt[n][c]
                      /\ (Holds(y, y.firstbuf, n, c) /\ Dirty(y, y.firstbuf)) \/ y.disk[n][c] = wt[n][c]
    BY DEF DataGood
  <2>1. /\ Holds(x, p, n, c) => x.data[p] = wt[n][c]
        /\ (Holds(x, p, n, c) /\ Dirty(x, p)) \/ x.disk[n][c] = wt[n][c]
    BY DEF Good, DataGood
  <2> QED
    BY <1>2, <1>3, <1>4, <2>1
<1>7. MirrorGood(y, su)
  <2> SUFFICES ASSUME NEW n \in Unit, NEW c \in FatBlock, NEW i \in 0 .. Fats - 1, <<n, c>> \notin su
               PROVE  \/ Holds(y, y.firstbuf, n, c) /\ Dirty(y, y.firstbuf)
                      \/ y.disk[n][Mirror(c, i)] = y.disk[n][c]
    BY DEF MirrorGood
  <2>1. (Holds(x, p, n, c) /\ Dirty(x, p)) \/ x.disk[n][Mirror(c, i)] = x.disk[n][c]
    BY DEF Good, MirrorGood
  <2> QED
    BY <1>2, <1>3, <1>4, <2>1
<1> QED
  BY <1>2, <1>5, <1>6, <1>7 DEF Good, Alone, y

LEMMA Overwritten ==
    ASSUME NEW x \in Kernel, Alone(x), NEW wt \in [Unit -> [Block -> Value]], NEW su, NEW overwrite,
           NEW u \in Unit, NEW b \in File, Holds(x, x.firstbuf, u, b),
           Good(x, wt, su \cup Also(overwrite, <<u, b>>)),
           NEW v \in Value, NEW mark \in SUBSET {"FAT", "UNCACHE"}, "FAT" \in mark <=> b \in FatBlock
    PROVE  LET y == [x EXCEPT !.data[x.firstbuf] = v,
                              !.flag[x.firstbuf] = @ \cup {"VALID", "DIRTY"} \cup mark]
           IN  y \in Kernel /\ Alone(y) /\ Good(y, [wt EXCEPT ![u][b] = v], su)
<1> DEFINE p == x.firstbuf
           y == [x EXCEPT !.data[p] = v, !.flag[p] = @ \cup {"VALID", "DIRTY"} \cup mark]
           wv == [wt EXCEPT ![u][b] = v]
<1>1. p \in Buf /\ mark \subseteq Flag /\ x.unit[p] = u /\ x.blkno[p] = b /\ b \in Block
  BY FirstCopy DEF Kernel, Flag, Holds, File
<1>2. /\ y \in Kernel /\ y.firstbuf = p /\ y.prev = x.prev /\ y.next = x.next
      /\ y.unit = x.unit /\ y.blkno = x.blkno /\ y.disk = x.disk
      /\ y.data[p] = v /\ y.flag[p] = x.flag[p] \cup {"VALID", "DIRTY"} \cup mark
  BY <1>1 DEF Kernel, Flag
<1>3. /\ wv[u][b] = v
      /\ \A n \in Unit, c \in Block : <<n, c>> # <<u, b>> => wv[n][c] = wt[n][c]
  BY <1>1
<1> HIDE DEF y, wv
<1>4. Dirty(y, p)
  BY <1>2 DEF Dirty
<1>5. \A n, c : Holds(y, p, n, c) <=> <<n, c>> = <<u, b>>
  BY <1>1, <1>2 DEF Holds
<1>6. \A n, c : Holds(x, p, n, c) => <<n, c>> = <<u, b>>
  BY <1>1 DEF Holds
<1>7. FlagsGood(y)
  BY <1>1, <1>2 DEF Good, FlagsGood
<1>8. DataGood(y, wv, su)
  <2>1. ASSUME NEW n \in Unit, NEW c \in File, <<n, c>> \notin su, <<n, c>> # <<u, b>>
        PROVE  y.disk[n][c] = wv[n][c]
    <3>1. <<n, c>> \notin su \cup Also(overwrite, <<u, b>>) /\ c \in Block
      BY <2>1, FirstCopy DEF Also, File
    <3>2. x.disk[n][c] = wt[n][c]
      BY <1>6, <2>1, <3>1 DEF Good, DataGood
    <3> QED
      BY <1>2, <1>3, <2>1, <3>1, <3>2
  <2> SUFFICES ASSUME NEW n \in Unit, NEW c \in File, <<n, c>> \notin su
               PROVE  /\ Holds(y, y.firstbuf, n, c) => y.data[y.firstbuf] = wv[n][c]
                      /\ (Holds(y, y.firstbuf, n, c) /\ Dirty(y, y.firstbuf)) \/ y.disk[n][c] = wv[n][c]
    BY DEF DataGood
  <2>2. CASE <<n, c>> = <<u, b>>
    BY <1>2, <1>3, <1>4, <1>5, <2>2
  <2>3. CASE <<n, c>> # <<u, b>>
    BY <1>2, <1>5, <2>1, <2>3
  <2> QED
    BY <2>2, <2>3
<1>9. MirrorGood(y, su)
  <2>1. ASSUME NEW n \in Unit, NEW c \in FatBlock, NEW i \in 0 .. Fats - 1,
               <<n, c>> \notin su, <<n, c>> # <<u, b>>
        PROVE  y.disk[n][Mirror(c, i)] = y.disk[n][c]
    <3>1. <<n, c>> \notin su \cup Also(overwrite, <<u, b>>)
      BY <2>1 DEF Also
    <3>2. x.disk[n][Mirror(c, i)] = x.disk[n][c]
      BY <1>6, <2>1, <3>1 DEF Good, MirrorGood
    <3> QED
      BY <1>2, <3>2
  <2> QED
    BY <1>2, <1>4, <1>5, <2>1 DEF MirrorGood
<1> QED
  BY <1>2, <1>7, <1>8, <1>9 DEF Good, Alone, y, wv

\* Sectors of a drive are written round the cache, and buffers dropped: T is
\* where the disk has changed, W what the file system was told it stored, sv
\* what is not vouched for afterwards.
Rewrites(x, y, wt, wv, sv, u, v, T, W) ==
    /\ y.firstbuf = x.firstbuf /\ y.unit = x.unit /\ y.blkno = x.blkno /\ y.data = x.data
    /\ y.flag[y.firstbuf] \in {x.flag[x.firstbuf], {}}
    /\ \A n \in Unit, c \in Block :
          /\ y.disk[n][c] = IF n = u /\ c \in T THEN v ELSE x.disk[n][c]
          /\ wv[n][c] = IF n = u /\ c \in W THEN v ELSE wt[n][c]
    /\ \A c \in T \cup W :
          <<u, c>> \in sv \/ (c \in T /\ c \in W /\ ~ Holds(y, y.firstbuf, u, c))
    /\ \/ y.flag[y.firstbuf] = x.flag[x.firstbuf]
       \/ ~ Dirty(x, x.firstbuf)
       \/ <<x.unit[x.firstbuf], x.blkno[x.firstbuf]>> \in sv
       \/ (x.unit[x.firstbuf] = u /\ x.blkno[x.firstbuf] \in T \cap W)
    /\ \A c \in FatsIn(T) : <<u, c>> \in sv

LEMMA Rewritten ==
    ASSUME NEW x \in Kernel, NEW y \in Kernel, NEW wt, NEW wv, NEW su, NEW sv,
           NEW u, NEW v, NEW T, NEW W, Good(x, wt, su), su \subseteq sv,
           Rewrites(x, y, wt, wv, sv, u, v, T, W)
    PROVE  Good(y, wv, sv)
<1> DEFINE p == x.firstbuf
<1>1. /\ y.firstbuf = x.firstbuf /\ y.unit = x.unit /\ y.blkno = x.blkno /\ y.data = x.data
      /\ y.flag[y.firstbuf] \in {x.flag[x.firstbuf], {}}
  BY DEF Rewrites
<1>2. \A n \in Unit, c \in Block :
          /\ y.disk[n][c] = IF n = u /\ c \in T THEN v ELSE x.disk[n][c]
          /\ wv[n][c] = IF n = u /\ c \in W THEN v ELSE wt[n][c]
  BY DEF Rewrites
<1>3. /\ \A c \in T \cup W :
            <<u, c>> \in sv \/ (c \in T /\ c \in W /\ ~ Holds(y, y.firstbuf, u, c))
      /\ \A c \in FatsIn(T) : <<u, c>> \in sv
  BY DEF Rewrites
<1>4. \/ y.flag[y.firstbuf] = x.flag[x.firstbuf]
      \/ ~ Dirty(x, x.firstbuf)
      \/ <<x.unit[x.firstbuf], x.blkno[x.firstbuf]>> \in sv
      \/ (x.unit[x.firstbuf] = u /\ x.blkno[x.firstbuf] \in T \cap W)
  BY DEF Rewrites
<1>5. \A n, c : Holds(y, p, n, c) => Holds(x, p, n, c)
  BY <1>1 DEF Holds
<1>6. File \subseteq Block /\ FatBlock \subseteq File /\ \A c \in FatBlock : c = Mirror(c, 0)
  BY FirstCopy DEF File
<1>7. FlagsGood(y)
  BY <1>1 DEF Good, FlagsGood, Dirty
<1>8. ASSUME NEW n \in Unit, NEW c \in File, <<n, c>> \notin sv, Holds(x, p, n, c), Dirty(x, p)
      PROVE  (Holds(y, p, n, c) /\ Dirty(y, p)) \/ (n = u /\ c \in T \cap W)
  BY <1>1, <1>4, <1>8 DEF Holds, Dirty
<1>9. ASSUME NEW n \in Unit, NEW c \in File, <<n, c>> \notin sv
      PROVE  /\ Holds(y, p, n, c) => y.data[p] = wv[n][c]
             /\ (Holds(y, p, n, c) /\ Dirty(y, p)) \/ y.disk[n][c] = wv[n][c]
  <2>1. CASE n = u /\ c \in T \cup W
    <3>1. c \in T /\ c \in W /\ ~ Holds(y, p, n, c)
      BY <1>1, <1>3, <1>9, <2>1
    <3> QED
      BY <1>2, <1>6, <2>1, <3>1
  <2>2. CASE ~ (n = u /\ c \in T \cup W)
    <3>1. y.disk[n][c] = x.disk[n][c] /\ wv[n][c] = wt[n][c]
      BY <1>2, <1>6, <2>2
    <3>2. /\ Holds(x, p, n, c) => x.data[p] = wt[n][c]
          /\ (Holds(x, p, n, c) /\ Dirty(x, p)) \/ x.disk[n][c] = wt[n][c]
      BY <1>9 DEF Good, DataGood
    <3> QED
      BY <1>1, <1>5, <1>8, <1>9, <2>2, <3>1, <3>2
  <2> QED
    BY <2>1, <2>2
<1>10. DataGood(y, wv, sv)
  <2> SUFFICES ASSUME NEW n \in Unit, NEW c \in File, <<n, c>> \notin sv
               PROVE  /\ Holds(y, y.firstbuf, n, c) => y.data[y.firstbuf] = wv[n][c]
                      /\ (Holds(y, y.firstbuf, n, c) /\ Dirty(y, y.firstbuf)) \/ y.disk[n][c] = wv[n][c]
    BY DEF DataGood
  <2> QED
    BY <1>1, <1>9
<1>11. ASSUME NEW n \in Unit, NEW c \in FatBlock, NEW i \in 0 .. Fats - 1, <<n, c>> \notin sv
      PROVE  (Holds(y, p, n, c) /\ Dirty(y, p)) \/ y.disk[n][Mirror(c, i)] = y.disk[n][c]
  <2>1. (Holds(x, p, n, c) /\ Dirty(x, p)) \/ x.disk[n][Mirror(c, i)] = x.disk[n][c]
    BY <1>11 DEF Good, MirrorGood
  <2>2. n = u => c \notin T /\ Mirror(c, i) \notin T
    <3>1. n = u => c \notin FatsIn(T)
      BY <1>3, <1>11
    <3> QED
      BY <1>6, <3>1, FirstCopy DEF FatsIn
  <2>3. Mirror(c, i) \in Block /\ c \in Block
    BY <1>6, MirrorIs
  <2>4. y.disk[n][Mirror(c, i)] = x.disk[n][Mirror(c, i)] /\ y.disk[n][c] = x.disk[n][c]
    BY <1>2, <2>2, <2>3
  <2> QED
    BY <1>6, <1>8, <1>11, <2>1, <2>2, <2>4
<1>12. MirrorGood(y, sv)
  <2>1. \A n \in Unit, c \in FatBlock, i \in 0 .. Fats - 1 :
           \/ <<n, c>> \in sv
           \/ Holds(y, y.firstbuf, n, c) /\ Dirty(y, y.firstbuf)
           \/ y.disk[n][Mirror(c, i)] = y.disk[n][c]
    <3> SUFFICES ASSUME NEW n \in Unit, NEW c \in FatBlock, NEW i \in 0 .. Fats - 1
                 PROVE  \/ <<n, c>> \in sv
                        \/ Holds(y, y.firstbuf, n, c) /\ Dirty(y, y.firstbuf)
                        \/ y.disk[n][Mirror(c, i)] = y.disk[n][c]
      OBVIOUS
    <3> QED
      BY <1>1, <1>11
  <2> QED
    BY <2>1, Zenon DEF MirrorGood
<1> QED
  BY <1>7, <1>10, <1>12 DEF Good

-----------------------------------------------------------------------------
(* The operations.                                                         *)

LEMMA InitIsGood ==
    ASSUME BufInit
    PROVE  IInv
<1>1. /\ 0 \in Buf /\ BufCount - 1 \in Buf /\ 0 \in Block /\ 0 \in Unit /\ 0 \in Value
      /\ \A p \in Buf : (p # 0 => p - 1 \in Buf) /\ (p # BufCount - 1 => p + 1 \in Buf)
  <2>1. 0 \in FatBlock
    BY CacheAssumption DEF FatBlock
  <2> QED
    BY <2>1, FirstCopy, CacheAssumption DEF Buf
<1>2. k \in Kernel
  BY <1>1 DEF BufInit, Kernel
<1>3. Fresh(k)
  BY DEF BufInit, Fresh
<1>4. k.flag[k.firstbuf] = {} /\ \A u \in Unit, b \in Block : k.disk[u][b] = 0 /\ want[u][b] = 0
  BY <1>1 DEF BufInit
<1>5. FlagsGood(k)
  BY <1>4 DEF FlagsGood, Dirty
<1>6. DataGood(k, want, suspect)
  <2>1. \A u \in Unit, b \in File : k.disk[u][b] = want[u][b]
    BY <1>4, FirstCopy DEF File
  <2> QED
    BY <1>4, <2>1 DEF DataGood, Holds
<1>7. MirrorGood(k, suspect)
  <2>1. \A u \in Unit, b \in FatBlock, i \in 0 .. Fats - 1 :
           k.disk[u][Mirror(b, i)] = 0 /\ k.disk[u][b] = 0
    BY <1>4, FirstCopy, MirrorIs
  <2> QED
    BY <2>1 DEF MirrorGood
<1>8. want \in [Unit -> [Block -> Value]] /\ suspect \subseteq Unit \X Block
  BY <1>1 DEF BufInit
<1>9. DirectReadsCurrent /\ FlushReportsTruth
  BY DEF BufInit, Plain, DirectReadsCurrent, FlushReportsTruth
<1> QED
  BY <1>2, <1>3, <1>5, <1>6, <1>7, <1>8, <1>9 DEF IInv, Sound, Shape, Good

\* A call that no property asks about: what matters is what it leaves.
LEMMA PlainCall ==
    ASSUME Sound(k', want', suspect'), ret' = Plain
    PROVE  IInv'
BY DEF IInv, Sound, Plain, DirectReadsCurrent, FlushReportsTruth

LEMMA ReadIsGood ==
    ASSUME IInv, NEW u \in Unit, NEW b \in File, NEW g \in Getblks(k, u, b, FALSE),
           NEW mark \in ReadMarks(b), Read(mark, g)
    PROVE  IInv'
<1>1. k \in Kernel /\ Shape(k) /\ Good(k, want, suspect)
  BY DEF IInv, Sound
<1>2. suspect \cup g.bad \cup Also(FALSE /\ g.ok, <<u, b>>) = suspect \cup g.bad
  BY DEF Also
<1>3. /\ g.x \in Kernel /\ Alone(g.x) /\ g.bad \subseteq Unit \X Block
      /\ Good(g.x, want, suspect \cup g.bad)
      /\ g.ok => Holds(g.x, g.x.firstbuf, u, b)
  <2>1. /\ g.x \in Kernel /\ Alone(g.x) /\ g.bad \subseteq Unit \X Block
        /\ Good(g.x, want, suspect \cup g.bad \cup Also(FALSE /\ g.ok, <<u, b>>))
        /\ g.ok => Holds(g.x, g.x.firstbuf, u, b)
    BY <1>1, Gotten
  <2> QED
    BY <1>2, <2>1
<1>4. mark \in SUBSET {"FAT", "VALID", "UNCACHE"} /\ ("FAT" \in mark => b \in FatBlock)
  BY DEF ReadMarks
<1>5. k' \in Kernel /\ Alone(k') /\ Good(k', want, suspect \cup g.bad)
  <2>1. CASE g.ok
    <3>1. k' = [g.x EXCEPT !.flag[g.x.firstbuf] = @ \cup mark]
      BY <2>1 DEF Read
    <3> QED
      BY <1>3, <1>4, <2>1, <3>1, Marked
  <2>2. CASE ~ g.ok
    BY <1>3, <2>2 DEF Read
  <2> QED
    BY <2>1, <2>2
<1>6. suspect' = suspect \cup g.bad /\ want' = want /\ ret' = Plain
  BY DEF Read
<1> QED
  BY <1>3, <1>5, <1>6, PlainCall DEF IInv, Sound, Shape

LEMMA WriteIsGood ==
    ASSUME IInv, NEW u \in Unit, NEW b \in File, NEW overwrite \in BOOLEAN,
           NEW g \in Getblks(k, u, b, overwrite), NEW v \in Value, overwrite => b \in DataBlock,
           NEW mark \in WriteMarks(b, overwrite), Write(u, b, v, mark, g)
    PROVE  IInv'
<1>1. k \in Kernel /\ Shape(k) /\ Good(k, want, suspect)
      /\ want \in [Unit -> [Block -> Value]] /\ suspect \subseteq Unit \X Block
  BY DEF IInv, Sound
<1> DEFINE s1 == suspect \cup g.bad
<1>2. /\ g.x \in Kernel /\ Alone(g.x) /\ g.bad \subseteq Unit \X Block
      /\ Good(g.x, want, s1 \cup Also(overwrite /\ g.ok, <<u, b>>))
      /\ g.ok => Holds(g.x, g.x.firstbuf, u, b)
  BY <1>1, Gotten
<1>3. mark \in SUBSET {"FAT", "UNCACHE"} /\ ("FAT" \in mark <=> b \in FatBlock)
  BY DEF WriteMarks
<1>4. suspect' = s1 /\ ret' = Plain /\ s1 \subseteq Unit \X Block
  BY <1>1, <1>2 DEF Write
<1>5. CASE g.ok
  <2>1. /\ k' = [g.x EXCEPT !.data[g.x.firstbuf] = v,
                            !.flag[g.x.firstbuf] = @ \cup {"VALID", "DIRTY"} \cup mark]
        /\ want' = [want EXCEPT ![u][b] = v]
    BY <1>5 DEF Write
  <2> DEFINE c == overwrite /\ g.ok
             x == g.x
  <2>2. x \in Kernel /\ Alone(x) /\ Good(x, want, s1 \cup Also(c, <<u, b>>)) /\ Holds(x, x.firstbuf, u, b)
    BY <1>2, <1>5
  <2> HIDE DEF s1, c
  <2>3. k' \in Kernel /\ Alone(k') /\ Good(k', want', s1)
    <3> DEFINE y == [x EXCEPT !.data[x.firstbuf] = v,
                              !.flag[x.firstbuf] = @ \cup {"VALID", "DIRTY"} \cup mark]
    <3>1. k' = y
      BY <2>1
    <3> HIDE DEF x
    <3>2. y \in Kernel /\ Alone(y) /\ Good(y, [want EXCEPT ![u][b] = v], s1)
      BY <1>1, <1>3, <2>2, Overwritten
    <3> HIDE DEF y
    <3> QED
      BY <2>1, <3>1, <3>2
  <2>4. want' \in [Unit -> [Block -> Value]]
    <3>1. b \in Block
      BY FirstCopy DEF File
    <3> QED
      BY <1>1, <2>1, <3>1
  <2> QED
    BY <1>4, <2>3, <2>4, PlainCall DEF Sound, Shape
<1>6. CASE ~ g.ok
  <2>1. k' = g.x /\ want' = want
    BY <1>6 DEF Write
  <2>2. s1 \cup Also(overwrite /\ g.ok, <<u, b>>) = s1
    BY <1>6 DEF Also
  <2>3. Good(k', want, s1)
    BY <1>2, <2>1, <2>2
  <2> QED
    BY <1>1, <1>2, <1>4, <2>1, <2>3, PlainCall DEF Sound, Shape
<1> QED
  BY <1>5, <1>6

LEMMA FlushBuffersIsGood ==
    ASSUME IInv, NEW u \in Unit, NEW w \in WriteBacks(k, OfUnit(k, u)), FlushBuffers(u, w)
    PROVE  IInv'
<1>1. k \in Kernel /\ Shape(k) /\ Good(k, want, suspect)
      /\ want \in [Unit -> [Block -> Value]] /\ suspect \subseteq Unit \X Block
  BY DEF IInv, Sound
<1>2. OfUnit(k, u) \in SUBSET Buf /\ (k.firstbuf \in OfUnit(k, u) <=> k.unit[k.firstbuf] = u)
  BY <1>1, RingIs DEF OfUnit
<1> DEFINE s1 == suspect \cup FlushDamage(k, w)
<1>3. /\ k' = FlushSet(k, OfUnit(k, u), w) /\ suspect' = s1 /\ want' = want
      /\ ret' = [op |-> "flush", unit |-> u, ok |-> ~FlushFailed(k, w)]
  BY DEF FlushBuffers
<1>4. /\ k' \in Kernel /\ Shape(k') /\ Good(k', want, s1) /\ s1 \subseteq Unit \X Block
      /\ k'.firstbuf = k.firstbuf /\ k'.unit = k.unit
      /\ k.unit[k.firstbuf] = u => ~ Dirty(k', k'.firstbuf)
  BY <1>1, <1>2, <1>3, Flushed
<1> HIDE DEF s1
<1>5. FlushReportsTruth'
  <2>1. \A b \in File : <<u, b>> \in s1 \/ k'.disk[u][b] = want[u][b]
    BY <1>4 DEF Good, DataGood, Holds
  <2> QED
    BY <1>3, <2>1 DEF FlushReportsTruth, File
<1>6. DirectReadsCurrent'
  BY <1>3 DEF DirectReadsCurrent
<1> QED
  BY <1>1, <1>3, <1>4, <1>5, <1>6 DEF IInv, Sound

LEMMA FlushAllIsGood ==
    ASSUME IInv, NEW w \in WriteBacks(k, Ring(k)), FlushAll(w)
    PROVE  IInv'
<1>1. k \in Kernel /\ Shape(k) /\ Good(k, want, suspect)
      /\ want \in [Unit -> [Block -> Value]] /\ suspect \subseteq Unit \X Block
  BY DEF IInv, Sound
<1>2. Ring(k) \in SUBSET Buf /\ k.firstbuf \in Ring(k) /\ k.firstbuf \in Buf
  BY <1>1, RingIs
<1> DEFINE s1 == suspect \cup FlushDamage(k, w)
           y == FlushSet(k, Ring(k), w)
           f == [p \in Buf |-> IF p \in Ring(k) THEN y.flag[p] \ {"VALID"} ELSE y.flag[p]]
           p == k.firstbuf
<1>3. k' = [y EXCEPT !.flag = f] /\ suspect' = s1 /\ want' = want /\ ret' = Plain
  BY DEF FlushAll
<1>4. /\ y \in Kernel /\ Shape(y) /\ Good(y, want, s1) /\ s1 \subseteq Unit \X Block
      /\ y.firstbuf = p /\ ~ Dirty(y, p)
  BY <1>1, <1>2, Flushed
<1> HIDE DEF y, s1
<1>5. f \in [Buf -> SUBSET Flag] /\ f[p] = y.flag[p] \ {"VALID"}
      /\ ((\A q \in Buf : y.flag[q] = {}) => f = [q \in Buf |-> {}])
  BY <1>2, <1>4 DEF Kernel
<1> HIDE DEF f
<1>6. /\ k' \in Kernel /\ k'.firstbuf = p /\ k'.prev = y.prev /\ k'.next = y.next
      /\ k'.unit = y.unit /\ k'.blkno = y.blkno /\ k'.disk = y.disk /\ k'.flag = f
  BY <1>3, <1>4, <1>5 DEF Kernel
<1>7. Shape(k')
  <2>1. Fresh(y) => \A q \in Buf : y.flag[q] = {}
    BY DEF Fresh
  <2> QED
    BY <1>4, <1>5, <1>6, <2>1 DEF Shape, Fresh, Alone
<1>8. ~ Dirty(k', p) /\ \A n, c : ~ Holds(k', p, n, c)
  BY <1>5, <1>6 DEF Dirty, Holds
<1>9. FlagsGood(k')
  BY <1>4, <1>5, <1>6, <1>8 DEF Good, FlagsGood
<1>10. DataGood(k', want, s1)
  <2>1. \A n \in Unit, c \in File : <<n, c>> \in s1 \/ y.disk[n][c] = want[n][c]
    BY <1>4 DEF Good, DataGood
  <2> QED
    BY <1>6, <1>8, <2>1 DEF DataGood
<1>11. MirrorGood(k', s1)
  <2>1. \A n \in Unit, c \in FatBlock, i \in 0 .. Fats - 1 :
           <<n, c>> \in s1 \/ y.disk[n][Mirror(c, i)] = y.disk[n][c]
    BY <1>4 DEF Good, MirrorGood
  <2>2. k'.disk = y.disk
    BY <1>6
  <2> QED
    BY <2>1, <2>2 DEF MirrorGood
<1> QED
  BY <1>1, <1>3, <1>4, <1>6, <1>7, <1>9, <1>10, <1>11, PlainCall DEF Sound, Good

\* Buffers are dropped and the disks stay as they are.
LEMMA Dropped ==
    ASSUME NEW x \in Kernel, Shape(x), NEW wt, NEW su, NEW sv, Good(x, wt, su), su \subseteq sv, NEW S,
           \/ x.firstbuf \notin S
           \/ ~ Dirty(x, x.firstbuf)
           \/ <<x.unit[x.firstbuf], x.blkno[x.firstbuf]>> \in sv
    PROVE  Good(Clear(x, S), wt, sv)
<1> DEFINE y == Clear(x, S)
<1>1. /\ y \in Kernel /\ y.firstbuf = x.firstbuf /\ y.unit = x.unit /\ y.blkno = x.blkno
      /\ y.data = x.data /\ y.disk = x.disk
      /\ y.flag[y.firstbuf] = IF x.firstbuf \in S THEN {} ELSE x.flag[x.firstbuf]
  BY Cleared
<1>2. FatsIn({}) = {}
  BY DEF FatsIn
<1> HIDE DEF y
<1>3. Rewrites(x, y, wt, wt, sv, 0, 0, {}, {})
  BY <1>1, <1>2 DEF Rewrites
<1>4. Good(y, wt, sv)
  BY <1>1, <1>3, Rewritten
<1> QED
  BY <1>4 DEF y

LEMMA SetinvldIs ==
    ASSUME NEW x \in Kernel, Shape(x), NEW u
    PROVE  LET y == Setinvld(x, u)
           IN  /\ y \in Kernel /\ Shape(y)
               /\ y.firstbuf = x.firstbuf /\ y.unit = x.unit /\ y.blkno = x.blkno
               /\ y.data = x.data /\ y.disk = x.disk
               /\ y.flag[y.firstbuf] = IF x.unit[x.firstbuf] = u THEN {} ELSE x.flag[x.firstbuf]
<1>1. x.firstbuf \in OfUnit(x, u) <=> x.unit[x.firstbuf] = u
  BY RingIs DEF OfUnit
<1> QED
  BY <1>1, Cleared DEF Setinvld

LEMMA UnwrittenIs ==
    ASSUME NEW x \in Kernel, Shape(x), NEW u
    PROVE  /\ Unwritten(x, OfUnit(x, u)) \subseteq Unit \X Block
           /\ Dirty(x, x.firstbuf) /\ x.unit[x.firstbuf] = u =>
                  <<x.unit[x.firstbuf], x.blkno[x.firstbuf]>> \in Unwritten(x, OfUnit(x, u))
<1>1. /\ OfUnit(x, u) \subseteq Buf
      /\ x.firstbuf \in OfUnit(x, u) <=> x.unit[x.firstbuf] = u
  BY RingIs DEF OfUnit
<1>2. \A q \in Buf : <<x.unit[q], x.blkno[q]>> \in Unit \X Block
  BY DEF Kernel
<1> QED
  BY <1>1, <1>2 DEF Unwritten

LEMMA MediaDontKnowIsGood ==
    ASSUME IInv, NEW u \in Unit, MediaDontKnow(u)
    PROVE  IInv'
<1>1. k \in Kernel /\ Shape(k) /\ Good(k, want, suspect)
      /\ want \in [Unit -> [Block -> Value]] /\ suspect \subseteq Unit \X Block
  BY DEF IInv, Sound
<1>2. k' = Clear(k, OfUnit(k, u)) /\ want' = want /\ suspect' = suspect /\ ret' = Plain
  BY DEF MediaDontKnow, Setinvld
<1>3. k.firstbuf \notin OfUnit(k, u) \/ ~ Dirty(k, k.firstbuf)
  BY DEF MediaDontKnow
<1>4. k' \in Kernel /\ Shape(k')
  BY <1>1, <1>2, Cleared
<1>5. Good(k', want, suspect)
  BY <1>1, <1>2, <1>3, Dropped
<1> QED
  BY <1>1, <1>2, <1>4, <1>5, PlainCall DEF Sound

LEMMA MediaReinsertedIsGood ==
    ASSUME IInv, NEW u \in Unit, MediaReinserted(u)
    PROVE  IInv'
<1>1. k \in Kernel /\ Shape(k) /\ Good(k, want, suspect)
      /\ want \in [Unit -> [Block -> Value]] /\ suspect \subseteq Unit \X Block
  BY DEF IInv, Sound
<1> DEFINE s1 == suspect \cup Unwritten(k, OfUnit(k, u))
<1>2. k' = Clear(k, OfUnit(k, u)) /\ want' = want /\ suspect' = s1 /\ ret' = Plain
  BY DEF MediaReinserted, Setinvld
<1>3. k.firstbuf \in OfUnit(k, u) <=> k.unit[k.firstbuf] = u
  BY <1>1, RingIs DEF OfUnit
<1>4. /\ suspect \subseteq s1 /\ s1 \subseteq Unit \X Block
      /\ \/ k.firstbuf \notin OfUnit(k, u)
         \/ ~ Dirty(k, k.firstbuf)
         \/ <<k.unit[k.firstbuf], k.blkno[k.firstbuf]>> \in s1
  BY <1>1, <1>3, UnwrittenIs
<1>5. k' \in Kernel /\ Shape(k')
  BY <1>1, <1>2, Cleared
<1> HIDE DEF s1
<1>6. Good(k', want, s1)
  BY <1>1, <1>2, <1>4, Dropped
<1> QED
  BY <1>1, <1>2, <1>4, <1>5, <1>6, PlainCall DEF Sound

LEMMA MediaReplacedIsGood ==
    ASSUME IInv, NEW u \in Unit, NEW n \in Volume, MediaReplaced(u, n)
    PROVE  IInv'
<1>1. k \in Kernel /\ Shape(k) /\ Good(k, want, suspect)
      /\ want \in [Unit -> [Block -> Value]] /\ suspect \subseteq Unit \X Block
  BY DEF IInv, Sound
<1>2. n \in [Block -> Value] /\ \A b \in FatBlock, i \in 0 .. Fats - 1 : n[Mirror(b, i)] = n[b]
  BY DEF Volume
<1> DEFINE y == Setinvld(k, u)
           p == k.firstbuf
           s1 == {q \in suspect : q[1] # u}
<1>3. k' = [y EXCEPT !.disk[u] = n] /\ want' = [want EXCEPT ![u] = n] /\ suspect' = s1 /\ ret' = Plain
  BY DEF MediaReplaced
<1>4. /\ y \in Kernel /\ Shape(y)
      /\ y.firstbuf = p /\ y.unit = k.unit /\ y.blkno = k.blkno /\ y.data = k.data /\ y.disk = k.disk
      /\ y.flag[p] = IF k.unit[p] = u THEN {} ELSE k.flag[p]
  BY <1>1, SetinvldIs
<1> HIDE DEF y
<1>5. /\ k' \in Kernel /\ k'.firstbuf = p /\ k'.prev = y.prev /\ k'.next = y.next /\ k'.unit = k.unit
      /\ k'.blkno = k.blkno /\ k'.data = k.data /\ k'.flag = y.flag
      /\ k'.disk[u] = n /\ \A m \in Unit : m # u => k'.disk[m] = k.disk[m]
  BY <1>2, <1>3, <1>4 DEF Kernel
<1>6. /\ want' \in [Unit -> [Block -> Value]] /\ want'[u] = n
      /\ \A m \in Unit : m # u => want'[m] = want[m]
  BY <1>1, <1>2, <1>3
<1>7. s1 \subseteq Unit \X Block /\ \A m, c : m # u => (<<m, c>> \in s1 <=> <<m, c>> \in suspect)
  BY <1>1
<1> HIDE DEF s1
<1>8. Shape(k')
  BY <1>4, <1>5 DEF Shape, Fresh, Alone
<1>9. /\ \A c : ~ Holds(k', p, u, c)
      /\ \A m, c : m # u => (Holds(k', p, m, c) <=> Holds(k, p, m, c))
      /\ k.unit[p] # u => (Dirty(k', p) <=> Dirty(k, p))
  BY <1>4, <1>5 DEF Holds, Dirty
<1>10. FlagsGood(k')
  BY <1>1, <1>4, <1>5 DEF Good, FlagsGood, Dirty
<1>11. DataGood(k', want', s1)
  <2> SUFFICES ASSUME NEW m \in Unit, NEW c \in File, <<m, c>> \notin s1
               PROVE  /\ Holds(k', k'.firstbuf, m, c) => k'.data[k'.firstbuf] = want'[m][c]
                      /\ (Holds(k', k'.firstbuf, m, c) /\ Dirty(k', k'.firstbuf))
                         \/ k'.disk[m][c] = want'[m][c]
    BY DEF DataGood
  <2>1. CASE m = u
    BY <1>5, <1>6, <1>9, <2>1
  <2>2. CASE m # u
    <3>1. <<m, c>> \notin suspect
      BY <1>7, <2>2
    <3>2. /\ Holds(k, p, m, c) => k.data[p] = want[m][c]
          /\ (Holds(k, p, m, c) /\ Dirty(k, p)) \/ k.disk[m][c] = want[m][c]
      BY <1>1, <3>1 DEF Good, DataGood
    <3>3. Holds(k, p, m, c) => k.unit[p] # u
      BY <2>2 DEF Holds
    <3> QED
      BY <1>5, <1>6, <1>9, <2>2, <3>2, <3>3
  <2> QED
    BY <2>1, <2>2
<1>12. MirrorGood(k', s1)
  <2> SUFFICES ASSUME NEW m \in Unit, NEW c \in FatBlock, NEW i \in 0 .. Fats - 1, <<m, c>> \notin s1
               PROVE  \/ Holds(k', k'.firstbuf, m, c) /\ Dirty(k', k'.firstbuf)
                      \/ k'.disk[m][Mirror(c, i)] = k'.disk[m][c]
    BY DEF MirrorGood
  <2>1. CASE m = u
    BY <1>2, <1>5, <2>1
  <2>2. CASE m # u
    <3>1. <<m, c>> \notin suspect
      BY <1>7, <2>2
    <3>2. (Holds(k, p, m, c) /\ Dirty(k, p)) \/ k.disk[m][Mirror(c, i)] = k.disk[m][c]
      BY <1>1, <3>1 DEF Good, MirrorGood
    <3>3. Holds(k, p, m, c) => k.unit[p] # u
      BY <2>2 DEF Holds
    <3> QED
      BY <1>5, <1>9, <2>2, <3>2, <3>3
  <2> QED
    BY <2>1, <2>2
<1> QED
  BY <1>3, <1>5, <1>6, <1>7, <1>8, <1>10, <1>11, <1>12, PlainCall DEF Sound, Good

LEMMA DirectReadIsGood ==
    ASSUME IInv, NEW u \in Unit, NEW B \in SUBSET DataBlock, NEW w \in WriteBacks(k, Cached(k, u, B)),
           NEW r, DirectRead(u, B, w, r)
    PROVE  IInv'
<1>1. k \in Kernel /\ Shape(k) /\ Good(k, want, suspect)
      /\ want \in [Unit -> [Block -> Value]] /\ suspect \subseteq Unit \X Block
  BY DEF IInv, Sound
<1> DEFINE s1 == suspect \cup FlushDamage(k, w)
           p == k.firstbuf
<1>2. /\ k' = FlushSet(k, Cached(k, u, B), w) /\ suspect' = s1 /\ want' = want
      /\ ret' = Plain \/ ret' = [op |-> "direct", unit |-> u, val |-> [b \in B |-> k'.disk[u][b]]]
  BY DEF DirectRead
<1>3. Cached(k, u, B) \in SUBSET Buf /\ ((\E b \in B : Holds(k, p, u, b)) => p \in Cached(k, u, B))
  BY <1>1, RingIs, CachedIs
<1>4. /\ k' \in Kernel /\ Shape(k') /\ Good(k', want, s1) /\ s1 \subseteq Unit \X Block
      /\ k'.firstbuf = p /\ k'.unit = k.unit /\ k'.blkno = k.blkno /\ k'.flag[p] \subseteq k.flag[p]
      /\ p \in Cached(k, u, B) => ~ Dirty(k', p)
  BY <1>1, <1>2, <1>3, Flushed
<1> HIDE DEF s1
<1>5. \A b \in B : <<u, b>> \in s1 \/ k'.disk[u][b] = want[u][b]
  <2> SUFFICES ASSUME NEW b \in B, <<u, b>> \notin s1
               PROVE  k'.disk[u][b] = want[u][b]
    OBVIOUS
  <2>1. (Holds(k', p, u, b) /\ Dirty(k', p)) \/ k'.disk[u][b] = want[u][b]
    BY <1>4 DEF Good, DataGood, File
  <2>2. Holds(k', p, u, b) => Holds(k, p, u, b)
    BY <1>4 DEF Holds
  <2> QED
    BY <1>3, <1>4, <2>1, <2>2
<1>6. DirectReadsCurrent'
  <2>1. CASE ret' = Plain
    BY <2>1 DEF DirectReadsCurrent, Plain
  <2>2. CASE ret' = [op |-> "direct", unit |-> u, val |-> [b \in B |-> k'.disk[u][b]]]
    <3>1. ret'.unit = u /\ DOMAIN ret'.val = B /\ \A b \in B : ret'.val[b] = k'.disk[u][b]
      BY <2>2
    <3> QED
      BY <1>2, <1>5, <3>1 DEF DirectReadsCurrent
  <2> QED
    BY <1>2, <2>1, <2>2
<1>7. FlushReportsTruth'
  BY <1>2 DEF FlushReportsTruth, Plain
<1> QED
  BY <1>1, <1>2, <1>4, <1>6, <1>7 DEF IInv, Sound

-----------------------------------------------------------------------------
(* Writes round the cache.                                                 *)

LEMMA RunIs ==
    ASSUME NEW S \in SUBSET Block, NEW B \in Runs(S)
    PROVE  B \subseteq S /\ Least(B) \in B
<1>1. PICK b \in S, n \in 1 .. MaxRun : B = b .. b + n - 1
  BY DEF Runs
<1>2. b \in Int /\ n \in Nat /\ 1 <= n
  BY <1>1, FirstCopy, CacheAssumption
<1>3. b \in B /\ \A j \in B : b <= j
  BY <1>1, <1>2
<1>4. Least(B) \in B
  <2> HIDE DEF Runs
  <2> QED
    BY <1>3, Zenon DEF Least
<1>5. B \subseteq S
  BY DEF Runs
<1> QED
  BY <1>4, <1>5

LEMMA TornIs ==
    ASSUME NEW B, NEW r, NEW torn \in Torn(B, r)
    PROVE  torn \subseteq B
BY DEF Torn

LEMMA FatsInIs ==
    /\ \A B \in SUBSET DataBlock : FatsIn(B) = {}
    /\ \A B, C : B \subseteq C => FatsIn(B) \subseteq FatsIn(C)
    /\ \A B : FatsIn(B) \subseteq Block
<1>1. ASSUME NEW B \in SUBSET DataBlock, NEW b \in FatsIn(B)
      PROVE  FALSE
  <2>1. PICK i \in 0 .. Fats - 1 : b \in FatBlock /\ Mirror(b, i) \in B
    BY Zenon DEF FatsIn
  <2>2. Mirror(b, i) \notin DataBlock
    BY <2>1, MirrorIs
  <2> QED
    BY <2>1, <2>2
<1>2. \A B, C : B \subseteq C => FatsIn(B) \subseteq FatsIn(C)
  BY Zenon DEF FatsIn
<1>3. \A B : FatsIn(B) \subseteq FatBlock
  BY Zenon DEF FatsIn
<1> QED
  BY <1>1, <1>2, <1>3, FirstCopy

LEMMA WantStoredIs ==
    ASSUME want \in [Unit -> [Block -> Value]], NEW u \in Unit, NEW B, NEW v \in Value
    PROVE  /\ WantStored(u, B, v) \in [Unit -> [Block -> Value]]
           /\ \A n \in Unit, c \in Block :
                 WantStored(u, B, v)[n][c] = IF n = u /\ c \in B THEN v ELSE want[n][c]
<1> DEFINE d == [c \in Block |-> IF c \in B THEN v ELSE want[u][c]]
<1>1. WantStored(u, B, v) = [want EXCEPT ![u] = d]
  BY DEF WantStored
<1>2. d \in [Block -> Value] /\ \A c \in Block : d[c] = IF c \in B THEN v ELSE want[u][c]
  OBVIOUS
<1> HIDE DEF d
<1> QED
  BY <1>1, <1>2

LEMMA DirectWriteIsGood ==
    ASSUME IInv, NEW u \in Unit, NEW B \in SUBSET DataBlock, NEW v \in Value, NEW r \in Result,
           NEW torn \in Torn(B, r), DirectWrite(u, B, v, r, torn)
    PROVE  IInv'
<1>1. k \in Kernel /\ Shape(k) /\ Good(k, want, suspect)
      /\ want \in [Unit -> [Block -> Value]] /\ suspect \subseteq Unit \X Block
  BY DEF IInv, Sound
<1> DEFINE y == Clear(k, Cached(k, u, B))
           p == k.firstbuf
           T == IF r = "ok" THEN B ELSE torn
           W == IF r = "fail" THEN {} ELSE B
           s1 == suspect \cup (IF r = "ok" THEN {} ELSE On(u, B))
<1>2. k' = Stored(y, u, T, v) /\ suspect' = s1 /\ ret' = Plain
      /\ want' = IF r = "fail" THEN want ELSE WantStored(u, B, v)
  BY DEF DirectWrite, Transferred
<1>3. T \subseteq B /\ W \subseteq B /\ B \subseteq Block /\ (r = "ok" => T = B /\ W = B)
  BY TornIs, FirstCopy
<1>4. suspect \subseteq s1 /\ s1 \subseteq Unit \X Block /\ (r # "ok" => \A c \in B : <<u, c>> \in s1)
  BY <1>1, <1>3 DEF On
<1>5. p \in Cached(k, u, B) <=> \E b \in B : Holds(k, p, u, b)
  BY <1>1, CachedIs
<1>6. /\ y \in Kernel /\ Shape(y)
      /\ y.firstbuf = p /\ y.unit = k.unit /\ y.blkno = k.blkno /\ y.data = k.data /\ y.disk = k.disk
      /\ y.flag[p] = IF p \in Cached(k, u, B) THEN {} ELSE k.flag[p]
  BY <1>1, Cleared
<1> HIDE DEF y
<1>7. /\ k' \in Kernel /\ Shape(k')
      /\ k'.firstbuf = p /\ k'.unit = k.unit /\ k'.blkno = k.blkno /\ k'.data = k.data /\ k'.flag = y.flag
      /\ \A n \in Unit, c \in Block : k'.disk[n][c] = IF n = u /\ c \in T THEN v ELSE k.disk[n][c]
  <2> HIDE DEF T
  <2> QED
    BY <1>2, <1>6, StoredIs
<1>8. /\ want' \in [Unit -> [Block -> Value]]
      /\ \A n \in Unit, c \in Block : want'[n][c] = IF n = u /\ c \in W THEN v ELSE want[n][c]
  BY <1>1, <1>2, WantStoredIs
<1>9. \A c \in B : ~ Holds(k', p, u, c)
  BY <1>5, <1>6, <1>7 DEF Holds
<1>10. \A c \in T \cup W : <<u, c>> \in s1 \/ (c \in T /\ c \in W /\ ~ Holds(k', p, u, c))
  BY <1>3, <1>4, <1>9
<1>11. \/ k'.flag[p] = k.flag[p]
       \/ <<k.unit[p], k.blkno[p]>> \in s1
       \/ (k.unit[p] = u /\ k.blkno[p] \in T \cap W)
  BY <1>3, <1>4, <1>5, <1>6, <1>7 DEF Holds
<1>12. FatsIn(T) = {}
  BY <1>3, FatsInIs
<1> HIDE DEF T, W, s1
<1>13. Rewrites(k, k', want, want', s1, u, v, T, W)
  BY <1>6, <1>7, <1>8, <1>10, <1>11, <1>12 DEF Rewrites
<1>14. Good(k', want', s1)
  BY <1>1, <1>4, <1>7, <1>13, Rewritten
<1> QED
  BY <1>2, <1>4, <1>7, <1>8, <1>14, PlainCall DEF Sound

LEMMA AbsoluteWriteIsGood ==
    ASSUME IInv, NEW u \in Unit, NEW B \in SUBSET Block, NEW lo \in B, NEW v \in Value, NEW r \in Result,
           NEW torn \in Torn(B, r), AbsoluteWrite(u, lo, B, v, r, torn)
    PROVE  IInv'
<1>1. k \in Kernel /\ Shape(k) /\ Good(k, want, suspect)
      /\ want \in [Unit -> [Block -> Value]] /\ suspect \subseteq Unit \X Block
  BY DEF IInv, Sound
<1> DEFINE y == Clear(k, Cached(k, u, {lo}))
           p == k.firstbuf
           T == IF r = "ok" THEN B ELSE torn
           W == IF r = "ok" THEN B ELSE {}
           z == Stored(y, u, T, v)
           s1 == suspect \cup On(u, FatsIn(B)) \cup
                    IF r = "ok" THEN On(u, {b \in B : Cached(y, u, {b}) # {}})
                    ELSE On(u, B) \cup Unwritten(y, OfUnit(y, u))
<1>2. /\ k' = IF r = "ok" THEN z ELSE Setinvld(z, u)
      /\ want' = IF r = "ok" THEN WantStored(u, B, v) ELSE want
      /\ suspect' = s1 /\ ret' = Plain
  BY DEF AbsoluteWrite, Transferred
<1>3. T \subseteq B /\ W \subseteq B /\ (r = "ok" => T = B /\ W = B)
  BY TornIs
<1>4. p \in Cached(k, u, {lo}) <=> Holds(k, p, u, lo)
  <2> HIDE DEF y, T, W, z, s1
  <2>1. Cached(k, u, {lo}) = IF Holds(k, p, u, lo) THEN {p} ELSE {}
    BY <1>1, CachedIs
  <2> QED
    BY <2>1
<1>5. /\ y \in Kernel /\ Shape(y)
      /\ y.firstbuf = p /\ y.unit = k.unit /\ y.blkno = k.blkno /\ y.data = k.data /\ y.disk = k.disk
      /\ y.flag[p] = IF p \in Cached(k, u, {lo}) THEN {} ELSE k.flag[p]
  BY <1>1, Cleared
<1>6. \A b : Holds(y, p, u, b) => Cached(y, u, {b}) # {}
  BY <1>5, CachedIs
<1>7. /\ Unwritten(y, OfUnit(y, u)) \subseteq Unit \X Block
      /\ Dirty(y, p) /\ y.unit[p] = u => <<y.unit[p], y.blkno[p]>> \in Unwritten(y, OfUnit(y, u))
  BY <1>5, UnwrittenIs
<1> HIDE DEF y
<1>8. /\ suspect \subseteq s1 /\ s1 \subseteq Unit \X Block
      /\ \A c \in FatsIn(B) : <<u, c>> \in s1
      /\ r = "ok" => \A c \in B : Cached(y, u, {c}) # {} => <<u, c>> \in s1
      /\ r # "ok" => (\A c \in B : <<u, c>> \in s1) /\ Unwritten(y, OfUnit(y, u)) \subseteq s1
  BY <1>1, <1>7, FatsInIs DEF On
<1>9. /\ z \in Kernel /\ Shape(z)
      /\ z.firstbuf = p /\ z.unit = k.unit /\ z.blkno = k.blkno /\ z.data = k.data /\ z.flag = y.flag
      /\ \A n \in Unit, c \in Block : z.disk[n][c] = IF n = u /\ c \in T THEN v ELSE k.disk[n][c]
  <2> HIDE DEF T
  <2> QED
    BY <1>5, StoredIs
<1> HIDE DEF z
<1>10. /\ k' \in Kernel /\ Shape(k')
       /\ k'.firstbuf = p /\ k'.unit = k.unit /\ k'.blkno = k.blkno /\ k'.data = k.data /\ k'.disk = z.disk
       /\ k'.flag[p] = IF r # "ok" /\ k.unit[p] = u THEN {} ELSE y.flag[p]
  <2>1. CASE r = "ok"
    BY <1>2, <1>9, <2>1
  <2>2. CASE r # "ok"
    BY <1>2, <1>9, <2>2, SetinvldIs
  <2> QED
    BY <2>1, <2>2
<1>11. /\ want' \in [Unit -> [Block -> Value]]
       /\ \A n \in Unit, c \in Block : want'[n][c] = IF n = u /\ c \in W THEN v ELSE want[n][c]
  BY <1>1, <1>2, WantStoredIs
<1>12. \A c \in T \cup W : <<u, c>> \in s1 \/ (c \in T /\ c \in W /\ ~ Holds(k', p, u, c))
  <2>1. CASE r = "ok"
    <3>1. \A c : Holds(k', p, u, c) => Holds(y, p, u, c)
      BY <1>5, <1>10, <2>1 DEF Holds
    <3> QED
      BY <1>3, <1>6, <1>8, <2>1, <3>1
  <2>2. CASE r # "ok"
    BY <1>3, <1>8, <2>2
  <2> QED
    BY <2>1, <2>2
<1>13. \/ k'.flag[p] = k.flag[p]
       \/ ~ Dirty(k, p)
       \/ <<k.unit[p], k.blkno[p]>> \in s1
       \/ (k.unit[p] = u /\ k.blkno[p] \in T \cap W)
  <2>1. CASE Holds(k, p, u, lo)
    BY <1>3, <1>8, <2>1 DEF Holds
  <2>2. CASE ~ Holds(k, p, u, lo)
    <3>1. y.flag[p] = k.flag[p] /\ (Dirty(k, p) <=> Dirty(y, p))
      BY <1>4, <1>5, <2>2 DEF Dirty
    <3> QED
      BY <1>5, <1>7, <1>8, <1>10, <3>1
  <2> QED
    BY <2>1, <2>2
<1>14. k'.flag[p] \in {k.flag[p], {}}
  BY <1>5, <1>10
<1>15. FatsIn(T) \subseteq FatsIn(B)
  BY <1>3, FatsInIs
<1> HIDE DEF T, W, s1
<1>16. Rewrites(k, k', want, want', s1, u, v, T, W)
  BY <1>8, <1>9, <1>10, <1>11, <1>12, <1>13, <1>14, <1>15 DEF Rewrites
<1>17. Good(k', want', s1)
  BY <1>1, <1>8, <1>10, <1>16, Rewritten
<1> QED
  BY <1>2, <1>8, <1>10, <1>11, <1>17, PlainCall DEF Sound

LEMMA ExtendedWriteIsGood ==
    ASSUME IInv, NEW u \in Unit, NEW B \in SUBSET Block, NEW v \in Value, NEW r \in Result,
           NEW torn \in Torn(B, r), ExtendedWrite(u, B, v, r, torn)
    PROVE  IInv'
<1>1. k \in Kernel /\ Shape(k) /\ Good(k, want, suspect)
      /\ want \in [Unit -> [Block -> Value]] /\ suspect \subseteq Unit \X Block
  BY DEF IInv, Sound
<1> DEFINE p == k.firstbuf
           T == IF r = "ok" THEN B ELSE torn
           W == IF r = "ok" THEN B ELSE {}
           z == Stored(k, u, T, v)
           s1 == suspect \cup On(u, FatsIn(B)) \cup
                    IF r = "ok" THEN Unwritten(k, OfUnit(k, u)) \ On(u, B) ELSE On(u, B)
<1>2. /\ k' = IF r = "ok" THEN Setinvld(z, u) ELSE z
      /\ want' = IF r = "ok" THEN WantStored(u, B, v) ELSE want
      /\ suspect' = s1 /\ ret' = Plain
  BY DEF ExtendedWrite, Transferred
<1>3. T \subseteq B /\ W \subseteq B /\ (r = "ok" => T = B /\ W = B)
  BY TornIs
<1>4. /\ Unwritten(k, OfUnit(k, u)) \subseteq Unit \X Block
      /\ Dirty(k, p) /\ k.unit[p] = u => <<k.unit[p], k.blkno[p]>> \in Unwritten(k, OfUnit(k, u))
  BY <1>1, UnwrittenIs
<1>5. /\ suspect \subseteq s1 /\ s1 \subseteq Unit \X Block
      /\ \A c \in FatsIn(B) : <<u, c>> \in s1
      /\ r = "ok" => \A q \in Unwritten(k, OfUnit(k, u)) : q \in s1 \/ q \in On(u, B)
      /\ r # "ok" => \A c \in B : <<u, c>> \in s1
  BY <1>1, <1>4, FatsInIs DEF On
<1>6. /\ z \in Kernel /\ Shape(z)
      /\ z.firstbuf = p /\ z.unit = k.unit /\ z.blkno = k.blkno /\ z.data = k.data /\ z.flag = k.flag
      /\ \A n \in Unit, c \in Block : z.disk[n][c] = IF n = u /\ c \in T THEN v ELSE k.disk[n][c]
  <2> HIDE DEF T
  <2> QED
    BY <1>1, StoredIs
<1> HIDE DEF z
<1>7. /\ k' \in Kernel /\ Shape(k')
      /\ k'.firstbuf = p /\ k'.unit = k.unit /\ k'.blkno = k.blkno /\ k'.data = k.data /\ k'.disk = z.disk
      /\ k'.flag[p] = IF r = "ok" /\ k.unit[p] = u THEN {} ELSE k.flag[p]
  <2>1. CASE r = "ok"
    BY <1>2, <1>6, <2>1, SetinvldIs
  <2>2. CASE r # "ok"
    BY <1>2, <1>6, <2>2
  <2> QED
    BY <2>1, <2>2
<1>8. /\ want' \in [Unit -> [Block -> Value]]
      /\ \A n \in Unit, c \in Block : want'[n][c] = IF n = u /\ c \in W THEN v ELSE want[n][c]
  BY <1>1, <1>2, WantStoredIs
<1>9. \A c \in T \cup W : <<u, c>> \in s1 \/ (c \in T /\ c \in W /\ ~ Holds(k', p, u, c))
  <2>1. CASE r = "ok"
    <3>1. \A c : ~ Holds(k', p, u, c)
      BY <1>7, <2>1 DEF Holds
    <3> QED
      BY <1>3, <2>1, <3>1
  <2>2. CASE r # "ok"
    BY <1>3, <1>5, <2>2
  <2> QED
    BY <2>1, <2>2
<1>10. \/ k'.flag[p] = k.flag[p]
       \/ ~ Dirty(k, p)
       \/ <<k.unit[p], k.blkno[p]>> \in s1
       \/ (k.unit[p] = u /\ k.blkno[p] \in T \cap W)
  BY <1>3, <1>4, <1>5, <1>7 DEF On
<1>11. k'.flag[p] \in {k.flag[p], {}}
  BY <1>7
<1>12. FatsIn(T) \subseteq FatsIn(B)
  BY <1>3, FatsInIs
<1> HIDE DEF T, W, s1
<1>13. Rewrites(k, k', want, want', s1, u, v, T, W)
  BY <1>5, <1>6, <1>7, <1>8, <1>9, <1>10, <1>11, <1>12 DEF Rewrites
<1>14. Good(k', want', s1)
  BY <1>1, <1>5, <1>7, <1>13, Rewritten
<1> QED
  BY <1>2, <1>5, <1>7, <1>8, <1>14, PlainCall DEF Sound

-----------------------------------------------------------------------------
(* The theorems.                                                           *)

LEMMA StepIsGood ==
    ASSUME IInv, [BufNext]_bufvars
    PROVE  IInv'
<1>1. CASE Cache
  <2>1. PICK u \in Unit, b \in File :
          \/ \E g \in Getblks(k, u, b, FALSE), mark \in ReadMarks(b) : Read(mark, g)
          \/ \E overwrite \in {FALSE, (b \in DataBlock)} :
                \E g \in Getblks(k, u, b, overwrite),
                   v \in IF overwrite THEN {0} ELSE Value,
                   mark \in WriteMarks(b, overwrite) : Write(u, b, v, mark, g)
    BY <1>1 DEF Cache, File
  <2>2. ASSUME NEW g \in Getblks(k, u, b, FALSE), NEW mark \in ReadMarks(b), Read(mark, g)
        PROVE  IInv'
    BY <2>2, ReadIsGood
  <2>3. ASSUME NEW overwrite \in {FALSE, (b \in DataBlock)}, NEW g \in Getblks(k, u, b, overwrite),
               NEW v \in IF overwrite THEN {0} ELSE Value,
               NEW mark \in WriteMarks(b, overwrite), Write(u, b, v, mark, g)
        PROVE  IInv'
    <3>1. overwrite \in BOOLEAN
      <4>1. CASE overwrite = FALSE
        BY <4>1
      <4>2. CASE overwrite = (b \in DataBlock)
        BY <4>2
      <4> QED
        BY <4>1, <4>2
    <3>2. overwrite \in BOOLEAN /\ (overwrite => b \in DataBlock)
      BY <3>1, Zenon
    <3>3. v \in Value
      BY CacheAssumption
    <3> QED
      BY <2>3, <3>2, <3>3, WriteIsGood
  <2> QED
    BY <2>1, <2>2, <2>3
<1>2. CASE Maintain
  BY <1>2, FlushBuffersIsGood, FlushAllIsGood, MediaDontKnowIsGood, MediaReplacedIsGood,
     MediaReinsertedIsGood DEF Maintain
<1>3. CASE Direct
  <2>1. PICK u \in Unit, r \in Result :
          \/ \E B \in Runs(DataBlock) :
                \/ \E w \in WriteBacks(k, Cached(k, u, B)) : DirectRead(u, B, w, r)
                \/ \E v \in Value, torn \in Torn(B, r) : DirectWrite(u, B, v, r, torn)
          \/ \E B \in Runs(Block), v \in Value : \E torn \in Torn(B, r) :
                \/ AbsoluteWrite(u, Least(B), B, v, r, torn)
                \/ ExtendedWrite(u, B, v, r, torn)
    BY <1>3 DEF Direct
  <2>2. ASSUME NEW B \in Runs(DataBlock) PROVE B \in SUBSET DataBlock
    BY <2>2, RunIs, FirstCopy
  <2>3. ASSUME NEW B \in Runs(Block) PROVE B \in SUBSET Block /\ Least(B) \in B
    BY <2>3, RunIs
  <2> QED
    BY <2>1, <2>2, <2>3, DirectReadIsGood, DirectWriteIsGood, AbsoluteWriteIsGood, ExtendedWriteIsGood
<1>4. CASE UNCHANGED bufvars
  BY <1>4 DEF bufvars, IInv, Sound, DirectReadsCurrent, FlushReportsTruth
<1> QED
  BY <1>1, <1>2, <1>3, <1>4 DEF BufNext

LEMMA RingClosedFrom ==
    ASSUME IInv
    PROVE  RingClosed
BY RingIs DEF IInv, Sound, RingClosed, BufTypeOK

LEMMA CacheCoherentFrom ==
    ASSUME IInv
    PROVE  CacheCoherent
<1>1. k \in Kernel /\ Shape(k) /\ Good(k, want, suspect) /\ DirectReadsCurrent
  BY DEF IInv, Sound
<1>2. ASSUME NEW u \in Unit, NEW b \in File, <<u, b>> \notin suspect
      PROVE  View(u, b) = want[u][b]
  <2>1. /\ Holds(k, k.firstbuf, u, b) => k.data[k.firstbuf] = want[u][b]
        /\ (Holds(k, k.firstbuf, u, b) /\ Dirty(k, k.firstbuf)) \/ k.disk[u][b] = want[u][b]
    BY <1>1, <1>2 DEF Good, DataGood
  <2>2. Cached(k, u, {b}) = IF Holds(k, k.firstbuf, u, b) THEN {k.firstbuf} ELSE {}
    BY <1>1, CachedIs
  <2> QED
    BY <2>1, <2>2 DEF View
<1> QED
  BY <1>1, <1>2 DEF CacheCoherent, File

LEMMA FatsAgreeFrom ==
    ASSUME IInv
    PROVE  FatsAgree
<1>1. k \in Kernel /\ Shape(k) /\ Good(k, want, suspect)
  BY DEF IInv, Sound
<1>2. ASSUME NEW u \in Unit, NEW b \in FatBlock, NEW i \in 0 .. Fats - 1, <<u, b>> \notin suspect
      PROVE  \/ \E p \in Cached(k, u, {b}) : Dirty(k, p)
             \/ k.disk[u][Mirror(b, i)] = k.disk[u][b]
  <2>1. \/ Holds(k, k.firstbuf, u, b) /\ Dirty(k, k.firstbuf)
        \/ k.disk[u][Mirror(b, i)] = k.disk[u][b]
    BY <1>1, <1>2 DEF Good, MirrorGood
  <2>2. Holds(k, k.firstbuf, u, b) => k.firstbuf \in Cached(k, u, {b})
    BY <1>1, CachedIs
  <2> QED
    BY <2>1, <2>2
<1> QED
  BY <1>2 DEF FatsAgree

\* The cache is sound in every state: errors, evictions, media changes and
\* transfers round it cost only the sectors that history names.
THEOREM Invariance == BufSpec => []IInv
<1>1. BufInit => IInv
  BY InitIsGood
<1>2. IInv /\ [BufNext]_bufvars => IInv'
  BY StepIsGood
<1> QED
  BY <1>1, <1>2, PTL DEF BufSpec

\* searchblock never finds a bad link, and the loops over the ring end, for
\* any number of buffers (blockio.cpp, move_buffer).
THEOREM RingClosedHolds == BufSpec => []RingClosed
<1>1. IInv => RingClosed
  BY RingClosedFrom
<1> QED
  BY <1>1, Invariance, PTL

\* What a reader gets next is what was last written, for any number of
\* buffers, drives and sectors (blockio.cpp, fatfs.cpp, fdos_2528.c).
THEOREM CacheCoherentHolds == BufSpec => []CacheCoherent
<1>1. IInv => CacheCoherent
  BY CacheCoherentFrom
<1> QED
  BY <1>1, Invariance, PTL

\* The copies of the FAT agree, for any size and number of them (flush1).
THEOREM FatsAgreeHolds == BufSpec => []FatsAgree
<1>1. IInv => FatsAgree
  BY FatsAgreeFrom
<1> QED
  BY <1>1, Invariance, PTL

\* A flush_buffers that reports success has put the drive on the disk.
THEOREM FlushReportsTruthHolds == BufSpec => []FlushReportsTruth
<1>1. IInv => FlushReportsTruth
  BY DEF IInv
<1> QED
  BY <1>1, Invariance, PTL
=============================================================================
