--------------------------- MODULE FatFilesProofs ---------------------------
(***************************************************************************)
(* Three promises for a volume of any size, any number of files and        *)
(* handles, any requests and any failures.                                 *)
(*                                                                         *)
(* The free count DOS keeps is right, and never too high whatever fails:   *)
(* it is adjusted wherever an entry of the FAT is written, so IInv follows *)
(* the clusters that calls, handles and the directory carry.               *)
(*                                                                         *)
(* Files are whole, nothing is lost without a failure, and transfers go    *)
(* where the file is: WInv keeps a layout of the volume, and each action   *)
(* takes it to the next one.                                               *)
(*                                                                         *)
(* Every call ends, on any FAT: SInv bounds the steps it has left, and     *)
(* each step leaves one less.                                              *)
(*                                                                         *)
(* A lemma "...IsGood" is a step of IInv, "...Keeps" one of WInv and       *)
(* "...Counts" one of SInv; "...Goes" says where an operator of FatFiles   *)
(* takes a read or write that agrees with the layout, and "...Nears" that  *)
(* it leaves few enough steps.                                             *)
(***************************************************************************)
EXTENDS FatLayout, FiniteSetTheorems, WellFoundedInduction, TLAPS

-----------------------------------------------------------------------------
(* Clusters and the FAT.                                                   *)

LEMMA Marks ==
    /\ FREE \notin Cluster /\ Error \notin Cluster /\ LAST \notin Cluster
    /\ LAST # FREE /\ LAST # Error /\ FREE # Error /\ Cluster \subseteq Nat
BY FatAssumption DEF FREE, Error, LAST, Cluster

LEMMA ClustersAreInts ==
    ASSUME NEW c \in Cluster
    PROVE  c \in Int
BY FatAssumption DEF Cluster

LEMMA FreedIsFinite ==
    ASSUME NEW fat
    PROVE  IsFiniteSet(Freed(fat)) /\ Cardinality(Freed(fat)) \in Nat
<1>1. IsFiniteSet(Cluster)
  BY FatAssumption, FS_Interval DEF Cluster
<1>. QED BY <1>1, FS_Subset, FS_CardinalityType DEF Freed

LEMMA LowestIsMember ==
    ASSUME NEW S \in SUBSET Cluster, S # {}
    PROVE  Lowest(S) \in S
<1>1. \E m \in S : \A y \in S : ~(<<y, m>> \in OpToRel(<, Nat))
  BY Marks, NatLessThanWellFounded, WFMin
<1>2. PICK m \in S : \A y \in S : ~(<<y, m>> \in OpToRel(<, Nat))
  BY <1>1
<1>3. \A y \in S : y \in Nat /\ m \in Nat /\ ~(y < m)
  BY <1>2, Marks, Zenon DEF OpToRel
<1>4. \A y \in S : m <= y
  BY <1>3
<1>. QED BY <1>4 DEF Lowest

\* link_fat keeps the count with every entry, whatever it was before.
LEMMA LinkFatIsGood ==
    ASSUME NEW v, NEW n, VolGood(v, n), NEW c \in Cluster, NEW x \in Entry
    PROVE  VolGood(LinkFat(v, c, x), n)
<1>. DEFINE w == LinkFat(v, c, x)
            F == Freed(v.fat)
            G == Freed(w.fat)
<1>1. w.fat = [v.fat EXCEPT ![c] = x] /\ v.fat[c] \in Entry
  BY DEF LinkFat, VolGood
<1>2. w.nfree = IF v.nfree = UNKNCLSTFREE THEN v.nfree
                ELSE v.nfree + ((IF v.fat[c] = FREE THEN -1 ELSE 0) + (IF x = FREE THEN 1 ELSE 0))
  BY DEF LinkFat, VolGood
<1>3. w \in [fat : [Cluster -> Entry], nfree : Int, hint : Int]
  <2>. DEFINE fat == [v.fat EXCEPT ![c] = x]
  <2>1. w = [v EXCEPT !.fat = fat, !.nfree = w.nfree]
    BY <1>2 DEF LinkFat, VolGood
  <2>2. fat \in [Cluster -> Entry] /\ v \in [fat : [Cluster -> Entry], nfree : Int, hint : Int]
    BY DEF VolGood
  <2>3. w.nfree \in Int
    BY <1>2, <2>2 DEF UNKNCLSTFREE
  <2>. HIDE DEF fat, w
  <2>. QED BY <2>1, <2>2, <2>3
<1>5. G = IF x = FREE THEN F \cup {c} ELSE F \ {c}
  BY <1>1 DEF Freed, VolGood
<1>6. c \in F <=> v.fat[c] = FREE
  BY DEF Freed
<1>7. IsFiniteSet(F) /\ Cardinality(F) \in Nat
  BY FreedIsFinite
<1>8. Cardinality(G) = Cardinality(F) + ((IF v.fat[c] = FREE THEN -1 ELSE 0) + (IF x = FREE THEN 1 ELSE 0))
  <2>1. CASE x = FREE
    <3>1. Cardinality(F \cup {c}) = IF c \in F THEN Cardinality(F) ELSE Cardinality(F) + 1
      BY <1>7, FS_AddElement
    <3>. QED BY <2>1, <3>1, <1>5, <1>6, <1>7
  <2>2. CASE x # FREE
    <3>1. Cardinality(F \ {c}) = IF c \in F THEN Cardinality(F) - 1 ELSE Cardinality(F)
      BY <1>7, FS_RemoveElement
    <3>. QED BY <2>2, <3>1, <1>5, <1>6, <1>7
  <2>. QED BY <2>1, <2>2
<1>9. CountTrue(w, n)
  <2>. HIDE DEF w
  <2>1. v.nfree \in Int /\ CountTrue(v, n)
    BY DEF VolGood
  <2>. QED BY <2>1, <1>2, <1>7, <1>8 DEF CountTrue, UNKNCLSTFREE
<1>. QED BY <1>3, <1>9 DEF VolGood

LEMMA HintIsNoMatter ==
    ASSUME NEW v, NEW n, VolGood(v, n), NEW hint \in Int
    PROVE  VolGood([v EXCEPT !.hint = hint], n)
BY DEF VolGood, CountTrue

\* A failure only ever makes the count too low.
LEMMA LaterIsGood ==
    ASSUME NEW v, NEW n, VolGood(v, n), NEW m, m = 0 => n = 0
    PROVE  VolGood(v, m)
BY DEF VolGood, CountTrue

LEMMA NextIsEntry ==
    ASSUME NEW fat \in [Cluster -> Entry], NEW c \in Cluster
    PROVE  NextCluster(fat, c) \in Entry \cup {Error}
BY DEF NextCluster

LEMMA FindIsCluster ==
    ASSUME NEW v, NEW unread
    PROVE  FindFatFree(v, unread) \in Cluster \cup {LAST}
<1>. DEFINE idx   == IF v.hint = UNKNCLUSTER THEN 2 ELSE v.hint
            free  == Freed(v.fat) \ unread
            ahead == {c \in free : c >= idx}
<1>1. free \in SUBSET Cluster /\ ahead \in SUBSET Cluster
  BY DEF Freed
<1>2. ahead # {} => Lowest(ahead) \in Cluster
  BY <1>1, LowestIsMember
<1>3. free # {} => Lowest(free) \in Cluster
  BY <1>1, LowestIsMember
<1>. QED BY <1>2, <1>3 DEF FindFatFree

\* extend leaves the fnode alone when it fails, and gives it a start otherwise.
LEMMA ExtendIsGood ==
    ASSUME NEW v, NEW n, VolGood(v, n), NEW fn, FnGood(fn), NEW failure
    PROVE  LET e == Extend(v, fn, failure)
           IN  /\ VolGood(e.vol, n) /\ FnGood(e.fn)
               /\ e.got \in Cluster \cup {LAST}
               /\ e.got # LAST => e.fn.start # FREE
<1>. DEFINE new    == FindFatFree(v, {failure})
            found  == [v EXCEPT !.hint = IF new = LAST THEN UNKNCLUSTER ELSE new]
            linked == LinkFat(found, new, LAST)
            e      == Extend(v, fn, failure)
<1>1. new \in Cluster \cup {LAST}
  BY FindIsCluster
<1>2. VolGood(found, n)
  BY <1>1, Marks, HintIsNoMatter DEF LAST, UNKNCLUSTER
<1>3. new # LAST => VolGood(linked, n)
  BY <1>1, <1>2, LinkFatIsGood DEF Entry
<1>4. new # LAST /\ fn.cluster # FREE => VolGood(LinkFat(linked, fn.cluster, new), n)
  BY <1>1, <1>3, LinkFatIsGood DEF FnGood, Start, Entry
<1>5. new # LAST => /\ FnGood([fn EXCEPT !.start = new])
                    /\ [fn EXCEPT !.start = new].start # FREE
  BY <1>1, Marks DEF FnGood, FnFields, Start
<1>6. \/ e = [vol |-> found, fn |-> fn, got |-> LAST]
      \/ new # LAST /\ fn.cluster = FREE /\ e = [vol |-> linked, fn |-> [fn EXCEPT !.start = new], got |-> new]
      \/ new # LAST /\ e = [vol |-> linked, fn |-> fn, got |-> LAST]
      \/ /\ new # LAST /\ fn.cluster # FREE
         /\ e = [vol |-> LinkFat(linked, fn.cluster, new), fn |-> fn, got |-> new]
  BY DEF Extend
<1>. HIDE DEF new, found, linked, e
<1>7. VolGood(e.vol, n)
  BY <1>2, <1>3, <1>4, <1>6
<1>8. FnGood(e.fn)
  BY <1>5, <1>6
<1>9. e.got \in Cluster \cup {LAST}
  BY <1>1, <1>6
<1>10. e.got # LAST => e.fn.start # FREE
  <2>1. fn.cluster # FREE => fn.start # FREE
    BY DEF FnGood
  <2>. DEFINE grown == [fn EXCEPT !.start = new]
  <2>2. new # LAST => grown.start # FREE
    BY <1>5
  <2>. HIDE DEF grown
  <2>3. \/ e.got = LAST
        \/ new # LAST /\ e.fn = grown
        \/ fn.cluster # FREE /\ e.fn = fn
    BY <1>6 DEF grown
  <2>. QED BY <2>1, <2>2, <2>3
<1>. QED BY <1>7, <1>8, <1>9, <1>10 DEF e

-----------------------------------------------------------------------------
(* The course of a read or write.                                          *)

Going(k) == Shaped(k) /\ FnGood(k.fn)

LEMMA FnMoves ==
    ASSUME NEW fn, FnGood(fn), NEW x \in Start, x # FREE => fn.start # FREE, NEW rel
    PROVE  FnGood([fn EXCEPT !.cluster = x, !.rel = rel]) /\ [fn EXCEPT !.cluster = x, !.rel = rel].cluster = x
BY DEF FnGood, FnFields

LEMMA FnSeeks ==
    ASSUME NEW fn, FnGood(fn), NEW p
    PROVE  /\ FnGood([fn EXCEPT !.pos = p]) /\ FnGood([fn EXCEPT !.size = p])
           /\ [fn EXCEPT !.pos = p].cluster = fn.cluster
BY DEF FnGood, FnFields

LEMMA CallTakesFn ==
    ASSUME NEW k, Shaped(k), NEW g, FnGood(g)
    PROVE  LET d == [k EXCEPT !.fn = g]
           IN  Going(d) /\ d.fn = g /\ d.pc = k.pc /\ d.ret = k.ret
BY DEF Shaped, CallFields, Going

LEMMA PutIsGood ==
    ASSUME NEW k, Going(k), NEW x \in Start, x # FREE => k.fn.start # FREE, NEW rel
    PROVE  /\ Going(Put(k, x, rel)) /\ Put(k, x, rel).fn.cluster = x
           /\ Put(k, x, rel).pc = k.pc /\ Put(k, x, rel).ret = k.ret
<1>. DEFINE g == [k.fn EXCEPT !.cluster = x, !.rel = rel]
<1>1. FnGood(g) /\ g.cluster = x
  BY FnMoves DEF Going
<1>2. Put(k, x, rel) = [k EXCEPT !.fn = g]
  BY DEF Put, Going, Shaped, CallFields
<1>. HIDE DEF g
<1>. QED BY <1>1, <1>2, CallTakesFn DEF Going

LEMMA EndsAreGood ==
    ASSUME NEW k, Going(k)
    PROVE  CallGood(Return(k)) /\ CallGood(Abandon(k))
BY DEF Going, Return, Abandon, CallGood, Shaped, CallFields

LEMMA GoesTo ==
    ASSUME NEW k, Going(k), NEW pc \in {"run", "sector", "return"}
    PROVE  CallGood([k EXCEPT !.pc = pc])
BY DEF Going, CallGood, Shaped, CallFields

\* map_cluster starts at a cluster of the chain, or asks for the first.
LEMMA MapIsGood ==
    ASSUME NEW k, Going(k), NEW at, NEW ret \in MapReturn
    PROVE  CallGood(Map(k, at, ret))
<1>. DEFINE d == [k EXCEPT !.pc = IF k.fn.cluster = FREE THEN "map" ELSE "walk", !.at = at, !.ret = ret]
<1>1. Going(d) /\ d.fn = k.fn /\ d.ret = ret /\ d.pc = IF k.fn.cluster = FREE THEN "map" ELSE "walk"
  BY DEF Going, Shaped, CallFields
<1>2. k.fn.start \in Start /\ (k.fn.cluster # FREE => k.fn.start # FREE)
  BY DEF Going, FnGood, FnFields
<1>3. Map(k, at, ret) = d \/ Map(k, at, ret) = Put(d, k.fn.start, 0)
  BY DEF Map
<1>. HIDE DEF d
<1>4. CallGood(d)
  BY <1>1 DEF CallGood, Going
<1>5. CallGood(Put(d, k.fn.start, 0))
  <2>. DEFINE w == Put(d, k.fn.start, 0)
  <2>1. Going(w) /\ w.fn.cluster = k.fn.start /\ w.pc = d.pc /\ w.ret = d.ret
    BY <1>1, <1>2, PutIsGood
  <2>. HIDE DEF w
  <2>2. CallGood(w)
    BY <1>1, <1>2, <2>1 DEF CallGood, Going
  <2>. QED BY <2>2 DEF w
<1>. QED BY <1>3, <1>4, <1>5

LEMMA LoopIsGood ==
    ASSUME NEW k, Going(k)
    PROVE  CallGood(Loop(k))
BY EndsAreGood, MapIsGood DEF Loop, MapReturn

LEMMA ShrinkIsGood ==
    ASSUME NEW k, Going(k)
    PROVE  CallGood(ShrinkFile(k))
BY EndsAreGood, MapIsGood DEF ShrinkFile, MapReturn

LEMMA ExtendedIsGood ==
    ASSUME NEW k, Going(k)
    PROVE  CallGood(Extended(k))
<1>. DEFINE g == [k.fn EXCEPT !.size = k.fn.pos]
<1>1. FnGood(g)
  BY FnSeeks DEF Going
<1>2. [k EXCEPT !.fn.size = k.fn.pos] = [k EXCEPT !.fn = g]
  BY DEF Going, Shaped, CallFields
<1>. HIDE DEF g
<1>3. Going([k EXCEPT !.fn.size = k.fn.pos])
  BY <1>1, <1>2, CallTakesFn DEF Going
<1>. QED BY <1>3, LoopIsGood, EndsAreGood, ShrinkIsGood DEF Extended

LEMMA GrowIsGood ==
    ASSUME NEW k, Going(k)
    PROVE  CallGood(Grow(k))
BY GoesTo, MapIsGood DEF Grow, MapReturn

LEMMA StartRunIsGood ==
    ASSUME NEW k, Going(k)
    PROVE  CallGood(StartRun(k))
<1>. SUFFICES ASSUME NEW wanted
              PROVE  CallGood(Grow([k EXCEPT !.from = k.fn.pos, !.first = k.fn.cluster, !.run = 1,
                                             !.wanted = wanted, !.fn.pos = @ + SecSize]))
  BY GoesTo DEF StartRun
<1>. DEFINE g == [k.fn EXCEPT !.pos = k.fn.pos + SecSize]
            d == [k EXCEPT !.from = k.fn.pos, !.first = k.fn.cluster, !.run = 1, !.wanted = wanted]
<1>1. FnGood(g)
  BY FnSeeks DEF Going
<1>2. Shaped(d)
  BY DEF Going, Shaped, CallFields
<1>3. [k EXCEPT !.from = k.fn.pos, !.first = k.fn.cluster, !.run = 1,
                !.wanted = wanted, !.fn.pos = @ + SecSize] = [d EXCEPT !.fn = g]
  BY DEF Going, Shaped, CallFields
<1>. HIDE DEF g, d
<1>. QED BY <1>1, <1>2, <1>3, CallTakesFn, GrowIsGood

LEMMA GrowRunIsGood ==
    ASSUME NEW k, Going(k)
    PROVE  CallGood(GrowRun(k))
<1>. DEFINE g == [k.fn EXCEPT !.pos = k.from + (k.run + 1) * SecSize]
            d == [k EXCEPT !.run = @ + 1]
<1>1. FnGood(g)
  BY FnSeeks DEF Going
<1>2. Shaped(d)
  BY DEF Going, Shaped, CallFields
<1>3. [k EXCEPT !.run = @ + 1, !.fn.pos = k.from + (k.run + 1) * SecSize] = [d EXCEPT !.fn = g]
  BY DEF Going, Shaped, CallFields
<1>. HIDE DEF g, d
<1>4. CallGood(Grow([k EXCEPT !.run = @ + 1, !.fn.pos = k.from + (k.run + 1) * SecSize]))
  BY <1>1, <1>2, <1>3, CallTakesFn, GrowIsGood
<1>. QED BY <1>4, GoesTo DEF GrowRun

LEMMA AdvancedIsGood ==
    ASSUME NEW k, Going(k), NEW n
    PROVE  CallGood(Advanced(k, n))
<1>. DEFINE d == [k EXCEPT !.left = @ - n, !.from = 0, !.first = 0, !.run = 0, !.wanted = 0]
            g == [k.fn EXCEPT !.size = k.fn.pos]
<1>1. Going(d) /\ d.fn = k.fn
  BY DEF Going, Shaped, CallFields
<1>2. FnGood(g)
  BY FnSeeks DEF Going
<1>3. [d EXCEPT !.fn.size = k.fn.pos] = [d EXCEPT !.fn = g]
  BY DEF Going, Shaped, CallFields
<1>4. Advanced(k, n) = Loop(d) \/ Advanced(k, n) = Loop([d EXCEPT !.fn.size = k.fn.pos])
  BY DEF Advanced
<1>. HIDE DEF d, g
<1>. QED BY <1>1, <1>2, <1>3, <1>4, CallTakesFn, LoopIsGood DEF Going

LEMMA MappedIsGood ==
    ASSUME NEW k, Going(k), k.ret \in MapReturn, k.fn.cluster # FREE
    PROVE  CallGood(Mapped(k))
<1>. DEFINE d == [k EXCEPT !.at = 0, !.ret = None]
<1>1. Going(d) /\ d.fn = k.fn
  BY DEF Going, Shaped, CallFields
<1>. HIDE DEF d
<1>2. CallGood([d EXCEPT !.pc = "cut"])
  BY <1>1 DEF Going, Shaped, CallFields, CallGood
<1>. QED BY <1>1, <1>2, ExtendedIsGood, StartRunIsGood, GrowRunIsGood DEF Mapped, MapReturn, d

LEMMA NotMappedIsGood ==
    ASSUME NEW k, Going(k), k.ret \in MapReturn
    PROVE  CallGood(NotMapped(k))
<1>. DEFINE g == [k.fn EXCEPT !.size = (k.fn.rel + 1) * SecSize]
<1>1. FnGood(g)
  BY FnSeeks DEF Going
<1>2. [k EXCEPT !.fn.size = (k.fn.rel + 1) * SecSize] = [k EXCEPT !.fn = g]
  BY DEF Going, Shaped, CallFields
<1>. HIDE DEF g
<1>3. Going([k EXCEPT !.fn.size = (k.fn.rel + 1) * SecSize])
  BY <1>1, <1>2, CallTakesFn DEF Going
<1>. QED BY <1>3, EndsAreGood, GoesTo DEF NotMapped, MapReturn

-----------------------------------------------------------------------------
(* The steps.                                                              *)

LEMMA FaultsGrow ==
    ASSUME IInv, Works \/ Fails
    PROVE  faults' \in Nat /\ VolGood(vol, faults')
<1>1. faults' \in Nat /\ (faults' = 0 => faults = 0)
  BY DEF IInv, Works, Fails
<1>. QED BY <1>1, LaterIsGood DEF IInv

LEMMA BecomeIsGood ==
    ASSUME IInv, NEW k, CallGood(k), Become(k)
    PROVE  CallGood(call') /\ SftGood(sft')
<1>1. CallGood(NoCall)
  BY DEF CallGood, Shaped, CallFields, NoCall
<1>2. CallGood(call')
  BY <1>1 DEF Become
<1>3. k.pc = "return" => FnGood([k.fn EXCEPT !.pos = 0])
  BY FnSeeks DEF CallGood
<1>4. SftGood(sft')
  <2>1. CASE k.pc # "return"
    BY <2>1 DEF Become, IInv
  <2>2. CASE k.pc = "return"
    <3>1. sft' = [sft EXCEPT ![k.h] = [k.fn EXCEPT !.pos = 0]]
      BY <2>2 DEF Become
    <3>2. SftGood(sft) /\ FnGood([k.fn EXCEPT !.pos = 0])
      BY <1>3, <2>2 DEF IInv
    <3>3. ASSUME NEW fn, FnGood(fn) PROVE SftGood([sft EXCEPT ![k.h] = fn])
      BY <3>2, <3>3 DEF SftGood
    <3>. QED BY <3>1, <3>2, <3>3
  <2>. QED BY <2>1, <2>2
<1>. QED BY <1>2, <1>4

LEMMA ExtendChainIsGood ==
    ASSUME IInv, call.pc \in {"map", "walk"}, NEW rel, ExtendChain(rel)
    PROVE  IInv'
<1>1. Going(call) /\ call.ret \in MapReturn
  BY DEF IInv, CallGood, Going
<1>2. PICK failure \in {0, NewEntry, LastEntry} \cup Cluster :
          /\ IF failure = 0 THEN Works ELSE Fails
          /\ LET e == Extend(vol, call.fn, failure)
                 c == [call EXCEPT !.fn = e.fn, !.pc = "walk"]
             IN  /\ vol' = e.vol
                 /\ Become(IF e.got = LAST THEN NotMapped(c) ELSE Put(c, e.got, rel))
  BY DEF ExtendChain
<1>. DEFINE e == Extend(vol, call.fn, failure)
            c == [call EXCEPT !.fn = e.fn, !.pc = "walk"]
<1>3. faults' \in Nat /\ VolGood(vol, faults')
  BY <1>2, FaultsGrow
<1>4. /\ VolGood(e.vol, faults') /\ FnGood(e.fn) /\ e.got \in Cluster \cup {LAST}
      /\ e.got # LAST => e.fn.start # FREE
  BY <1>1, <1>3, ExtendIsGood DEF Going
<1>5. vol' = e.vol /\ Become(IF e.got = LAST THEN NotMapped(c) ELSE Put(c, e.got, rel))
  BY <1>2
<1>. HIDE DEF e
<1>6. Going(c) /\ c.ret \in MapReturn /\ c.pc = "walk" /\ c.fn = e.fn
  BY <1>1, <1>4 DEF Going, Shaped, CallFields
<1>. HIDE DEF c
<1>7. CallGood(NotMapped(c))
  BY <1>6, NotMappedIsGood
<1>8. e.got # LAST => CallGood(Put(c, e.got, rel))
  <2>. SUFFICES ASSUME e.got # LAST PROVE CallGood(Put(c, e.got, rel))
    OBVIOUS
  <2>. DEFINE w == Put(c, e.got, rel)
  <2>1. e.got \in Cluster /\ e.got \in Start /\ e.got # FREE
    BY <1>4, Marks DEF Start
  <2>2. Going(w) /\ w.fn.cluster = e.got /\ w.pc = "walk" /\ w.ret \in MapReturn
    BY <1>4, <1>6, <2>1, PutIsGood
  <2>. HIDE DEF w
  <2>3. CallGood(w)
    BY <2>1, <2>2 DEF CallGood, Going
  <2>. QED BY <2>3 DEF w
<1>9. CallGood(call') /\ SftGood(sft')
  BY <1>5, <1>7, <1>8, BecomeIsGood
<1>10. DirGood(dir')
  BY DEF ExtendChain, IInv
<1>. QED BY <1>3, <1>4, <1>5, <1>9, <1>10 DEF IInv

\* A step that leaves the volume and the directory alone.
LEMMA QuietStep ==
    ASSUME IInv, Works \/ Fails, NEW k, CallGood(k), Become(k), UNCHANGED <<vol, dir>>
    PROVE  IInv'
BY FaultsGrow, BecomeIsGood DEF IInv

LEMMA MapEmptyIsGood == ASSUME IInv, MapEmpty PROVE IInv'
<1>1. CASE Growing /\ ExtendChain(call.fn.rel)
  BY <1>1, ExtendChainIsGood DEF MapEmpty
<1>2. CASE ~Growing /\ Become(NotMapped(call)) /\ UNCHANGED <<vol, dir, faults, seeded>>
  <2>1. CallGood(NotMapped(call))
    BY NotMappedIsGood DEF MapEmpty, IInv, CallGood, Going
  <2>. QED BY <1>2, <2>1, QuietStep DEF Works
<1>. QED BY <1>1, <1>2 DEF MapEmpty

LEMMA ArriveIsGood == ASSUME IInv, Arrive PROVE IInv'
<1>1. CallGood(Mapped(call))
  BY MappedIsGood DEF Arrive, IInv, CallGood, Going
<1>. QED BY <1>1, QuietStep DEF Arrive, Works

LEMMA WalkIsGood == ASSUME IInv, WalkChain PROVE IInv'
<1>1. Going(call) /\ call.ret \in MapReturn /\ call.pc = "walk" /\ call.fn.start # FREE
  BY DEF WalkChain, IInv, CallGood, Going, FnGood
<1>2. PICK next \in {NextCluster(vol.fat, call.fn.cluster), Error} :
          /\ Works \/ Fails
          /\ Become(IF next \in Cluster THEN Put(call, next, call.fn.rel + 1) ELSE NotMapped(call))
  BY DEF WalkChain
<1>3. CallGood(NotMapped(call))
  BY <1>1, NotMappedIsGood
<1>4. next \in Cluster => CallGood(Put(call, next, call.fn.rel + 1))
  <2>. SUFFICES ASSUME next \in Cluster PROVE CallGood(Put(call, next, call.fn.rel + 1))
    OBVIOUS
  <2>. DEFINE w == Put(call, next, call.fn.rel + 1)
  <2>1. next \in Start /\ next # FREE
    BY Marks DEF Start
  <2>2. Going(w) /\ w.fn.cluster = next /\ w.pc = "walk" /\ w.ret \in MapReturn
    BY <1>1, <2>1, PutIsGood
  <2>. HIDE DEF w
  <2>3. CallGood(w)
    BY <2>1, <2>2 DEF CallGood, Going
  <2>. QED BY <2>3 DEF w
<1>. QED BY <1>2, <1>3, <1>4, QuietStep DEF WalkChain

LEMMA WalkOnIsGood == ASSUME IInv, WalkOn PROVE IInv'
BY ExtendChainIsGood DEF WalkOn

LEMMA TransferIsGood ==
    ASSUME IInv, NEW h \in Handle, NEW p, NEW mode, NEW count, Transfer(h, p, mode, count)
    PROVE  IInv'
<1>. DEFINE fn == [sft[h] EXCEPT !.pos = p, !.clean = @ /\ mode = "read"]
            c  == [NoCall EXCEPT !.h = h, !.mode = mode, !.count = count, !.left = count, !.fn = fn]
<1>1. FnGood(sft[h])
  BY DEF Transfer, Open, IInv, SftGood
<1>2. FnGood(fn)
  <2>1. ASSUME NEW g, FnGood(g) PROVE FnGood([g EXCEPT !.pos = p, !.clean = @ /\ mode = "read"])
    BY <2>1 DEF FnGood, FnFields
  <2>. QED BY <1>1, <2>1
<1>3. Become(IF mode = "write" /\ p > fn.size
             THEN Map(c, IF count = 0 /\ p % SecSize = 0 THEN p - 1 ELSE p, "extend")
             ELSE Extended(c))
  BY DEF Transfer
<1>. HIDE DEF fn
<1>4. Going(c)
  BY <1>2 DEF Going, Shaped, CallFields, NoCall
<1>. HIDE DEF c
<1>5. /\ CallGood(Map(c, IF count = 0 /\ p % SecSize = 0 THEN p - 1 ELSE p, "extend"))
      /\ CallGood(Extended(c))
  BY <1>4, MapIsGood, ExtendedIsGood DEF MapReturn
<1>. QED BY <1>3, <1>5, QuietStep DEF Transfer, Works

LEMMA DoRunIsGood == ASSUME IInv, DoRun PROVE IInv'
<1>1. Going(call)
  BY DEF DoRun, IInv, CallGood, Going
<1>. DEFINE g == [call.fn EXCEPT !.pos = call.from]
<1>2. FnGood(g)
  BY <1>1, FnSeeks DEF Going
<1>3. [call EXCEPT !.fn.pos = call.from] = [call EXCEPT !.fn = g]
  BY <1>1 DEF Going, Shaped, CallFields
<1>. HIDE DEF g
<1>4. CallGood(Return([call EXCEPT !.fn.pos = call.from]))
  BY <1>1, <1>2, <1>3, CallTakesFn, EndsAreGood DEF Going
<1>5. CallGood(Advanced(call, call.run * SecSize))
  BY <1>1, AdvancedIsGood
<1>. QED BY <1>4, <1>5, QuietStep DEF DoRun

LEMMA DoSectorIsGood == ASSUME IInv, DoSector PROVE IInv'
<1>1. Going(call)
  BY DEF DoSector, IInv, CallGood, Going
<1>2. ASSUME NEW n PROVE CallGood(Advanced([call EXCEPT !.fn.pos = @ + n], n))
  <2>. DEFINE g == [call.fn EXCEPT !.pos = @ + n]
  <2>1. FnGood(g)
    BY <1>1, FnSeeks DEF Going
  <2>2. [call EXCEPT !.fn.pos = @ + n] = [call EXCEPT !.fn = g]
    BY <1>1 DEF Going, Shaped, CallFields
  <2>. HIDE DEF g
  <2>3. Going([call EXCEPT !.fn.pos = @ + n])
    BY <1>1, <2>1, <2>2, CallTakesFn DEF Going
  <2>. QED BY <2>3, AdvancedIsGood
<1>3. CallGood(Return(call))
  BY <1>1, EndsAreGood
<1>. QED BY <1>2, <1>3, QuietStep DEF DoSector

LEMMA CutIsGood == ASSUME IInv, CutChain PROVE IInv'
<1>. DEFINE fn    == call.fn
            next  == NextCluster(vol.fat, fn.cluster)
            empty == fn.size = 0
            c     == IF empty THEN [call EXCEPT !.fn.cluster = FREE, !.fn.start = FREE] ELSE call
            d     == [c EXCEPT !.pc = "wipe", !.ret = "flush", !.st = next]
<1>1. Going(call) /\ fn.cluster \in Cluster
  BY DEF CutChain, IInv, CallGood, Going, FnGood, Start
<1>2. CallGood(Return(call)) /\ CallGood(Abandon(call))
  BY <1>1, EndsAreGood
<1>3. CASE /\ Works /\ next \notin {FREE, Error} /\ (empty \/ next # LAST)
           /\ vol' = LinkFat(vol, fn.cluster, IF empty THEN FREE ELSE LAST)
           /\ Become(d)
  <2>1. next \in Cluster \cup {LAST}
    BY <1>1, <1>3, NextIsEntry DEF IInv, VolGood, Entry
  <2>2. Going(c)
    <3>. DEFINE g == [call.fn EXCEPT !.cluster = FREE, !.start = FREE]
    <3>1. FnGood(g)
      <4>1. ASSUME NEW f, FnGood(f) PROVE FnGood([f EXCEPT !.cluster = FREE, !.start = FREE])
        BY <4>1 DEF FnGood, FnFields, Start
      <4>. QED BY <1>1, <4>1 DEF Going
    <3>2. [call EXCEPT !.fn.cluster = FREE, !.fn.start = FREE] = [call EXCEPT !.fn = g]
      BY <1>1 DEF Going, Shaped, CallFields
    <3>. HIDE DEF g
    <3>. QED BY <1>1, <3>1, <3>2, CallTakesFn DEF Going
  <2>. HIDE DEF c
  <2>3. CallGood(d)
    BY <2>1, <2>2 DEF Going, CallGood, Shaped, CallFields, WipeReturn
  <2>. HIDE DEF d
  <2>4. VolGood(vol', faults')
    <3>1. VolGood(vol, faults')
      BY <1>3, FaultsGrow
    <3>. QED BY <1>1, <1>3, <3>1, LinkFatIsGood DEF Entry
  <2>. QED BY <1>3, <2>3, <2>4, BecomeIsGood, FaultsGrow DEF CutChain, IInv
<1>. QED BY <1>2, <1>3, QuietStep DEF CutChain

LEMMA WipeIsGood == ASSUME IInv, Wipe PROVE IInv'
<1>. DEFINE st   == call.st
            next == IF st = LAST THEN LAST ELSE NextCluster(vol.fat, st)
            done == [call EXCEPT !.pc = call.ret, !.ret = None, !.st = 0]
<1>1. Going(call) /\ call.pc = "wipe" /\ call.ret \in WipeReturn /\ st \in Cluster \cup {LAST}
  BY DEF Wipe, IInv, CallGood, Going
<1>2. CallGood(done)
  BY <1>1 DEF Going, CallGood, Shaped, CallFields, WipeReturn
<1>3. faults' \in Nat /\ VolGood(vol, faults')
  BY FaultsGrow DEF Wipe
<1>4. CASE call' = done /\ UNCHANGED vol
  BY <1>2, <1>3, <1>4 DEF Wipe, IInv
<1>5. CASE /\ st # LAST /\ next \notin {FREE, Error}
           /\ vol' = [LinkFat(vol, st, FREE) EXCEPT
                         !.hint = IF @ = UNKNCLUSTER \/ @ > st THEN st ELSE @]
           /\ call' = [call EXCEPT !.st = next]
  <2>1. st \in Cluster /\ next \in Cluster \cup {LAST}
    BY <1>1, <1>5, NextIsEntry DEF IInv, VolGood, Entry
  <2>. DEFINE v == LinkFat(vol, st, FREE)
              hint == IF v.hint = UNKNCLUSTER \/ v.hint > st THEN st ELSE v.hint
  <2>2. VolGood(v, faults')
    BY <1>3, <2>1, LinkFatIsGood DEF Entry
  <2>3. hint \in Int
    <3>1. st \in Int
      BY <2>1, ClustersAreInts
    <3>2. v.hint \in Int
      <4>. HIDE DEF v
      <4>. QED BY <2>2 DEF VolGood
    <3>. HIDE DEF v, st
    <3>. QED BY <3>1, <3>2
  <2>4. vol' = [v EXCEPT !.hint = hint]
    BY <1>5
  <2>. HIDE DEF v, hint
  <2>5. VolGood(vol', faults')
    BY <2>2, <2>3, <2>4, HintIsNoMatter
  <2>6. CallGood(call')
    <3>. HIDE DEF next
    <3>. QED BY <1>1, <1>5, <2>1 DEF Going, CallGood, Shaped, CallFields
  <2>. QED BY <1>3, <2>5, <2>6 DEF Wipe, IInv
<1>. QED BY <1>4, <1>5 DEF Wipe

LEMMA FlushShrunkIsGood == ASSUME IInv, FlushShrunk PROVE IInv'
<1>1. CallGood(Return(call)) /\ CallGood(Abandon(call))
  BY EndsAreGood DEF FlushShrunk, IInv, CallGood, Going
<1>. QED BY <1>1, QuietStep DEF FlushShrunk

LEMMA FreshIsGood ==
    ASSUME NEW f, NEW e, e.start \in Start
    PROVE  FnGood(Fresh(f, e))
BY DEF Fresh, FnGood, FnFields

LEMMA SftTakes ==
    ASSUME SftGood(sft), NEW h, NEW x, x \notin {None, Orphan} => FnGood(x)
    PROVE  SftGood([sft EXCEPT ![h] = x])
BY DEF SftGood

LEMMA DirTakes ==
    ASSUME DirGood(dir), NEW f, NEW x, x # None => x.start \in Start
    PROVE  DirGood([dir EXCEPT ![f] = x])
BY DEF DirGood

LEMMA EmptyStarts == Empty.start \in Start
BY DEF Empty, Start

LEMMA NoCallIsGood == CallGood(NoCall)
BY DEF CallGood, Shaped, CallFields, NoCall

LEMMA OpenIsGood ==
    ASSUME IInv, NEW f \in File, NEW h \in Handle, OpenFile(f, h)
    PROVE  IInv'
<1>1. FnGood(Fresh(f, dir[f]))
  BY FreshIsGood DEF OpenFile, IInv, DirGood
<1>. QED BY <1>1, SftTakes DEF OpenFile, IInv

LEMMA WipeOutIsGood ==
    ASSUME IInv, NEW f \in File, NEW k, Shaped(k), k.ret \in WipeReturn, WipeOut(f, k)
    PROVE  CallGood(call')
<1>. DEFINE st  == StartOf(f)
            fn  == Fresh(f, Empty)
            pc  == IF st = FREE THEN k.ret ELSE "wipe"
            ret == IF st = FREE THEN None ELSE k.ret
<1>1. st \in Start
  BY DEF StartOf, IInv, DirGood, Start
<1>2. FnGood(fn)
  BY FreshIsGood, EmptyStarts
<1>3. call' = [k EXCEPT !.fn = fn, !.st = st, !.pc = pc, !.ret = ret]
  BY DEF WipeOut
<1>4. pc \in WipeReturn \cup {"wipe"} /\ (pc = "wipe" => st \in Cluster /\ ret \in WipeReturn)
  BY <1>1 DEF WipeReturn, Start
<1>. HIDE DEF st, fn, pc, ret
<1>. QED BY <1>2, <1>3, <1>4 DEF CallGood, Shaped, CallFields, WipeReturn

LEMMA CreateIsGood ==
    ASSUME IInv, NEW f \in File, NEW h \in Handle, Create(f, h)
    PROVE  IInv'
<1>1. Shaped([NoCall EXCEPT !.h = h, !.ret = "create"])
      /\ [NoCall EXCEPT !.h = h, !.ret = "create"].ret \in WipeReturn
  BY DEF NoCall, Shaped, CallFields, WipeReturn
<1>. QED BY <1>1, WipeOutIsGood DEF Create, IInv

LEMMA DeleteIsGood ==
    ASSUME IInv, NEW f \in File, Delete(f)
    PROVE  IInv'
<1>1. Shaped([NoCall EXCEPT !.ret = "delete"]) /\ [NoCall EXCEPT !.ret = "delete"].ret \in WipeReturn
  BY DEF NoCall, Shaped, CallFields, WipeReturn
<1>. QED BY <1>1, WipeOutIsGood DEF Delete, IInv

LEMMA WriteEntryIsGood == ASSUME IInv, WriteEntry PROVE IInv'
<1>. DEFINE f       == call.fn.file
            entry   == IF call.pc = "create" THEN Empty ELSE None
            written == [dir EXCEPT ![f] = entry]
<1>1. DirGood(written)
  <2>1. entry # None => entry.start \in Start
    BY EmptyStarts
  <2>. HIDE DEF entry
  <2>. QED BY <2>1, DirTakes DEF IInv
<1>2. SftGood([sft EXCEPT ![call.h] = Fresh(f, Empty)])
  BY FreshIsGood, EmptyStarts, SftTakes DEF IInv
<1>3. DirGood(dir') /\ SftGood(sft')
  BY <1>1, <1>2 DEF WriteEntry, IInv
<1>4. faults' \in Nat /\ VolGood(vol, faults')
  BY FaultsGrow DEF WriteEntry
<1>. QED BY <1>3, <1>4, NoCallIsGood DEF WriteEntry, IInv

LEMMA MoveIsGood ==
    ASSUME IInv, NEW f \in File, NEW g \in File, Move(f, g)
    PROVE  IInv'
<1>1. FnGood(Fresh(g, dir[f]))
  BY FreshIsGood DEF Move, IInv, DirGood
<1>2. CallGood([NoCall EXCEPT !.pc = "move", !.fn = Fresh(g, dir[f])])
  BY <1>1 DEF CallGood, NoCall, Shaped, CallFields
<1>3. DirGood([dir EXCEPT ![f] = None])
  BY DirTakes DEF IInv
<1>4. faults' \in Nat /\ VolGood(vol, faults')
  BY FaultsGrow DEF Move
<1>. QED BY <1>2, <1>3, <1>4 DEF Move, IInv

\* What a handle knows goes into the directory.
LEMMA EntryStarts ==
    ASSUME NEW fn, FnGood(fn)
    PROVE  [start |-> fn.start, size |-> fn.size].start \in Start
BY DEF FnGood

LEMMA EndMoveIsGood == ASSUME IInv, EndMove PROVE IInv'
<1>. DEFINE fn == call.fn
<1>1. FnGood(fn)
  BY DEF EndMove, IInv, CallGood
<1>. HIDE DEF fn
<1>2. DirGood([dir EXCEPT ![fn.file] = [start |-> fn.start, size |-> fn.size]])
  BY <1>1, EntryStarts, DirTakes DEF IInv
<1>3. faults' \in Nat /\ VolGood(vol, faults')
  BY FaultsGrow DEF EndMove
<1>. QED BY <1>2, <1>3, NoCallIsGood DEF EndMove, IInv, fn

LEMMA CloseIsGood == ASSUME IInv, NEW h \in Handle, Close(h) PROVE IInv'
<1>. DEFINE fn == sft[h]
<1>1. FnGood(fn)
  BY DEF Close, Open, IInv, SftGood
<1>. HIDE DEF fn
<1>2. DirGood([dir EXCEPT ![fn.file] = [start |-> fn.start, size |-> fn.size]])
  BY <1>1, EntryStarts, DirTakes DEF IInv
<1>3. SftGood([sft EXCEPT ![h] = None]) /\ SftGood([sft EXCEPT ![h] = Orphan])
  BY SftTakes DEF IInv
<1>4. faults' \in Nat /\ VolGood(vol, faults')
  BY FaultsGrow DEF Close
<1>. QED BY <1>2, <1>3, <1>4 DEF Close, IInv, fn

LEMMA DosFreeIsGood == ASSUME IInv, DosFree PROVE IInv'
<1>1. PICK unread \in {{}} \cup {{c} : c \in Cluster} :
          /\ IF unread = {} THEN Works ELSE Fails
          /\ LET free == Freed(vol.fat) \ unread
             IN  vol' = [vol EXCEPT !.nfree = Cardinality(free),
                                    !.hint = IF free = {} THEN @ ELSE Lowest(free)]
  BY DEF DosFree
<1>. DEFINE F == Freed(vol.fat)
            free == F \ unread
            hint == IF free = {} THEN vol.hint ELSE Lowest(free)
<1>2. faults' \in Nat
  BY <1>1, FaultsGrow
<1>3. unread # {} => faults' # 0
  BY <1>1 DEF Fails, IInv
<1>4. IsFiniteSet(F) /\ Cardinality(F) \in Nat
  BY FreedIsFinite
<1>5. Cardinality(free) \in Nat /\ Cardinality(free) <= Cardinality(F)
  BY <1>4, FS_Subset, FS_CardinalityType
<1>6. unread = {} => free = F
  OBVIOUS
<1>7. hint \in Int
  <2>1. free \in SUBSET Cluster /\ vol.hint \in Int
    BY DEF Freed, IInv, VolGood
  <2>. HIDE DEF free
  <2>2. free # {} => Lowest(free) \in Int
    <3>1. free # {} => Lowest(free) \in Cluster
      <4>. HIDE DEF free
      <4>. QED BY <2>1, LowestIsMember
    <3>. QED BY <3>1, ClustersAreInts
  <2>. QED BY <2>1, <2>2
<1>8. vol' = [vol EXCEPT !.nfree = Cardinality(free), !.hint = hint]
  BY <1>1
<1>9. vol \in [fat : [Cluster -> Entry], nfree : Int, hint : Int]
  BY DEF IInv, VolGood
<1>10. vol'.fat = vol.fat /\ vol'.nfree = Cardinality(free) /\ vol' \in [fat : [Cluster -> Entry], nfree : Int, hint : Int]
  <2>. DEFINE n == Cardinality(free)
  <2>1. n \in Int
    BY <1>5
  <2>. HIDE DEF free, hint, n
  <2>2. vol' = [vol EXCEPT !.nfree = n, !.hint = hint]
    BY <1>8 DEF n
  <2>3. vol'.fat = vol.fat /\ vol'.nfree = n
    BY <2>2, <1>9
  <2>4. vol' \in [fat : [Cluster -> Entry], nfree : Int, hint : Int]
    BY <2>1, <2>2, <1>7, <1>9
  <2>. QED BY <2>3, <2>4 DEF n
<1>11. VolGood(vol', faults')
  <2>. HIDE DEF free, hint
  <2>. QED BY <1>3, <1>5, <1>6, <1>10 DEF VolGood, CountTrue
<1>. QED BY <1>2, <1>11 DEF DosFree, IInv

-----------------------------------------------------------------------------
LEMMA InitIsGood == ASSUME FatInit PROVE IInv
<1>1. CallGood(call)
  BY NoCallIsGood DEF FatInit
<1>2. SftGood(sft) /\ faults \in Nat
  BY FatAssumption DEF FatInit, SftGood
<1>3. vol.nfree = UNKNCLSTFREE /\ vol \in [fat : [Cluster -> Entry], nfree : Int, hint : Int]
  BY DEF FatInit, Entry, UNKNCLSTFREE, UNKNCLUSTER
<1>4. DirGood(dir)
  BY DEF FatInit, DirGood, Start
<1>. QED BY <1>1, <1>2, <1>3, <1>4 DEF IInv, VolGood, CountTrue

LEMMA StepIsGood == ASSUME IInv, [FatNext]_fatvars PROVE IInv'
<1>1. CASE UNCHANGED fatvars
  BY <1>1 DEF fatvars, IInv
<1>2. CASE Proceed
  BY <1>2, MapEmptyIsGood, ArriveIsGood, WalkIsGood, WalkOnIsGood, DoRunIsGood, DoSectorIsGood, CutIsGood,
     WipeIsGood, FlushShrunkIsGood, WriteEntryIsGood, EndMoveIsGood DEF Proceed
<1>3. CASE Ask
  BY <1>3, TransferIsGood, CloseIsGood, OpenIsGood, CreateIsGood, DeleteIsGood, MoveIsGood, DosFreeIsGood DEF Ask
<1>. QED BY <1>1, <1>2, <1>3 DEF FatNext

-----------------------------------------------------------------------------
(* Places in a file.                                                       *)

LEMMA DivIs ==
    ASSUME NEW p \in Nat
    PROVE  /\ p \div SecSize \in Nat /\ p % SecSize \in 0 .. SecSize - 1
           /\ p = SecSize * (p \div SecSize) + (p % SecSize)
BY FatAssumption

LEMMA Times ==
    ASSUME NEW n \in Nat, NEW m \in Nat
    PROVE  /\ n * SecSize \in Nat /\ n * SecSize = SecSize * n
           /\ n < m => (n + 1) * SecSize <= m * SecSize
           /\ n <= m => n * SecSize <= m * SecSize
           /\ (n + 1) * SecSize = n * SecSize + SecSize
           /\ (n + m) * SecSize = n * SecSize + m * SecSize
BY FatAssumption

\* A place that is not behind the end of n sectors lies in one of them.
LEMMA PlaceIn ==
    ASSUME NEW p \in Nat, NEW n \in Nat
    PROVE  /\ p \div SecSize = n <=> n * SecSize <= p /\ p < (n + 1) * SecSize
           /\ p < n * SecSize <=> p \div SecSize < n
BY DivIs, Times, FatAssumption

\* A run ends at a sector.
LEMMA RunPlace ==
    ASSUME NEW p \in Nat, p % SecSize = 0, NEW n \in Nat
    PROVE  /\ p + n * SecSize \in Nat /\ (p + n * SecSize) \div SecSize = p \div SecSize + n
           /\ p + n * SecSize = (p \div SecSize + n) * SecSize
<1> DEFINE d == p \div SecSize
<1>1. d \in Nat /\ p = d * SecSize
  BY DivIs, Times, FatAssumption
<1> HIDE DEF d
<1>2. p + n * SecSize = (d + n) * SecSize /\ (d + n) \in Nat
  BY <1>1, Times
<1>3. (d + n) * SecSize \in Nat
  BY <1>2, Times
<1>4. ((d + n) * SecSize) \div SecSize = d + n
  <2>1. (d + n) * SecSize < (d + n + 1) * SecSize
    BY <1>1, Times, FatAssumption
  <2>. QED BY <1>1, <1>3, <2>1, PlaceIn
<1>. QED BY <1>1, <1>2, <1>3, <1>4 DEF d

-----------------------------------------------------------------------------
(* What a layout says of the chains in the FAT.                            *)

LEMMA Outsiders == Loose \notin File /\ Nobody \notin Owner /\ Nobody \notin File /\ Nobody # Loose
<1>1. \E o : o \notin File
  BY NoSetContainsEverything
<1>2. \E o : o \notin File \cup {Loose}
  BY NoSetContainsEverything
<1>3. Loose \notin File
  BY <1>1 DEF Loose
<1>4. Nobody \notin File \cup {Loose}
  BY <1>2 DEF Nobody
<1>. QED BY <1>3, <1>4 DEF Owner

\* The cluster of a place that is not the last is followed by one.
LEMMA NextIs ==
    ASSUME NEW fat, NEW y, Laid(fat, y), NEW o \in Owner, NEW i, NEW c, Is(y, o, i, c)
    PROVE  /\ c \in Cluster /\ i \in Nat /\ i < y.len[o] /\ y.len[o] \in Nat
           /\ IF i + 1 = y.len[o] THEN fat[c] = LAST ELSE Is(y, o, i + 1, fat[c])
           /\ fat[c] \in Cluster \cup {LAST} /\ fat[c] # FREE
BY Outsiders, Marks DEF Laid, Layout, Is

\* Two clusters of one place are one.
LEMMA OneIs ==
    ASSUME NEW fat, NEW y, Laid(fat, y), NEW o \in Owner, NEW i, NEW c, NEW d, Is(y, o, i, c), Is(y, o, i, d)
    PROVE  c = d
BY Outsiders DEF Laid, Is

\* next_cluster follows the chain.
LEMMA NextFollows ==
    ASSUME NEW fat, NEW y, Laid(fat, y), NEW o \in Owner, NEW i, NEW c, Is(y, o, i, c)
    PROVE  NextCluster(fat, c) = fat[c]
<1>1. CASE fat[c] \notin Cluster
  BY <1>1 DEF NextCluster
<1>2. CASE fat[c] \in Cluster
  <2>1. Is(y, o, i + 1, fat[c])
    BY <1>2, NextIs, Marks
  <2>2. fat[fat[c]] # FREE
    BY <2>1, NextIs
  <2>. QED BY <2>2 DEF NextCluster
<1>. QED BY <1>1, <1>2

LEMMA LeastNat ==
    ASSUME NEW T, T \subseteq Nat, T # {}
    PROVE  \E m \in T : \A n \in T : m <= n
<1>1. PICK m \in T : \A n \in T : ~(<<n, m>> \in OpToRel(<, Nat))
  BY NatLessThanWellFounded, WFMin
<1>2. ASSUME NEW n \in T PROVE m <= n
  <2>1. m \in Nat /\ n \in Nat /\ ~(n < m)
    BY <1>1, Zenon DEF OpToRel
  <2>. QED BY <2>1
<1>. QED BY <1>2

\* Every place of a chain has its cluster.
LEMMA PlacesAreFilled ==
    ASSUME NEW fat, NEW y, Laid(fat, y), NEW o \in Owner, NEW s \in Start, Leads(y, o, s)
    PROVE  /\ y.len[o] \in Nat
           /\ \A i \in 0 .. y.len[o] - 1 : \E c \in Cluster : Is(y, o, i, c)
<1>1. y.len[o] \in Nat
  BY DEF Laid, Layout
<1> DEFINE B == {i \in 0 .. y.len[o] - 1 : ~\E c \in Cluster : Is(y, o, i, c)}
<1>2. SUFFICES ASSUME B # {} PROVE FALSE
  BY <1>1
<1>3. PICK i \in B : \A j \in B : i <= j
  <2>1. B \subseteq Nat
    BY <1>1
  <2> HIDE DEF B
  <2>. QED BY <1>2, <2>1, LeastNat
<1>4. i \in Nat /\ i < y.len[o] /\ i # 0
  BY <1>1, <1>3 DEF Leads, Is
<1>5. i - 1 \in 0 .. y.len[o] - 1 /\ i - 1 \notin B
  BY <1>1, <1>3, <1>4
<1>6. PICK c \in Cluster : Is(y, o, i - 1, c)
  BY <1>5
<1>7. Is(y, o, i, fat[c])
  <2>1. IF i - 1 + 1 = y.len[o] THEN fat[c] = LAST ELSE Is(y, o, i - 1 + 1, fat[c])
    BY <1>6, NextIs
  <2>2. i - 1 + 1 = i
    BY <1>4
  <2>. QED BY <2>1, <2>2, <1>4
<1>. QED BY <1>3, <1>7 DEF Is

\* No chain is longer than the volume.
LEMMA ChainsFit ==
    ASSUME NEW fat, NEW y, Laid(fat, y), NEW o \in Owner, NEW s \in Start, Leads(y, o, s)
    PROVE  y.len[o] < LastCluster
<1> DEFINE n == y.len[o]
            D == 0 .. n - 1
            f == [i \in D |-> CHOOSE c \in Cluster : Is(y, o, i, c)]
<1>1. n \in Nat /\ \A i \in D : f[i] \in Cluster /\ Is(y, o, i, f[i])
  BY PlacesAreFilled
<1>2. f \in Injection(D, Cluster)
  <2>1. f \in [D -> Cluster]
    BY <1>1
  <2>2. \A i, j \in D : f[i] = f[j] => i = j
    BY <1>1 DEF Is
  <2>. QED BY <2>1, <2>2 DEF Injection, IsInjective
<1>3. IsFiniteSet(Cluster) /\ Cardinality(Cluster) = LastCluster - 1
  BY FS_Interval, FatAssumption DEF Cluster
<1>4. Cardinality(D) <= Cardinality(Cluster)
  BY <1>2, <1>3, FS_Injection
<1>5. Cardinality(D) = n
  <2>1. 0 \in Int /\ n - 1 \in Int
    BY <1>1
  <2> HIDE DEF n
  <2>2. Cardinality(D) = IF 0 > n - 1 THEN 0 ELSE n - 1 - 0 + 1
    BY <2>1, FS_Interval
  <2>. QED BY <1>1, <2>2 DEF n
<1>. QED BY <1>1, <1>3, <1>4, <1>5, FatAssumption

-----------------------------------------------------------------------------
IsNth(s, n) == n = [i \in 0..LastCluster |->
                     IF i = 0 THEN s ELSE IF n[i - 1] \in Cluster THEN vol.fat[n[i - 1]] ELSE n[i - 1]]

LEMMA NthRule ==
    ASSUME NEW s, NEW g, IsNth(s, g)
    PROVE  IsNth(s, Nth(s))
<1> DEFINE n == CHOOSE h : IsNth(s, h)
<1>1. IsNth(s, n)
  OBVIOUS
<1>2. Nth(s) = n
  BY DEF Nth, IsNth
<1>. QED BY <1>1, <1>2

\* What Nth gives for the start of a chain: its clusters in their places, and
\* then what ends it.
LEMMA NthIs ==
    ASSUME NEW y, Laid(vol.fat, y), NEW o \in Owner, NEW s \in Start, Leads(y, o, s), NEW i \in 0 .. LastCluster
    PROVE  IF s = FREE THEN Nth(s)[i] = FREE
           ELSE IF i < y.len[o] THEN Is(y, o, i, Nth(s)[i]) ELSE Nth(s)[i] = LAST
<1> DEFINE L == y.len[o]
            at(j) == CHOOSE c \in Cluster : Is(y, o, j, c)
            g == [j \in 0 .. LastCluster |-> IF s = FREE THEN FREE ELSE IF j < L THEN at(j) ELSE LAST]
<1>1. L \in Nat /\ LastCluster \in Nat /\ \A j \in 0 .. L - 1 : at(j) \in Cluster /\ Is(y, o, j, at(j))
  BY PlacesAreFilled, FatAssumption
<1> HIDE DEF at
<1>2. IsNth(s, g)
  <2>1. ASSUME NEW j \in 0 .. LastCluster
        PROVE  g[j] = IF j = 0 THEN s ELSE IF g[j - 1] \in Cluster THEN vol.fat[g[j - 1]] ELSE g[j - 1]
    <3>1. CASE s = FREE
      BY <1>1, <2>1, <3>1, Marks
    <3>2. CASE s # FREE /\ j = 0
      <4>1. Is(y, o, 0, s) /\ 0 < L
        BY <3>2, NextIs DEF Leads
      <4>2. s = at(0)
        BY <1>1, <4>1, OneIs
      <4>. QED BY <1>1, <2>1, <3>2, <4>1, <4>2
    <3>3. CASE s # FREE /\ j # 0
      <4>1. j - 1 \in 0 .. LastCluster /\ j \in Nat
        BY <1>1, <2>1, <3>3
      <4>2. CASE j - 1 < L
        <5>1. g[j - 1] = at(j - 1) /\ Is(y, o, j - 1, at(j - 1)) /\ g[j - 1] \in Cluster
          BY <1>1, <3>3, <4>1, <4>2
        <5>2. IF j = L THEN vol.fat[g[j - 1]] = LAST ELSE Is(y, o, j, vol.fat[g[j - 1]])
          <6>1. IF j - 1 + 1 = L THEN vol.fat[g[j - 1]] = LAST ELSE Is(y, o, j - 1 + 1, vol.fat[g[j - 1]])
            BY <5>1, NextIs
          <6>2. j - 1 + 1 = j
            BY <4>1
          <6>. QED BY <6>1, <6>2
        <5>3. CASE j = L
          BY <1>1, <2>1, <3>3, <5>1, <5>2, <5>3
        <5>4. CASE j # L
          <6>1. j < L /\ Is(y, o, j, at(j))
            BY <1>1, <4>1, <4>2, <5>4
          <6>2. vol.fat[g[j - 1]] = at(j)
            BY <5>2, <5>4, <6>1, OneIs
          <6>. QED BY <1>1, <2>1, <3>3, <5>1, <6>1, <6>2
        <5>. QED BY <5>3, <5>4
      <4>3. CASE ~(j - 1 < L)
        BY <1>1, <2>1, <3>3, <4>1, <4>3, Marks
      <4>. QED BY <4>2, <4>3
    <3>. QED BY <3>1, <3>2, <3>3
  <2> HIDE DEF g
  <2>2. g = [j \in 0 .. LastCluster |-> g[j]]
    BY DEF g
  <2>. QED BY <2>1, <2>2 DEF IsNth
<1> DEFINE n == Nth(s)
<1>3. IsNth(s, n)
  BY <1>2, NthRule
<1> HIDE DEF n
<1> DEFINE B == {j \in 0 .. LastCluster : n[j] # g[j]}
<1> HIDE DEF g
<1>4. B = {}
  <2> SUFFICES ASSUME B # {} PROVE FALSE
    OBVIOUS
  <2>1. PICK j \in B : \A k \in B : j <= k
    <3>1. B \subseteq Nat
      BY <1>1
    <3> HIDE DEF B
    <3>. QED BY <3>1, LeastNat
  <2>2. j \in 0 .. LastCluster /\ j \in Nat /\ n[j] # g[j]
    BY <1>1, <2>1
  <2>3. n[j] = IF j = 0 THEN s ELSE IF n[j - 1] \in Cluster THEN vol.fat[n[j - 1]] ELSE n[j - 1]
    BY <1>3, <2>2, Zenon DEF IsNth
  <2>4. g[j] = IF j = 0 THEN s ELSE IF g[j - 1] \in Cluster THEN vol.fat[g[j - 1]] ELSE g[j - 1]
    BY <1>2, <2>2, Zenon DEF IsNth
  <2>5. j # 0
    BY <2>2, <2>3, <2>4
  <2>6. j - 1 \in 0 .. LastCluster /\ ~(j <= j - 1)
    BY <1>1, <2>2, <2>5
  <2>7. n[j - 1] = g[j - 1]
    BY <2>1, <2>6
  <2>. QED BY <2>2, <2>3, <2>4, <2>7
<1>5. n[i] = g[i]
  BY <1>4
<1>. QED BY <1>1, <1>5 DEF g, n

-----------------------------------------------------------------------------
(* The layout gives the properties.                                        *)

\* The clusters of a chain are those of its owner, as many as it is long.
LEMMA ChainIs ==
    ASSUME NEW y, Laid(vol.fat, y), NEW o \in Owner, NEW s \in Start, Leads(y, o, s)
    PROVE  /\ Chain(s) = {c \in Cluster : y.own[c] = o}
           /\ Cardinality(Chain(s)) = y.len[o]
<1> DEFINE n == y.len[o]
            D == 0 .. n - 1
            f == [i \in D |-> CHOOSE c \in Cluster : Is(y, o, i, c)]
            T == {c \in Cluster : y.own[c] = o}
<1>1. n \in Nat /\ \A i \in D : f[i] \in Cluster /\ Is(y, o, i, f[i])
  BY PlacesAreFilled
<1>2. n < LastCluster /\ LastCluster \in Nat
  BY ChainsFit, FatAssumption
<1>3. \A c \in T : y.idx[c] \in D /\ Is(y, o, y.idx[c], c) /\ f[y.idx[c]] = c
  <2>1. SUFFICES ASSUME NEW c \in T PROVE y.idx[c] \in D /\ Is(y, o, y.idx[c], c) /\ f[y.idx[c]] = c
    OBVIOUS
  <2>2. Is(y, o, y.idx[c], c)
    BY DEF Is
  <2>3. y.idx[c] \in Nat /\ y.idx[c] < n
    BY <2>2, NextIs
  <2>4. y.idx[c] \in D
    BY <1>1, <2>3
  <2>5. Is(y, o, y.idx[c], f[y.idx[c]])
    BY <1>1, <2>4
  <2> HIDE DEF f
  <2>6. f[y.idx[c]] = c
    BY <2>2, <2>5, OneIs
  <2>. QED BY <2>2, <2>4, <2>6
<1> HIDE DEF f
<1>4. Chain(s) = T
  <2>1. \A i \in 0 .. LastCluster : Nth(s)[i] \in Cluster => Nth(s)[i] \in T
    <3>1. SUFFICES ASSUME NEW i \in 0 .. LastCluster, Nth(s)[i] \in Cluster PROVE Nth(s)[i] \in T
      OBVIOUS
    <3>2. Is(y, o, i, Nth(s)[i])
      BY <3>1, NthIs, Marks
    <3>. QED BY <3>1, <3>2 DEF Is
  <2>2. \A c \in T : \E i \in 0 .. LastCluster : Nth(s)[i] = c
    <3>1. SUFFICES ASSUME NEW c \in T PROVE \E i \in 0 .. LastCluster : Nth(s)[i] = c
      OBVIOUS
    <3>2. y.idx[c] \in 0 .. LastCluster /\ y.idx[c] < n /\ Is(y, o, y.idx[c], c)
      BY <1>1, <1>2, <1>3
    <3>3. s # FREE
      BY <1>1, <3>2, <1>3 DEF Leads
    <3>4. Is(y, o, y.idx[c], Nth(s)[y.idx[c]])
      BY <3>2, <3>3, NthIs
    <3>5. Nth(s)[y.idx[c]] = c
      BY <3>2, <3>4, OneIs
    <3>. QED BY <3>2, <3>5
  <2>. QED BY <2>1, <2>2 DEF Chain
<1>5. Cardinality(T) = n
  <2>1. f \in Injection(D, T) /\ f \in Surjection(D, T)
    <3>1. f = [i \in D |-> f[i]]
      BY DEF f
    <3>2. f \in [D -> T]
      BY <1>1, <3>1 DEF Is
    <3>3. \A i, j \in D : f[i] = f[j] => i = j
      BY <1>1 DEF Is
    <3>4. \A c \in T : \E i \in D : f[i] = c
      BY <1>3
    <3>. QED BY <3>2, <3>3, <3>4 DEF Injection, IsInjective, Surjection
  <2>2. ExistsBijection(D, T)
    BY <2>1 DEF ExistsBijection, Bijection
  <2>3. 0 \in Int /\ n - 1 \in Int
    BY <1>1
  <2> HIDE DEF n
  <2>4. IsFiniteSet(D) /\ Cardinality(D) = IF 0 > n - 1 THEN 0 ELSE n - 1 - 0 + 1
    BY <2>3, FS_Interval
  <2>5. Cardinality(T) = Cardinality(D)
    BY <2>2, <2>4, FS_Bijection
  <2>. QED BY <1>1, <2>4, <2>5 DEF n
<1>. QED BY <1>4, <1>5

\* Its last place is the end mark.
LEMMA ChainEnds ==
    ASSUME NEW y, Laid(vol.fat, y), NEW o \in Owner, NEW s \in Start, Leads(y, o, s), s # FREE
    PROVE  Nth(s)[LastCluster] = LAST
<1>1. y.len[o] < LastCluster /\ y.len[o] \in Nat /\ LastCluster \in 0 .. LastCluster
  BY ChainsFit, FatAssumption DEF Laid, Layout
<1>2. ~(LastCluster < y.len[o])
  BY <1>1
<1>. QED BY <1>1, <1>2, NthIs

\* A place of the chain.
LEMMA PlaceIs ==
    ASSUME NEW y, Laid(vol.fat, y), NEW o \in Owner, NEW s \in Start, Leads(y, o, s),
           NEW i, NEW c, Is(y, o, i, c)
    PROVE  Nth(s)[i] = c
<1>1. i \in Nat /\ i < y.len[o] /\ y.len[o] \in Nat /\ y.len[o] < LastCluster /\ LastCluster \in Nat
  BY NextIs, ChainsFit, FatAssumption
<1>2. i \in 0 .. LastCluster /\ s # FREE
  BY <1>1 DEF Leads
<1>3. Is(y, o, i, Nth(s)[i])
  BY <1>1, <1>2, NthIs
<1>. QED BY <1>3, OneIs

-----------------------------------------------------------------------------
\* What the files, the handles and the running call are by a layout.

LEMMA Starts ==
    ASSUME NEW y, Laid(vol.fat, y), NEW o \in Owner, NEW s, Leads(y, o, s)
    PROVE  s \in Start
BY NextIs DEF Leads, Start

LEMMA CurrentIs ==
    ASSUME NEW y, WellLaid(y), BetweenCalls, NEW f \in Files
    PROVE  f \in File /\ f \in Owner /\ EntryAt(y, f, Current(f))
<1>1. f \in File /\ f \in Owner
  BY DEF Files, Owner
<1>2. call.pc = "idle"
  BY DEF BetweenCalls, NoCall
<1>3. Busy(call) = {} /\ Held(call) = {}
  BY <1>2 DEF Busy, Held, InRw, Shrinking, RwPc
<1>4. CASE IsOpen(f)
  <2> DEFINE h == CHOOSE g \in Handle : Open(g) /\ sft[g].file = f
  <2>1. h \in Handle /\ Open(h) /\ sft[h].file = f
    BY <1>4 DEF IsOpen
  <2>2. FnAt(y, sft[h])
    BY <1>3, <2>1 DEF WellLaid, Others
  <2>3. EntryAt(y, f, sft[h])
    BY <2>1, <2>2 DEF FnAt
  <2>4. Current(f) = [start |-> sft[h].start, size |-> sft[h].size]
    BY <1>4 DEF Current
  <2> HIDE DEF h
  <2>5. EntryAt(y, f, [start |-> sft[h].start, size |-> sft[h].size])
    BY <2>3 DEF EntryAt
  <2>. QED BY <1>1, <2>4, <2>5
<1>5. CASE ~IsOpen(f)
  <2>1. dir[f] # None /\ Current(f) = dir[f]
    BY <1>5 DEF Files, Current
  <2>. QED BY <1>1, <1>3, <1>5, <2>1 DEF WellLaid, Rest
<1>. QED BY <1>4, <1>5

LEMMA LaidFilesAreWhole ==
    ASSUME NEW y, WellLaid(y)
    PROVE  FilesWhole
<1> SUFFICES ASSUME BetweenCalls
             PROVE  /\ \A f \in Files :
                           LET e == Current(f)
                           IN  /\ e.start # FREE => Nth(e.start)[LastCluster] = LAST
                               /\ e.size <= Cardinality(Chain(e.start)) * SecSize
                    /\ \A f, g \in Files : f # g => Chain(Current(f).start) \cap Chain(Current(g).start) = {}
                    /\ \A h \in Handle : Open(h) => Nth(sft[h].start)[sft[h].rel] = sft[h].cluster
  BY DEF FilesWhole
<1>1. Laid(vol.fat, y)
  BY DEF WellLaid
<1>2. \A f \in Files : /\ f \in Owner /\ Current(f).start \in Start /\ Leads(y, f, Current(f).start)
                       /\ Current(f).size <= y.len[f] * SecSize
  BY <1>1, CurrentIs, Starts DEF EntryAt
<1>3. \A f \in Files : /\ Current(f).start # FREE => Nth(Current(f).start)[LastCluster] = LAST
                       /\ Current(f).size <= Cardinality(Chain(Current(f).start)) * SecSize
                       /\ Chain(Current(f).start) = {c \in Cluster : y.own[c] = f}
  BY <1>1, <1>2, ChainEnds, ChainIs
<1>4. \A f, g \in Files : f # g => Chain(Current(f).start) \cap Chain(Current(g).start) = {}
  BY <1>3
<1>5. ASSUME NEW h \in Handle, Open(h) PROVE Nth(sft[h].start)[sft[h].rel] = sft[h].cluster
  <2>1. Busy(call) = {}
    BY DEF BetweenCalls, NoCall, Busy, InRw, Shrinking, RwPc
  <2>2. FnAt(y, sft[h])
    BY <1>5, <2>1 DEF WellLaid, Others
  <2>3. Leads(y, sft[h].file, sft[h].start) /\ sft[h].file \in Owner
    BY <2>2 DEF FnAt, EntryAt, Owner
  <2>4. sft[h].start \in Start
    BY <1>1, <2>3, Starts
  <2>5. CASE sft[h].start = FREE
    <3>1. sft[h].cluster = FREE /\ sft[h].rel = 0
      BY <2>2, <2>5 DEF FnAt
    <3>2. 0 \in 0 .. LastCluster
      BY FatAssumption
    <3>. QED BY <1>1, <2>3, <2>4, <2>5, <3>1, <3>2, NthIs
  <2>6. CASE sft[h].start # FREE
    <3>1. Is(y, sft[h].file, sft[h].rel, sft[h].cluster)
      BY <2>2, <2>6 DEF FnAt
    <3>. QED BY <1>1, <2>3, <2>4, <3>1, PlaceIs
  <2>. QED BY <2>5, <2>6
<1>. QED BY <1>3, <1>4, <1>5

LEMMA LaidNothingIsLost ==
    ASSUME NEW y, WellLaid(y)
    PROVE  NothingLost
<1> SUFFICES ASSUME BetweenCalls, faults = 0
             PROVE  Cluster = Freed(vol.fat) \cup UNION {Chain(Current(f).start) : f \in Files}
  BY DEF NothingLost
<1>1. Laid(vol.fat, y) /\ y.own \in [Cluster -> Owner \cup {Nobody}]
  BY DEF WellLaid, Laid, Layout
<1>2. ASSUME NEW f \in Files PROVE Chain(Current(f).start) = {c \in Cluster : y.own[c] = f}
  <2>1. f \in Owner /\ Leads(y, f, Current(f).start)
    BY CurrentIs DEF EntryAt
  <2>2. Current(f).start \in Start
    BY <1>1, <2>1, Starts
  <2>. QED BY <1>1, <2>1, <2>2, ChainIs
<1>3. call.pc = "idle"
  BY DEF BetweenCalls, NoCall
<1>4. ASSUME NEW c \in Cluster, c \notin Freed(vol.fat) PROVE \E f \in Files : c \in Chain(Current(f).start)
  <2>1. y.own[c] # Nobody
    BY <1>4 DEF WellLaid, Kept, Freed
  <2>2. y.own[c] \in Owner /\ Is(y, y.own[c], y.idx[c], c)
    BY <1>1, <2>1 DEF Is
  <2>3. y.idx[c] \in Nat /\ y.idx[c] < y.len[y.own[c]] /\ y.len[y.own[c]] # 0
    BY <1>1, <2>2, NextIs
  <2>4. y.own[c] # Loose
    BY <1>3, <2>3 DEF WellLaid, CallAt, LooseAt
  <2>5. y.own[c] \in File
    BY <2>2, <2>4 DEF Owner
  <2>6. y.own[c] \in Files
    <3>1. SUFFICES ASSUME ~IsOpen(y.own[c]) PROVE dir[y.own[c]] # None
      BY <2>5 DEF Files
    <3>2. Held(call) = {}
      BY <1>3 DEF Held
    <3>. QED BY <2>3, <2>5, <3>1, <3>2 DEF WellLaid, Rest
  <2>. QED BY <1>2, <2>6
<1>5. \A f \in Files : Chain(Current(f).start) \subseteq Cluster
  BY DEF Chain
<1>. QED BY <1>4, <1>5 DEF Freed

LEMMA LaidTransfersAreInPlace ==
    ASSUME NEW y, WellLaid(y)
    PROVE  TransfersInPlace
<1>1. Laid(vol.fat, y)
  BY DEF WellLaid
<1> SUFFICES ASSUME call.pc \in {"run", "sector"}
             PROVE  /\ call.pc = "run" => \A i \in 0..(call.run - 1) :
                          Nth(call.fn.start)[call.from \div SecSize + i] = call.first + i
                    /\ call.pc = "sector" => Nth(call.fn.start)[call.fn.pos \div SecSize] = call.fn.cluster
  BY DEF TransfersInPlace
<1>2. RwAt(y, call)
  BY DEF WellLaid, CallAt, InRw, RwPc
<1>3. FnAt(y, call.fn) /\ call.fn.file \in Owner /\ Leads(y, call.fn.file, call.fn.start)
  BY <1>2 DEF RwAt, Moving, FnAt, EntryAt, Owner
<1>4. call.fn.start \in Start
  BY <1>1, <1>3, Starts
<1>5. call.pc = "run" => \A i \in 0..(call.run - 1) :
                          Nth(call.fn.start)[call.from \div SecSize + i] = call.first + i
  BY <1>1, <1>2, <1>3, <1>4, PlaceIs DEF RwAt, RunAt
<1>6. ASSUME call.pc = "sector" PROVE Nth(call.fn.start)[call.fn.pos \div SecSize] = call.fn.cluster
  <2>1. call.fn.rel = call.fn.pos \div SecSize
    BY <1>2, <1>6 DEF RwAt
  <2>2. call.fn.start # FREE /\ Is(y, call.fn.file, call.fn.rel, call.fn.cluster)
    BY <1>2, <1>3, <1>6 DEF RwAt, FnAt
  <2>. QED BY <1>1, <1>3, <1>4, <2>1, <2>2, PlaceIs
<1>. QED BY <1>5, <1>6

-----------------------------------------------------------------------------
(* The layout changes.                                                     *)

LEMMA Types ==
    ASSUME NEW fat, NEW y, Laid(fat, y)
    PROVE  /\ y.own \in [Cluster -> Owner \cup {Nobody}] /\ y.idx \in [Cluster -> Nat] /\ y.len \in [Owner -> Nat]
           /\ y = [own |-> y.own, idx |-> y.idx, len |-> y.len]
           /\ \A c \in Cluster : y.own[c] # Nobody => y.own[c] \in Owner /\ y.idx[c] < y.len[y.own[c]]
BY DEF Laid, Layout

\* Entries of clusters without an owner may change.
LEMMA OthersMayChange ==
    ASSUME NEW fat, NEW y, Laid(fat, y), NEW fat2, \A c \in Cluster : y.own[c] # Nobody => fat2[c] = fat[c]
    PROVE  Laid(fat2, y)
BY DEF Laid

\* extend: a cluster without an owner, marked as the end, becomes the last.
LEMMA AppendIsLaid ==
    ASSUME NEW fat, NEW fat2, NEW y, NEW o, NEW c, NEW last, Joins(fat, fat2, y, o, c, last)
    PROVE  /\ Laid(fat2, Appended(y, o, c)) /\ SameBut(y, Appended(y, o, c), {o})
           /\ Appended(y, o, c).len[o] = y.len[o] + 1 /\ Is(Appended(y, o, c), o, y.len[o], c)
           /\ \A i, d : Is(y, o, i, d) => Is(Appended(y, o, c), o, i, d)
<1> DEFINE z == Appended(y, o, c)
           n == y.len[o]
<1>0. /\ Laid(fat, y) /\ o \in Owner /\ c \in Cluster /\ y.own[c] = Nobody /\ fat2[c] = LAST
      /\ y.len[o] # 0 => Is(y, o, y.len[o] - 1, last) /\ fat2[last] = c
      /\ \A d \in Cluster \ {c} : ~Is(y, o, y.len[o] - 1, d) => fat2[d] = fat[d]
  BY DEF Joins
<1> USE <1>0
<1>1. n \in Nat /\ y.own \in [Cluster -> Owner \cup {Nobody}] /\ y.idx \in [Cluster -> Nat] /\ y.len \in [Owner -> Nat]
  BY Types
<1>2. /\ z.own = [y.own EXCEPT ![c] = o] /\ z.idx = [y.idx EXCEPT ![c] = n] /\ z.len = [y.len EXCEPT ![o] = n + 1]
      /\ z \in Layout
  BY <1>1 DEF Appended, Layout
<1>3. /\ z.own[c] = o /\ z.idx[c] = n /\ z.len[o] = n + 1
      /\ \A d \in Cluster \ {c} : z.own[d] = y.own[d] /\ z.idx[d] = y.idx[d]
      /\ \A p \in Owner \ {o} : z.len[p] = y.len[p]
  BY <1>1, <1>2
<1> HIDE DEF z
<1>4. \A p \in Owner : \A i, d : Is(y, p, i, d) => Is(z, p, i, d)
  BY <1>3, Outsiders DEF Is
<1>5. ASSUME NEW d \in Cluster, z.own[d] # Nobody
      PROVE  /\ z.idx[d] < z.len[z.own[d]]
             /\ IF z.idx[d] + 1 = z.len[z.own[d]] THEN fat2[d] = LAST ELSE Is(z, z.own[d], z.idx[d] + 1, fat2[d])
  <2>1. CASE d = c
    BY <1>1, <1>3, <2>1
  <2>2. CASE d # c /\ y.own[d] = o
    <3>1. /\ y.idx[d] < n /\ y.idx[d] \in Nat
          /\ IF y.idx[d] + 1 = n THEN fat[d] = LAST ELSE Is(y, o, y.idx[d] + 1, fat[d])
      BY <1>1, <2>2, Outsiders DEF Laid
    <3>2. CASE y.idx[d] + 1 = n
      <4>1. Is(y, o, n - 1, d) /\ n # 0
        BY <1>1, <2>2, <3>1, <3>2 DEF Is
      <4>2. d = last
        BY <4>1, OneIs
      <4>. QED BY <1>1, <1>3, <2>2, <3>1, <3>2, <4>1, <4>2 DEF Is
    <3>3. CASE y.idx[d] + 1 # n
      <4>1. ~Is(y, o, n - 1, d)
        BY <1>1, <3>1, <3>3 DEF Is
      <4>2. fat2[d] = fat[d] /\ Is(y, o, y.idx[d] + 1, fat[d])
        BY <2>2, <3>1, <3>3, <4>1
      <4>. QED BY <1>1, <1>3, <1>4, <2>2, <3>1, <3>3, <4>2
    <3>. QED BY <3>2, <3>3
  <2>3. CASE d # c /\ y.own[d] # o
    <3>1. ~Is(y, o, n - 1, d) /\ z.own[d] = y.own[d] /\ z.idx[d] = y.idx[d] /\ y.own[d] \in Owner
      BY <1>1, <1>3, <1>5, <2>3 DEF Is
    <3>2. fat2[d] = fat[d] /\ z.len[z.own[d]] = y.len[y.own[d]]
      BY <1>3, <2>3, <3>1
    <3>3. /\ y.idx[d] < y.len[y.own[d]]
          /\ IF y.idx[d] + 1 = y.len[y.own[d]] THEN fat[d] = LAST ELSE Is(y, y.own[d], y.idx[d] + 1, fat[d])
      BY <1>5, <3>1 DEF Laid
    <3>. QED BY <1>4, <3>1, <3>2, <3>3
  <2>. QED BY <2>1, <2>2, <2>3
<1>6. \A d, e \in Cluster : z.own[d] # Nobody /\ z.own[d] = z.own[e] /\ z.idx[d] = z.idx[e] => d = e
  <2>1. \A d \in Cluster \ {c} : y.own[d] = o => y.idx[d] # n
    BY <1>1, Outsiders DEF Laid
  <2>. QED BY <1>3, <2>1 DEF Laid
<1>7. Laid(fat2, z)
  BY <1>2, <1>5, <1>6 DEF Laid
<1>8. Is(z, o, n, c)
  BY <1>3 DEF Is
<1>. QED BY <1>3, <1>4, <1>7, <1>8 DEF z, SameBut

\* A chain that nothing leads to any more.
LEMMA DropIsLaid ==
    ASSUME NEW fat, NEW y, Laid(fat, y), NEW o \in Owner
    PROVE  /\ Laid(fat, Drop(y, o)) /\ SameBut(y, Drop(y, o), {o}) /\ Drop(y, o).len[o] = 0
           /\ y.len[o] = 0 => Drop(y, o) = y
<1> DEFINE z == Drop(y, o)
<1>1. /\ z.own = [d \in Cluster |-> IF y.own[d] = o THEN Nobody ELSE y.own[d]] /\ z.idx = y.idx
      /\ z.len = [y.len EXCEPT ![o] = 0] /\ z \in Layout
      /\ z = [own |-> z.own, idx |-> z.idx, len |-> z.len]
  BY Types DEF Drop, Layout
<1> HIDE DEF z
<1>2. z.len[o] = 0 /\ \A p \in Owner \ {o} : z.len[p] = y.len[p]
  BY <1>1, Types
<1>3. \A p \in Owner \ {o} : \A i, c : Is(y, p, i, c) => Is(z, p, i, c)
  BY <1>1 DEF Is
<1>4. \A c \in Cluster : z.own[c] # Nobody => z.own[c] = y.own[c] /\ z.own[c] \in Owner \ {o}
  BY <1>1, Types
<1>5. Laid(fat, z)
  BY <1>1, <1>2, <1>3, <1>4 DEF Laid
<1>6. y.len[o] = 0 => z = y
  <2> SUFFICES ASSUME y.len[o] = 0 PROVE z = y
    OBVIOUS
  <2>1. \A c \in Cluster : y.own[c] # o
    BY Types, Outsiders
  <2>2. z.own = y.own /\ z.len = y.len
    BY <1>1, <2>1, Types
  <2>. QED BY <1>1, <2>2, Types
<1>. QED BY <1>2, <1>3, <1>5, <1>6 DEF z, SameBut

\* shrink_file, wipe_out: the places from r on are cut off.
LEMMA SplitIsLaid ==
    ASSUME NEW fat, NEW fat2, NEW y, NEW o, NEW r, Cuts(fat, fat2, y, o, r)
    PROVE  Laid(fat2, Split(y, o, r)) /\ CutOff(y, Split(y, o, r), o, r)
<1>0. /\ Laid(fat, y) /\ y.len[Loose] = 0 /\ o \in File /\ r \in Nat /\ r <= y.len[o]
      /\ \A d \in Cluster : IF Is(y, o, r - 1, d) THEN fat2[d] = LAST ELSE fat2[d] = fat[d]
  BY DEF Cuts
<1> USE <1>0
<1> DEFINE z == Split(y, o, r)
           n == y.len[o]
           B == Behind(y, o, r)
<1>1. /\ n \in Nat /\ y.own \in [Cluster -> Owner \cup {Nobody}] /\ y.idx \in [Cluster -> Nat] /\ y.len \in [Owner -> Nat]
      /\ o \in Owner /\ Loose \in Owner /\ o # Loose /\ n - r \in Nat
  <2>1. /\ y.own \in [Cluster -> Owner \cup {Nobody}] /\ y.idx \in [Cluster -> Nat] /\ y.len \in [Owner -> Nat]
        /\ o \in Owner /\ Loose \in Owner /\ o # Loose
    BY Types, Outsiders DEF Owner
  <2>2. n \in Nat
    BY <2>1
  <2>3. n - r \in Nat
    BY <2>2
  <2>. QED BY <2>1, <2>2, <2>3
<1>2. \A d \in Cluster : d \in B <=> y.own[d] = o /\ y.idx[d] >= r
  BY DEF Behind
<1>3. \A d \in B : y.idx[d] - r \in Nat
  BY <1>1, <1>2 DEF Behind
<1>4. /\ z.own = [d \in Cluster |-> IF d \in B THEN Loose ELSE y.own[d]]
      /\ z.idx = [d \in Cluster |-> IF d \in B THEN y.idx[d] - r ELSE y.idx[d]]
      /\ z.len = [y.len EXCEPT ![o] = r, ![Loose] = n - r]
      /\ z = [own |-> z.own, idx |-> z.idx, len |-> z.len]
  BY DEF Split
<1> HIDE DEF z, B
<1>5. z \in Layout
  BY <1>1, <1>3, <1>4 DEF Layout
<1>6. /\ \A d \in Cluster : IF d \in B THEN z.own[d] = Loose /\ z.idx[d] = y.idx[d] - r
                            ELSE z.own[d] = y.own[d] /\ z.idx[d] = y.idx[d]
      /\ z.len[o] = r /\ z.len[Loose] = n - r /\ \A p \in Owner \ {o, Loose} : z.len[p] = y.len[p]
  BY <1>1, <1>4
<1>7. \A d \in Cluster : y.own[d] # Loose
  BY <1>1, Outsiders DEF Laid
<1>8. \A p \in Owner \ {o, Loose} : \A i, d : Is(y, p, i, d) => Is(z, p, i, d)
  BY <1>2, <1>6 DEF Is
<1>9. \A i, d : Is(y, o, i, d) => IF i < r THEN Is(z, o, i, d) ELSE Is(z, Loose, i - r, d)
  <2>1. SUFFICES ASSUME NEW i, NEW d, Is(y, o, i, d) PROVE IF i < r THEN Is(z, o, i, d) ELSE Is(z, Loose, i - r, d)
    OBVIOUS
  <2>2. d \in Cluster /\ y.own[d] = o /\ y.idx[d] = i /\ i \in Nat
    BY <1>1, <2>1 DEF Is
  <2>. QED BY <1>2, <1>6, <2>2 DEF Is
<1>10. ASSUME NEW d \in Cluster, z.own[d] # Nobody
       PROVE  /\ z.idx[d] < z.len[z.own[d]]
              /\ IF z.idx[d] + 1 = z.len[z.own[d]] THEN fat2[d] = LAST ELSE Is(z, z.own[d], z.idx[d] + 1, fat2[d])
  <2> DEFINE i == y.idx[d]
  <2>1. i \in Nat /\ y.own[d] # Nobody
    BY <1>1, <1>2, <1>6, <1>10, Outsiders
  <2>2. /\ i < y.len[y.own[d]]
        /\ IF i + 1 = y.len[y.own[d]] THEN fat[d] = LAST ELSE Is(y, y.own[d], i + 1, fat[d])
    BY <2>1 DEF Laid
  <2> HIDE DEF i
  <2>3. CASE y.own[d] = o /\ i >= r
    <3>1. z.own[d] = Loose /\ z.idx[d] = i - r /\ z.len[Loose] = n - r
      BY <1>2, <1>6, <2>3 DEF i
    <3>2. ~Is(y, o, r - 1, d)
      BY <2>1, <2>3 DEF Is, i
    <3>3. fat2[d] = fat[d]
      BY <3>2
    <3>4. CASE i + 1 = n
      BY <1>1, <2>1, <2>2, <2>3, <3>1, <3>3, <3>4
    <3>5. CASE i + 1 # n
      <4>1. Is(z, Loose, i + 1 - r, fat[d])
        BY <1>1, <1>9, <2>1, <2>2, <2>3, <3>5
      <4>2. i + 1 - r = i - r + 1 /\ i - r < n - r /\ i - r + 1 # n - r
        BY <1>1, <2>1, <2>2, <2>3, <3>5
      <4>. QED BY <3>1, <3>3, <4>1, <4>2
    <3>. QED BY <3>4, <3>5
  <2>4. CASE y.own[d] = o /\ i < r
    <3>1. z.own[d] = o /\ z.idx[d] = i /\ z.len[o] = r
      BY <1>2, <1>6, <2>1, <2>4 DEF i
    <3>2. CASE i + 1 = r
      <4>1. Is(y, o, r - 1, d)
        BY <2>1, <2>4, <3>2 DEF Is, i
      <4>. QED BY <2>4, <3>1, <3>2, <4>1
    <3>3. CASE i + 1 # r
      <4>1. ~Is(y, o, r - 1, d)
        BY <2>1, <3>3 DEF Is, i
      <4>2. Is(y, o, i + 1, fat[d]) /\ i + 1 < r
        BY <1>1, <2>1, <2>2, <2>4, <3>3
      <4>. QED BY <1>9, <2>4, <3>1, <3>3, <4>1, <4>2
    <3>. QED BY <3>2, <3>3
  <2>5. CASE y.own[d] # o
    <3>1. z.own[d] = y.own[d] /\ z.idx[d] = i /\ z.own[d] \in Owner \ {o, Loose}
      BY <1>1, <1>2, <1>6, <1>7, <2>1, <2>5 DEF i
    <3>2. ~Is(y, o, r - 1, d)
      BY <2>5 DEF Is
    <3>. QED BY <1>6, <1>8, <2>2, <3>1, <3>2
  <2>. QED BY <1>1, <2>1, <2>3, <2>4, <2>5
<1>11. \A d, e \in Cluster : z.own[d] # Nobody /\ z.own[d] = z.own[e] /\ z.idx[d] = z.idx[e] => d = e
  <2>1. SUFFICES ASSUME NEW d \in Cluster, NEW e \in Cluster, z.own[d] # Nobody, z.own[d] = z.own[e], z.idx[d] = z.idx[e]
                 PROVE  d = e
    OBVIOUS
  <2>2. d \in B <=> e \in B
    BY <1>6, <1>7, <2>1
  <2>3. y.own[d] = y.own[e] /\ y.own[d] # Nobody
    BY <1>1, <1>2, <1>6, <2>1, <2>2, Outsiders
  <2>4. y.idx[d] = y.idx[e]
    <3>1. y.idx[d] \in Nat /\ y.idx[e] \in Nat
      BY <1>1
    <3>. QED BY <1>6, <2>1, <2>2, <3>1
  <2>. QED BY <2>3, <2>4 DEF Laid
<1>12. Laid(fat2, z)
  BY <1>5, <1>10, <1>11 DEF Laid
<1>13. \A d \in Cluster : z.own[d] = Nobody => y.own[d] = Nobody
  BY <1>6, Outsiders DEF Owner
<1>. QED BY <1>6, <1>8, <1>9, <1>12, <1>13 DEF z, SameBut, CutOff

\* wipe_out_clusters: the first of what was cut off is freed.
LEMMA ShiftIsLaid ==
    ASSUME NEW fat, NEW fat2, NEW y, NEW c, Frees(fat, fat2, y, c)
    PROVE  Laid(fat2, Shift(y, c)) /\ Shifted(fat, y, Shift(y, c), c)
<1>0. Laid(fat, y) /\ Is(y, Loose, 0, c) /\ \A d \in Cluster : d # c => fat2[d] = fat[d]
  BY DEF Frees
<1> USE <1>0
<1> DEFINE z == Shift(y, c)
           n == y.len[Loose]
<1>1. /\ n \in Nat /\ y.own \in [Cluster -> Owner \cup {Nobody}] /\ y.idx \in [Cluster -> Nat] /\ y.len \in [Owner -> Nat]
      /\ Loose \in Owner /\ Nobody \notin Owner
  BY Types, Outsiders DEF Owner
<1>2. c \in Cluster /\ y.own[c] = Loose /\ y.idx[c] = 0 /\ 0 < n
      /\ IF 1 = n THEN fat[c] = LAST ELSE Is(y, Loose, 1, fat[c])
  BY <1>1, NextIs DEF Is
<1>3. \A d \in Cluster : y.own[d] = Loose /\ d # c => y.idx[d] - 1 \in Nat
  <2>1. \A d \in Cluster : y.own[d] = Loose /\ d # c => y.idx[d] # 0
    BY <1>1, <1>2 DEF Laid
  <2>. QED BY <1>1, <2>1
<1>4. /\ z.own = [y.own EXCEPT ![c] = Nobody]
      /\ z.idx = [d \in Cluster |-> IF y.own[d] = Loose /\ d # c THEN y.idx[d] - 1 ELSE y.idx[d]]
      /\ z.len = [y.len EXCEPT ![Loose] = n - 1]
      /\ z = [own |-> z.own, idx |-> z.idx, len |-> z.len]
  BY DEF Shift
<1> HIDE DEF z
<1>5. z \in Layout
  BY <1>1, <1>2, <1>3, <1>4 DEF Layout
<1>6. /\ z.own[c] = Nobody /\ \A d \in Cluster \ {c} : z.own[d] = y.own[d]
      /\ \A d \in Cluster \ {c} : z.idx[d] = IF y.own[d] = Loose THEN y.idx[d] - 1 ELSE y.idx[d]
      /\ z.len[Loose] = n - 1 /\ \A p \in Owner \ {Loose} : z.len[p] = y.len[p]
  BY <1>1, <1>2, <1>4
<1>7. \A p \in Owner \ {Loose} : \A i, d : Is(y, p, i, d) => Is(z, p, i, d)
  BY <1>2, <1>6 DEF Is
<1>8. \A i, d : Is(y, Loose, i, d) /\ i # 0 => Is(z, Loose, i - 1, d)
  BY <1>2, <1>6 DEF Is
<1>9. ASSUME NEW d \in Cluster, z.own[d] # Nobody
       PROVE  /\ z.idx[d] < z.len[z.own[d]]
              /\ IF z.idx[d] + 1 = z.len[z.own[d]] THEN fat2[d] = LAST ELSE Is(z, z.own[d], z.idx[d] + 1, fat2[d])
  <2> DEFINE i == y.idx[d]
  <2>1. i \in Nat /\ y.own[d] # Nobody /\ d # c /\ z.own[d] = y.own[d] /\ y.own[d] \in Owner /\ fat2[d] = fat[d]
    BY <1>1, <1>6, <1>9
  <2>2. /\ i < y.len[y.own[d]]
        /\ IF i + 1 = y.len[y.own[d]] THEN fat[d] = LAST ELSE Is(y, y.own[d], i + 1, fat[d])
    BY <2>1 DEF Laid
  <2> HIDE DEF i
  <2>3. CASE y.own[d] = Loose
    <3>1. z.idx[d] = i - 1 /\ i # 0
      BY <1>3, <1>6, <2>1, <2>3 DEF i
    <3>2. CASE i + 1 = n
      BY <1>1, <1>6, <2>1, <2>2, <2>3, <3>1, <3>2
    <3>3. CASE i + 1 # n
      <4>1. Is(z, Loose, i + 1 - 1, fat[d])
        BY <1>8, <2>1, <2>2, <2>3, <3>3
      <4>2. i + 1 - 1 = z.idx[d] + 1 /\ z.idx[d] < n - 1 /\ z.idx[d] + 1 # n - 1
        BY <1>1, <2>1, <2>2, <2>3, <3>1, <3>3
      <4>. QED BY <1>6, <2>1, <2>3, <4>1, <4>2
    <3>. QED BY <3>2, <3>3
  <2>4. CASE y.own[d] # Loose
    BY <1>6, <1>7, <2>1, <2>2, <2>4 DEF i
  <2>. QED BY <2>3, <2>4
<1>10. \A d, e \in Cluster : z.own[d] # Nobody /\ z.own[d] = z.own[e] /\ z.idx[d] = z.idx[e] => d = e
  <2>1. SUFFICES ASSUME NEW d \in Cluster, NEW e \in Cluster, z.own[d] # Nobody, z.own[d] = z.own[e], z.idx[d] = z.idx[e]
                 PROVE  d = e
    OBVIOUS
  <2>2. d # c /\ e # c /\ y.own[d] = y.own[e] /\ y.own[d] # Nobody
    BY <1>6, <2>1
  <2>3. y.idx[d] = y.idx[e]
    <3>1. y.idx[d] \in Nat /\ y.idx[e] \in Nat
      BY <1>1
    <3>. QED BY <1>6, <2>1, <2>2, <3>1
  <2>. QED BY <2>2, <2>3 DEF Laid
<1>11. Laid(fat2, z)
  BY <1>5, <1>9, <1>10 DEF Laid
<1>12. IF fat[c] = LAST THEN z.len[Loose] = 0 ELSE Is(z, Loose, 0, fat[c])
  <2>1. CASE n = 1
    BY <1>2, <1>6, <2>1
  <2>2. CASE n # 1
    <3>1. Is(z, Loose, 1 - 1, fat[c])
      BY <1>2, <1>8, <2>2
    <3>2. fat[c] # LAST
      BY <1>2, <2>2, Marks DEF Is
    <3>. QED BY <3>1, <3>2
  <2>. QED BY <2>1, <2>2
<1>13. \A d \in Cluster : z.own[d] = Nobody => d = c \/ y.own[d] = Nobody
  BY <1>6
<1>. QED BY <1>6, <1>7, <1>11, <1>12, <1>13 DEF z, SameBut, Shifted

-----------------------------------------------------------------------------
(* A read or write and its file.                                           *)

LEMMA MovesOn ==
    ASSUME NEW y, NEW k, Moving(y, k), NEW m, Kin(k, m), m.left \in Nat, m.fn.pos \in Nat,
           m.fn.size = k.fn.size, m.fn.rel = k.fn.rel, m.fn.cluster = k.fn.cluster
    PROVE  Moving(y, m)
BY DEF Moving, Kin, FnAt, EntryAt, Clean

\* The size changes only when something is written.
LEMMA MovesOnSized ==
    ASSUME NEW y, NEW k, Moving(y, k), NEW m, Kin(k, m), m.left \in Nat, m.fn.pos \in Nat, k.mode = "write",
           m.fn.size \in Nat, m.fn.size <= y.len[k.fn.file] * SecSize, m.fn.rel = k.fn.rel, m.fn.cluster = k.fn.cluster
    PROVE  Moving(y, m)
BY DEF Moving, Kin, FnAt, EntryAt, Clean

\* A cluster at its place of the file.
LEMMA MovesOnPlaced ==
    ASSUME NEW y, NEW k, Moving(y, k), NEW m, Kin(k, m), m.left = k.left, m.fn.pos = k.fn.pos,
           m.fn.size = k.fn.size, k.fn.start # FREE, m.fn.rel \in Nat, Is(y, k.fn.file, m.fn.rel, m.fn.cluster)
    PROVE  Moving(y, m)
BY DEF Moving, Kin, FnAt, EntryAt, Clean

\* The fields of a call.
LEMMA EndFields ==
    ASSUME NEW k, Going(k), NEW pc
    PROVE  LET m == [k EXCEPT !.pc = pc]
           IN  Going(m) /\ Kin(k, m) /\ m.pc = pc /\ m.fn = k.fn /\ \A x \in CallFields \ {"pc"} : m[x] = k[x]
BY DEF Going, Shaped, CallFields, Kin

LEMMA PutFields ==
    ASSUME NEW k, Going(k), NEW x, NEW rel
    PROVE  LET m == Put(k, x, rel)
           IN  /\ Kin(k, m) /\ m.fn.cluster = x /\ m.fn.rel = rel /\ m.fn.pos = k.fn.pos /\ m.fn.size = k.fn.size
               /\ \A f \in CallFields \ {"fn"} : m[f] = k[f]
BY DEF Going, Shaped, CallFields, Kin, Put, FnGood, FnFields

LEMMA MapFields ==
    ASSUME NEW k, Going(k), NEW at, NEW ret
    PROVE  LET m == Map(k, at, ret)
           IN  /\ Kin(k, m) /\ m.fn.pos = k.fn.pos /\ m.fn.size = k.fn.size
               /\ m.pc = (IF k.fn.cluster = FREE THEN "map" ELSE "walk") /\ m.at = at /\ m.ret = ret
               /\ IF at \div SecSize < k.fn.rel THEN m.fn.cluster = k.fn.start /\ m.fn.rel = 0
                  ELSE m.fn.cluster = k.fn.cluster /\ m.fn.rel = k.fn.rel
               /\ m.left = k.left /\ m.from = k.from /\ m.first = k.first /\ m.run = k.run /\ m.wanted = k.wanted
<1> DEFINE d == [k EXCEPT !.pc = IF k.fn.cluster = FREE THEN "map" ELSE "walk", !.at = at, !.ret = ret]
<1>1. /\ Going(d) /\ d.fn = k.fn /\ d.pc = (IF k.fn.cluster = FREE THEN "map" ELSE "walk") /\ d.at = at /\ d.ret = ret
      /\ \A x \in CallFields \ {"pc", "at", "ret"} : d[x] = k[x]
  BY DEF Going, Shaped, CallFields
<1>2. Map(k, at, ret) = IF at \div SecSize < k.fn.rel THEN Put(d, k.fn.start, 0) ELSE d
  BY <1>1 DEF Map
<1> HIDE DEF d
<1> DEFINE w == Put(d, k.fn.start, 0)
<1>3. /\ Kin(d, w) /\ w.fn.cluster = k.fn.start /\ w.fn.rel = 0 /\ w.fn.pos = d.fn.pos /\ w.fn.size = d.fn.size
      /\ \A f \in CallFields \ {"fn"} : w[f] = d[f]
  BY <1>1, PutFields
<1> HIDE DEF w
<1>4. CASE at \div SecSize < k.fn.rel
  BY <1>1, <1>2, <1>3, <1>4 DEF Kin, CallFields, w
<1>5. CASE ~(at \div SecSize < k.fn.rel)
  BY <1>1, <1>2, <1>5 DEF Kin, CallFields
<1>. QED BY <1>4, <1>5

\* What is said of a run is about these.
LEMMA RunStays ==
    ASSUME NEW y, NEW k, RunAt(y, k), NEW m, m.fn.file = k.fn.file, m.fn.pos = k.fn.pos, m.left = k.left,
           m.from = k.from, m.first = k.first, m.run = k.run, m.wanted = k.wanted
    PROVE  RunAt(y, m)
BY DEF RunAt

LEMMA FnIs ==
    ASSUME NEW y, NEW fn, FnAt(y, fn)
    PROVE  /\ fn.cluster = FREE <=> fn.start = FREE
           /\ fn.start # FREE => fn.start \in Cluster /\ fn.cluster \in Cluster /\ Is(y, fn.file, fn.rel, fn.cluster)
                                 /\ Is(y, fn.file, 0, fn.start)
BY Marks DEF FnAt, EntryAt, Leads, Is

\* map_cluster.
LEMMA MapGoes ==
    ASSUME NEW y, NEW k, Going(k), Moving(y, k), NEW at, NEW ret, Wants(y, k, at, ret)
    PROVE  Goes(y, k, Map(k, at, ret))
<1> DEFINE m == Map(k, at, ret)
<1>1. /\ Kin(k, m) /\ m.fn.pos = k.fn.pos /\ m.fn.size = k.fn.size
      /\ m.pc = (IF k.fn.cluster = FREE THEN "map" ELSE "walk") /\ m.at = at /\ m.ret = ret
      /\ IF at \div SecSize < k.fn.rel THEN m.fn.cluster = k.fn.start /\ m.fn.rel = 0
         ELSE m.fn.cluster = k.fn.cluster /\ m.fn.rel = k.fn.rel
      /\ m.left = k.left /\ m.from = k.from /\ m.first = k.first /\ m.run = k.run /\ m.wanted = k.wanted
  BY MapFields
<1> HIDE DEF m
<1>2. /\ k.fn.cluster = FREE <=> k.fn.start = FREE
      /\ k.fn.start # FREE => Is(y, k.fn.file, 0, k.fn.start)
      /\ k.fn.start = FREE => k.fn.rel = 0
      /\ k.fn.rel \in Nat /\ k.left \in Nat /\ k.fn.pos \in Nat
  BY FnIs DEF Moving, FnAt
<1>3. at \in Nat /\ at \div SecSize \in Nat
  BY DivIs DEF Wants
<1>4. Moving(y, m)
  <2>1. CASE at \div SecSize < k.fn.rel
    <3>1. k.fn.start # FREE
      BY <1>2, <1>3, <2>1
    <3>2. Is(y, k.fn.file, m.fn.rel, m.fn.cluster) /\ m.fn.rel \in Nat
      BY <1>1, <1>2, <2>1, <3>1
    <3>. QED BY <1>1, <3>1, <3>2, MovesOnPlaced
  <2>2. CASE ~(at \div SecSize < k.fn.rel)
    BY <1>1, <1>2, <2>2, MovesOn
  <2>. QED BY <2>1, <2>2
<1>5. Wants(y, m, at, ret)
  <2>1. RunAt(y, k) => RunAt(y, m)
    BY <1>1, RunStays DEF Kin
  <2>. QED BY <1>1, <2>1 DEF Wants, Kin
<1>6. m.fn.rel <= m.at \div SecSize
  BY <1>1, <1>2, <1>3
<1>7. m.pc = "map" <=> m.fn.cluster = FREE
  BY <1>1, <1>2
<1>8. Mapping(y, m)
  BY <1>1, <1>5, <1>6, <1>7 DEF Mapping
<1>9. RwAt(y, m)
  BY <1>1, <1>4, <1>8 DEF RwAt
<1>. QED BY <1>1, <1>9 DEF Goes, RwPc, Kin, m

\* A call that returns, or goes to the transfer of a sector or a run.
LEMMA ReturnGoes ==
    ASSUME NEW y, NEW k, Going(k), Moving(y, k)
    PROVE  Goes(y, k, Return(k))
<1> DEFINE m == [k EXCEPT !.pc = "return"]
<1>1. Going(m) /\ Kin(k, m) /\ m.pc = "return" /\ m.fn = k.fn /\ \A x \in CallFields \ {"pc"} : m[x] = k[x]
  BY EndFields
<1>2. Return(k) = m
  BY DEF Return
<1> HIDE DEF m
<1>3. m.left = k.left
  BY <1>1 DEF CallFields
<1>4. Moving(y, m)
  BY <1>1, <1>3, MovesOn DEF Moving, FnAt
<1>. QED BY <1>1, <1>2, <1>4 DEF Goes, RwAt, Kin

LEMMA LoopGoes ==
    ASSUME NEW y, NEW k, Going(k), Moving(y, k)
    PROVE  Goes(y, k, Loop(k))
<1>1. CASE k.left = 0 \/ (k.mode = "read" /\ k.fn.pos >= k.fn.size)
  BY <1>1, ReturnGoes DEF Loop
<1>2. CASE ~(k.left = 0 \/ (k.mode = "read" /\ k.fn.pos >= k.fn.size))
  <2>1. Wants(y, k, k.fn.pos, "loop")
    BY <1>2 DEF Wants, MapReturn, Moving, FnAt, EntryAt
  <2>. QED BY <1>2, <2>1, MapGoes DEF Loop
<1>. QED BY <1>1, <1>2

LEMMA ShrinkGoes ==
    ASSUME NEW y, NEW k, Going(k), Moving(y, k), k.mode = "write", k.fn.size = k.fn.pos
    PROVE  Goes(y, k, ShrinkFile(k))
<1>1. CASE k.fn.pos = 0 /\ k.fn.cluster = FREE
  BY <1>1, ReturnGoes DEF ShrinkFile
<1>2. CASE ~(k.fn.pos = 0 /\ k.fn.cluster = FREE)
  <2> DEFINE at == IF k.fn.pos > 0 THEN k.fn.pos - 1 ELSE 0
  <2>1. at \in Nat /\ k.fn.pos \in Nat
    BY DEF Moving, FnAt
  <2>2. k.fn.start # FREE
    <3>1. CASE k.fn.cluster # FREE
      BY <3>1, FnIs DEF Moving
    <3>2. CASE k.fn.pos # 0
      <4>1. SUFFICES ASSUME k.fn.start = FREE PROVE FALSE
        OBVIOUS
      <4>2. y.len[k.fn.file] = 0 /\ k.fn.size <= y.len[k.fn.file] * SecSize /\ k.fn.size # 0 /\ k.fn.size \in Nat
        BY <3>2, <4>1 DEF Moving, FnAt, EntryAt, Leads
      <4>. QED BY <4>2, FatAssumption
    <3>. QED BY <1>2, <3>1, <3>2
  <2>3. Wants(y, k, at, "shrink")
    BY <2>1, <2>2 DEF Wants, MapReturn
  <2>. QED BY <1>2, <2>3, MapGoes DEF ShrinkFile
<1>. QED BY <1>1, <1>2

\* The size becomes the position.
LEMMA SizeFields ==
    ASSUME NEW k, Going(k), NEW z
    PROVE  LET m == Sized(k, z)
           IN  /\ Going(m) /\ Kin(k, m) /\ m.fn.size = z /\ m.fn.pos = k.fn.pos /\ m.fn.rel = k.fn.rel
               /\ m.fn.cluster = k.fn.cluster /\ \A x \in CallFields \ {"fn"} : m[x] = k[x]
<1> DEFINE g == [k.fn EXCEPT !.size = z]
<1>1. FnGood(g) /\ g.size = z /\ \A x \in FnFields \ {"size"} : g[x] = k.fn[x]
  BY DEF Going, FnGood, FnFields
<1>2. Sized(k, z) = [k EXCEPT !.fn = g]
  BY DEF Going, Shaped, CallFields, Sized
<1> HIDE DEF g
<1>3. [k EXCEPT !.fn = g].fn = g /\ Going([k EXCEPT !.fn = g]) /\ \A x \in CallFields \ {"fn"} : [k EXCEPT !.fn = g][x] = k[x]
  BY <1>1 DEF Going, Shaped, CallFields
<1>. QED BY <1>1, <1>2, <1>3 DEF Kin, FnFields, CallFields

LEMMA SizedMoves ==
    ASSUME NEW y, NEW k, Going(k), Moving(y, k), k.mode = "write",
           NEW z \in Nat, z <= y.len[k.fn.file] * SecSize
    PROVE  LET m == Sized(k, z)
           IN  Going(m) /\ Moving(y, m) /\ m.h = k.h /\ m.mode = k.mode /\ m.fn.size = z /\ m.fn.pos = k.fn.pos
<1> DEFINE m == Sized(k, z)
<1>1. /\ Going(m) /\ Kin(k, m) /\ m.fn.size = z /\ m.fn.pos = k.fn.pos /\ m.fn.rel = k.fn.rel
      /\ m.fn.cluster = k.fn.cluster /\ \A x \in CallFields \ {"fn"} : m[x] = k[x]
  BY SizeFields
<1> HIDE DEF m
<1>2. m.left = k.left
  BY <1>1 DEF CallFields
<1>3. Moving(y, m)
  BY <1>1, <1>2, MovesOnSized DEF Moving, FnAt
<1>. QED BY <1>1, <1>3 DEF m, Kin

LEMMA ExtendedGoes ==
    ASSUME NEW y, NEW k, Going(k), Moving(y, k), k.mode = "write" /\ k.count = 0 => k.fn.pos <= y.len[k.fn.file] * SecSize
    PROVE  Goes(y, k, Extended(k))
<1>1. CASE k.count > 0
  BY <1>1, LoopGoes DEF Extended
<1>2. CASE ~(k.count > 0) /\ k.mode = "read"
  BY <1>2, ReturnGoes DEF Extended
<1>3. CASE ~(k.count > 0) /\ k.mode # "read"
  <2> DEFINE m == Sized(k, k.fn.pos)
  <2>1. k.count = 0 /\ k.mode = "write" /\ k.fn.pos \in Nat
    BY <1>3 DEF Moving, FnAt
  <2>2. Going(m) /\ Moving(y, m) /\ m.h = k.h /\ m.mode = k.mode /\ m.fn.size = k.fn.pos /\ m.fn.pos = k.fn.pos
    BY <2>1, SizedMoves
  <2>3. Extended(k) = ShrinkFile(m)
    BY <1>3 DEF Extended, Sized
  <2> HIDE DEF m
  <2>. QED BY <2>1, <2>2, <2>3, ShrinkGoes DEF Goes
<1>. QED BY <1>1, <1>2, <1>3

\* The position moves, and with it the account of a run.
LEMMA SeekFields ==
    ASSUME NEW k, Going(k), NEW from, NEW first, NEW run, NEW wanted, NEW pos
    PROVE  LET m == Sought(k, from, first, run, wanted, pos)
           IN  /\ Going(m) /\ Kin(k, m) /\ m.fn.size = k.fn.size /\ m.fn.pos = pos /\ m.fn.rel = k.fn.rel
               /\ m.fn.cluster = k.fn.cluster /\ m.left = k.left
               /\ m.from = from /\ m.first = first /\ m.run = run /\ m.wanted = wanted
<1> DEFINE g == [k.fn EXCEPT !.pos = pos]
           d == [k EXCEPT !.from = from, !.first = first, !.run = run, !.wanted = wanted]
<1>1. FnGood(g) /\ g.pos = pos /\ \A x \in FnFields \ {"pos"} : g[x] = k.fn[x]
  BY DEF Going, FnGood, FnFields
<1>2. Sought(k, from, first, run, wanted, pos) = [d EXCEPT !.fn = g]
  BY DEF Going, Shaped, CallFields, Sought
<1>3. /\ Shaped(d) /\ \A x \in {"pc", "ret", "h", "mode", "count", "left", "at", "st", "fn"} : d[x] = k[x]
      /\ d.from = from /\ d.first = first /\ d.run = run /\ d.wanted = wanted
  BY DEF Going, Shaped, CallFields
<1> HIDE DEF g, d
<1> DEFINE m == [d EXCEPT !.fn = g]
<1>4. Going(m) /\ m.fn = g /\ \A x \in CallFields \ {"fn"} : m[x] = d[x]
  BY <1>1, <1>3 DEF Going, Shaped, CallFields
<1> HIDE DEF m
<1>5. m.left = k.left /\ m.h = k.h /\ m.mode = k.mode /\ m.count = k.count
  BY <1>3, <1>4 DEF CallFields
<1>6. m.from = from /\ m.first = first /\ m.run = run /\ m.wanted = wanted
  BY <1>3, <1>4 DEF CallFields
<1>7. Kin(k, m) /\ m.fn.size = k.fn.size /\ m.fn.pos = pos /\ m.fn.rel = k.fn.rel /\ m.fn.cluster = k.fn.cluster
  BY <1>1, <1>4, <1>5 DEF Kin, FnFields
<1>. QED BY <1>2, <1>4, <1>5, <1>6, <1>7 DEF m

LEMMA SeekMoves ==
    ASSUME NEW y, NEW k, Going(k), Moving(y, k), NEW from, NEW first, NEW run, NEW wanted, NEW pos \in Nat
    PROVE  LET m == Sought(k, from, first, run, wanted, pos)
           IN  /\ Going(m) /\ Moving(y, m) /\ m.h = k.h /\ m.fn.file = k.fn.file /\ m.fn.pos = pos /\ m.left = k.left
               /\ m.from = from /\ m.first = first /\ m.run = run /\ m.wanted = wanted
<1> DEFINE m == Sought(k, from, first, run, wanted, pos)
<1>1. /\ Going(m) /\ Kin(k, m) /\ m.fn.size = k.fn.size /\ m.fn.pos = pos /\ m.fn.rel = k.fn.rel
      /\ m.fn.cluster = k.fn.cluster /\ m.left = k.left
      /\ m.from = from /\ m.first = first /\ m.run = run /\ m.wanted = wanted
  BY SeekFields
<1> HIDE DEF m
<1>2. Moving(y, m)
  BY <1>1, MovesOn DEF Moving
<1>. QED BY <1>1, <1>2 DEF m, Kin

\* The end of a run is known.
LEMMA RunGoes ==
    ASSUME NEW y, NEW k, Going(k), Moving(y, k), RunAt(y, k)
    PROVE  Goes(y, k, [k EXCEPT !.pc = "run"])
<1> DEFINE m == [k EXCEPT !.pc = "run"]
<1>1. Going(m) /\ Kin(k, m) /\ m.pc = "run" /\ m.fn = k.fn /\ \A x \in CallFields \ {"pc"} : m[x] = k[x]
  BY EndFields
<1> HIDE DEF m
<1>2. m.left = k.left /\ m.from = k.from /\ m.first = k.first /\ m.run = k.run /\ m.wanted = k.wanted
  BY <1>1 DEF CallFields
<1>3. Moving(y, m)
  BY <1>1, <1>2, MovesOn DEF Moving, FnAt
<1>4. RunAt(y, m)
  BY <1>1, <1>2, RunStays
<1>. QED BY <1>1, <1>3, <1>4 DEF Goes, RwAt, Kin, RwPc, m

LEMMA GrowGoes ==
    ASSUME NEW y, NEW k, Going(k), Moving(y, k), RunAt(y, k)
    PROVE  Goes(y, k, Grow(k))
<1>1. CASE k.run < k.wanted
  <2>1. Wants(y, k, k.fn.pos, "run")
    BY <1>1 DEF Wants, MapReturn, Moving, FnAt
  <2>. QED BY <1>1, <2>1, MapGoes DEF Grow
<1>2. CASE ~(k.run < k.wanted)
  BY <1>2, RunGoes DEF Grow
<1>. QED BY <1>1, <1>2

LEMMA StartRunGoes ==
    ASSUME NEW y, NEW k, Going(k), Moving(y, k), k.fn.start # FREE, k.fn.rel = k.fn.pos \div SecSize,
           k.mode = "read" => k.fn.pos < k.fn.size
    PROVE  Goes(y, k, StartRun(k))
<1> DEFINE room == IF k.mode = "read" /\ k.left > k.fn.size - k.fn.pos THEN k.fn.size - k.fn.pos ELSE k.left
           wanted == room \div SecSize
<1>1. /\ k.fn.pos \in Nat /\ k.left \in Nat /\ k.fn.size \in Nat /\ k.fn.rel \in Nat
      /\ Is(y, k.fn.file, k.fn.rel, k.fn.cluster) /\ k.fn.cluster \in Cluster
  BY FnIs DEF Moving, FnAt, EntryAt
<1>2. room \in Nat /\ room <= k.left
  BY <1>1
<1> HIDE DEF room
<1>3. wanted \in Nat /\ wanted * SecSize <= k.left
  <2>1. wanted \in Nat /\ wanted * SecSize <= room /\ wanted * SecSize \in Nat
    BY <1>2, DivIs, PlaceIn, FatAssumption
  <2>. QED BY <1>1, <1>2, <2>1
<1> HIDE DEF wanted
<1>4. CASE k.fn.pos % SecSize # 0 \/ wanted = 0
  <2> DEFINE m == [k EXCEPT !.pc = "sector"]
  <2>1. Going(m) /\ Kin(k, m) /\ m.pc = "sector" /\ m.fn = k.fn /\ \A x \in CallFields \ {"pc"} : m[x] = k[x]
    BY EndFields
  <2>2. StartRun(k) = m
    BY <1>4 DEF StartRun, wanted, room
  <2> HIDE DEF m
  <2>3. m.left = k.left
    BY <2>1 DEF CallFields
  <2>4. Moving(y, m)
    BY <1>1, <2>1, <2>3, MovesOn
  <2>. QED BY <2>1, <2>2, <2>4 DEF Goes, RwAt, Kin, RwPc
<1>5. CASE ~(k.fn.pos % SecSize # 0 \/ wanted = 0)
  <2> DEFINE m == Sought(k, k.fn.pos, k.fn.cluster, 1, wanted, k.fn.pos + SecSize)
  <2>1. k.fn.pos + SecSize \in Nat
    BY <1>1, FatAssumption
  <2>2. /\ Going(m) /\ Moving(y, m) /\ m.h = k.h /\ m.fn.file = k.fn.file /\ m.fn.pos = k.fn.pos + SecSize /\ m.left = k.left
        /\ m.from = k.fn.pos /\ m.first = k.fn.cluster /\ m.run = 1 /\ m.wanted = wanted
    BY <2>1, SeekMoves
  <2>3. StartRun(k) = Grow(m)
    BY <1>5 DEF StartRun, wanted, room, Sought
  <2> HIDE DEF m
  <2>4. RunAt(y, m)
    <3>1. \A i \in 0 .. 0 : Is(y, m.fn.file, m.from \div SecSize + i, m.first + i)
      <4>1. m.from \div SecSize + 0 = k.fn.rel /\ m.first + 0 = k.fn.cluster
        <5>1. m.from \div SecSize = k.fn.rel /\ m.first = k.fn.cluster
          BY <2>2
        <5>. QED BY ONLY <5>1, <1>1, ClustersAreInts
      <4>2. \A i \in 0 .. 0 : i = 0
        OBVIOUS
      <4>. QED BY <1>1, <2>2, <4>1, <4>2
    <3>2. m.run - 1 = 0 /\ 1 * SecSize = SecSize /\ m.first \in Nat
      <4>1. m.run = 1 /\ m.first = k.fn.cluster
        BY <2>2
      <4>. QED BY ONLY <4>1, <1>1, ClustersAreInts, FatAssumption DEF Cluster
    <3>. QED BY <1>1, <1>3, <1>5, <2>2, <3>1, <3>2 DEF RunAt
  <2>. QED BY <2>2, <2>3, <2>4, GrowGoes DEF Goes
<1>. QED BY <1>4, <1>5

LEMMA GrowRunGoes ==
    ASSUME NEW y, NEW k, Going(k), Moving(y, k), RunAt(y, k), k.run < k.wanted,
           Is(y, k.fn.file, k.from \div SecSize + k.run, k.fn.cluster)
    PROVE  Goes(y, k, GrowRun(k))
<1>1. CASE k.fn.cluster # k.first + k.run
  BY <1>1, RunGoes DEF GrowRun
<1>2. CASE k.fn.cluster = k.first + k.run
  <2> DEFINE pos == k.from + (k.run + 1) * SecSize
             m == Sought(k, k.from, k.first, k.run + 1, k.wanted, pos)
  <2>1. k.from \in Nat /\ k.run \in Nat /\ k.run # 0 /\ k.wanted \in Nat
    BY DEF RunAt
  <2>2. pos \in Nat
    <3>1. k.run + 1 \in Nat
      BY <2>1
    <3>2. (k.run + 1) * SecSize \in Nat
      BY <3>1, Times
    <3>. QED BY <2>1, <3>2
  <2>3. [k EXCEPT !.run = @ + 1, !.fn.pos = pos] = m
    BY DEF Going, Shaped, CallFields, Sought
  <2>4. GrowRun(k) = Grow([k EXCEPT !.run = @ + 1, !.fn.pos = pos])
    BY <1>2 DEF GrowRun
  <2> HIDE DEF pos
  <2>5. /\ Going(m) /\ Moving(y, m) /\ m.h = k.h /\ m.fn.file = k.fn.file /\ m.fn.pos = pos /\ m.left = k.left
        /\ m.from = k.from /\ m.first = k.first /\ m.run = k.run + 1 /\ m.wanted = k.wanted
    BY <2>2, SeekMoves
  <2> HIDE DEF m
  <2>6. \A i \in 0 .. m.run - 1 : Is(y, m.fn.file, m.from \div SecSize + i, m.first + i)
    <3>1. SUFFICES ASSUME NEW i \in 0 .. m.run - 1 PROVE Is(y, m.fn.file, m.from \div SecSize + i, m.first + i)
      OBVIOUS
    <3>2. i \in 0 .. k.run - 1 \/ i = k.run
      BY <2>1, <2>5, <3>1
    <3>. QED BY <1>2, <2>5, <3>2 DEF RunAt
  <2>7. RunAt(y, m)
    <3>1. m.run \in Nat \ {0} /\ m.run <= m.wanted
      BY <2>1, <2>5
    <3>. QED BY <2>5, <2>6, <3>1 DEF RunAt, pos
  <2>. QED BY <2>3, <2>4, <2>5, <2>7, GrowGoes DEF Goes
<1>. QED BY <1>1, <1>2

\* After a transfer.
LEMMA AdvancedGoes ==
    ASSUME NEW y, NEW k, Going(k), Moving(y, k), NEW n \in Nat, n <= k.left,
           k.fn.pos <= y.len[k.fn.file] * SecSize
    PROVE  Goes(y, k, Advanced(k, n))
<1> DEFINE d == [k EXCEPT !.left = @ - n, !.from = 0, !.first = 0, !.run = 0, !.wanted = 0]
<1>1. Going(d) /\ Kin(k, d) /\ d.fn = k.fn /\ d.left = k.left - n
  BY DEF Going, Shaped, CallFields, Kin
<1>2. Advanced(k, n) = Loop(IF k.mode = "write" /\ k.fn.pos > k.fn.size THEN [d EXCEPT !.fn.size = k.fn.pos] ELSE d)
  BY DEF Advanced
<1> HIDE DEF d
<1>3. d.left \in Nat /\ k.fn.pos \in Nat
  BY <1>1 DEF Moving, FnAt
<1>4. Moving(y, d)
  BY <1>1, <1>3, MovesOn
<1>5. CASE k.mode = "write" /\ k.fn.pos > k.fn.size
  <2> DEFINE m == Sized(d, k.fn.pos)
  <2>1. Going(m) /\ Moving(y, m) /\ m.h = d.h
    <3>1. d.mode = "write" /\ k.fn.pos <= y.len[d.fn.file] * SecSize
      BY <1>1, <1>5 DEF Kin
    <3>. QED BY <1>1, <1>3, <1>4, <3>1, SizedMoves
  <2>2. Advanced(k, n) = Loop(m)
    BY <1>2, <1>5 DEF Sized
  <2> HIDE DEF m
  <2>. QED BY <1>1, <2>1, <2>2, LoopGoes DEF Goes, Kin
<1>6. CASE ~(k.mode = "write" /\ k.fn.pos > k.fn.size)
  <2>1. Advanced(k, n) = Loop(d)
    BY <1>2, <1>6
  <2>. QED BY <1>1, <1>4, <2>1, LoopGoes DEF Goes, Kin
<1>. QED BY <1>5, <1>6

\* A place inside the sector that was found is not behind the end of the chain.
LEMMA PlaceFits ==
    ASSUME NEW fat, NEW y, Laid(fat, y), NEW f \in File, NEW rel, NEW c, Is(y, f, rel, c)
    PROVE  /\ rel \in Nat /\ (rel + 1) * SecSize <= y.len[f] * SecSize /\ (rel + 1) * SecSize \in Nat
           /\ y.len[f] * SecSize \in Nat
           /\ \A p \in Nat : p \div SecSize = rel => p + 1 <= (rel + 1) * SecSize
<1>1. f \in Owner
  BY DEF Owner
<1>2. rel \in Nat /\ rel < y.len[f] /\ y.len[f] \in Nat
  BY <1>1, NextIs
<1>3. (rel + 1) * SecSize <= y.len[f] * SecSize /\ (rel + 1) * SecSize \in Nat /\ y.len[f] * SecSize \in Nat
  BY <1>2, Times
<1>4. ASSUME NEW p \in Nat, p \div SecSize = rel PROVE p + 1 <= (rel + 1) * SecSize
  <2>1. p < (rel + 1) * SecSize
    BY <1>2, <1>4, PlaceIn
  <2>. QED BY <1>3, <2>1
<1>. QED BY <1>2, <1>3, <1>4

LEMMA MappedGoes ==
    ASSUME NEW fat, NEW y, Laid(fat, y), NEW k, Going(k), Moving(y, k), Mapping(y, k),
           k.fn.start # FREE, k.fn.rel = k.at \div SecSize
    PROVE  Goes(y, k, Mapped(k))
<1> DEFINE d == [k EXCEPT !.at = 0, !.ret = None]
<1>1. /\ Going(d) /\ Kin(k, d) /\ d.fn = k.fn /\ d.left = k.left /\ d.from = k.from /\ d.first = k.first
      /\ d.run = k.run /\ d.wanted = k.wanted
  BY DEF Going, Shaped, CallFields, Kin
<1>2. /\ k.ret = "extend" => Mapped(k) = Extended(d)
      /\ k.ret = "loop" => Mapped(k) = StartRun(d)
      /\ k.ret = "run" => Mapped(k) = GrowRun(d)
      /\ k.ret = "shrink" => Mapped(k) = [d EXCEPT !.pc = "cut"]
  BY DEF Mapped
<1> HIDE DEF d
<1>3. /\ Is(y, k.fn.file, k.fn.rel, k.fn.cluster) /\ k.fn.file \in File /\ k.fn.pos \in Nat /\ k.fn.rel \in Nat
      /\ k.fn.size \in Nat /\ k.left \in Nat
  BY FnIs DEF Moving, FnAt, EntryAt
<1>4. /\ (k.fn.rel + 1) * SecSize <= y.len[k.fn.file] * SecSize /\ (k.fn.rel + 1) * SecSize \in Nat
      /\ y.len[k.fn.file] * SecSize \in Nat
      /\ \A p \in Nat : p \div SecSize = k.fn.rel => p + 1 <= (k.fn.rel + 1) * SecSize
  BY <1>3, PlaceFits
<1>5. k.at \in Nat /\ k.at + 1 <= (k.fn.rel + 1) * SecSize
  BY <1>4 DEF Mapping, Wants
<1>6. Moving(y, d)
  BY <1>1, <1>3, MovesOn
<1>7. CASE k.ret = "extend"
  <2>1. k.fn.pos <= y.len[k.fn.file] * SecSize
    BY <1>3, <1>4, <1>5, <1>7 DEF Mapping, Wants
  <2>. QED BY <1>1, <1>2, <1>6, <1>7, <2>1, ExtendedGoes DEF Goes, Kin
<1>8. CASE k.ret = "loop"
  <2>1. k.at = k.fn.pos /\ (k.mode = "read" => k.fn.pos < k.fn.size)
    BY <1>8 DEF Mapping, Wants
  <2>. QED BY <1>1, <1>2, <1>6, <1>8, <2>1, StartRunGoes DEF Goes, Kin
<1>9. CASE k.ret = "run"
  <2>1. k.at = k.fn.pos /\ RunAt(y, k) /\ k.run < k.wanted
    BY <1>9 DEF Mapping, Wants
  <2>2. RunAt(y, d)
    BY <1>1, <2>1, RunStays
  <2>3. k.at \div SecSize = k.from \div SecSize + k.run
    BY <2>1, RunPlace DEF RunAt
  <2>4. Is(y, d.fn.file, d.from \div SecSize + d.run, d.fn.cluster)
    BY <1>1, <1>3, <2>3
  <2>. QED BY <1>1, <1>2, <1>6, <1>9, <2>1, <2>2, <2>4, GrowRunGoes DEF Goes, Kin
<1>10. CASE k.ret = "shrink"
  <2> DEFINE m == [d EXCEPT !.pc = "cut"]
  <2>1. Going(m) /\ Kin(d, m) /\ m.pc = "cut" /\ m.fn = d.fn /\ \A x \in CallFields \ {"pc"} : m[x] = d[x]
    BY <1>1, EndFields
  <2> HIDE DEF m
  <2>2. m.left = d.left
    BY <2>1 DEF CallFields
  <2>3. Moving(y, m)
    BY <1>1, <1>3, <1>6, <2>1, <2>2, MovesOn
  <2>4. k.mode = "write" /\ k.fn.size = k.fn.pos /\ k.at = IF k.fn.size > 0 THEN k.fn.size - 1 ELSE 0
    BY <1>10 DEF Mapping, Wants
  <2>5. k.fn.size <= (k.fn.rel + 1) * SecSize
    BY <1>3, <1>4, <1>5, <2>4
  <2>6. k.fn.size = 0 => k.fn.rel = 0
    <3>1. 0 \div SecSize = 0
      BY FatAssumption
    <3>. QED BY <2>4, <3>1
  <2>7. RwAt(y, m)
    BY <1>1, <2>1, <2>3, <2>4, <2>5, <2>6 DEF RwAt, Kin
  <2>. QED BY <1>1, <1>2, <1>10, <2>1, <2>7 DEF Goes, RwPc, Kin, m
<1>11. k.ret \in MapReturn
  BY DEF Mapping, Wants
<1>. QED BY <1>7, <1>8, <1>9, <1>10, <1>11 DEF MapReturn

\* The chain ends, or an access fails, before the place is reached.
LEMMA NotMappedGoes ==
    ASSUME NEW fat, NEW y, Laid(fat, y), NEW k, Going(k), Moving(y, k), Wants(y, k, k.at, k.ret)
    PROVE  /\ RwAt(y, NotMapped(k)) /\ NotMapped(k).h = k.h
           /\ NotMapped(k).pc \in {"return", "run", "abandon"}
           /\ NotMapped(k).pc = "abandon" <=> k.ret = "shrink"
<1>1. CASE k.ret = "extend"
  <2>1. CASE k.fn.cluster = FREE
    <3>1. NotMapped(k) = Return(k)
      BY <1>1, <2>1 DEF NotMapped
    <3>2. Return(k).pc = "return"
      BY DEF Return, Going, Shaped, CallFields
    <3>. QED BY <1>1, <3>1, <3>2, ReturnGoes DEF Goes
  <2>2. CASE k.fn.cluster # FREE
    <3> DEFINE z == (k.fn.rel + 1) * SecSize
               m == Sized(k, z)
    <3>1. NotMapped(k) = Return(m)
      BY <1>1, <2>2 DEF NotMapped, Sized
    <3>2. Is(y, k.fn.file, k.fn.rel, k.fn.cluster) /\ k.fn.file \in File
      BY <2>2, FnIs DEF Moving, FnAt
    <3>3. z \in Nat /\ z <= y.len[k.fn.file] * SecSize
      BY <3>2, PlaceFits
    <3>4. k.mode = "write"
      BY <1>1 DEF Wants
    <3> HIDE DEF z
    <3>5. Going(m) /\ Moving(y, m) /\ m.h = k.h
      BY <3>3, <3>4, SizedMoves
    <3> HIDE DEF m
    <3>6. Return(m).pc = "return"
      BY <3>5 DEF Return, Going, Shaped, CallFields
    <3>. QED BY <1>1, <3>1, <3>5, <3>6, ReturnGoes DEF Goes
  <2>. QED BY <2>1, <2>2
<1>2. CASE k.ret = "loop"
  <2>1. NotMapped(k) = Return(k)
    BY <1>2 DEF NotMapped
  <2>2. Return(k).pc = "return"
    BY DEF Return, Going, Shaped, CallFields
  <2>. QED BY <1>2, <2>1, <2>2, ReturnGoes DEF Goes
<1>3. CASE k.ret = "run"
  <2>1. NotMapped(k) = [k EXCEPT !.pc = "run"]
    BY <1>3 DEF NotMapped
  <2>2. [k EXCEPT !.pc = "run"].pc = "run"
    BY DEF Going, Shaped, CallFields
  <2>3. RunAt(y, k)
    BY <1>3 DEF Wants
  <2>. QED BY <1>3, <2>1, <2>2, <2>3, RunGoes DEF Goes
<1>4. CASE k.ret = "shrink"
  <2> DEFINE m == [k EXCEPT !.pc = "abandon"]
  <2>1. Going(m) /\ Kin(k, m) /\ m.pc = "abandon" /\ m.fn = k.fn /\ \A x \in CallFields \ {"pc"} : m[x] = k[x]
    BY EndFields
  <2>2. NotMapped(k) = m
    BY <1>4 DEF NotMapped, Abandon
  <2> HIDE DEF m
  <2>3. m.left = k.left
    BY <2>1 DEF CallFields
  <2>4. Moving(y, m)
    BY <2>1, <2>3, MovesOn DEF Moving, FnAt
  <2>. QED BY <1>4, <2>1, <2>2, <2>4 DEF RwAt, Kin
<1>5. k.ret \in MapReturn
  BY DEF Wants
<1>. QED BY <1>1, <1>2, <1>3, <1>4, <1>5 DEF MapReturn

-----------------------------------------------------------------------------
(* Steps that leave most as it was.                                        *)

\* What is said of a file stays when the layout of others changes.
LEMMA SameFile ==
    ASSUME NEW y, NEW z, NEW O, SameBut(y, z, O), NEW f \in File \ O
    PROVE  /\ z.len[f] = y.len[f] /\ \A i, c : Is(y, f, i, c) => Is(z, f, i, c)
           /\ \A e : EntryAt(y, f, e) => EntryAt(z, f, e)
           /\ \A fn : fn.file = f /\ FnAt(y, fn) => FnAt(z, fn)
<1>1. f \in Owner \ O
  BY DEF Owner
<1>2. z.len[f] = y.len[f] /\ \A i, c : Is(y, f, i, c) => Is(z, f, i, c)
  BY <1>1 DEF SameBut
<1>3. \A e : EntryAt(y, f, e) => EntryAt(z, f, e)
  BY <1>2 DEF EntryAt, Leads
<1>4. \A fn : fn.file = f /\ FnAt(y, fn) => FnAt(z, fn)
  BY <1>2, <1>3 DEF FnAt
<1>. QED BY <1>2, <1>3, <1>4

LEMMA SameOthers ==
    ASSUME NEW y, NEW z, NEW O, SameBut(y, z, O), HandlesGood, NEW X, Others(y, X),
           \A h \in Handle \ X : Open(h) => sft[h].file \notin O
    PROVE  Others(z, X)
BY SameFile DEF Others, HandlesGood

LEMMA SameRest ==
    ASSUME NEW y, NEW z, NEW O, SameBut(y, z, O), NEW X, Rest(y, X),
           \A f \in File \ X : ~IsOpen(f) => f \notin O
    PROVE  Rest(z, X)
BY SameFile DEF Rest

LEMMA SameLoose ==
    ASSUME NEW y, NEW z, NEW O, SameBut(y, z, O), Loose \notin O
    PROVE  z.len[Loose] = y.len[Loose] /\ \A k : LooseAt(y, k) => LooseAt(z, k)
BY DEF SameBut, Owner, LooseAt

\* A file of a call in progress is open, or its handle is not opened yet.
LEMMA OpenRests ==
    ASSUME NEW y, NEW f, IsOpen(f), Rest(y, {f})
    PROVE  Rest(y, {})
BY DEF Rest

LEMMA RestsLess ==
    ASSUME NEW y, Rest(y, {}), NEW X
    PROVE  Rest(y, X)
BY DEF Rest

LEMMA OthersLess ==
    ASSUME NEW y, Others(y, {}), NEW X
    PROVE  Others(y, X)
BY DEF Others

\* What an fnode holds is no mark.
LEMMA NoMark ==
    ASSUME NEW fn, FnGood(fn), fn.file \in File, fn.size \in Nat, fn.pos \in Nat, fn.rel \in Nat, fn.clean \in BOOLEAN
    PROVE  fn \notin {None, Orphan}
<1>1. fn.start \in Int /\ fn.cluster \in Int
  BY Marks DEF FnGood, Start, FREE
<1>2. fn = [file |-> fn.file, start |-> fn.start, size |-> fn.size, pos |-> fn.pos, cluster |-> fn.cluster,
            rel |-> fn.rel, clean |-> fn.clean]
  BY DEF FnGood, FnFields
<1>3. fn.size \in Int /\ fn.pos \in Int /\ fn.rel \in Int
  OBVIOUS
<1>4. fn \in [file : File, start : Int, size : Int, pos : Int, cluster : Int, rel : Int, clean : BOOLEAN]
  BY <1>1, <1>2, <1>3
<1>. QED BY <1>4, MarksAssumption

\* What the end of a call leaves of it.
LEMMA RewoundFields ==
    ASSUME NEW fn, FnGood(fn)
    PROVE  LET g == [fn EXCEPT !.pos = 0]
           IN  /\ FnGood(g) /\ g.file = fn.file /\ g.start = fn.start /\ g.size = fn.size /\ g.pos = 0
               /\ g.cluster = fn.cluster /\ g.rel = fn.rel /\ g.clean = fn.clean
BY DEF FnGood, FnFields

LEMMA RewoundIsAt ==
    ASSUME NEW y, NEW fn, FnGood(fn), FnAt(y, fn)
    PROVE  LET g == [fn EXCEPT !.pos = 0]
           IN  FnAt(y, g) /\ g \notin {None, Orphan} /\ g.file = fn.file /\ (Clean(fn) => Clean(g)) /\ g.clean = fn.clean
<1> DEFINE g == [fn EXCEPT !.pos = 0]
<1>1. /\ FnGood(g) /\ g.file = fn.file /\ g.start = fn.start /\ g.size = fn.size /\ g.pos = 0
      /\ g.cluster = fn.cluster /\ g.rel = fn.rel /\ g.clean = fn.clean
  BY RewoundFields
<1> HIDE DEF g
<1>2. FnAt(y, g)
  BY <1>1 DEF FnAt, EntryAt
<1>3. g \notin {None, Orphan}
  BY <1>1, <1>2, NoMark DEF FnAt, EntryAt
<1>. QED BY <1>1, <1>2, <1>3 DEF g, Clean

\* The state after a step is laid out when its parts are.
LEMMA Assembled ==
    ASSUME NEW w, Laid(vol'.fat, w), Kept(vol'.fat, w, faults'), HandlesGood', NEW k, call' = k,
           Others(w, Busy(k))', Rest(w, Held(k))', CallAt(w, k)'
    PROVE  WellLaid(w)'
<1>1. Laid(vol.fat, w)' /\ Kept(vol.fat, w, faults)'
  BY DEF Laid, Kept
<1>2. Others(w, Busy(call))' /\ Rest(w, Held(call))' /\ CallAt(w, call)'
  OBVIOUS
<1>. QED BY <1>1, <1>2 DEF WellLaid

\* The handles when one of them is written back.
LEMMA PutBack ==
    ASSUME SftGood(sft), HandlesGood, NEW h \in Handle, Open(h), NEW g, g \notin {None, Orphan},
           g.file = sft[h].file, Clean(g), dir' = dir, sft' = [sft EXCEPT ![h] = g]
    PROVE  /\ HandlesGood'
           /\ \A f \in File : IsOpen(f)' <=> IsOpen(f)
           /\ \A i \in Handle : Open(i)' <=> Open(i)
           /\ \A i \in Handle : sft'[i] = IF i = h THEN g ELSE sft[i]
<1>1. \A i \in Handle : sft'[i] = IF i = h THEN g ELSE sft[i]
  BY DEF SftGood
<1>2. \A i \in Handle : Open(i)' <=> Open(i)
  BY <1>1 DEF Open
<1>3. \A i \in Handle : Open(i) => sft'[i].file = sft[i].file
  BY <1>1
<1>4. \A f \in File : IsOpen(f)' <=> IsOpen(f)
  BY <1>2, <1>3 DEF IsOpen
<1>5. HandlesGood'
  <2>1. ASSUME NEW i \in Handle, Open(i)'
        PROVE  sft'[i].file \in File /\ dir'[sft'[i].file] # None /\ Clean(sft[i])'
    <3>1. Open(i) /\ sft[i].file \in File /\ dir[sft[i].file] # None /\ Clean(sft[i])
      BY <1>2, <2>1 DEF HandlesGood
    <3>2. CASE i = h
      BY <1>1, <1>3, <3>1, <3>2 DEF Clean
    <3>3. CASE i # h
      BY <1>1, <1>3, <3>1, <3>3 DEF Clean
    <3>. QED BY <3>2, <3>3
  <2>2. ASSUME NEW i \in Handle, NEW j \in Handle, Open(i)', Open(j)', sft'[i].file = sft'[j].file
        PROVE  i = j
    BY <1>2, <1>3, <2>2 DEF HandlesGood
  <2>. QED BY <2>1, <2>2 DEF HandlesGood
<1>. QED BY <1>1, <1>2, <1>4, <1>5

LEMMA StillGood ==
    ASSUME dir' = dir, sft' = sft
    PROVE  /\ HandlesGood => HandlesGood'
           /\ \A f \in File : IsOpen(f)' <=> IsOpen(f)
BY DEF HandlesGood, Open, Clean, IsOpen

LEMMA StillLaid ==
    ASSUME dir' = dir, sft' = sft, NEW y, NEW X
    PROVE  (Others(y, X) => Others(y, X)') /\ (Rest(y, X) => Rest(y, X)')
<1>1. Others(y, X) => Others(y, X)'
  BY DEF Others, Open
<1>2. Rest(y, X) => Rest(y, X)'
  BY StillGood DEF Rest
<1>. QED BY <1>1, <1>2

LEMMA StillRw ==
    ASSUME dir' = dir, sft' = sft, NEW y, NEW k, RwAt(y, k)
    PROVE  RwAt(y, k)'
BY DEF RwAt, Moving, Open, Clean

\* A read or write goes on, returns or stops: what is true of the call is then
\* true of the handle.
LEMMA CallGoesOn ==
    ASSUME SftGood(sft), HandlesGood, dir' = dir,
           NEW z, Laid(vol'.fat, z), Kept(vol'.fat, z, faults'), z.len[Loose] = 0,
           NEW k, CallGood(k), RwAt(z, k), Become(k), k.pc \in RwPc \cup {"return", "abandon"},
           Others(z, {k.h}), Rest(z, {}),
           k.pc # "return" => Stale(z, sft[k.h]),
           k.pc = "abandon" => faults' # 0
    PROVE  \E w : WellLaid(w)'
<1>1. /\ k.h \in Handle /\ Open(k.h) /\ sft[k.h].file = k.fn.file /\ k.fn.file \in File
      /\ FnAt(z, k.fn) /\ Clean(k.fn)
  BY DEF RwAt, Moving, FnAt
<1>2. FnGood(k.fn)
  BY DEF CallGood, RwPc
<1>3. NoCall.pc = "idle" /\ NoCall.st = 0
  BY DEF NoCall
<1>4. CASE k.pc \in RwPc
  <2>1. call' = k /\ sft' = sft
    BY <1>4 DEF Become, RwPc
  <2>2. HandlesGood' /\ Others(z, {k.h})' /\ RwAt(z, k)'
    BY <2>1, StillGood, StillLaid, StillRw
  <2>3. Rest(z, {k.fn.file})'
    BY <2>1, RestsLess, StillLaid
  <2>4. Busy(k) = {k.h} /\ Held(k) = {k.fn.file}
    BY <1>4 DEF Busy, InRw, Held, RwPc
  <2>5. CallAt(z, k)'
    <3>1. Stale(z, sft[k.h])'
      BY <1>4, <2>1 DEF RwPc, Stale
    <3>2. LooseAt(z, k)
      BY <1>4 DEF LooseAt, RwPc
    <3>3. ~Shrinking(k) /\ ~Naming(k) /\ k.pc # "move"
      BY <1>4 DEF RwPc, Shrinking, Naming
    <3>. QED BY <2>2, <3>1, <3>2, <3>3 DEF CallAt
  <2>. QED BY <2>1, <2>2, <2>3, <2>4, <2>5, Assembled
<1>5. \A w : w.len[Loose] = 0 => CallAt(w, NoCall)'
  BY <1>3 DEF CallAt, LooseAt, InRw, Shrinking, Naming, RwPc
<1>6. Busy(NoCall) = {} /\ Held(NoCall) = {}
  BY <1>3 DEF Busy, Held, InRw, Shrinking, RwPc
<1>7. CASE k.pc = "return"
  <2> DEFINE g == [k.fn EXCEPT !.pos = 0]
  <2>1. call' = NoCall /\ sft' = [sft EXCEPT ![k.h] = g]
    BY <1>7 DEF Become
  <2>2. FnAt(z, g) /\ g \notin {None, Orphan} /\ g.file = sft[k.h].file /\ Clean(g)
    BY <1>1, <1>2, RewoundIsAt
  <2> HIDE DEF g
  <2>3. /\ HandlesGood' /\ \A f \in File : IsOpen(f)' <=> IsOpen(f)
        /\ \A i \in Handle : Open(i)' <=> Open(i)
        /\ \A i \in Handle : sft'[i] = IF i = k.h THEN g ELSE sft[i]
    <3>1. k.h \in Handle /\ Open(k.h) /\ sft' = [sft EXCEPT ![k.h] = g]
      BY <1>1, <2>1
    <3>2. g \notin {None, Orphan} /\ g.file = sft[k.h].file /\ Clean(g)
      BY <2>2
    <3>. QED BY <3>1, <3>2, PutBack
  <2>4. Others(z, {})'
    BY <2>2, <2>3 DEF Others
  <2>5. Rest(z, {})'
    BY <2>3 DEF Rest
  <2>. QED BY <1>5, <1>6, <2>1, <2>3, <2>4, <2>5, Assembled
<1>8. CASE k.pc = "abandon"
  <2>1. call' = NoCall /\ sft' = sft /\ faults' # 0
    BY <1>8 DEF Become
  <2>2. HandlesGood' /\ \A f \in File : IsOpen(f)' <=> IsOpen(f)
    BY <2>1, StillGood
  <2>3. CASE FnAt(z, sft[k.h])
    <3>1. Others(z, {})
      BY <2>3 DEF Others
    <3>2. Others(z, {})' /\ Rest(z, {})'
      BY <2>1, <3>1, StillLaid
    <3>. QED BY <1>5, <1>6, <2>1, <2>2, <3>2, Assembled
  <2>4. CASE Blank(sft[k.h])
    <3> DEFINE f == k.fn.file
               w == Drop(z, f)
    <3>1. f \in Owner /\ f # Loose /\ f \in File
      BY <1>1, Outsiders DEF Owner
    <3>2. Laid(vol'.fat, w) /\ SameBut(z, w, {f}) /\ w.len[f] = 0
      BY <3>1, DropIsLaid
    <3> HIDE DEF w
    <3>3. Others(w, {k.h})
      <4>1. \A h \in Handle \ {k.h} : Open(h) => sft[h].file \notin {f}
        BY <1>1 DEF HandlesGood
      <4>. QED BY <3>2, <4>1, SameOthers
    <3>4. Rest(w, {})
      <4>1. IsOpen(f)
        BY <1>1 DEF IsOpen
      <4>. QED BY <3>2, <4>1, SameRest
    <3>5. FnAt(w, sft[k.h])
      BY <1>1, <2>4, <3>2, FatAssumption DEF FnAt, Blank, EntryAt, Leads
    <3>6. Others(w, {})
      BY <3>3, <3>5 DEF Others
    <3>7. Others(w, {})' /\ Rest(w, {})'
      BY <2>1, <3>4, <3>6, StillLaid
    <3>8. w.len[Loose] = 0
      BY <3>1, <3>2, SameLoose
    <3>9. Kept(vol'.fat, w, faults')
      BY <2>1 DEF Kept
    <3>. QED BY <1>5, <1>6, <2>1, <2>2, <3>2, <3>7, <3>8, <3>9, Assembled
  <2>. QED BY <1>8, <2>3, <2>4 DEF Stale
<1>. QED BY <1>4, <1>7, <1>8

-----------------------------------------------------------------------------
(* The steps of a read or write.                                           *)

LEMMA KeptOn ==
    ASSUME IInv, Works \/ Fails, NEW fat, NEW y, Kept(fat, y, faults)
    PROVE  Kept(fat, y, faults') /\ (faults' = 0 => faults = 0) /\ (Fails => faults' # 0)
<1>1. (faults' = 0 => faults = 0) /\ (Fails => faults' # 0)
  BY DEF IInv, Works, Fails
<1>. QED BY <1>1 DEF Kept

\* What is known during a read or write.
LEMMA RwFacts ==
    ASSUME IInv, NEW y, WellLaid(y), InRw(call)
    PROVE  /\ Going(call) /\ RwAt(y, call) /\ Moving(y, call) /\ SftGood(sft) /\ HandlesGood
           /\ Laid(vol.fat, y) /\ Kept(vol.fat, y, faults)
           /\ Others(y, {call.h}) /\ Rest(y, {}) /\ IsOpen(call.fn.file) /\ call.fn.file \in File
           /\ call.h \in Handle /\ Open(call.h) /\ sft[call.h].file = call.fn.file
           /\ call.pc \in RwPc => y.len[Loose] = 0 /\ Stale(y, sft[call.h])
<1>1. call.pc # "idle" /\ Held(call) = {call.fn.file} /\ Busy(call) = {call.h}
  BY DEF InRw, RwPc, Shrinking, Held, Busy
<1>2. RwAt(y, call) /\ Moving(y, call)
  BY DEF WellLaid, CallAt, RwAt
<1>3. IsOpen(call.fn.file) /\ call.fn.file \in File /\ call.h \in Handle /\ Open(call.h) /\ sft[call.h].file = call.fn.file
  BY <1>2 DEF Moving, IsOpen, FnAt
<1>4. Rest(y, {})
  BY <1>1, <1>3, OpenRests DEF WellLaid
<1>5. call.pc \in RwPc => y.len[Loose] = 0 /\ Stale(y, sft[call.h])
  BY DEF WellLaid, CallAt, LooseAt, RwPc
<1>. QED BY <1>1, <1>2, <1>3, <1>4, <1>5 DEF WellLaid, IInv, Going, CallGood

\* A step of a read or write that leaves the volume as it is.
LEMMA QuietGoesOn ==
    ASSUME IInv, NEW y, WellLaid(y), InRw(call), y.len[Loose] = 0, Works \/ Fails, UNCHANGED <<vol, dir>>,
           NEW k, CallGood(k), RwAt(y, k), Become(k), k.h = call.h,
           k.pc \in RwPc \cup {"return", "abandon"},
           k.pc # "return" => call.pc \in RwPc,
           k.pc = "abandon" => Fails
    PROVE  \E w : WellLaid(w)'
<1>1. /\ SftGood(sft) /\ HandlesGood /\ Laid(vol.fat, y) /\ Kept(vol.fat, y, faults) /\ Others(y, {call.h}) /\ Rest(y, {})
      /\ call.pc \in RwPc => Stale(y, sft[call.h])
  BY RwFacts
<1>2. Kept(vol.fat, y, faults') /\ (Fails => faults' # 0)
  BY <1>1, KeptOn
<1>3. dir' = dir /\ vol' = vol
  OBVIOUS
<1>. QED BY <1>1, <1>2, <1>3, CallGoesOn

LEMMA QuietGoes ==
    ASSUME IInv, NEW y, WellLaid(y), call.pc \in RwPc, Works \/ Fails, UNCHANGED <<vol, dir>>,
           NEW k, CallGood(k), Goes(y, call, k), Become(k)
    PROVE  \E w : WellLaid(w)'
<1>1. InRw(call) /\ y.len[Loose] = 0
  BY RwFacts DEF InRw
<1>2. RwAt(y, k) /\ k.h = call.h /\ k.pc \in RwPc \cup {"return", "abandon"} /\ k.pc # "abandon"
  BY DEF Goes, RwPc
<1>. QED BY <1>1, <1>2, QuietGoesOn

LEMMA ArriveKeeps ==
    ASSUME IInv, NEW y, WellLaid(y), Arrive
    PROVE  \E w : WellLaid(w)'
<1>1. InRw(call) /\ call.pc \in RwPc /\ call.pc = "walk"
  BY DEF Arrive, InRw, RwPc
<1>2. /\ Going(call) /\ RwAt(y, call) /\ Moving(y, call) /\ Laid(vol.fat, y) /\ y.len[Loose] = 0
  BY <1>1, RwFacts
<1>3. Mapping(y, call)
  BY <1>1, <1>2 DEF RwAt
<1>4. call.fn.start # FREE /\ call.fn.rel = call.at \div SecSize
  BY <1>1, <1>2, <1>3, FnIs DEF Arrive, Target, Mapping, Moving
<1>5. Goes(y, call, Mapped(call))
  BY <1>2, <1>3, <1>4, MappedGoes
<1>6. CallGood(Mapped(call))
  BY <1>1, MappedIsGood DEF IInv, CallGood, Going
<1>7. Become(Mapped(call)) /\ Works /\ UNCHANGED <<vol, dir>>
  BY DEF Arrive, Works
<1>. QED BY <1>1, <1>5, <1>6, <1>7, QuietGoes

LEMMA WalkKeeps ==
    ASSUME IInv, NEW y, WellLaid(y), WalkChain
    PROVE  \E w : WellLaid(w)'
<1>1. InRw(call) /\ call.pc \in RwPc /\ call.pc = "walk"
  BY DEF WalkChain, InRw, RwPc
<1>2. /\ Going(call) /\ RwAt(y, call) /\ Moving(y, call) /\ Laid(vol.fat, y) /\ y.len[Loose] = 0
      /\ call.fn.file \in File
  BY <1>1, RwFacts
<1>3. Mapping(y, call) /\ Wants(y, call, call.at, call.ret) /\ call.ret \in MapReturn
  BY <1>1, <1>2 DEF RwAt, Mapping, Wants
<1>4. call.fn.start # FREE /\ Is(y, call.fn.file, call.fn.rel, call.fn.cluster) /\ call.fn.rel \in Nat
  BY <1>1, <1>2, <1>3, FnIs DEF Mapping, Moving, FnAt
<1>5. PICK next \in {NextCluster(vol.fat, call.fn.cluster), Error} :
          /\ IF next = NextCluster(vol.fat, call.fn.cluster) THEN Works ELSE Fails
          /\ ~(next = LAST /\ Growing)
          /\ Become(IF next \in Cluster THEN Put(call, next, call.fn.rel + 1) ELSE NotMapped(call))
  BY DEF WalkChain
<1>6. UNCHANGED <<vol, dir>>
  BY DEF WalkChain
<1>7. /\ call.fn.rel + 1 # y.len[call.fn.file] => Is(y, call.fn.file, call.fn.rel + 1, vol.fat[call.fn.cluster])
      /\ call.fn.rel + 1 = y.len[call.fn.file] => vol.fat[call.fn.cluster] = LAST
      /\ NextCluster(vol.fat, call.fn.cluster) = vol.fat[call.fn.cluster]
      /\ vol.fat[call.fn.cluster] \in Cluster \cup {LAST}
  <2>1. call.fn.file \in Owner
    BY <1>2 DEF Owner
  <2>2. /\ IF call.fn.rel + 1 = y.len[call.fn.file] THEN vol.fat[call.fn.cluster] = LAST
           ELSE Is(y, call.fn.file, call.fn.rel + 1, vol.fat[call.fn.cluster])
        /\ vol.fat[call.fn.cluster] \in Cluster \cup {LAST}
    BY <1>2, <1>4, <2>1, NextIs
  <2>3. NextCluster(vol.fat, call.fn.cluster) = vol.fat[call.fn.cluster]
    BY <1>2, <1>4, <2>1, NextFollows
  <2>. QED BY <2>2, <2>3
<1>8. CASE next \in Cluster
  <2> DEFINE k == Put(call, next, call.fn.rel + 1)
  <2>1. next = vol.fat[call.fn.cluster] /\ Is(y, call.fn.file, call.fn.rel + 1, next) /\ Works
    BY <1>5, <1>7, <1>8, Marks
  <2>2. /\ Kin(call, k) /\ k.fn.cluster = next /\ k.fn.rel = call.fn.rel + 1 /\ k.fn.pos = call.fn.pos /\ k.fn.size = call.fn.size
        /\ \A f \in CallFields \ {"fn"} : k[f] = call[f]
    BY <1>2, PutFields
  <2>3. Become(k)
    BY <1>5, <1>8
  <2>4. next \in Start /\ next # FREE
    BY <1>8, Marks DEF Start
  <2>5. Going(k)
    BY <1>2, <1>4, <2>4, PutIsGood
  <2> HIDE DEF k
  <2>6. /\ k.left = call.left /\ k.pc = "walk" /\ k.at = call.at /\ k.ret = call.ret /\ k.from = call.from
        /\ k.first = call.first /\ k.run = call.run /\ k.wanted = call.wanted
    BY <1>1, <2>2 DEF CallFields
  <2>7. CallGood(k)
    BY <1>3, <2>2, <2>4, <2>5, <2>6 DEF CallGood, Going
  <2>8. Moving(y, k)
    BY <1>2, <1>4, <2>1, <2>2, <2>6, MovesOnPlaced
  <2>9. Wants(y, k, k.at, k.ret)
    <3>1. RunAt(y, call) => RunAt(y, k)
      BY <2>2, <2>6, RunStays DEF Kin
    <3>. QED BY <1>3, <2>2, <2>6, <3>1 DEF Wants, Kin
  <2>10. k.fn.rel <= k.at \div SecSize
    <3>1. call.at \div SecSize \in Nat
      BY <1>3, DivIs DEF Wants
    <3>2. call.fn.rel # call.at \div SecSize /\ call.fn.rel <= call.at \div SecSize
      BY <1>3 DEF Mapping, WalkChain, Target
    <3>. QED BY <1>4, <2>2, <2>6, <3>1, <3>2
  <2>11. RwAt(y, k)
    BY <2>2, <2>4, <2>6, <2>8, <2>9, <2>10 DEF RwAt, Mapping
  <2>. QED BY <1>1, <1>2, <1>6, <2>1, <2>2, <2>3, <2>6, <2>7, <2>11, QuietGoesOn DEF Kin, RwPc
<1>9. CASE next \notin Cluster
  <2> DEFINE k == NotMapped(call)
  <2>1. Become(k)
    BY <1>5, <1>9
  <2>2. Works \/ Fails
    BY <1>5
  <2>3. /\ RwAt(y, k) /\ k.h = call.h /\ k.pc \in {"return", "run", "abandon"} /\ (k.pc = "abandon" <=> call.ret = "shrink")
    BY <1>2, <1>3, NotMappedGoes
  <2>4. CallGood(k)
    BY <1>2, <1>3, NotMappedIsGood
  <2>5. call.ret = "shrink" => Fails
    <3>1. SUFFICES ASSUME call.ret = "shrink", next = NextCluster(vol.fat, call.fn.cluster) PROVE FALSE
      BY <1>5
    <3>2. call.fn.rel + 1 = y.len[call.fn.file]
      BY <1>7, <1>9, <3>1, Marks DEF Is
    <3>3. /\ call.fn.size = call.fn.pos /\ call.fn.pos \in Nat /\ call.at = IF call.fn.size > 0 THEN call.fn.size - 1 ELSE 0
          /\ call.fn.size <= y.len[call.fn.file] * SecSize /\ call.at \in Nat
      BY <1>2, <1>3, <3>1 DEF Wants, Moving, FnAt, EntryAt
    <3>4. call.at \div SecSize # call.fn.rel /\ call.fn.rel <= call.at \div SecSize /\ call.at \div SecSize \in Nat
      BY <1>3, <3>3, DivIs DEF WalkChain, Target, Mapping
    <3>5. y.len[call.fn.file] \in Nat /\ y.len[call.fn.file] * SecSize \in Nat /\ y.len[call.fn.file] # 0
      BY <1>4, <3>2, Times
    <3>6. call.at < y.len[call.fn.file] * SecSize
      <4>1. y.len[call.fn.file] * SecSize > 0
        BY <3>5, FatAssumption
      <4>. QED BY <3>3, <3>5, <4>1
    <3>7. call.at \div SecSize < y.len[call.fn.file]
      BY <3>3, <3>5, <3>6, PlaceIn
    <3>. QED BY <1>4, <3>2, <3>4, <3>5, <3>7
  <2> HIDE DEF k
  <2>. QED BY <1>1, <1>2, <1>6, <2>1, <2>2, <2>3, <2>4, <2>5, QuietGoesOn DEF RwPc
<1>. QED BY <1>8, <1>9

LEMMA DoRunKeeps ==
    ASSUME IInv, NEW y, WellLaid(y), DoRun
    PROVE  \E w : WellLaid(w)'
<1>1. InRw(call) /\ call.pc \in RwPc /\ call.pc = "run"
  BY DEF DoRun, InRw, RwPc
<1>2. /\ Going(call) /\ RwAt(y, call) /\ Moving(y, call) /\ Laid(vol.fat, y) /\ RunAt(y, call)
      /\ call.fn.file \in File
  BY <1>1, RwFacts DEF RwAt
<1>3. UNCHANGED <<vol, dir>>
  BY DEF DoRun
<1>4. CASE Works /\ Become(Advanced(call, call.run * SecSize))
  <2> DEFINE n == call.run * SecSize
  <2>1. /\ call.from \in Nat /\ call.from % SecSize = 0 /\ call.run \in Nat /\ call.run # 0 /\ call.wanted \in Nat
        /\ call.run <= call.wanted /\ call.wanted * SecSize <= call.left /\ call.left \in Nat
        /\ call.fn.pos = call.from + n
        /\ \A i \in 0 .. call.run - 1 : Is(y, call.fn.file, call.from \div SecSize + i, call.first + i)
    BY <1>2 DEF RunAt, Moving
  <2>2. n \in Nat /\ n <= call.left
    <3>1. n \in Nat /\ call.wanted * SecSize \in Nat /\ n <= call.wanted * SecSize
      BY <2>1, Times
    <3> HIDE DEF n
    <3>. QED BY <2>1, <3>1
  <2>3. call.fn.pos <= y.len[call.fn.file] * SecSize
    <3> DEFINE rel == call.from \div SecSize + (call.run - 1)
    <3>1. call.run - 1 \in 0 .. call.run - 1
      BY <2>1
    <3>2. Is(y, call.fn.file, rel, call.first + (call.run - 1))
      BY <2>1, <3>1
    <3>3. rel \in Nat /\ (rel + 1) * SecSize <= y.len[call.fn.file] * SecSize
      BY <1>2, <3>2, PlaceFits
    <3>4. call.from \div SecSize \in Nat
      BY <2>1, DivIs
    <3>5. rel + 1 = call.from \div SecSize + call.run
      BY <2>1, <3>4
    <3>6. call.fn.pos = (call.from \div SecSize + call.run) * SecSize
      BY <2>1, RunPlace
    <3> HIDE DEF rel
    <3>. QED BY <3>3, <3>5, <3>6
  <2> HIDE DEF n
  <2>4. Goes(y, call, Advanced(call, n))
    BY <1>2, <2>2, <2>3, AdvancedGoes
  <2>5. CallGood(Advanced(call, n))
    BY <1>2, AdvancedIsGood
  <2>6. Become(Advanced(call, n))
    BY <1>4 DEF n
  <2>. QED BY <1>1, <1>3, <1>4, <2>4, <2>5, <2>6, QuietGoes
<1>5. CASE Fails /\ Become(Return([call EXCEPT !.fn.pos = call.from]))
  <2> DEFINE d == Sought(call, call.from, call.first, call.run, call.wanted, call.from)
  <2>1. d = [call EXCEPT !.fn.pos = call.from]
    BY <1>2 DEF Going, Shaped, CallFields, Sought
  <2>2. Become(Return(d))
    BY <1>5, <2>1
  <2>3. call.from \in Nat
    BY <1>2 DEF RunAt
  <2> HIDE DEF d
  <2>4. Going(d) /\ Moving(y, d) /\ d.h = call.h
    BY <1>2, <2>3, SeekMoves DEF d
  <2>5. Goes(y, call, Return(d))
    BY <2>4, ReturnGoes DEF Goes
  <2>6. CallGood(Return(d))
    BY <2>4, EndsAreGood
  <2>. QED BY <1>1, <1>3, <1>5, <2>2, <2>5, <2>6, QuietGoes
<1>. QED BY <1>4, <1>5 DEF DoRun

LEMMA DoSectorKeeps ==
    ASSUME IInv, NEW y, WellLaid(y), DoSector
    PROVE  \E w : WellLaid(w)'
<1>1. InRw(call) /\ call.pc \in RwPc /\ call.pc = "sector"
  BY DEF DoSector, InRw, RwPc
<1>2. /\ Going(call) /\ RwAt(y, call) /\ Moving(y, call) /\ Laid(vol.fat, y)
      /\ call.fn.file \in File
  BY <1>1, RwFacts
<1>3. UNCHANGED <<vol, dir>>
  BY DEF DoSector
<1> DEFINE room == SecSize - (call.fn.pos % SecSize)
           upto == IF call.left < room THEN call.left ELSE room
           rest == call.fn.size - call.fn.pos
           n    == IF call.mode = "read" /\ rest < upto THEN rest ELSE upto
<1>4. CASE Works /\ Become(Advanced([call EXCEPT !.fn.pos = @ + n], n))
  <2> DEFINE pos == call.fn.pos
             end == (call.fn.rel + 1) * SecSize
  <2>1. /\ pos \in Nat /\ call.left \in Nat /\ call.fn.size \in Nat
        /\ call.mode = "read" => pos < call.fn.size
        /\ call.fn.rel = pos \div SecSize /\ call.fn.rel \in Nat
        /\ Is(y, call.fn.file, call.fn.rel, call.fn.cluster)
    BY <1>1, <1>2, FnIs DEF RwAt, Moving, FnAt, EntryAt
  <2>2. room \in Nat /\ pos + room = end
    <3>1. pos % SecSize \in 0 .. SecSize - 1 /\ pos = SecSize * (pos \div SecSize) + (pos % SecSize)
      BY <2>1, DivIs
    <3>2. (call.fn.rel + 1) * SecSize = call.fn.rel * SecSize + SecSize
          /\ call.fn.rel * SecSize = SecSize * call.fn.rel /\ call.fn.rel * SecSize \in Nat
      BY <2>1, Times
    <3>3. SecSize \in Nat
      BY FatAssumption
    <3>4. room = SecSize - (pos % SecSize) /\ end = call.fn.rel * SecSize + SecSize
      BY <3>2
    <3>5. pos = call.fn.rel * SecSize + (pos % SecSize)
      BY <2>1, <3>1, <3>2
    <3> DEFINE part == pos % SecSize
               whole == call.fn.rel * SecSize
    <3>6. part \in 0 .. SecSize - 1 /\ whole \in Nat /\ room = SecSize - part /\ end = whole + SecSize /\ pos = whole + part
      BY <3>1, <3>2, <3>4, <3>5
    <3> HIDE DEF pos, part, whole, room, end
    <3>. QED BY <3>3, <3>6
  <2> HIDE DEF room
  <2>3. n \in Nat /\ n <= call.left /\ n <= room
    BY <2>1, <2>2
  <2> HIDE DEF n
  <2>4. end <= y.len[call.fn.file] * SecSize /\ y.len[call.fn.file] * SecSize \in Nat /\ end \in Nat
    BY <1>2, <2>1, PlaceFits
  <2> HIDE DEF end, pos
  <2>5. pos + n \in Nat /\ pos + n <= y.len[call.fn.file] * SecSize
    BY <2>1, <2>2, <2>3, <2>4
  <2> DEFINE d == Sought(call, call.from, call.first, call.run, call.wanted, pos + n)
  <2>6. d = [call EXCEPT !.fn.pos = @ + n]
    BY <1>2 DEF Going, Shaped, CallFields, Sought, pos
  <2>7. Become(Advanced(d, n))
    BY <1>4, <2>6
  <2> HIDE DEF d
  <2>8. Going(d) /\ Moving(y, d) /\ d.h = call.h /\ d.fn.file = call.fn.file /\ d.fn.pos = pos + n /\ d.left = call.left
    BY <1>2, <2>5, SeekMoves DEF d
  <2>9. Goes(y, call, Advanced(d, n))
    <3>1. Goes(y, d, Advanced(d, n))
      BY <2>3, <2>5, <2>8, AdvancedGoes
    <3>. QED BY <2>8, <3>1 DEF Goes
  <2>10. CallGood(Advanced(d, n))
    BY <2>8, AdvancedIsGood
  <2>. QED BY <1>1, <1>3, <1>4, <2>7, <2>9, <2>10, QuietGoes
<1>5. CASE Fails /\ Become(Return(call))
  <2>1. Goes(y, call, Return(call)) /\ CallGood(Return(call))
    BY <1>2, ReturnGoes, EndsAreGood
  <2>. QED BY <1>1, <1>3, <1>5, <2>1, QuietGoes
<1>. QED BY <1>4, <1>5 DEF DoSector

LEMMA FlushShrunkKeeps ==
    ASSUME IInv, NEW y, WellLaid(y), FlushShrunk
    PROVE  seeded' \/ \E w : WellLaid(w)'
<1>1. InRw(call) /\ call.pc = "flush"
  BY DEF FlushShrunk, InRw, Shrinking
<1>2. Going(call) /\ Moving(y, call)
  BY <1>1, RwFacts
<1>3. y.len[Loose] = 0
  BY <1>1 DEF WellLaid, CallAt, LooseAt
<1>4. CASE Works /\ Become(Return(call))
  <2>1. Goes(y, call, Return(call)) /\ CallGood(Return(call))
    BY <1>2, ReturnGoes, EndsAreGood
  <2>2. Return(call).pc = "return"
    BY <1>2 DEF Return, Going, Shaped, CallFields
  <2>3. UNCHANGED <<vol, dir>>
    BY DEF FlushShrunk
  <2>. QED BY <1>1, <1>3, <1>4, <2>1, <2>2, <2>3, QuietGoesOn DEF Goes
<1>. QED BY <1>4 DEF FlushShrunk

LEMMA TransferKeeps ==
    ASSUME IInv, NEW y, WellLaid(y), NEW h \in Handle, NEW p \in Nat, NEW mode \in {"read", "write"}, NEW count \in Nat,
           Transfer(h, p, mode, count)
    PROVE  \E w : WellLaid(w)'
<1> DEFINE fn == [sft[h] EXCEPT !.pos = p, !.clean = @ /\ mode = "read"]
           c  == [NoCall EXCEPT !.h = h, !.mode = mode, !.count = count, !.left = count, !.fn = fn]
           at == IF count = 0 /\ p % SecSize = 0 THEN p - 1 ELSE p
           k  == IF mode = "write" /\ p > fn.size THEN Map(c, at, "extend") ELSE Extended(c)
<1>1. /\ call = NoCall /\ Open(h) /\ dir' = dir /\ vol' = vol /\ faults' = faults /\ Become(k)
  BY DEF Transfer, BetweenCalls
<1>2. call.pc = "idle" /\ Busy(call) = {} /\ Held(call) = {} /\ y.len[Loose] = 0
  BY <1>1 DEF NoCall, Busy, Held, InRw, RwPc, Shrinking, WellLaid, CallAt, LooseAt
<1>3. /\ Laid(vol.fat, y) /\ Kept(vol.fat, y, faults) /\ HandlesGood /\ Others(y, {}) /\ Rest(y, {})
  BY <1>2 DEF WellLaid
<1>4. FnAt(y, sft[h]) /\ FnGood(sft[h]) /\ Clean(sft[h])
  BY <1>1, <1>3 DEF Others, IInv, SftGood, Open, HandlesGood
<1>5. /\ FnGood(fn) /\ fn.pos = p /\ fn.clean = (sft[h].clean /\ mode = "read")
      /\ \A x \in FnFields \ {"pos", "clean"} : fn[x] = sft[h][x]
  BY <1>4 DEF FnGood, FnFields
<1> HIDE DEF fn
<1>6. /\ fn.file = sft[h].file /\ fn.start = sft[h].start /\ fn.size = sft[h].size /\ fn.cluster = sft[h].cluster
      /\ fn.rel = sft[h].rel
  BY <1>5 DEF FnFields
<1>7. FnAt(y, fn)
  BY <1>4, <1>5, <1>6 DEF FnAt, EntryAt
<1>8. Clean(fn) /\ (mode = "write" => ~fn.clean)
  BY <1>4, <1>5, <1>6 DEF Clean, FnAt
<1>9. Going(c) /\ c.h = h /\ c.mode = mode /\ c.count = count /\ c.left = count /\ c.fn = fn
  BY <1>5 DEF Going, Shaped, CallFields, NoCall
<1> HIDE DEF c
<1>10. Moving(y, c)
  BY <1>1, <1>6, <1>7, <1>8, <1>9 DEF Moving
<1>11. Goes(y, c, k) /\ CallGood(k)
  <2>1. CASE mode = "write" /\ p > fn.size
    <3>1. at \in Nat /\ p <= at + 1
      <4>1. fn.size \in Nat
        BY <1>7 DEF FnAt, EntryAt
      <4>. QED BY <2>1, <4>1
    <3> HIDE DEF at
    <3>2. Wants(y, c, at, "extend")
      BY <1>5, <1>9, <2>1, <3>1 DEF Wants, MapReturn
    <3>3. Goes(y, c, Map(c, at, "extend")) /\ CallGood(Map(c, at, "extend"))
      BY <1>9, <1>10, <3>2, MapGoes, MapIsGood DEF MapReturn
    <3>. QED BY <2>1, <3>3
  <2>2. CASE ~(mode = "write" /\ p > fn.size)
    <3>1. mode = "write" => p <= y.len[fn.file] * SecSize
      <4>1. fn.size \in Nat /\ fn.size <= y.len[fn.file] * SecSize /\ y.len[fn.file] \in Nat
        <5>1. fn.file \in Owner
          BY <1>7 DEF FnAt, Owner
        <5>. QED BY <1>3, <1>7, <5>1, Types DEF FnAt, EntryAt
      <4>2. y.len[fn.file] * SecSize \in Nat
        BY <4>1, Times
      <4>. QED BY <2>2, <4>1, <4>2
    <3>2. Goes(y, c, Extended(c))
      BY <1>5, <1>9, <1>10, <3>1, ExtendedGoes
    <3>3. CallGood(Extended(c))
      BY <1>9, ExtendedIsGood
    <3>. QED BY <2>2, <3>2, <3>3
  <2>. QED BY <2>1, <2>2
<1> HIDE DEF k
<1>12. RwAt(y, k) /\ k.h = h /\ k.pc \in RwPc \cup {"return", "abandon"} /\ k.pc # "abandon"
  BY <1>9, <1>11 DEF Goes, RwPc
<1>13. Others(y, {h}) /\ Stale(y, sft[h])
  BY <1>3, <1>4, OthersLess DEF Stale
<1>. QED BY <1>1, <1>2, <1>3, <1>11, <1>12, <1>13, CallGoesOn DEF IInv

-----------------------------------------------------------------------------
(* A chain grows.                                                          *)

LEMMA FindIsFree ==
    ASSUME NEW v, NEW unread, FindFatFree(v, unread) # LAST
    PROVE  FindFatFree(v, unread) \in Freed(v.fat)
<1>. DEFINE idx   == IF v.hint = UNKNCLUSTER THEN 2 ELSE v.hint
            free  == Freed(v.fat) \ unread
            ahead == {c \in free : c >= idx}
<1>1. free \in SUBSET Cluster /\ ahead \in SUBSET Cluster
  BY DEF Freed
<1>2. ahead # {} => Lowest(ahead) \in ahead
  BY <1>1, LowestIsMember
<1>3. free # {} => Lowest(free) \in free
  BY <1>1, LowestIsMember
<1>. QED BY <1>2, <1>3 DEF FindFatFree

LEMMA LinkedFat ==
    ASSUME NEW v \in [fat : [Cluster -> Entry], nfree : Int, hint : Int], NEW c \in Cluster, NEW x
    PROVE  /\ LinkFat(v, c, x).fat = [v.fat EXCEPT ![c] = x]
           /\ LinkFat(v, c, x).hint = v.hint
BY DEF LinkFat

\* extend on a volume that is laid out.
LEMMA ExtendLays ==
    ASSUME NEW v, NEW n, VolGood(v, n), NEW y, Laid(v.fat, y),
           NEW fn, FnGood(fn), FnAt(y, fn), fn.cluster # FREE => v.fat[fn.cluster] = LAST, NEW failure
    PROVE  LET e == Extend(v, fn, failure)
           IN  \/ e.got = LAST /\ e.fn = fn /\ Laid(e.vol.fat, y) /\ (failure = 0 => e.vol.fat = v.fat)
               \/ /\ e.got \in Cluster /\ y.own[e.got] = Nobody
                  /\ e.vol.fat[e.got] = LAST /\ (y.len[fn.file] # 0 => e.vol.fat[fn.cluster] = e.got)
                  /\ \A d \in Cluster \ {e.got} : d # fn.cluster => e.vol.fat[d] = v.fat[d]
                  /\ e.fn = IF fn.cluster = FREE THEN [fn EXCEPT !.start = e.got] ELSE fn
<1> DEFINE e      == Extend(v, fn, failure)
           new    == FindFatFree(v, {failure})
           found  == [v EXCEPT !.hint = IF new = LAST THEN UNKNCLUSTER ELSE new]
           linked == LinkFat(found, new, LAST)
           failed(w) == [vol |-> w, fn |-> fn, got |-> LAST]
<1>1. e = IF new = LAST \/ failure = NewEntry THEN failed(found)
          ELSE IF fn.cluster = FREE
          THEN [vol |-> linked, fn |-> [fn EXCEPT !.start = new], got |-> new]
          ELSE IF failure = LastEntry \/ NextCluster(linked.fat, fn.cluster) # LAST THEN failed(linked)
          ELSE [vol |-> LinkFat(linked, fn.cluster, new), fn |-> fn, got |-> new]
  BY DEF Extend
<1>2. new \in Freed(v.fat) \cup {LAST}
  BY FindIsFree
<1> HIDE DEF e, new
<1>3. VolGood(found, n) /\ found.fat = v.fat /\ v.fat \in [Cluster -> Entry]
  <2>1. (IF new = LAST THEN UNKNCLUSTER ELSE new) \in Int
    BY <1>2, ClustersAreInts DEF UNKNCLUSTER, Freed
  <2>2. found.fat = v.fat /\ v.fat \in [Cluster -> Entry]
    BY DEF VolGood
  <2>. QED BY <2>1, <2>2, HintIsNoMatter
<1> HIDE DEF found
<1>4. CASE new = LAST \/ failure = NewEntry
  BY <1>1, <1>3, <1>4 DEF e
<1>5. CASE ~(new = LAST \/ failure = NewEntry)
  <2>1. new \in Cluster /\ v.fat[new] = FREE /\ new # LAST
    BY <1>2, <1>5 DEF Freed
  <2>2. y.own[new] = Nobody
    <3>1. SUFFICES ASSUME y.own[new] # Nobody PROVE FALSE
      OBVIOUS
    <3>2. y.own[new] \in Owner /\ Is(y, y.own[new], y.idx[new], new)
      BY <2>1, <3>1, Types DEF Is
    <3>. QED BY <2>1, <3>2, NextIs
  <2>3. linked.fat = [v.fat EXCEPT ![new] = LAST] /\ VolGood(linked, n)
    <3>1. found \in [fat : [Cluster -> Entry], nfree : Int, hint : Int] /\ LAST \in Entry
      BY <1>3 DEF VolGood, Entry
    <3>2. linked.fat = [found.fat EXCEPT ![new] = LAST]
      BY <2>1, <3>1, LinkedFat
    <3>3. VolGood(linked, n)
      BY <1>3, <2>1, <3>1, LinkFatIsGood
    <3>. QED BY <1>3, <3>2, <3>3
  <2>4. v.fat \in [Cluster -> Entry]
    BY <1>3
  <2> HIDE DEF linked
  <2>5. CASE fn.cluster = FREE
    <3>1. e.vol = linked /\ e.got = new /\ e.fn = [fn EXCEPT !.start = new]
      BY <1>1, <1>5, <2>5
    <3>2. y.len[fn.file] = 0
      BY <2>5, FnIs DEF FnAt, EntryAt, Leads
    <3>. QED BY <2>1, <2>2, <2>3, <2>4, <2>5, <3>1, <3>2 DEF e
  <2>6. CASE fn.cluster # FREE
    <3>1. fn.cluster \in Cluster /\ v.fat[fn.cluster] = LAST /\ fn.cluster # new
      BY <2>1, <2>6, FnIs, Marks
    <3>2. linked.fat[fn.cluster] = LAST
      BY <2>1, <2>3, <3>1
    <3>3. NextCluster(linked.fat, fn.cluster) = LAST
      BY <3>2, Marks DEF NextCluster
    <3>4. CASE failure = LastEntry
      <4>1. e.vol = linked /\ e.got = LAST /\ e.fn = fn
        BY <1>1, <1>5, <2>6, <3>4
      <4>2. Laid(linked.fat, y)
        <5>1. \A c \in Cluster : y.own[c] # Nobody => linked.fat[c] = v.fat[c]
          BY <2>1, <2>2, <2>3
        <5>. QED BY <5>1, OthersMayChange
      <4>3. failure # 0
        BY <3>4, FatAssumption DEF LastEntry, LAST
      <4>. QED BY <4>1, <4>2, <4>3 DEF e
    <3>5. CASE failure # LastEntry
      <4>1. e.vol = LinkFat(linked, fn.cluster, new) /\ e.got = new /\ e.fn = fn
        BY <1>1, <1>5, <2>6, <3>3, <3>5
      <4>2. e.vol.fat = [linked.fat EXCEPT ![fn.cluster] = new]
        BY <2>3, <3>1, <4>1, LinkedFat DEF VolGood
      <4>. QED BY <2>1, <2>2, <2>3, <2>4, <2>6, <3>1, <4>1, <4>2 DEF e
    <3>. QED BY <3>4, <3>5
  <2>. QED BY <2>5, <2>6
<1>. QED BY <1>4, <1>5

\* What was said of a file that has grown.
LEMMA GrownEntry ==
    ASSUME NEW y, NEW z, NEW f, Grown(y, z, f)
    PROVE  /\ \A e : EntryAt(y, f, e) /\ e.start # FREE => EntryAt(z, f, e)
           /\ \A fn : fn.file = f /\ Stale(y, fn) => Stale(z, fn)
           /\ \A k : k.fn.file = f /\ RunAt(y, k) => RunAt(z, k)
<1>. USE DEF Grown
<1>1. y.len[f] * SecSize \in Nat /\ z.len[f] * SecSize \in Nat /\ y.len[f] * SecSize <= z.len[f] * SecSize
  BY Times
<1>2. \A e : EntryAt(y, f, e) /\ e.start # FREE => EntryAt(z, f, e)
  BY <1>1 DEF EntryAt, Leads
<1>3. ASSUME NEW fn, fn.file = f, Stale(y, fn) PROVE Stale(z, fn)
  <2>1. CASE Blank(fn)
    BY <2>1 DEF Stale
  <2>2. CASE FnAt(y, fn) /\ fn.start # FREE
    BY <1>2, <1>3, <2>2 DEF Stale, FnAt
  <2>3. CASE FnAt(y, fn) /\ fn.start = FREE
    <3>1. y.len[f] = 0 /\ fn.size \in Nat /\ fn.size <= y.len[f] * SecSize
      BY <1>3, <2>3 DEF FnAt, EntryAt, Leads
    <3>2. fn.size = 0
      BY <3>1, FatAssumption
    <3>. QED BY <2>3, <3>2 DEF Stale, FnAt, Blank
  <2>. QED BY <1>3, <2>1, <2>2, <2>3 DEF Stale
<1>4. \A k : k.fn.file = f /\ RunAt(y, k) => RunAt(z, k)
  BY DEF RunAt
<1>. QED BY <1>1, <1>2, <1>3, <1>4

LEMMA StartFields ==
    ASSUME NEW fn, FnGood(fn), NEW s
    PROVE  LET g == [fn EXCEPT !.start = s]
           IN  /\ g.start = s /\ g.file = fn.file /\ g.size = fn.size /\ g.pos = fn.pos /\ g.cluster = fn.cluster
               /\ g.rel = fn.rel /\ g.clean = fn.clean
BY DEF FnGood, FnFields

\* map_cluster makes the chain of the file longer.
LEMMA ExtendChainKeeps ==
    ASSUME IInv, NEW y, WellLaid(y), call.pc \in {"map", "walk"}, Growing, NEW rel, ExtendChain(rel),
           rel \in Nat, rel = y.len[call.fn.file], rel <= Target,
           call.fn.cluster # FREE => vol.fat[call.fn.cluster] = LAST
    PROVE  \E w : WellLaid(w)'
<1>1. InRw(call) /\ call.pc \in RwPc
  BY DEF InRw, RwPc
<1>2. /\ Going(call) /\ RwAt(y, call) /\ Moving(y, call) /\ Laid(vol.fat, y) /\ Kept(vol.fat, y, faults)
      /\ y.len[Loose] = 0 /\ Stale(y, sft[call.h]) /\ SftGood(sft) /\ HandlesGood
      /\ Others(y, {call.h}) /\ Rest(y, {}) /\ IsOpen(call.fn.file) /\ call.fn.file \in File
      /\ call.h \in Handle /\ Open(call.h) /\ sft[call.h].file = call.fn.file
  BY <1>1, RwFacts
<1>3. Wants(y, call, call.at, call.ret) /\ call.ret \in MapReturn /\ call.mode = "write" /\ call.ret # "shrink"
  BY <1>2 DEF RwAt, Mapping, Wants, Growing
<1>4. PICK failure \in {0, NewEntry, LastEntry} \cup Cluster :
          /\ IF failure = 0 THEN Works ELSE Fails
          /\ LET e == Extend(vol, call.fn, failure)
                 c == [call EXCEPT !.fn = e.fn, !.pc = "walk"]
             IN  /\ vol' = e.vol
                 /\ Become(IF e.got = LAST THEN NotMapped(c) ELSE Put(c, e.got, rel))
  BY DEF ExtendChain
<1> DEFINE e == Extend(vol, call.fn, failure)
           c == [call EXCEPT !.fn = e.fn, !.pc = "walk"]
           f == call.fn.file
<1>5. vol' = e.vol /\ Become(IF e.got = LAST THEN NotMapped(c) ELSE Put(c, e.got, rel))
  BY <1>4
<1>6. dir' = dir
  BY DEF ExtendChain
<1>7. \/ e.got = LAST /\ e.fn = call.fn /\ Laid(e.vol.fat, y) /\ (failure = 0 => e.vol.fat = vol.fat)
      \/ /\ e.got \in Cluster /\ y.own[e.got] = Nobody
         /\ e.vol.fat[e.got] = LAST /\ (y.len[f] # 0 => e.vol.fat[call.fn.cluster] = e.got)
         /\ \A d \in Cluster \ {e.got} : d # call.fn.cluster => e.vol.fat[d] = vol.fat[d]
         /\ e.fn = IF call.fn.cluster = FREE THEN [call.fn EXCEPT !.start = e.got] ELSE call.fn
  <2>1. VolGood(vol, faults) /\ FnGood(call.fn) /\ FnAt(y, call.fn)
    BY <1>2 DEF IInv, Going, Moving
  <2>. QED BY <1>2, <2>1, ExtendLays
<1>8. FnGood(e.fn) /\ (e.got # LAST => e.fn.start # FREE)
  BY <1>2, ExtendIsGood DEF IInv, Going
<1> HIDE DEF e
<1>9. /\ Going(c) /\ c.pc = "walk" /\ c.fn = e.fn
      /\ \A x \in CallFields \ {"pc", "fn"} : c[x] = call[x]
  BY <1>2, <1>8 DEF Going, Shaped, CallFields
<1> HIDE DEF c
<1>10. /\ c.h = call.h /\ c.mode = call.mode /\ c.count = call.count /\ c.left = call.left /\ c.at = call.at /\ c.ret = call.ret
       /\ c.from = call.from /\ c.first = call.first /\ c.run = call.run /\ c.wanted = call.wanted
  BY <1>9 DEF CallFields
<1>11. (faults' = 0 => failure = 0 /\ faults = 0)
  BY <1>4, KeptOn, <1>2
<1>12. CASE e.got = LAST
  <2>1. e.fn = call.fn /\ Laid(vol'.fat, y) /\ (failure = 0 => vol'.fat = vol.fat)
    BY <1>5, <1>7, <1>12, Marks
  <2>2. Kept(vol'.fat, y, faults')
    BY <1>2, <1>11, <2>1 DEF Kept
  <2>3. Moving(y, c)
    BY <1>2, <1>9, <1>10, <2>1, MovesOn DEF Kin, Moving, FnAt
  <2>4. Wants(y, c, c.at, c.ret)
    <3>1. RunAt(y, call) => RunAt(y, c)
      BY <1>9, <1>10, <2>1, RunStays
    <3>. QED BY <1>3, <1>9, <1>10, <2>1, <3>1 DEF Wants
  <2> DEFINE k == NotMapped(c)
  <2>5. RwAt(y, k) /\ k.h = c.h /\ k.pc \in {"return", "run", "abandon"} /\ (k.pc = "abandon" <=> c.ret = "shrink")
    BY <1>2, <1>9, <2>3, <2>4, NotMappedGoes
  <2>6. CallGood(k)
    BY <1>3, <1>9, <1>10, NotMappedIsGood
  <2>7. Become(k)
    BY <1>5, <1>12
  <2> HIDE DEF k
  <2>8. k.pc \in {"return", "run"} /\ k.h = call.h
    BY <1>3, <1>10, <2>5
  <2>. QED BY <1>2, <1>6, <2>1, <2>2, <2>5, <2>6, <2>7, <2>8, CallGoesOn DEF RwPc
<1>13. CASE e.got # LAST
  <2> DEFINE new == e.got
             z == Appended(y, f, new)
             k == Put(c, new, rel)
  <2>1. /\ new \in Cluster /\ y.own[new] = Nobody
        /\ vol'.fat[new] = LAST /\ (y.len[f] # 0 => vol'.fat[call.fn.cluster] = new)
        /\ \A d \in Cluster \ {new} : d # call.fn.cluster => vol'.fat[d] = vol.fat[d]
        /\ e.fn = IF call.fn.cluster = FREE THEN [call.fn EXCEPT !.start = new] ELSE call.fn
    BY <1>5, <1>7, <1>13
  <2>2. f \in Owner /\ f # Loose /\ Loose \in Owner
    BY <1>2, Outsiders DEF Owner
  <2>3. /\ call.fn.cluster = FREE <=> rel = 0
        /\ call.fn.cluster # FREE => Is(y, f, rel - 1, call.fn.cluster)
    <3>1. CASE call.fn.cluster = FREE
      BY <1>2, <3>1, FnIs DEF Moving, FnAt, EntryAt, Leads
    <3>2. CASE call.fn.cluster # FREE
      <4>1. Is(y, f, call.fn.rel, call.fn.cluster) /\ call.fn.rel \in Nat
        BY <1>2, <3>2, FnIs DEF Moving, FnAt
      <4>2. call.fn.rel + 1 = y.len[f]
        BY <1>2, <2>2, <3>2, <4>1, NextIs, Marks DEF Is
      <4>. QED BY <3>2, <4>1, <4>2
    <3>. QED BY <3>1, <3>2
  <2>4. \A d \in Cluster \ {new} : ~Is(y, f, y.len[f] - 1, d) => vol'.fat[d] = vol.fat[d]
    <3>1. SUFFICES ASSUME NEW d \in Cluster \ {new}, ~Is(y, f, y.len[f] - 1, d) PROVE d # call.fn.cluster
      BY <2>1
    <3>. QED BY <2>3, <3>1, Marks
  <2>5. y.len[f] # 0 => Is(y, f, y.len[f] - 1, call.fn.cluster) /\ vol'.fat[call.fn.cluster] = new
    BY <2>1, <2>3
  <2>6. /\ Laid(vol'.fat, z) /\ SameBut(y, z, {f}) /\ z.len[f] = y.len[f] + 1 /\ Is(z, f, y.len[f], new)
        /\ \A i, d : Is(y, f, i, d) => Is(z, f, i, d)
    <3> DEFINE last == call.fn.cluster
    <3>1. y.len[f] # 0 => Is(y, f, y.len[f] - 1, last) /\ vol'.fat[last] = new
      BY <2>5
    <3>2. Laid(vol.fat, y)
      BY <1>2
    <3>3. new \in Cluster /\ y.own[new] = Nobody /\ vol'.fat[new] = LAST
      BY <2>1
    <3>4. f \in Owner
      BY <2>2
    <3>5. Joins(vol.fat, vol'.fat, y, f, new, last)
      BY <2>4, <3>1, <3>2, <3>3, <3>4 DEF Joins
    <3> HIDE DEF last, new, f
    <3>6. /\ Laid(vol'.fat, z) /\ SameBut(y, z, {f}) /\ Is(z, f, y.len[f], new)
          /\ \A i, d : Is(y, f, i, d) => Is(z, f, i, d)
      BY <3>5, AppendIsLaid
    <3>7. z.len[f] = y.len[f] + 1
      <4>1. y.len \in [Owner -> Nat]
        BY <1>2, Types
      <4>. QED BY <2>2, <4>1 DEF Appended
    <3>. QED BY <3>6, <3>7
  <2>7. Kept(vol'.fat, z, faults')
    <3>1. SUFFICES ASSUME faults' = 0, NEW d \in Cluster, z.own[d] = Nobody PROVE vol'.fat[d] = FREE
      BY DEF Kept
    <3>2. d # new /\ y.own[d] = Nobody
      <4>1. z.own = [y.own EXCEPT ![new] = f] /\ y.own \in [Cluster -> Owner \cup {Nobody}]
        BY <1>2, Types DEF Appended
      <4>. QED BY <2>1, <2>2, <3>1, <4>1, Outsiders
    <3>3. d # call.fn.cluster
      BY <2>2, <2>3, <3>2, Outsiders, Marks DEF Is
    <3>4. faults = 0
      BY <1>11, <3>1
    <3>. QED BY <1>2, <2>1, <3>2, <3>3, <3>4 DEF Kept
  <2> HIDE DEF z
  <2>8. /\ Kin(c, k) /\ k.fn.cluster = new /\ k.fn.rel = rel /\ k.fn.pos = c.fn.pos /\ k.fn.size = c.fn.size
        /\ \A x \in CallFields \ {"fn"} : k[x] = c[x]
    BY <1>9, PutFields
  <2>9. new \in Start /\ new # FREE
    BY <2>1, Marks DEF Start
  <2>10. Going(k)
    BY <1>8, <1>9, <1>13, <2>9, PutIsGood
  <2>11. Become(k)
    BY <1>5, <1>13
  <2> HIDE DEF k
  <2>12. /\ k.left = call.left /\ k.pc = "walk" /\ k.at = call.at /\ k.ret = call.ret /\ k.from = call.from
         /\ k.first = call.first /\ k.run = call.run /\ k.wanted = call.wanted
         /\ k.h = call.h /\ k.mode = call.mode /\ k.count = call.count
    BY <1>9, <1>10, <2>8 DEF CallFields, Kin
  <2>13. /\ k.fn.file = f /\ k.fn.size = call.fn.size /\ k.fn.pos = call.fn.pos /\ k.fn.clean = call.fn.clean
         /\ k.fn.start = e.fn.start
         /\ e.fn.start = IF call.fn.cluster = FREE THEN new ELSE call.fn.start
    <3>1. /\ e.fn.file = f /\ e.fn.size = call.fn.size /\ e.fn.pos = call.fn.pos /\ e.fn.clean = call.fn.clean
          /\ e.fn.start = IF call.fn.cluster = FREE THEN new ELSE call.fn.start
      BY <1>2, <2>1, StartFields DEF Going
    <3>. QED BY <1>9, <2>8, <3>1 DEF Kin
  <2>14. CallGood(k)
    BY <1>3, <2>8, <2>9, <2>10, <2>12 DEF CallGood, Going
  <2>15. y.len[f] \in Nat /\ Grown(y, z, f)
    <3>1. y.len \in [Owner -> Nat]
      BY <1>2, Types
    <3>2. y.len[f] \in Nat
      BY <2>2, <3>1
    <3>. QED BY <2>6, <3>2 DEF Grown
  <2>16. FnAt(z, k.fn)
    <3>1. call.fn.size \in Nat /\ call.fn.size <= y.len[f] * SecSize /\ call.fn.pos \in Nat /\ call.fn.clean \in BOOLEAN
      BY <1>2 DEF Moving, FnAt, EntryAt
    <3>2. call.fn.size <= z.len[f] * SecSize
      <4>1. y.len[f] * SecSize \in Nat /\ y.len[f] * SecSize <= z.len[f] * SecSize /\ z.len[f] * SecSize \in Nat
        <5>1. z.len[f] \in Nat /\ y.len[f] <= z.len[f]
          BY <2>6, <2>15
        <5>. QED BY <2>15, <5>1, Times
      <4>. QED BY ONLY <3>1, <4>1
    <3>3. k.fn.start # FREE /\ Is(z, f, 0, k.fn.start)
      <4>1. CASE call.fn.cluster = FREE
        BY <1>8, <1>13, <2>3, <2>6, <2>13, <4>1
      <4>2. CASE call.fn.cluster # FREE
        BY <1>2, <2>6, <2>13, <4>2, FnIs DEF Moving
      <4>. QED BY <4>1, <4>2
    <3>. QED BY <1>2, <2>6, <2>8, <2>13, <3>1, <3>2, <3>3 DEF FnAt, EntryAt, Leads
  <2>17. Moving(z, k)
    BY <1>2, <1>3, <2>12, <2>13, <2>16 DEF Moving, Clean
  <2>18. Wants(z, k, k.at, k.ret)
    <3>1. RunAt(y, call) => RunAt(z, k)
      <4>1. RunAt(y, call) => RunAt(z, call)
        BY <2>15, GrownEntry
      <4>. QED BY <2>12, <2>13, <4>1, RunStays
    <3>. QED BY <1>3, <2>12, <2>13, <3>1 DEF Wants
  <2>19. RwAt(z, k)
    BY <2>8, <2>9, <2>12, <2>17, <2>18 DEF RwAt, Mapping, Target
  <2>20. Others(z, {call.h})
    <3>1. \A h \in Handle \ {call.h} : Open(h) => sft[h].file \notin {f}
      BY <1>2 DEF HandlesGood
    <3>. QED BY <1>2, <2>6, <3>1, SameOthers
  <2>21. Rest(z, {})
    BY <1>2, <2>6, SameRest
  <2>22. z.len[Loose] = 0
    BY <1>2, <2>2, <2>6, SameLoose
  <2>23. Stale(z, sft[call.h])
    <3>1. Grown(y, z, f)
      BY <2>15
    <3>2. sft[call.h].file = f /\ Stale(y, sft[call.h])
      BY <1>2
    <3> HIDE DEF f
    <3>. QED BY <3>1, <3>2, GrownEntry
  <2>. QED BY <1>2, <1>6, <2>6, <2>7, <2>11, <2>12, <2>14, <2>19, <2>20, <2>21, <2>22, <2>23, CallGoesOn DEF RwPc
<1>. QED BY <1>12, <1>13

LEMMA MapEmptyKeeps ==
    ASSUME IInv, NEW y, WellLaid(y), MapEmpty
    PROVE  \E w : WellLaid(w)'
<1>1. InRw(call) /\ call.pc \in RwPc /\ call.pc = "map"
  BY DEF MapEmpty, InRw, RwPc
<1>2. /\ Going(call) /\ RwAt(y, call) /\ Moving(y, call) /\ Laid(vol.fat, y)
  BY <1>1, RwFacts
<1>3. Mapping(y, call) /\ Wants(y, call, call.at, call.ret) /\ call.ret \in MapReturn /\ call.fn.cluster = FREE
  BY <1>1, <1>2 DEF RwAt, Mapping, Wants
<1>4. call.fn.start = FREE /\ call.fn.rel = 0 /\ y.len[call.fn.file] = 0
  BY <1>2, <1>3, FnIs DEF Moving, FnAt, EntryAt, Leads
<1>5. CASE Growing /\ ExtendChain(call.fn.rel)
  BY <1>1, <1>3, <1>4, <1>5, ExtendChainKeeps DEF Mapping, Target
<1>6. CASE ~Growing /\ Become(NotMapped(call)) /\ UNCHANGED <<vol, dir, faults, seeded>>
  <2> DEFINE k == NotMapped(call)
  <2>1. RwAt(y, k) /\ k.h = call.h /\ k.pc \in {"return", "run", "abandon"} /\ (k.pc = "abandon" <=> call.ret = "shrink")
    BY <1>2, <1>3, NotMappedGoes
  <2>2. call.ret # "shrink"
    BY <1>3, <1>4 DEF Wants
  <2>3. CallGood(k)
    BY <1>2, <1>3, NotMappedIsGood
  <2>4. Become(k) /\ Works /\ UNCHANGED <<vol, dir>>
    BY <1>6 DEF Works
  <2> HIDE DEF k
  <2>5. y.len[Loose] = 0
    BY <1>1, RwFacts
  <2>. QED BY <1>1, <2>1, <2>2, <2>3, <2>4, <2>5, QuietGoesOn DEF RwPc
<1>. QED BY <1>5, <1>6 DEF MapEmpty

LEMMA WalkOnKeeps ==
    ASSUME IInv, NEW y, WellLaid(y), WalkOn
    PROVE  \E w : WellLaid(w)'
<1>1. InRw(call) /\ call.pc \in RwPc /\ call.pc = "walk"
  BY DEF WalkOn, InRw, RwPc
<1>2. /\ Going(call) /\ RwAt(y, call) /\ Moving(y, call) /\ Laid(vol.fat, y) /\ call.fn.file \in File
  BY <1>1, RwFacts
<1>3. Mapping(y, call) /\ Wants(y, call, call.at, call.ret) /\ call.fn.cluster # FREE
  BY <1>1, <1>2 DEF RwAt, Mapping
<1>4. Is(y, call.fn.file, call.fn.rel, call.fn.cluster) /\ call.fn.rel \in Nat /\ call.fn.file \in Owner
  BY <1>2, <1>3, FnIs DEF Moving, FnAt, Owner
<1>5. vol.fat[call.fn.cluster] = LAST
  BY <1>2, <1>4, NextFollows DEF WalkOn
<1>6. call.fn.rel + 1 = y.len[call.fn.file]
  BY <1>2, <1>4, <1>5, NextIs, Marks DEF Is
<1>7. call.fn.rel + 1 <= Target
  <2>1. call.at \div SecSize \in Nat
    BY <1>3, DivIs DEF Wants
  <2>. QED BY <1>3, <1>4, <2>1 DEF Mapping, WalkOn, Target
<1>8. Growing /\ ExtendChain(call.fn.rel + 1)
  BY DEF WalkOn
<1>. QED BY <1>1, <1>4, <1>5, <1>6, <1>7, <1>8, ExtendChainKeeps

-----------------------------------------------------------------------------
(* Files are cut and wiped.                                                *)

\* A file that loses its end: the call goes on to wipe and flush.
LEMMA ShrinkGoesOn ==
    ASSUME HandlesGood, dir' = dir, sft' = sft,
           NEW z, Laid(vol'.fat, z), Kept(vol'.fat, z, faults'),
           NEW k, call' = k, Shrinking(k), Moving(z, k), k.mode = "write", LooseAt(z, k),
           Others(z, {k.h}), Rest(z, {})
    PROVE  \E w : WellLaid(w)'
<1>1. k.pc \notin RwPc /\ ~Naming(k) /\ k.pc \notin {"idle", "move"} /\ InRw(k)
  BY DEF Shrinking, RwPc, Naming, InRw
<1>2. RwAt(z, k)
  BY <1>1 DEF RwAt, RwPc
<1>3. HandlesGood' /\ RwAt(z, k)' /\ Others(z, {k.h})'
  BY <1>2, StillGood, StillLaid, StillRw
<1>4. Rest(z, {k.fn.file})'
  BY RestsLess, StillLaid
<1>5. Busy(k) = {k.h} /\ Held(k) = {k.fn.file}
  BY <1>1 DEF Busy, Held
<1>6. CallAt(z, k)'
  BY <1>1, <1>3 DEF CallAt
<1>. QED BY <1>3, <1>4, <1>5, <1>6, Assembled

\* A name whose file has been let go.
LEMMA NamingGoesOn ==
    ASSUME HandlesGood, dir' = dir, sft' = sft,
           NEW z, Laid(vol'.fat, z), Kept(vol'.fat, z, faults'),
           NEW k, call' = k, Naming(k), LooseAt(z, k), k.fn.file \in File, ~IsOpen(k.fn.file), z.len[k.fn.file] = 0,
           StartOf(k.fn.file) = FREE /\ dir[k.fn.file] # None => dir[k.fn.file].size = 0,
           Creating(k) => k.h \in Handle /\ sft[k.h] = None,
           Others(z, {}), Rest(z, {k.fn.file})
    PROVE  \E w : WellLaid(w)'
<1>1. k.pc \notin RwPc /\ ~Shrinking(k) /\ k.pc \notin {"idle", "move"} /\ ~InRw(k)
  BY DEF Shrinking, RwPc, Naming, InRw
<1>2. HandlesGood' /\ Others(z, {})' /\ Rest(z, {k.fn.file})'
  BY StillGood, StillLaid
<1>3. Busy(k) = {} /\ Held(k) = {k.fn.file}
  BY <1>1 DEF Busy, Held
<1>4. CallAt(z, k)'
  BY <1>1, StillGood DEF CallAt, StartOf
<1>. QED BY <1>2, <1>3, <1>4, Assembled

LEMMA EmptiedFields ==
    ASSUME NEW k, Going(k)
    PROVE  LET m == [k EXCEPT !.fn.cluster = FREE, !.fn.start = FREE]
           IN  /\ Going(m) /\ m.fn.cluster = FREE /\ m.fn.start = FREE /\ m.fn.file = k.fn.file /\ m.fn.size = k.fn.size
               /\ m.fn.pos = k.fn.pos /\ m.fn.rel = k.fn.rel /\ m.fn.clean = k.fn.clean
               /\ m.h = k.h /\ m.mode = k.mode /\ m.count = k.count /\ m.left = k.left
<1> DEFINE g == [k.fn EXCEPT !.cluster = FREE, !.start = FREE]
<1>1. FnGood(g) /\ g.cluster = FREE /\ g.start = FREE /\ \A x \in FnFields \ {"cluster", "start"} : g[x] = k.fn[x]
  BY DEF Going, FnGood, FnFields, Start
<1>2. [k EXCEPT !.fn.cluster = FREE, !.fn.start = FREE] = [k EXCEPT !.fn = g]
  BY DEF Going, Shaped, CallFields
<1> HIDE DEF g
<1>3. [k EXCEPT !.fn = g].fn = g /\ Going([k EXCEPT !.fn = g]) /\ \A x \in CallFields \ {"fn"} : [k EXCEPT !.fn = g][x] = k[x]
  BY <1>1 DEF Going, Shaped, CallFields
<1>. QED BY <1>1, <1>2, <1>3 DEF FnFields, CallFields

\* An entry that is written for the cluster at a place.
LEMMA CutsAt ==
    ASSUME NEW fat, NEW y, Laid(fat, y), y.len[Loose] = 0, NEW f \in File, NEW r, NEW c,
           Is(y, f, r, c), NEW fat2, fat2[c] = LAST, \A d \in Cluster : d # c => fat2[d] = fat[d]
    PROVE  Cuts(fat, fat2, y, f, r + 1)
<1>1. f \in Owner
  BY DEF Owner
<1>2. r \in Nat /\ r < y.len[f] /\ y.len[f] \in Nat /\ c \in Cluster
  BY <1>1, NextIs
<1>3. r + 1 \in Nat /\ r + 1 <= y.len[f] /\ (r + 1) - 1 = r
  BY <1>2
<1>4. \A d \in Cluster : IF Is(y, f, r, d) THEN fat2[d] = LAST ELSE fat2[d] = fat[d]
  BY <1>1, <1>2, OneIs
<1>5. \A d \in Cluster : IF Is(y, f, (r + 1) - 1, d) THEN fat2[d] = LAST ELSE fat2[d] = fat[d]
  BY <1>3, <1>4
<1>. QED BY <1>3, <1>5 DEF Cuts

\* All clusters of a file are cut off.
LEMMA CutsAll ==
    ASSUME NEW fat, NEW y, Laid(fat, y), y.len[Loose] = 0, NEW f \in File
    PROVE  LET z == Split(y, f, 0)
           IN  /\ Laid(fat, z) /\ SameBut(y, z, {f, Loose}) /\ z.len[f] = 0
               /\ \A d : Is(y, f, 0, d) => Is(z, Loose, 0, d)
               /\ y.len[f] = 0 => z.len[Loose] = 0
               /\ \A d \in Cluster : z.own[d] = Nobody => y.own[d] = Nobody
<1>1. f \in Owner
  BY DEF Owner
<1>2. y.len[f] \in Nat /\ y.idx \in [Cluster -> Nat]
  BY <1>1, Types
<1>3. \A d \in Cluster : ~Is(y, f, 0 - 1, d)
  BY <1>2 DEF Is
<1>4. 0 \in Nat /\ 0 <= y.len[f]
  BY <1>2
<1>5. \A d \in Cluster : IF Is(y, f, 0 - 1, d) THEN fat[d] = LAST ELSE fat[d] = fat[d]
  BY <1>3
<1> DEFINE z == Split(y, f, 0)
<1>6. /\ Laid(fat, z) /\ SameBut(y, z, {f, Loose}) /\ z.len[f] = 0 /\ z.len[Loose] = y.len[f] - 0
      /\ \A i, d : Is(y, f, i, d) => IF i < 0 THEN Is(z, f, i, d) ELSE Is(z, Loose, i - 0, d)
      /\ \A d \in Cluster : z.own[d] = Nobody => y.own[d] = Nobody
  <2>1. Cuts(fat, fat, y, f, 0)
    BY <1>4, <1>5 DEF Cuts
  <2> HIDE DEF z
  <2>2. Laid(fat, z) /\ CutOff(y, z, f, 0)
    BY <2>1, SplitIsLaid DEF z
  <2>. QED BY <2>2 DEF CutOff
<1> HIDE DEF z
<1>7. \A d : Is(y, f, 0, d) => Is(z, Loose, 0, d)
  BY <1>6
<1>8. y.len[f] = 0 => z.len[Loose] = 0
  BY <1>2, <1>6
<1>. QED BY <1>6, <1>7, <1>8 DEF z

LEMMA SameOnce ==
    ASSUME NEW x, NEW y, NEW z, NEW O, NEW P, SameBut(x, y, O), SameBut(y, z, P), P \subseteq O
    PROVE  SameBut(x, z, O)
BY DEF SameBut

LEMMA CutKeeps ==
    ASSUME IInv, NEW y, WellLaid(y), CutChain
    PROVE  \E w : WellLaid(w)'
<1>1. InRw(call) /\ call.pc \in RwPc /\ call.pc = "cut"
  BY DEF CutChain, InRw, RwPc
<1>2. /\ Going(call) /\ RwAt(y, call) /\ Moving(y, call) /\ SftGood(sft) /\ HandlesGood
      /\ Laid(vol.fat, y) /\ Kept(vol.fat, y, faults)
      /\ Others(y, {call.h}) /\ Rest(y, {}) /\ IsOpen(call.fn.file) /\ call.fn.file \in File
      /\ call.h \in Handle /\ Open(call.h) /\ sft[call.h].file = call.fn.file
      /\ y.len[Loose] = 0 /\ Stale(y, sft[call.h])
  BY <1>1, RwFacts
<1> DEFINE fn    == call.fn
           f     == fn.file
           next  == NextCluster(vol.fat, fn.cluster)
           empty == fn.size = 0
           c     == IF empty THEN [call EXCEPT !.fn.cluster = FREE, !.fn.start = FREE] ELSE call
           k     == [c EXCEPT !.pc = "wipe", !.ret = "flush", !.st = next]
<1>3. /\ call.mode = "write" /\ fn.start # FREE /\ fn.size = fn.pos /\ fn.size <= (fn.rel + 1) * SecSize
      /\ empty => fn.rel = 0
  BY <1>1, <1>2 DEF RwAt
<1>4. /\ Is(y, f, fn.rel, fn.cluster) /\ Is(y, f, 0, fn.start) /\ fn.rel \in Nat /\ fn.cluster \in Cluster
      /\ f \in Owner /\ f # Loose
  BY <1>2, <1>3, FnIs, Outsiders DEF Moving, FnAt, Owner
<1>5. /\ next = vol.fat[fn.cluster] /\ next \in Cluster \cup {LAST} /\ next \notin {FREE, Error}
      /\ next # LAST => Is(y, f, fn.rel + 1, next)
  <2>1. next = vol.fat[fn.cluster]
    BY <1>2, <1>4, NextFollows
  <2>2. /\ vol.fat[fn.cluster] \in Cluster \cup {LAST}
        /\ IF fn.rel + 1 = y.len[f] THEN vol.fat[fn.cluster] = LAST ELSE Is(y, f, fn.rel + 1, vol.fat[fn.cluster])
    BY <1>2, <1>4, NextIs
  <2>. QED BY <2>1, <2>2, Marks
<1>6. dir' = dir
  BY DEF CutChain
<1>7. CASE Fails /\ Become(Abandon(call)) /\ UNCHANGED vol
  <2> DEFINE m == [call EXCEPT !.pc = "abandon"]
  <2>1. Going(m) /\ Kin(call, m) /\ m.pc = "abandon" /\ m.fn = call.fn /\ \A x \in CallFields \ {"pc"} : m[x] = call[x]
    BY <1>2, EndFields
  <2>2. Become(m) /\ CallGood(m)
    BY <1>2, <1>7, EndsAreGood DEF Abandon
  <2> HIDE DEF m
  <2>3. m.left = call.left
    BY <2>1 DEF CallFields
  <2>4. Moving(y, m)
    BY <1>2, <2>1, <2>3, MovesOn DEF Moving, FnAt
  <2>5. RwAt(y, m)
    BY <2>1, <2>4 DEF RwAt
  <2>. QED BY <1>1, <1>2, <1>6, <1>7, <2>1, <2>2, <2>5, QuietGoesOn DEF Kin
<1>8. CASE Works /\ next = LAST /\ ~empty /\ Become(Return(call)) /\ UNCHANGED vol
  BY <1>1, <1>2, <1>6, <1>8, ReturnGoes, EndsAreGood, QuietGoes
<1>9. CASE /\ Works /\ next \notin {FREE, Error} /\ (empty \/ next # LAST)
           /\ vol' = LinkFat(vol, fn.cluster, IF empty THEN FREE ELSE LAST)
           /\ Become(k)
  <2>1. /\ Going(c) /\ c.h = call.h /\ c.mode = call.mode /\ c.count = call.count /\ c.left = call.left
        /\ c.fn.file = f /\ c.fn.size = fn.size /\ c.fn.pos = fn.pos /\ c.fn.rel = fn.rel /\ c.fn.clean = fn.clean
        /\ IF empty THEN c.fn.cluster = FREE /\ c.fn.start = FREE ELSE c.fn.cluster = fn.cluster /\ c.fn.start = fn.start
    BY <1>2, EmptiedFields
  <2> HIDE DEF c
  <2>2. /\ Going(k) /\ k.fn = c.fn /\ k.h = c.h /\ k.mode = c.mode /\ k.count = c.count /\ k.left = c.left
        /\ k.pc = "wipe" /\ k.ret = "flush" /\ k.st = next
    BY <2>1 DEF Going, Shaped, CallFields
  <2>3. Become(k)
    BY <1>9
  <2> HIDE DEF k
  <2>4. call' = k /\ sft' = sft /\ Shrinking(k)
    BY <2>2, <2>3 DEF Become, Shrinking
  <2>5. vol.fat \in [Cluster -> Entry] /\ vol \in [fat : [Cluster -> Entry], nfree : Int, hint : Int]
    BY DEF IInv, VolGood
  <2>6. vol'.fat = [vol.fat EXCEPT ![fn.cluster] = IF empty THEN FREE ELSE LAST]
    BY <1>4, <1>9, <2>5, LinkedFat
  <2>7. (faults' = 0 => faults = 0) /\ fn.size \in Nat /\ fn.size <= y.len[f] * SecSize /\ fn.pos \in Nat /\ fn.clean \in BOOLEAN
    BY <1>2, <1>9, KeptOn DEF Moving, FnAt, EntryAt
  <2>8. ASSUME NEW z, SameBut(y, z, {f, Loose}), Laid(vol'.fat, z), Kept(vol'.fat, z, faults'), LooseAt(z, k), FnAt(z, k.fn)
        PROVE  \E w : WellLaid(w)'
    <3>1. Moving(z, k)
      BY <1>2, <1>3, <2>1, <2>2, <2>8 DEF Moving, Clean
    <3>2. Others(z, {call.h})
      <4>1. \A h \in Handle \ {call.h} : Open(h) => sft[h].file \notin {f, Loose}
        BY <1>2, Outsiders DEF HandlesGood
      <4>. QED BY <1>2, <2>8, <4>1, SameOthers
    <3>3. Rest(z, {})
      <4>1. \A g \in File \ {} : ~IsOpen(g) => g \notin {f, Loose}
        BY <1>2, Outsiders
      <4>. QED BY <1>2, <2>8, <4>1, SameRest
    <3>. QED BY <1>2, <1>3, <1>6, <2>1, <2>2, <2>4, <2>8, <3>1, <3>2, <3>3, ShrinkGoesOn
  <2>9. CASE ~empty
    <3> DEFINE q == fn.rel + 1
               z == Split(y, f, q)
    <3>1. vol'.fat = [vol.fat EXCEPT ![fn.cluster] = LAST]
      BY <2>6, <2>9
    <3>2. /\ Laid(vol'.fat, z) /\ SameBut(y, z, {f, Loose}) /\ z.len[f] = q
          /\ \A i, d : Is(y, f, i, d) => IF i < q THEN Is(z, f, i, d) ELSE Is(z, Loose, i - q, d)
          /\ \A d \in Cluster : z.own[d] = Nobody => y.own[d] = Nobody /\ vol'.fat[d] = vol.fat[d]
      <4>1. vol'.fat[fn.cluster] = LAST /\ \A d \in Cluster : d # fn.cluster => vol'.fat[d] = vol.fat[d]
        BY <1>4, <2>5, <3>1
      <4>2. Cuts(vol.fat, vol'.fat, y, f, q)
        BY <1>2, <1>4, <4>1, CutsAt
      <4> HIDE DEF q, z
      <4>3. Laid(vol'.fat, z) /\ CutOff(y, z, f, q)
        BY <4>2, SplitIsLaid DEF z
      <4>4. y.own[fn.cluster] # Nobody
        BY <1>4, Outsiders DEF Is
      <4>. QED BY <4>1, <4>3, <4>4 DEF CutOff
    <3> HIDE DEF z
    <3>3. Is(z, f, 0, fn.start) /\ Is(z, f, fn.rel, fn.cluster)
      BY <1>4, <3>2
    <3>4. Is(z, Loose, 0, next)
      <4>1. Is(y, f, q, next) /\ q \in Nat
        BY <1>4, <1>5, <1>9, <2>9
      <4> HIDE DEF q
      <4>2. Is(z, Loose, q - q, next)
        BY <3>2, <4>1
      <4>. QED BY <4>1, <4>2
    <3>5. Kept(vol'.fat, z, faults')
      BY <1>2, <2>7, <3>2 DEF Kept
    <3>6. LooseAt(z, k)
      BY <2>2, <3>4, <1>9, <2>9 DEF LooseAt
    <3>7. FnAt(z, k.fn)
      <4>1. fn.size <= z.len[f] * SecSize
        BY <1>3, <3>2
      <4>2. /\ k.fn.file = f /\ k.fn.start = fn.start /\ k.fn.size = fn.size /\ k.fn.pos = fn.pos
            /\ k.fn.cluster = fn.cluster /\ k.fn.rel = fn.rel /\ k.fn.clean = fn.clean
        BY <2>1, <2>2, <2>9
      <4>3. EntryAt(z, f, k.fn)
        BY <1>3, <2>7, <3>3, <4>1, <4>2 DEF EntryAt, Leads
      <4>4. IF k.fn.start = FREE THEN k.fn.cluster = FREE /\ k.fn.rel = 0
            ELSE Is(z, k.fn.file, k.fn.rel, k.fn.cluster)
        BY <1>3, <3>3, <4>2
      <4>5. k.fn.file \in File /\ k.fn.rel \in Nat /\ k.fn.pos \in Nat
        BY <1>2, <1>4, <2>7, <4>2
      <4>6. k.fn.clean \in BOOLEAN
        BY <2>7, <4>2
      <4>7. EntryAt(z, k.fn.file, k.fn)
        BY <4>2, <4>3
      <4>. QED BY <4>4, <4>5, <4>6, <4>7 DEF FnAt
    <3>. QED BY <2>8, <3>2, <3>5, <3>6, <3>7
  <2>10. CASE empty
    <3> DEFINE x == Split(y, f, 0)
               z == Shift(x, fn.cluster)
    <3>1. /\ Laid(vol.fat, x) /\ SameBut(y, x, {f, Loose}) /\ x.len[f] = 0
          /\ \A d : Is(y, f, 0, d) => Is(x, Loose, 0, d)
          /\ \A d \in Cluster : x.own[d] = Nobody => y.own[d] = Nobody
      BY <1>2, CutsAll
    <3> HIDE DEF x
    <3>2. Is(x, Loose, 0, fn.cluster)
      BY <1>3, <1>4, <2>10, <3>1
    <3>3. vol'.fat = [vol.fat EXCEPT ![fn.cluster] = FREE]
      BY <2>6, <2>10
    <3>4. \A d \in Cluster : d # fn.cluster => vol'.fat[d] = vol.fat[d]
      BY <2>5, <3>3
    <3>5. /\ Laid(vol'.fat, z) /\ SameBut(x, z, {Loose})
          /\ IF vol.fat[fn.cluster] = LAST THEN z.len[Loose] = 0 ELSE Is(z, Loose, 0, vol.fat[fn.cluster])
          /\ \A d \in Cluster : z.own[d] = Nobody => d = fn.cluster \/ x.own[d] = Nobody
      <4>1. Frees(vol.fat, vol'.fat, x, fn.cluster)
        BY <3>1, <3>2, <3>4 DEF Frees
      <4> HIDE DEF z
      <4>2. Laid(vol'.fat, z) /\ Shifted(vol.fat, x, z, fn.cluster)
        BY <4>1, ShiftIsLaid DEF z
      <4>. QED BY <4>2 DEF Shifted
    <3> HIDE DEF z
    <3>6. SameBut(y, z, {f, Loose})
      BY <3>1, <3>5, SameOnce
    <3>7. Kept(vol'.fat, z, faults')
      <4>1. vol'.fat[fn.cluster] = FREE
        BY <1>4, <2>5, <3>3
      <4>. QED BY <1>2, <2>7, <3>1, <3>4, <3>5, <4>1 DEF Kept
    <3>8. LooseAt(z, k)
      BY <1>5, <2>2, <3>5 DEF LooseAt
    <3>9. z.len[f] = 0
      BY <1>4, <3>1, <3>5 DEF SameBut
    <3>10. FnAt(z, k.fn)
      <4>1. 0 * SecSize = 0
        BY FatAssumption
      <4>. QED BY <1>2, <1>3, <2>1, <2>2, <2>7, <2>10, <3>9, <4>1 DEF FnAt, EntryAt, Leads
    <3>. QED BY <2>8, <3>5, <3>6, <3>7, <3>8, <3>10
  <2>. QED BY <2>9, <2>10
<1>. QED BY <1>5, <1>7, <1>8, <1>9 DEF CutChain

LEMMA DoneFields ==
    ASSUME NEW k, Shaped(k), NEW pc, NEW ret, NEW st
    PROVE  LET m == [k EXCEPT !.pc = pc, !.ret = ret, !.st = st]
           IN  /\ m.fn = k.fn /\ m.h = k.h /\ m.mode = k.mode /\ m.count = k.count /\ m.left = k.left
               /\ m.pc = pc /\ m.ret = ret /\ m.st = st
BY DEF Shaped, CallFields

LEMMA WipeKeeps ==
    ASSUME IInv, NEW y, WellLaid(y), Wipe
    PROVE  \E w : WellLaid(w)'
<1> DEFINE st   == call.st
           next == IF st = LAST THEN LAST ELSE NextCluster(vol.fat, st)
           done == [call EXCEPT !.pc = call.ret, !.ret = None, !.st = 0]
<1>1. /\ call.pc = "wipe" /\ call.ret \in WipeReturn /\ Going(call) /\ HandlesGood
      /\ Laid(vol.fat, y) /\ Kept(vol.fat, y, faults) /\ LooseAt(y, call) /\ CallAt(y, call)
      /\ Others(y, Busy(call)) /\ Rest(y, Held(call))
  BY DEF Wipe, IInv, CallGood, Going, WellLaid, CallAt
<1>2. dir' = dir /\ sft' = sft
  BY DEF Wipe
\* The file of the call is as it was; what was loose may have changed.
<1>3. ASSUME NEW z, SameBut(y, z, {Loose}), Laid(vol'.fat, z), Kept(vol'.fat, z, faults'),
             NEW k, call' = k, LooseAt(z, k), k.fn = call.fn, k.h = call.h, k.mode = call.mode, k.count = call.count,
             k.left = call.left, (k.pc = "wipe" /\ k.ret = call.ret) \/ k.pc = call.ret
      PROVE  \E w : WellLaid(w)'
  <2>1. CASE call.ret = "flush"
    <3>1. Shrinking(k) /\ Shrinking(call) /\ InRw(call)
      BY <1>1, <1>3, <2>1 DEF Shrinking, InRw
    <3>2. Moving(y, call) /\ call.mode = "write" /\ Rest(y, {}) /\ Others(y, {call.h})
      BY <1>1, <3>1, RwFacts DEF CallAt
    <3>3. Moving(z, k)
      <4>1. call.fn.file \in File \ {Loose}
        BY <3>2, Outsiders DEF Moving, FnAt
      <4>2. FnAt(z, call.fn)
        BY <1>3, <3>2, <4>1, SameFile DEF Moving
      <4>. QED BY <1>3, <3>2, <4>2 DEF Moving
    <3>4. Others(z, {k.h}) /\ Rest(z, {})
      BY <1>1, <1>3, <3>2, Outsiders, SameOthers, SameRest DEF HandlesGood
    <3>. QED BY <1>1, <1>2, <1>3, <3>1, <3>2, <3>3, <3>4, ShrinkGoesOn
  <2>2. CASE call.ret \in {"create", "delete"}
    <3>1. Naming(k) /\ Naming(call) /\ (Creating(k) => Creating(call)) /\ Busy(call) = {} /\ Held(call) = {call.fn.file}
      BY <1>1, <1>3, <2>2 DEF Naming, Creating, Busy, Held, InRw, Shrinking, RwPc
    <3>2. /\ call.fn.file \in File /\ ~IsOpen(call.fn.file) /\ y.len[call.fn.file] = 0
          /\ StartOf(call.fn.file) = FREE /\ dir[call.fn.file] # None => dir[call.fn.file].size = 0
          /\ Creating(call) => call.h \in Handle /\ sft[call.h] = None
      BY <1>1, <3>1 DEF CallAt
    <3>3. z.len[call.fn.file] = 0
      BY <1>3, <3>2, Outsiders, SameFile
    <3>4. Others(z, {}) /\ Rest(z, {call.fn.file})
      BY <1>1, <1>3, <3>1, Outsiders, SameOthers, SameRest DEF HandlesGood
    <3>. QED BY <1>1, <1>2, <1>3, <3>1, <3>2, <3>3, <3>4, NamingGoesOn
  <2>. QED BY <1>1, <2>1, <2>2 DEF WipeReturn
<1>4. /\ done.fn = call.fn /\ done.h = call.h /\ done.mode = call.mode /\ done.count = call.count /\ done.left = call.left
      /\ done.pc = call.ret /\ done.ret = None /\ done.st = 0
  BY <1>1, DoneFields DEF Going
<1>5. st # LAST => /\ Is(y, Loose, 0, st) /\ st \in Cluster /\ next = vol.fat[st] /\ next \notin {FREE, Error}
                   /\ next \in Cluster \cup {LAST}
  <2>1. SUFFICES ASSUME st # LAST
                 PROVE  /\ Is(y, Loose, 0, st) /\ st \in Cluster /\ next = vol.fat[st] /\ next \notin {FREE, Error}
                        /\ next \in Cluster \cup {LAST}
    OBVIOUS
  <2>2. Is(y, Loose, 0, st) /\ Loose \in Owner
    BY <1>1, <2>1 DEF LooseAt, Owner
  <2>3. st \in Cluster /\ vol.fat[st] \in Cluster \cup {LAST}
    BY <1>1, <2>2, NextIs
  <2>4. next = vol.fat[st]
    BY <1>1, <2>1, <2>2, NextFollows
  <2>. QED BY <2>2, <2>3, <2>4, Marks
<1>6. (faults' = 0 => faults = 0) /\ (Fails => faults' # 0) /\ Kept(vol.fat, y, faults')
  BY <1>1, KeptOn DEF Wipe
<1>7. CASE st = LAST
  <2>1. call' = done /\ vol' = vol
    BY <1>7, Marks DEF Wipe
  <2>2. y.len[Loose] = 0
    BY <1>1, <1>7 DEF LooseAt
  <2>3. LooseAt(y, done)
    BY <1>1, <1>4, <2>2 DEF LooseAt, WipeReturn
  <2>4. SameBut(y, y, {Loose})
    BY DEF SameBut
  <2> HIDE DEF done
  <2>. QED BY <1>1, <1>3, <1>4, <1>6, <2>1, <2>3, <2>4
<1>8. CASE st # LAST /\ Fails /\ call' = done /\ UNCHANGED vol
  <2> DEFINE z == Drop(y, Loose)
  <2>1. Laid(vol.fat, z) /\ SameBut(y, z, {Loose}) /\ z.len[Loose] = 0
    BY <1>1, DropIsLaid DEF Owner
  <2> HIDE DEF z
  <2>2. LooseAt(z, done)
    BY <1>1, <1>4, <2>1 DEF LooseAt, WipeReturn
  <2>3. Kept(vol.fat, z, faults')
    BY <1>6, <1>8 DEF Kept
  <2> HIDE DEF done
  <2>. QED BY <1>3, <1>4, <1>8, <2>1, <2>2, <2>3
<1>9. CASE /\ st # LAST /\ next \notin {FREE, Error}
           /\ vol' = [LinkFat(vol, st, FREE) EXCEPT
                         !.hint = IF @ = UNKNCLUSTER \/ @ > st THEN st ELSE @]
           /\ call' = [call EXCEPT !.st = next]
  <2> DEFINE z == Shift(y, st)
             k == [call EXCEPT !.st = next]
  <2>1. vol'.fat = [vol.fat EXCEPT ![st] = FREE] /\ vol.fat \in [Cluster -> Entry]
    <3>1. vol \in [fat : [Cluster -> Entry], nfree : Int, hint : Int]
      BY DEF IInv, VolGood
    <3>2. LinkFat(vol, st, FREE).fat = [vol.fat EXCEPT ![st] = FREE]
      BY <1>5, <1>9, <3>1, LinkedFat
    <3>3. vol'.fat = LinkFat(vol, st, FREE).fat
      BY <1>9, <3>1 DEF LinkFat
    <3>. QED BY <3>1, <3>2, <3>3
  <2>2. \A d \in Cluster : d # st => vol'.fat[d] = vol.fat[d]
    BY <2>1
  <2>3. /\ Laid(vol'.fat, z) /\ SameBut(y, z, {Loose})
        /\ IF vol.fat[st] = LAST THEN z.len[Loose] = 0 ELSE Is(z, Loose, 0, vol.fat[st])
        /\ \A d \in Cluster : z.own[d] = Nobody => d = st \/ y.own[d] = Nobody
    <3>1. Frees(vol.fat, vol'.fat, y, st)
      BY <1>1, <1>5, <1>9, <2>2 DEF Frees
    <3> HIDE DEF z, st
    <3>2. Laid(vol'.fat, z) /\ Shifted(vol.fat, y, z, st)
      BY <3>1, ShiftIsLaid DEF z
    <3>. QED BY <3>2 DEF Shifted
  <2> HIDE DEF z
  <2>4. /\ k.fn = call.fn /\ k.h = call.h /\ k.mode = call.mode /\ k.count = call.count /\ k.left = call.left
        /\ k.pc = "wipe" /\ k.ret = call.ret /\ k.st = next
    BY <1>1 DEF Going, Shaped, CallFields
  <2>5. Kept(vol'.fat, z, faults')
    <3>1. vol'.fat[st] = FREE
      BY <1>5, <1>9, <2>1
    <3>. QED BY <1>1, <1>6, <2>2, <2>3, <3>1 DEF Kept
  <2>6. LooseAt(z, k)
    BY <1>5, <1>9, <2>3, <2>4 DEF LooseAt
  <2>7. call' = k
    BY <1>9
  <2> HIDE DEF k
  <2>. QED BY <1>3, <2>3, <2>4, <2>5, <2>6, <2>7
<1>. QED BY <1>5, <1>7, <1>8, <1>9 DEF Wipe

-----------------------------------------------------------------------------
(* Between calls: open, close, the directory.                              *)

\* What is known between calls.
LEMMA IdleFacts ==
    ASSUME NEW y, WellLaid(y), BetweenCalls
    PROVE  /\ call.pc = "idle" /\ HandlesGood /\ Laid(vol.fat, y) /\ Kept(vol.fat, y, faults)
           /\ Others(y, {}) /\ Rest(y, {}) /\ y.len[Loose] = 0
<1>1. call.pc = "idle"
  BY DEF BetweenCalls, NoCall
<1>2. Busy(call) = {} /\ Held(call) = {}
  BY <1>1 DEF Busy, Held, InRw, Shrinking, RwPc
<1>3. y.len[Loose] = 0
  BY <1>1 DEF WellLaid, CallAt, LooseAt
<1>. QED BY <1>1, <1>2, <1>3 DEF WellLaid

\* A call is over, or was none.
LEMMA IdleGoesOn ==
    ASSUME HandlesGood', NEW z, Laid(vol'.fat, z), Kept(vol'.fat, z, faults'), call' = NoCall,
           z.len[Loose] = 0, Others(z, {})', Rest(z, {})'
    PROVE  \E w : WellLaid(w)'
<1> DEFINE k == NoCall
<1>1. k.pc = "idle"
  BY DEF NoCall
<1> HIDE DEF k
<1>2. ~InRw(k) /\ k.pc \notin RwPc /\ ~Shrinking(k) /\ ~Naming(k)
  BY <1>1 DEF InRw, Shrinking, RwPc, Naming
<1>3. Busy(k) = {} /\ Held(k) = {}
  BY <1>1, <1>2 DEF Busy, Held
<1>4. CallAt(z, k)'
  BY <1>1, <1>2 DEF CallAt, LooseAt
<1>5. call' = k
  BY DEF k
<1>. QED BY <1>3, <1>4, <1>5, Assembled

LEMMA FreshIsAt ==
    ASSUME NEW y, NEW f \in File, NEW e, e.start \in Start, EntryAt(y, f, e)
    PROVE  FnAt(y, Fresh(f, e)) /\ Fresh(f, e) \notin {None, Orphan} /\ Fresh(f, e).file = f
           /\ Fresh(f, e).start = e.start /\ Fresh(f, e).size = e.size
<1> DEFINE fn == Fresh(f, e)
<1>1. /\ fn.file = f /\ fn.start = e.start /\ fn.size = e.size /\ fn.pos = 0 /\ fn.cluster = e.start /\ fn.rel = 0
      /\ fn.clean = TRUE /\ FnGood(fn)
  BY FreshIsGood DEF Fresh
<1> HIDE DEF fn
<1>2. FnAt(y, fn)
  <2>1. EntryAt(y, fn.file, fn)
    BY <1>1 DEF EntryAt
  <2>2. fn.start # FREE => Is(y, f, 0, fn.start)
    BY <1>1 DEF EntryAt, Leads
  <2>3. IF fn.start = FREE THEN fn.cluster = FREE /\ fn.rel = 0 ELSE Is(y, fn.file, fn.rel, fn.cluster)
    BY <1>1, <2>2
  <2>4. fn.clean \in BOOLEAN
    <3>1. TRUE \in BOOLEAN
      OBVIOUS
    <3>. QED BY <1>1, <3>1, Zenon
  <2>5. fn.pos \in Nat /\ fn.rel \in Nat
    BY <1>1
  <2>6. fn.file \in File
    BY <1>1
  <2>. QED BY <2>1, <2>3, <2>4, <2>5, <2>6 DEF FnAt
<1>3. fn \notin {None, Orphan}
  BY <1>1, <1>2, NoMark DEF FnAt, EntryAt
<1>. QED BY <1>1, <1>2, <1>3 DEF fn

\* An entry without clusters is of size 0.
LEMMA EmptyEntry ==
    ASSUME NEW fat, NEW y, Laid(fat, y), NEW f \in File, NEW e, EntryAt(y, f, e)
    PROVE  e.start = FREE => y.len[f] = 0 /\ e.size = 0
BY FatAssumption DEF EntryAt, Leads

LEMMA HandleTakes ==
    ASSUME SftGood(sft), NEW h \in Handle, NEW x, sft' = [sft EXCEPT ![h] = x]
    PROVE  \A i \in Handle : sft'[i] = IF i = h THEN x ELSE sft[i]
BY DEF SftGood

LEMMA EntryTakes ==
    ASSUME DirGood(dir), NEW f \in File, NEW x, dir' = [dir EXCEPT ![f] = x]
    PROVE  \A g \in File : dir'[g] = IF g = f THEN x ELSE dir[g]
BY DEF DirGood

\* A handle of a file that was not open.
LEMMA OpensOne ==
    ASSUME SftGood(sft), HandlesGood, NEW y, Others(y, {}), NEW f \in File, NEW h \in Handle, sft[h] = None, ~IsOpen(f),
           NEW x, sft' = [sft EXCEPT ![h] = x], FnAt(y, x), x \notin {None, Orphan}, x.file = f,
           dir'[f] # None /\ dir'[f].start = x.start /\ dir'[f].size = x.size,
           \A g \in File : g # f => dir'[g] = dir[g],
           Rest(y, {f})
    PROVE  HandlesGood' /\ Others(y, {})' /\ Rest(y, {})'
<1>1. \A i \in Handle : sft'[i] = IF i = h THEN x ELSE sft[i]
  BY DEF SftGood
<1>2. \A i \in Handle : Open(i)' <=> i = h \/ Open(i)
  BY <1>1 DEF Open
<1>3. \A i \in Handle : Open(i) => i # h /\ sft[i].file # f /\ sft[i].file \in File
  BY DEF Open, IsOpen, HandlesGood
<1>4. \A g \in File : IsOpen(g)' <=> g = f \/ IsOpen(g)
  BY <1>1, <1>2, <1>3 DEF IsOpen
<1>5. Others(y, {})'
  BY <1>1, <1>2 DEF Others
<1>6. Rest(y, {})'
  BY <1>4 DEF Rest
<1>7. HandlesGood'
  <2>1. ASSUME NEW i \in Handle, Open(i)'
        PROVE  sft'[i].file \in File /\ dir'[sft'[i].file] # None /\ Clean(sft[i])'
    <3>1. CASE i = h
      BY <1>1, <3>1 DEF Clean
    <3>2. CASE i # h
      <4>1. Open(i) /\ sft'[i] = sft[i] /\ sft[i].file # f /\ sft[i].file \in File /\ dir[sft[i].file] # None /\ Clean(sft[i])
        BY <1>1, <1>2, <1>3, <2>1, <3>2 DEF HandlesGood
      <4>. QED BY <4>1 DEF Clean
    <3>. QED BY <3>1, <3>2
  <2>2. ASSUME NEW i \in Handle, NEW j \in Handle, Open(i)', Open(j)', sft'[i].file = sft'[j].file
        PROVE  i = j
    BY <1>1, <1>2, <1>3, <2>2 DEF HandlesGood
  <2>. QED BY <2>1, <2>2 DEF HandlesGood
<1>. QED BY <1>5, <1>6, <1>7

LEMMA OpenKeeps ==
    ASSUME IInv, NEW y, WellLaid(y), NEW f \in File, NEW h \in Handle, OpenFile(f, h)
    PROVE  \E w : WellLaid(w)'
<1>1. /\ HandlesGood /\ Laid(vol.fat, y) /\ Kept(vol.fat, y, faults) /\ Others(y, {}) /\ Rest(y, {}) /\ y.len[Loose] = 0
  BY IdleFacts DEF OpenFile
<1>2. /\ sft[h] = None /\ dir[f] # None /\ ~IsOpen(f) /\ sft' = [sft EXCEPT ![h] = Fresh(f, dir[f])]
      /\ dir' = dir /\ call' = NoCall /\ vol' = vol /\ faults' = faults
  BY DEF OpenFile, BetweenCalls
<1>3. EntryAt(y, f, dir[f]) /\ dir[f].start \in Start
  BY <1>1, <1>2 DEF Rest, IInv, DirGood
<1> DEFINE x == Fresh(f, dir[f])
<1>4. /\ FnAt(y, x) /\ x \notin {None, Orphan} /\ x.file = f /\ x.start = dir[f].start /\ x.size = dir[f].size
  BY <1>3, FreshIsAt
<1>5. sft' = [sft EXCEPT ![h] = x] /\ SftGood(sft) /\ Rest(y, {f})
  BY <1>1, <1>2, RestsLess DEF IInv
<1> HIDE DEF x
<1>6. HandlesGood' /\ Others(y, {})' /\ Rest(y, {})'
  BY <1>1, <1>2, <1>4, <1>5, OpensOne
<1>. QED BY <1>1, <1>2, <1>6, IdleGoesOn

LEMMA WipeOutFields ==
    ASSUME NEW f, NEW c, Shaped(c), WipeOut(f, c)
    PROVE  \E k : /\ call' = k /\ k.fn.file = f /\ k.h = c.h /\ k.st = StartOf(f)
                  /\ IF StartOf(f) = FREE THEN k.pc = c.ret ELSE k.pc = "wipe" /\ k.ret = c.ret
<1> DEFINE st  == StartOf(f)
           fn  == Fresh(f, Empty)
           pc  == IF st = FREE THEN c.ret ELSE "wipe"
           ret == IF st = FREE THEN None ELSE c.ret
           k   == [c EXCEPT !.fn = fn, !.st = st, !.pc = pc, !.ret = ret]
<1>1. call' = k
  BY DEF WipeOut
<1>2. fn.file = f
  BY DEF Fresh
<1>3. (st = FREE => pc = c.ret) /\ (st # FREE => pc = "wipe" /\ ret = c.ret)
  OBVIOUS
<1>4. st = StartOf(f)
  OBVIOUS
<1> HIDE DEF fn, pc, ret, st
<1>5. k.fn = fn /\ k.h = c.h /\ k.st = st /\ k.pc = pc /\ k.ret = ret
  BY DEF Shaped, CallFields
<1> HIDE DEF k
<1>. QED BY <1>1, <1>2, <1>3, <1>4, <1>5

\* The clusters of a file are let go.
LEMMA WipeOutKeeps ==
    ASSUME IInv, NEW y, WellLaid(y), BetweenCalls, NEW f \in File, ~IsOpen(f),
           NEW c, Shaped(c), c.ret \in {"create", "delete"}, c.ret = "create" => c.h \in Handle /\ sft[c.h] = None,
           WipeOut(f, c), UNCHANGED <<vol, dir, sft, faults>>
    PROVE  \E w : WellLaid(w)'
<1>1. /\ HandlesGood /\ Laid(vol.fat, y) /\ Kept(vol.fat, y, faults) /\ Others(y, {}) /\ Rest(y, {}) /\ y.len[Loose] = 0
  BY IdleFacts
<1>2. PICK k : /\ call' = k /\ k.fn.file = f /\ k.h = c.h /\ k.st = StartOf(f)
               /\ IF StartOf(f) = FREE THEN k.pc = c.ret ELSE k.pc = "wipe" /\ k.ret = c.ret
  BY WipeOutFields
<1>3. /\ StartOf(f) = FREE => y.len[f] = 0 /\ (dir[f] # None => dir[f].size = 0)
      /\ StartOf(f) # FREE => StartOf(f) # LAST /\ Is(y, f, 0, StartOf(f))
  <2>1. CASE dir[f] = None
    BY <1>1, <2>1 DEF Rest, StartOf
  <2>2. CASE dir[f] # None
    <3>1. EntryAt(y, f, dir[f]) /\ dir[f].start \in Start /\ StartOf(f) = dir[f].start
      BY <1>1, <2>2 DEF Rest, IInv, DirGood, StartOf
    <3>2. StartOf(f) = FREE => y.len[f] = 0 /\ dir[f].size = 0
      BY <1>1, <3>1, EmptyEntry
    <3>3. StartOf(f) # FREE => StartOf(f) # LAST /\ Is(y, f, 0, StartOf(f))
      BY <3>1, Marks DEF EntryAt, Leads, Start
    <3>. QED BY <3>2, <3>3
  <2>. QED BY <2>1, <2>2
<1> DEFINE z == Split(y, f, 0)
<1>4. /\ Laid(vol.fat, z) /\ SameBut(y, z, {f, Loose}) /\ z.len[f] = 0
      /\ \A d : Is(y, f, 0, d) => Is(z, Loose, 0, d)
      /\ y.len[f] = 0 => z.len[Loose] = 0
      /\ \A d \in Cluster : z.own[d] = Nobody => y.own[d] = Nobody
  BY <1>1, CutsAll
<1> HIDE DEF z
<1>5. Naming(k) /\ (Creating(k) => c.ret = "create")
  BY <1>2 DEF Naming, Creating
<1>6. LooseAt(z, k)
  BY <1>2, <1>3, <1>4 DEF LooseAt
<1>7. Kept(vol.fat, z, faults)
  BY <1>1, <1>4 DEF Kept
<1>8. Others(z, {})
  <2>1. \A h \in Handle \ {} : Open(h) => sft[h].file \notin {f, Loose}
    BY <1>1, Outsiders DEF IsOpen, HandlesGood
  <2>. QED BY <1>1, <1>4, <2>1, SameOthers
<1>9. Rest(z, {f})
  <2>1. Rest(y, {f})
    BY <1>1, RestsLess
  <2>2. \A g \in File \ {f} : ~IsOpen(g) => g \notin {f, Loose}
    BY Outsiders
  <2>. QED BY <1>4, <2>1, <2>2, SameRest
<1>10. vol' = vol /\ dir' = dir /\ sft' = sft /\ faults' = faults
  OBVIOUS
<1>11. Laid(vol'.fat, z) /\ Kept(vol'.fat, z, faults')
  BY <1>4, <1>7, <1>10
<1>12. /\ k.fn.file \in File /\ ~IsOpen(k.fn.file) /\ z.len[k.fn.file] = 0
       /\ StartOf(k.fn.file) = FREE /\ dir[k.fn.file] # None => dir[k.fn.file].size = 0
       /\ Creating(k) => k.h \in Handle /\ sft[k.h] = None
       /\ Rest(z, {k.fn.file})
  BY <1>2, <1>3, <1>4, <1>5, <1>9
<1>. QED BY <1>1, <1>2, <1>5, <1>6, <1>8, <1>10, <1>11, <1>12, NamingGoesOn

LEMMA CreateKeeps ==
    ASSUME IInv, NEW y, WellLaid(y), NEW f \in File, NEW h \in Handle, Create(f, h)
    PROVE  \E w : WellLaid(w)'
<1> DEFINE c == [NoCall EXCEPT !.h = h, !.ret = "create"]
<1>1. Shaped(c) /\ c.ret = "create" /\ c.h = h
  BY DEF NoCall, Shaped, CallFields
<1>2. WipeOut(f, c) /\ BetweenCalls /\ ~IsOpen(f) /\ sft[h] = None /\ UNCHANGED <<vol, dir, sft, faults>>
  BY DEF Create
<1> HIDE DEF c
<1>. QED BY <1>1, <1>2, WipeOutKeeps

LEMMA DeleteKeeps ==
    ASSUME IInv, NEW y, WellLaid(y), NEW f \in File, Delete(f)
    PROVE  \E w : WellLaid(w)'
<1> DEFINE c == [NoCall EXCEPT !.ret = "delete"]
<1>1. Shaped(c) /\ c.ret = "delete"
  BY DEF NoCall, Shaped, CallFields
<1>2. WipeOut(f, c) /\ BetweenCalls /\ ~IsOpen(f) /\ UNCHANGED <<vol, dir, sft, faults>>
  BY DEF Delete
<1> HIDE DEF c
<1>. QED BY <1>1, <1>2, WipeOutKeeps

\* dir_write, whatever it could write.
LEMMA WriteEntryKeeps ==
    ASSUME IInv, NEW y, WellLaid(y), WriteEntry
    PROVE  seeded' \/ \E w : WellLaid(w)'
<1> DEFINE f == call.fn.file
           e == IF call.pc = "create" THEN Empty ELSE None
           written == [dir EXCEPT ![f] = e]
<1>1. call.pc \in {"create", "delete"} /\ Naming(call) /\ Busy(call) = {} /\ Held(call) = {f} /\ (call.pc = "create" => Creating(call))
  BY DEF WriteEntry, Naming, Creating, Busy, Held, InRw, Shrinking, RwPc
<1>2. /\ HandlesGood /\ Laid(vol.fat, y) /\ Kept(vol.fat, y, faults) /\ Others(y, {}) /\ Rest(y, {f})
      /\ f \in File /\ ~IsOpen(f) /\ y.len[f] = 0 /\ y.len[Loose] = 0
      /\ StartOf(f) = FREE /\ dir[f] # None => dir[f].size = 0
      /\ call.pc = "create" => call.h \in Handle /\ sft[call.h] = None
  BY <1>1 DEF WellLaid, CallAt, LooseAt
<1>3. /\ call' = NoCall /\ vol' = vol
      /\ \/ /\ Works /\ dir' = written
            /\ sft' = IF call.pc = "create" THEN [sft EXCEPT ![call.h] = Fresh(f, Empty)] ELSE sft
         \/ Fails /\ UNCHANGED <<dir, sft>> /\ seeded' = (seeded \/ StartOf(f) # FREE)
         \/ Fails /\ dir' = written /\ sft' = sft
  BY DEF WriteEntry
<1>4. Kept(vol'.fat, y, faults') /\ Laid(vol'.fat, y)
  BY <1>2, <1>3, KeptOn
<1>5. /\ Empty # None /\ Empty.start = FREE /\ Empty.size = 0 /\ Empty.start \in Start /\ EntryAt(y, f, Empty)
  <2>1. Empty.start = FREE /\ Empty.size = 0 /\ Empty \in [start : Int, size : Int]
    BY DEF Empty, FREE
  <2>2. EntryAt(y, f, Empty)
    BY <1>2, <2>1, FatAssumption DEF EntryAt, Leads
  <2>. QED BY <2>1, <2>2, MarksAssumption DEF Start
<1>6. e = None \/ (e # None /\ EntryAt(y, f, e))
  BY <1>5
<1>7. dir' = written => \A x \in File : dir'[x] = IF x = f THEN e ELSE dir[x]
  <2>1. DirGood(dir) /\ f \in File
    BY <1>2 DEF IInv
  <2> HIDE DEF e, f
  <2>. QED BY <2>1, EntryTakes
<1>8. CASE dir' = written /\ sft' = sft
  <2>1. \A x \in File : dir'[x] = IF x = f THEN e ELSE dir[x]
    BY <1>7, <1>8
  <2>2. \A h \in Handle : Open(h) => sft[h].file # f /\ sft[h].file \in File
    BY <1>2 DEF IsOpen, HandlesGood
  <2>3. (\A h \in Handle : Open(h)' <=> Open(h)) /\ \A x \in File : IsOpen(x)' <=> IsOpen(x)
    BY <1>8 DEF Open, IsOpen
  <2> HIDE DEF f, e, written
  <2>4. HandlesGood'
    BY <1>2, <1>8, <2>1, <2>2, <2>3 DEF HandlesGood, Clean
  <2>5. Others(y, {})'
    BY <1>2, <1>8, <2>3 DEF Others
  <2>6. Rest(y, {})'
    BY <1>2, <1>6, <2>1, <2>3 DEF Rest
  <2>. QED BY <1>2, <1>3, <1>4, <2>4, <2>5, <2>6, IdleGoesOn
<1>9. CASE dir' = written /\ call.pc = "create" /\ sft' = [sft EXCEPT ![call.h] = Fresh(f, Empty)]
  <2>1. \A x \in File : dir'[x] = IF x = f THEN Empty ELSE dir[x]
    BY <1>7, <1>9
  <2> DEFINE x == Fresh(f, Empty)
  <2>2. FnAt(y, x) /\ x \notin {None, Orphan} /\ x.file = f /\ x.start = Empty.start /\ x.size = Empty.size
    BY <1>2, <1>5, FreshIsAt
  <2>3. sft' = [sft EXCEPT ![call.h] = x] /\ SftGood(sft) /\ call.h \in Handle /\ sft[call.h] = None
    BY <1>2, <1>9 DEF IInv
  <2>4. /\ dir'[f] # None /\ dir'[f].start = x.start /\ dir'[f].size = x.size
        /\ \A h \in File : h # f => dir'[h] = dir[h]
    BY <1>2, <1>5, <2>1, <2>2
  <2> HIDE DEF x, f, e, written
  <2>5. HandlesGood' /\ Others(y, {})' /\ Rest(y, {})'
    BY <1>2, <2>2, <2>3, <2>4, OpensOne
  <2>. QED BY <1>2, <1>3, <1>4, <2>5, IdleGoesOn
<1>10. CASE UNCHANGED <<dir, sft>> /\ seeded' = (seeded \/ StartOf(f) # FREE)
  <2>1. SUFFICES ASSUME StartOf(f) = FREE PROVE \E w : WellLaid(w)'
    BY <1>10
  <2>2. dir' = dir /\ sft' = sft
    BY <1>10
  <2>3. dir[f] # None => EntryAt(y, f, dir[f])
    BY <1>2, <2>1, FatAssumption DEF StartOf, EntryAt, Leads
  <2> HIDE DEF f
  <2>4. Rest(y, {})
    BY <1>2, <2>3 DEF Rest
  <2>5. HandlesGood' /\ Others(y, {})' /\ Rest(y, {})'
    BY <1>2, <2>2, <2>4, StillGood, StillLaid
  <2>. QED BY <1>2, <1>3, <1>4, <2>5, IdleGoesOn
<1>. QED BY <1>3, <1>8, <1>9, <1>10

\* A directory entry that no handle stands for changes.
LEMMA EntryChanges ==
    ASSUME HandlesGood, NEW f \in File, ~IsOpen(f), sft' = sft, \A x \in File : x # f => dir'[x] = dir[x]
    PROVE  /\ HandlesGood'
           /\ \A x \in File : IsOpen(x)' <=> IsOpen(x)
           /\ \A y, X : Others(y, X) => Others(y, X)'
<1>1. \A h \in Handle : Open(h) => sft[h].file # f /\ sft[h].file \in File
  BY DEF IsOpen, HandlesGood
<1>2. (\A h \in Handle : Open(h)' <=> Open(h)) /\ \A x \in File : IsOpen(x)' <=> IsOpen(x)
  BY DEF Open, IsOpen
<1>3. HandlesGood'
  BY <1>1, <1>2 DEF HandlesGood, Clean
<1>4. \A y, X : Others(y, X) => Others(y, X)'
  BY <1>2 DEF Others
<1>. QED BY <1>2, <1>3, <1>4

\* A file under another name.
LEMMA RenameIsLaid ==
    ASSUME NEW fat, NEW y, Laid(fat, y), NEW f \in File, NEW g \in File, f # g, y.len[g] = 0
    PROVE  Laid(fat, Rename(y, f, g)) /\ Named(y, Rename(y, f, g), f, g)
<1> DEFINE z == Rename(y, f, g)
<1>1. f \in Owner /\ g \in Owner /\ Loose \in Owner /\ Loose \notin {f, g} /\ Nobody \notin {f, g}
  BY Outsiders DEF Owner
<1>2. /\ y.own \in [Cluster -> Owner \cup {Nobody}] /\ y.idx \in [Cluster -> Nat] /\ y.len \in [Owner -> Nat]
      /\ \A c \in Cluster : y.own[c] # Nobody => y.own[c] \in Owner /\ y.idx[c] < y.len[y.own[c]]
  BY Types
<1>3. /\ z.own = [d \in Cluster |-> IF y.own[d] = f THEN g ELSE y.own[d]] /\ z.idx = y.idx
      /\ z.len = [y.len EXCEPT ![f] = 0, ![g] = y.len[f]] /\ z = [own |-> z.own, idx |-> z.idx, len |-> z.len]
  BY DEF Rename
<1> HIDE DEF z
<1>4. /\ z.own \in [Cluster -> Owner \cup {Nobody}] /\ z.len \in [Owner -> Nat]
      /\ z.len[f] = 0 /\ z.len[g] = y.len[f] /\ \A p \in Owner \ {f, g} : z.len[p] = y.len[p]
  BY <1>1, <1>2, <1>3
<1>5. z \in Layout
  BY <1>2, <1>3, <1>4 DEF Layout
<1>6. \A c \in Cluster : y.own[c] # g
  <2>1. ASSUME NEW c \in Cluster, y.own[c] = g PROVE FALSE
    <3>1. y.idx[c] < y.len[g] /\ y.idx[c] \in Nat
      BY <1>1, <1>2, <2>1
    <3>. QED BY <3>1
  <2>. QED BY <2>1
<1>7. /\ \A i, d : Is(y, f, i, d) => Is(z, g, i, d)
      /\ \A p \in Owner \ {f, g} : \A i, d : Is(y, p, i, d) => Is(z, p, i, d)
  BY <1>3 DEF Is
<1>8. \A d \in Cluster : /\ z.idx[d] = y.idx[d] /\ z.own[d] # f
                         /\ IF y.own[d] = f THEN z.own[d] = g ELSE z.own[d] = y.own[d] /\ z.own[d] # g
  BY <1>3, <1>6
<1>9. ASSUME NEW d \in Cluster, z.own[d] # Nobody
      PROVE  /\ z.idx[d] < z.len[z.own[d]]
             /\ IF z.idx[d] + 1 = z.len[z.own[d]] THEN fat[d] = LAST ELSE Is(z, z.own[d], z.idx[d] + 1, fat[d])
  <2>1. y.own[d] # Nobody /\ y.own[d] \in Owner
    BY <1>1, <1>2, <1>8, <1>9
  <2>2. /\ y.idx[d] < y.len[y.own[d]]
        /\ IF y.idx[d] + 1 = y.len[y.own[d]] THEN fat[d] = LAST ELSE Is(y, y.own[d], y.idx[d] + 1, fat[d])
    BY <2>1 DEF Laid
  <2>3. CASE y.own[d] = f
    BY <1>4, <1>7, <1>8, <2>2, <2>3
  <2>4. CASE y.own[d] # f
    BY <1>4, <1>7, <1>8, <2>1, <2>2, <2>4
  <2>. QED BY <2>3, <2>4
<1>10. \A c, d \in Cluster : z.own[c] # Nobody /\ z.own[c] = z.own[d] /\ z.idx[c] = z.idx[d] => c = d
  <2>1. ASSUME NEW c \in Cluster, NEW d \in Cluster, z.own[c] # Nobody, z.own[c] = z.own[d], z.idx[c] = z.idx[d]
        PROVE  c = d
    <3>1. y.own[c] # Nobody /\ y.own[c] = y.own[d] /\ y.idx[c] = y.idx[d]
      BY <1>1, <1>8, <2>1
    <3>. QED BY <3>1 DEF Laid
  <2>. QED BY <2>1
<1>11. Laid(fat, z)
  BY <1>5, <1>9, <1>10 DEF Laid
<1>12. SameBut(y, z, {f, g})
  BY <1>4, <1>7 DEF SameBut
<1>13. \A d \in Cluster : z.own[d] = Nobody => y.own[d] = Nobody
  BY <1>1, <1>8
<1>. QED BY <1>1, <1>4, <1>7, <1>11, <1>12, <1>13 DEF z, Named

\* The call that is to write the entry of a moved file.
LEMMA MovingGoesOn ==
    ASSUME HandlesGood', NEW z, Laid(vol'.fat, z), Kept(vol'.fat, z, faults'), z.len[Loose] = 0,
           NEW k, call' = k, k.pc = "move", NEW g \in File, k.fn.file = g, ~IsOpen(g)', dir'[g] = None, EntryAt(z, g, k.fn),
           Others(z, {})', Rest(z, {g})'
    PROVE  \E w : WellLaid(w)'
<1>1. k.pc \notin RwPc /\ ~InRw(k) /\ ~Shrinking(k) /\ ~Naming(k) /\ Busy(k) = {} /\ Held(k) = {g}
  BY DEF InRw, RwPc, Shrinking, Naming, Busy, Held
<1>2. CallAt(z, k)'
  BY <1>1 DEF CallAt, LooseAt
<1>3. Others(z, Busy(k))' /\ Rest(z, Held(k))'
  BY <1>1
<1>. QED BY <1>2, <1>3, Assembled

\* dos_rename: the file is nowhere until the new entry is written.
LEMMA MoveKeeps ==
    ASSUME IInv, NEW y, WellLaid(y), NEW f \in File, NEW g \in File, Move(f, g)
    PROVE  \E w : WellLaid(w)'
<1>1. /\ call.pc = "idle" /\ HandlesGood /\ Laid(vol.fat, y) /\ Kept(vol.fat, y, faults)
      /\ Others(y, {}) /\ Rest(y, {}) /\ y.len[Loose] = 0
  BY IdleFacts DEF Move
<1>2. /\ dir[f] # None /\ dir[g] = None /\ ~IsOpen(f) /\ vol' = vol /\ sft' = sft /\ f # g /\ (Works \/ Fails)
      /\ call = NoCall
  BY DEF Move, BetweenCalls
<1>3. Kept(vol.fat, y, faults') /\ (Fails => faults' # 0)
  BY <1>1, <1>2, KeptOn
<1>4. EntryAt(y, f, dir[f]) /\ dir[f].start \in Start /\ ~IsOpen(g) /\ y.len[g] = 0 /\ DirGood(dir)
  BY <1>1, <1>2 DEF Rest, IInv, DirGood, IsOpen, HandlesGood
<1>5. ASSUME NEW d \in {None}, dir' = [dir EXCEPT ![f] = d]
      PROVE  /\ dir'[f] = None /\ \A x \in File : x # f => dir'[x] = dir[x]
             /\ HandlesGood' /\ (\A x \in File : IsOpen(x)' <=> IsOpen(x)) /\ \A w, X : Others(w, X) => Others(w, X)'
  <2>1. \A x \in File : dir'[x] = IF x = f THEN d ELSE dir[x]
    BY <1>4, <1>5, EntryTakes
  <2>. QED BY <1>1, <1>2, <2>1, EntryChanges
<1>6. CASE dir' = [dir EXCEPT ![f] = None] /\ call' = [NoCall EXCEPT !.pc = "move", !.fn = Fresh(g, dir[f])]
  <2> DEFINE z == Rename(y, f, g)
  <2>1. PICK k : /\ call' = k /\ k.pc = "move" /\ k.fn.file = g /\ k.fn.start = dir[f].start /\ k.fn.size = dir[f].size
    <3> DEFINE fn == Fresh(g, dir[f])
               c  == [NoCall EXCEPT !.pc = "move", !.fn = fn]
    <3>1. fn.file = g /\ fn.start = dir[f].start /\ fn.size = dir[f].size
      BY DEF Fresh
    <3>2. call' = c
      BY <1>6
    <3> HIDE DEF fn
    <3>3. c.pc = "move" /\ c.fn = fn
      BY DEF NoCall
    <3> HIDE DEF c
    <3>. QED BY <3>1, <3>2, <3>3
  <2>2. /\ dir'[f] = None /\ \A x \in File : x # f => dir'[x] = dir[x]
        /\ HandlesGood' /\ (\A x \in File : IsOpen(x)' <=> IsOpen(x)) /\ \A w, X : Others(w, X) => Others(w, X)'
    BY <1>5, <1>6
  <2>3. /\ Laid(vol.fat, z) /\ SameBut(y, z, {f, g}) /\ z.len[f] = 0 /\ z.len[g] = y.len[f] /\ z.len[Loose] = y.len[Loose]
        /\ \A i, d : Is(y, f, i, d) => Is(z, g, i, d)
        /\ \A d \in Cluster : z.own[d] = Nobody => y.own[d] = Nobody
    <3> HIDE DEF z
    <3>1. Laid(vol.fat, z) /\ Named(y, z, f, g)
      BY <1>1, <1>2, <1>4, RenameIsLaid DEF z
    <3>. QED BY <3>1 DEF Named
  <2> HIDE DEF z
  <2>4. EntryAt(z, g, k.fn)
    BY <1>4, <2>1, <2>3 DEF EntryAt, Leads
  <2>5. Others(z, {})
    <3>1. \A h \in Handle \ {} : Open(h) => sft[h].file \notin {f, g}
      BY <1>1, <1>2, <1>4 DEF IsOpen
    <3>. QED BY <1>1, <2>3, <3>1, SameOthers
  <2>6. Rest(z, {g})'
    <3>1. Rest(y, {f, g})
      BY <1>1, RestsLess
    <3>2. \A x \in File \ {f, g} : ~IsOpen(x) => x \notin {f, g}
      OBVIOUS
    <3>3. Rest(z, {f, g})
      BY <2>3, <3>1, <3>2, SameRest
    <3>. QED BY <2>2, <2>3, <3>3 DEF Rest
  <2>7. Laid(vol'.fat, z) /\ Kept(vol'.fat, z, faults')
    BY <1>2, <1>3, <2>3 DEF Kept
  <2>8. ~IsOpen(g)' /\ dir'[g] = None /\ z.len[Loose] = 0
    BY <1>1, <1>2, <1>4, <2>2, <2>3
  <2>9. Others(z, {})'
    BY <2>2, <2>5
  <2>. QED BY <2>1, <2>2, <2>4, <2>6, <2>7, <2>8, <2>9, MovingGoesOn
<1>7. CASE UNCHANGED <<dir, call>>
  <2>1. dir' = dir /\ call' = NoCall
    BY <1>2, <1>7
  <2>2. HandlesGood' /\ Others(y, {})' /\ Rest(y, {})'
    BY <1>1, <1>2, <2>1, StillGood, StillLaid
  <2>. QED BY <1>1, <1>2, <1>3, <2>1, <2>2, IdleGoesOn
<1>8. CASE Fails /\ dir' = [dir EXCEPT ![f] = None] /\ UNCHANGED call
  <2> DEFINE z == Drop(y, f)
  <2>1. /\ dir'[f] = None /\ \A x \in File : x # f => dir'[x] = dir[x]
        /\ HandlesGood' /\ (\A x \in File : IsOpen(x)' <=> IsOpen(x)) /\ \A w, X : Others(w, X) => Others(w, X)'
    BY <1>5, <1>8
  <2>2. Laid(vol.fat, z) /\ SameBut(y, z, {f}) /\ z.len[f] = 0
    BY <1>1, DropIsLaid DEF Owner
  <2> HIDE DEF z
  <2>3. Others(z, {})
    <3>1. \A h \in Handle \ {} : Open(h) => sft[h].file \notin {f}
      BY <1>2 DEF IsOpen
    <3>. QED BY <1>1, <2>2, <3>1, SameOthers
  <2>4. Rest(z, {})'
    <3>1. Rest(y, {f})
      BY <1>1, RestsLess
    <3>2. \A x \in File \ {f} : ~IsOpen(x) => x \notin {f}
      OBVIOUS
    <3>3. Rest(z, {f})
      BY <2>2, <3>1, <3>2, SameRest
    <3>. QED BY <2>1, <2>2, <3>3 DEF Rest
  <2>5. z.len[Loose] = 0
    BY <1>1, <2>2, Outsiders DEF SameBut, Owner
  <2>6. Laid(vol'.fat, z) /\ Kept(vol'.fat, z, faults') /\ call' = NoCall
    BY <1>2, <1>3, <1>8, <2>2 DEF Kept
  <2>. QED BY <2>1, <2>3, <2>4, <2>5, <2>6, IdleGoesOn
<1>. QED BY <1>6, <1>7, <1>8 DEF Move

\* An entry that is written is no mark.
LEMMA WrittenIsAt ==
    ASSUME NEW y, NEW f \in File, NEW fn, fn.start \in Start, EntryAt(y, f, fn)
    PROVE  LET e == [start |-> fn.start, size |-> fn.size]
           IN  e # None /\ EntryAt(y, f, e) /\ e.start = fn.start /\ e.size = fn.size
<1> DEFINE e == [start |-> fn.start, size |-> fn.size]
<1>1. fn.start \in Int /\ fn.size \in Int
  <2>1. fn.start \in Int
    BY ClustersAreInts DEF Start, FREE
  <2>2. fn.size \in Int
    BY DEF EntryAt
  <2>. QED BY <2>1, <2>2
<1>2. e # None
  BY <1>1, MarksAssumption
<1>3. e.start = fn.start /\ e.size = fn.size
  OBVIOUS
<1> HIDE DEF e
<1>4. EntryAt(y, f, e)
  BY <1>3 DEF EntryAt
<1>. QED BY <1>2, <1>3, <1>4 DEF e

LEMMA EndMoveKeeps ==
    ASSUME IInv, NEW y, WellLaid(y), EndMove
    PROVE  \E w : WellLaid(w)'
<1> DEFINE f == call.fn.file
           e == [start |-> call.fn.start, size |-> call.fn.size]
<1>1. call.pc = "move" /\ Busy(call) = {} /\ Held(call) = {f}
  BY DEF EndMove, Busy, Held, InRw, Shrinking, RwPc
<1>2. /\ HandlesGood /\ Laid(vol.fat, y) /\ Kept(vol.fat, y, faults) /\ Others(y, {}) /\ Rest(y, {f})
      /\ f \in File /\ ~IsOpen(f) /\ dir[f] = None /\ EntryAt(y, f, call.fn) /\ y.len[Loose] = 0
      /\ call.fn.start \in Start /\ DirGood(dir)
  BY <1>1 DEF WellLaid, CallAt, LooseAt, IInv, CallGood, FnGood
<1>3. /\ call' = NoCall /\ vol' = vol /\ sft' = sft /\ (Works \/ Fails)
      /\ \/ dir' = [dir EXCEPT ![f] = e]
         \/ Fails /\ dir' = dir
  BY DEF EndMove
<1>4. Kept(vol.fat, y, faults') /\ (Fails => faults' # 0)
  BY <1>2, <1>3, KeptOn
<1>5. e # None /\ EntryAt(y, f, e)
  BY <1>2, WrittenIsAt
<1>6. CASE dir' = [dir EXCEPT ![f] = e]
  <2> HIDE DEF f, e
  <2>1. \A x \in File : dir'[x] = IF x = f THEN e ELSE dir[x]
    BY <1>2, <1>6, EntryTakes
  <2>2. \A x \in File : x # f => dir'[x] = dir[x]
    BY <2>1
  <2>3. HandlesGood' /\ (\A x \in File : IsOpen(x)' <=> IsOpen(x)) /\ Others(y, {})'
    BY <1>2, <1>3, <2>2, EntryChanges
  <2>4. Rest(y, {})'
    BY <1>2, <1>5, <2>1, <2>3 DEF Rest
  <2>. QED BY <1>2, <1>3, <1>4, <2>3, <2>4, IdleGoesOn
<1>7. CASE Fails /\ dir' = dir
  <2>1. PICK z : Laid(vol.fat, z) /\ SameBut(y, z, {f}) /\ z.len[f] = 0
    BY <1>2, DropIsLaid DEF Owner
  <2> HIDE DEF f
  <2>2. Others(z, {})
    <3>1. \A h \in Handle \ {} : Open(h) => sft[h].file \notin {f}
      BY <1>2 DEF IsOpen
    <3>. QED BY <1>2, <2>1, <3>1, SameOthers
  <2>3. Rest(z, {})
    <3>1. \A x \in File \ {f} : ~IsOpen(x) => x \notin {f}
      OBVIOUS
    <3>2. Rest(z, {f})
      BY <1>2, <2>1, <3>1, SameRest
    <3>. QED BY <1>2, <2>1, <3>2 DEF Rest
  <2>4. z.len[Loose] = 0
    BY <1>2, <2>1, Outsiders DEF SameBut, Owner
  <2>5. Laid(vol'.fat, z) /\ Kept(vol'.fat, z, faults')
    BY <1>3, <1>4, <1>7, <2>1 DEF Kept
  <2>6. HandlesGood' /\ Others(z, {})' /\ Rest(z, {})'
    BY <1>2, <1>3, <1>7, <2>2, <2>3, StillGood, StillLaid
  <2>. QED BY <1>3, <2>4, <2>5, <2>6, IdleGoesOn
<1>. QED BY <1>3, <1>6, <1>7

\* dos_close, when the directory has what the handle knew.
LEMMA CloseKeeps ==
    ASSUME IInv, NEW y, WellLaid(y), NEW h \in Handle, Close(h)
    PROVE  seeded' \/ \E w : WellLaid(w)'
<1> DEFINE fn == sft[h]
           f  == fn.file
           e  == [start |-> fn.start, size |-> fn.size]
           written == IF fn.clean THEN dir ELSE [dir EXCEPT ![f] = e]
<1>1. /\ HandlesGood /\ Laid(vol.fat, y) /\ Kept(vol.fat, y, faults) /\ Others(y, {}) /\ Rest(y, {}) /\ y.len[Loose] = 0
  BY IdleFacts DEF Close
<1>2. /\ Open(h) /\ call' = NoCall /\ vol' = vol /\ (Works \/ Fails)
      /\ \/ dir' = written /\ \E x \in {None, Orphan} : sft' = [sft EXCEPT ![h] = x]
         \/ seeded' = TRUE
  BY DEF Close, BetweenCalls
<1>3. SUFFICES ASSUME dir' = written, NEW x \in {None, Orphan}, sft' = [sft EXCEPT ![h] = x]
               PROVE  \E w : WellLaid(w)'
  BY <1>2
<1>4. Kept(vol.fat, y, faults')
  BY <1>1, <1>2, KeptOn
<1>5. /\ f \in File /\ EntryAt(y, f, fn) /\ fn.start \in Start /\ dir[f] # None /\ Clean(fn) /\ DirGood(dir)
      /\ \A i \in Handle : Open(i) /\ i # h => sft[i].file # f
  BY <1>1, <1>2 DEF Others, FnAt, HandlesGood, IInv, SftGood, FnGood, Open
<1>6. e # None /\ EntryAt(y, f, e)
  BY <1>5, WrittenIsAt
<1>7. /\ \A g \in File : g # f => dir'[g] = dir[g]
      /\ dir'[f] # None /\ EntryAt(y, f, dir'[f])
  <2>1. CASE fn.clean
    <3>1. dir' = dir /\ dir[f].start = fn.start /\ dir[f].size = fn.size
      BY <1>3, <1>5, <2>1 DEF Clean
    <3>. QED BY <1>5, <3>1 DEF EntryAt
  <2>2. CASE ~fn.clean
    <3>1. dir' = [dir EXCEPT ![f] = e]
      BY <1>3, <2>2
    <3> HIDE DEF f, e, fn
    <3>2. \A g \in File : dir'[g] = IF g = f THEN e ELSE dir[g]
      BY <1>5, <3>1, EntryTakes
    <3>. QED BY <1>5, <1>6, <3>2
  <2>. QED BY <2>1, <2>2
<1>8. \A i \in Handle : sft'[i] = IF i = h THEN x ELSE sft[i]
  BY <1>3, HandleTakes DEF IInv
<1>9. \A i \in Handle : Open(i)' <=> Open(i) /\ i # h
  BY <1>8 DEF Open
<1>10. \A g \in File : ~IsOpen(g)' => g = f \/ ~IsOpen(g)
  BY <1>8, <1>9 DEF IsOpen
<1> HIDE DEF fn, f, e, written
<1>11. HandlesGood'
  <2>1. ASSUME NEW i \in Handle, Open(i)'
        PROVE  sft'[i].file \in File /\ dir'[sft'[i].file] # None /\ Clean(sft[i])'
    <3>1. Open(i) /\ i # h /\ sft'[i] = sft[i]
      BY <1>8, <1>9, <2>1
    <3>2. sft[i].file \in File /\ dir[sft[i].file] # None /\ Clean(sft[i]) /\ sft[i].file # f
      BY <1>1, <1>5, <3>1 DEF HandlesGood
    <3>. QED BY <1>7, <3>1, <3>2 DEF Clean
  <2>2. ASSUME NEW i \in Handle, NEW j \in Handle, Open(i)', Open(j)', sft'[i].file = sft'[j].file
        PROVE  i = j
    BY <1>1, <1>8, <1>9, <2>2 DEF HandlesGood
  <2>. QED BY <2>1, <2>2 DEF HandlesGood
<1>12. Others(y, {})'
  BY <1>1, <1>8, <1>9 DEF Others
<1>13. Rest(y, {})'
  BY <1>1, <1>7, <1>10 DEF Rest
<1>. QED BY <1>1, <1>2, <1>4, <1>11, <1>12, <1>13, IdleGoesOn

LEMMA DosFreeKeeps ==
    ASSUME IInv, NEW y, WellLaid(y), DosFree
    PROVE  \E w : WellLaid(w)'
<1>1. /\ HandlesGood /\ Laid(vol.fat, y) /\ Kept(vol.fat, y, faults) /\ Others(y, {}) /\ Rest(y, {}) /\ y.len[Loose] = 0
  BY IdleFacts DEF DosFree
<1>2. dir' = dir /\ sft' = sft /\ call' = NoCall /\ (Works \/ Fails)
  BY DEF DosFree, BetweenCalls
<1>3. vol'.fat = vol.fat
  BY DEF DosFree, IInv, VolGood
<1>4. Kept(vol'.fat, y, faults') /\ Laid(vol'.fat, y)
  BY <1>1, <1>2, <1>3, KeptOn
<1>5. HandlesGood' /\ Others(y, {})' /\ Rest(y, {})'
  BY <1>1, <1>2, StillGood, StillLaid
<1>. QED BY <1>1, <1>2, <1>4, <1>5, IdleGoesOn

\* An empty volume: nobody has a cluster.
LEMMA InitIsLaid == ASSUME FatInit PROVE WInv
<1>1. SUFFICES ASSUME ~seeded PROVE \E y : WellLaid(y)
  BY DEF WInv
<1>2. /\ sft = [h \in Handle |-> None] /\ call = NoCall /\ faults = 0
      /\ vol.fat = [c \in Cluster |-> FREE] /\ dir = [f \in File |-> None]
  BY <1>1 DEF FatInit
<1> DEFINE y == [own |-> [c \in Cluster |-> Nobody], idx |-> [c \in Cluster |-> 0], len |-> [o \in Owner |-> 0]]
<1>3. y \in Layout /\ (\A c \in Cluster : y.own[c] = Nobody) /\ \A o \in Owner : y.len[o] = 0
  BY DEF Layout
<1> HIDE DEF y
<1>4. Laid(vol.fat, y) /\ Kept(vol.fat, y, faults)
  BY <1>2, <1>3 DEF Laid, Kept
<1>5. \A h \in Handle : ~Open(h)
  BY <1>2 DEF Open
<1>6. HandlesGood /\ Others(y, Busy(call)) /\ Rest(y, Held(call))
  BY <1>2, <1>3, <1>5 DEF HandlesGood, Others, Rest, Owner
<1>7. call.pc = "idle"
  BY <1>2 DEF NoCall
<1>8. CallAt(y, call)
  BY <1>3, <1>7 DEF CallAt, LooseAt, InRw, RwPc, Shrinking, Naming, Owner
<1>. QED BY <1>4, <1>6, <1>8 DEF WellLaid

LEMMA StepKeepsLayout == ASSUME IInv, WInv, [FatNext]_fatvars PROVE WInv'
<1>1. seeded => seeded'
  <2>1. MapEmpty \/ Arrive \/ WalkChain \/ WalkOn => seeded' = seeded
    BY DEF MapEmpty, ExtendChain, Arrive, WalkChain, WalkOn
  <2>2. DoRun \/ DoSector \/ CutChain \/ Wipe \/ EndMove \/ DosFree => seeded' = seeded
    BY DEF DoRun, DoSector, CutChain, Wipe, EndMove, DosFree
  <2>3. FlushShrunk \/ WriteEntry \/ (\E h \in Handle : Close(h)) => (seeded => seeded')
    BY DEF FlushShrunk, WriteEntry, Close
  <2>4. \A f, g, h, p, mode, n : Transfer(h, p, mode, n) \/ OpenFile(f, h) \/ Create(f, h) \/ Delete(f) \/ Move(f, g)
                                   => seeded' = seeded
    BY DEF Transfer, OpenFile, Create, Delete, Move
  <2>5. UNCHANGED fatvars => seeded' = seeded
    BY DEF fatvars
  <2>. QED BY <2>1, <2>2, <2>3, <2>4, <2>5 DEF FatNext, Proceed, Ask
<1>2. SUFFICES ASSUME NEW y, WellLaid(y) PROVE seeded' \/ \E w : WellLaid(w)'
  BY <1>1 DEF WInv
<1>3. CASE UNCHANGED fatvars
  <2>1. WellLaid(y)'
    BY <1>2, <1>3 DEF fatvars, WellLaid, Laid, Kept, HandlesGood, Others, Rest, CallAt, Open, IsOpen, Clean, RwAt, Moving,
       Stale, StartOf
  <2>. QED BY <2>1
<1>4. CASE Proceed
  BY <1>2, <1>4, MapEmptyKeeps, ArriveKeeps, WalkKeeps, WalkOnKeeps, DoRunKeeps, DoSectorKeeps, CutKeeps, WipeKeeps,
     FlushShrunkKeeps, WriteEntryKeeps, EndMoveKeeps DEF Proceed
<1>5. CASE Ask
  <2>1. \A p \in Position, n \in Count : p \in Nat /\ n \in Nat
    BY FatAssumption
  <2>. QED BY <1>2, <1>5, <2>1, TransferKeeps, CloseKeeps, OpenKeeps, CreateKeeps, DeleteKeeps, MoveKeeps, DosFreeKeeps DEF Ask
<1>. QED BY <1>3, <1>4, <1>5 DEF FatNext

-----------------------------------------------------------------------------
(* The steps a call has left.                                              *)

LEMMA DivGrows ==
    ASSUME NEW p \in Nat, NEW q \in Nat, p <= q
    PROVE  /\ p \div SecSize \in Nat /\ q \div SecSize \in Nat /\ p \div SecSize <= q \div SecSize
           /\ (p + SecSize) \div SecSize = p \div SecSize + 1
<1> DEFINE d == q \div SecSize
           e == p \div SecSize
<1>1. d \in Nat /\ e \in Nat /\ d + 1 \in Nat
  BY DivIs
<1> HIDE DEF d, e
<1>2. q < (d + 1) * SecSize /\ (d + 1) * SecSize \in Nat
  <2>1. (d + 1) * SecSize \in Nat
    BY <1>1, Times
  <2>. QED BY <1>1, <2>1, PlaceIn DEF d
<1>3. p < (d + 1) * SecSize
  BY <1>2
<1>4. e < d + 1
  BY <1>1, <1>2, <1>3, PlaceIn DEF e
<1>5. p + SecSize \in Nat /\ e * SecSize <= p /\ p < (e + 1) * SecSize /\ e * SecSize \in Nat
  BY <1>1, PlaceIn, Times, FatAssumption DEF e
<1>6. (e + 1) * SecSize = e * SecSize + SecSize /\ (e + 1 + 1) * SecSize = (e + 1) * SecSize + SecSize
      /\ (e + 1) * SecSize \in Nat
  <2>1. e + 1 \in Nat
    BY <1>1
  <2>. QED BY <1>1, <2>1, Times
<1>7. (e + 1) * SecSize <= p + SecSize /\ p + SecSize < (e + 1 + 1) * SecSize
  BY <1>5, <1>6, FatAssumption
<1>8. (p + SecSize) \div SecSize = e + 1
  BY <1>1, <1>5, <1>7, PlaceIn
<1>. QED BY <1>1, <1>4, <1>8 DEF d, e

\* The numbers are the same for what these are the same for.
LEMMA RunGoesAsFar ==
    ASSUME NEW m, NEW k, RunUpTo(m, k), NEW j, j.fn.pos = k.fn.pos, j.left = k.left,
           j.from = k.from, j.run = k.run, j.wanted = k.wanted
    PROVE  RunUpTo(m, j)
BY DEF RunUpTo

LEMMA SeeksStill ==
    ASSUME NEW m, NEW k, NEW at, NEW ret, Seeks(m, k, at, ret), NEW j, j.mode = k.mode, j.count = k.count, j.fn.pos = k.fn.pos, j.fn.size = k.fn.size,
           j.left = k.left, j.from = k.from, j.run = k.run, j.wanted = k.wanted
    PROVE  Seeks(m, j, at, ret)
<1>1. RunUpTo(m, k) => RunUpTo(m, j)
  BY RunGoesAsFar
<1>. QED BY <1>1 DEF Seeks

\* A way of a call is a number, and shorter from the next place on.
LEMMA WayIs ==
    ASSUME NEW m \in Nat, NEW rel \in Nat, NEW at \in Nat, at <= m, rel <= at \div SecSize, NEW ret \in MapReturn
    PROVE  LET w == Way(m, rel, at \div SecSize, ret)
           IN  /\ w \in Nat /\ w <= 4 * (m \div SecSize + LastCluster) - 1 /\ Ahead(m, rel) \in Nat
               /\ w <= Ahead(m, rel) + LastCluster + 4
               /\ rel < at \div SecSize => /\ Way(m, rel + 1, at \div SecSize, ret) <= w - 1
                                           /\ Way(m, rel + 1, at \div SecSize, ret) \in Int
                                           /\ Ahead(m, rel) >= 4
<1> DEFINE E == m \div SecSize
           t == at \div SecSize
<1>1. E \in Nat /\ t \in Nat /\ t <= E
  BY DivGrows
<1> HIDE DEF E, t
<1>2. LastCluster \in Nat /\ LastCluster >= 2
  BY FatAssumption
<1>3. Ahead(m, rel) = 4 * (E - rel) /\ Ahead(m, rel + 1) = 4 * (E - (rel + 1))
  BY DEF Ahead, E
<1>4. rel <= t
  BY DEF t
<1>5. Ahead(m, rel) \in Nat /\ Ahead(m, rel) <= 4 * E /\ (rel < t => Ahead(m, rel) >= 4 /\ Ahead(m, rel + 1) = Ahead(m, rel) - 4)
      /\ Ahead(m, rel + 1) \in Int
  BY <1>1, <1>3, <1>4
<1>6. ret \in {"extend", "loop", "run", "shrink"}
  BY DEF MapReturn
<1>7. /\ ret = "extend" => \A r : Way(m, r, t, ret) = Ahead(m, r) + LastCluster + 4
      /\ ret = "shrink" => \A r : Way(m, r, t, ret) = Ahead(m, r) + LastCluster + 3
      /\ ret = "loop" => \A r : Way(m, r, t, ret) = Ahead(m, r) + (IF r = t THEN 2 ELSE -1)
      /\ ret = "run" => \A r : Way(m, r, t, ret) = Ahead(m, r) + (IF r = t THEN 4 ELSE 1)
  BY DEF Way
<1>8. 4 * (E + LastCluster) = 4 * E + 4 * LastCluster
  BY <1>1, <1>2
<1> HIDE DEF Ahead
<1>9. CASE ret \in {"extend", "shrink"}
  BY <1>1, <1>2, <1>4, <1>5, <1>7, <1>8, <1>9 DEF E, t
<1>10. CASE ret \in {"loop", "run"}
  BY <1>1, <1>2, <1>4, <1>5, <1>7, <1>8, <1>10 DEF E, t
<1>. QED BY <1>6, <1>9, <1>10

\* The numbers of a read or write.
Paced(k) == Going(k) /\ Measured(k.fn) /\ k.left \in Nat /\ k.count \in Nat

LEMMA EndNears ==
    ASSUME NEW k, Going(k), Measured(k.fn), NEW m, NEW n
    PROVE  Nears(m, Return(k), n) /\ Nears(m, Abandon(k), n)
<1>1. Return(k).pc = "return" /\ Return(k).fn = k.fn /\ Abandon(k).pc = "abandon" /\ Abandon(k).fn = k.fn
  BY EndFields DEF Return, Abandon
<1>. QED BY <1>1 DEF Nears, RwPc

\* map_cluster starts, from the place the fnode has or from the first.
LEMMA MapNears ==
    ASSUME NEW m \in Nat, NEW k, Paced(k), NEW at, NEW ret, Seeks(m, k, at, ret), ret = "run" => k.fn.cluster # FREE,
           NEW n \in Int, MapLeft(m, k, at, ret) <= n
    PROVE  Nears(m, Map(k, at, ret), n)
<1> DEFINE j == Map(k, at, ret)
<1>1. /\ Kin(k, j) /\ j.fn.pos = k.fn.pos /\ j.fn.size = k.fn.size
      /\ j.pc = (IF k.fn.cluster = FREE THEN "map" ELSE "walk") /\ j.at = at /\ j.ret = ret
      /\ IF at \div SecSize < k.fn.rel THEN j.fn.cluster = k.fn.start /\ j.fn.rel = 0
         ELSE j.fn.cluster = k.fn.cluster /\ j.fn.rel = k.fn.rel
      /\ j.left = k.left /\ j.from = k.from /\ j.first = k.first /\ j.run = k.run /\ j.wanted = k.wanted
  BY MapFields DEF Paced
<1> HIDE DEF j
<1>2. at \in Nat /\ at \div SecSize \in Nat /\ at <= m /\ ret \in MapReturn
  BY DivIs DEF Seeks
<1>3. Measured(j.fn) /\ j.fn.rel <= at \div SecSize
  BY <1>1, <1>2 DEF Measured, Paced
<1>4. Seeks(m, j, at, ret)
  BY <1>1, SeeksStill DEF Kin
<1>5. UnderWay(m, j)
  BY <1>1, <1>3, <1>4 DEF UnderWay, Kin, Paced
<1>6. RwLeft(m, j) = MapLeft(m, k, at, ret)
  <2>1. j.fn.rel = IF at \div SecSize < k.fn.rel THEN 0 ELSE k.fn.rel
    BY <1>1
  <2>2. Way(m, j.fn.rel, at \div SecSize, ret) \in Int
    BY <1>2, <1>3, WayIs DEF Measured
  <2>3. MapLeft(m, k, at, ret) = Way(m, j.fn.rel, at \div SecSize, ret) + (IF k.fn.cluster = FREE THEN 1 ELSE 0)
    BY <2>1 DEF MapLeft
  <2>4. CASE k.fn.cluster = FREE
    BY <1>1, <2>3, <2>4 DEF RwLeft
  <2>5. CASE k.fn.cluster # FREE
    BY <1>1, <2>2, <2>3, <2>5 DEF RwLeft
  <2>. QED BY <2>4, <2>5
<1>. QED BY <1>1, <1>3, <1>5, <1>6 DEF Nears, RwPc, j

\* The top of the loop: where nothing is left, the call ends.
LEMMA LoopNears ==
    ASSUME NEW m \in Nat, NEW k, Paced(k), k.fn.pos + k.left <= m, NEW n \in Int,
           k.left # 0 /\ ~(k.mode = "read" /\ k.fn.pos >= k.fn.size) => MapLeft(m, k, k.fn.pos, "loop") <= n
    PROVE  Nears(m, Loop(k), n)
<1>1. CASE k.left = 0 \/ (k.mode = "read" /\ k.fn.pos >= k.fn.size)
  BY <1>1, EndNears DEF Loop, Paced
<1>2. CASE ~(k.left = 0 \/ (k.mode = "read" /\ k.fn.pos >= k.fn.size))
  <2>1. Seeks(m, k, k.fn.pos, "loop")
    BY <1>2 DEF Seeks, MapReturn, Paced, Measured
  <2>. QED BY <1>2, <2>1, MapNears DEF Loop
<1>. QED BY <1>1, <1>2

LEMMA ShrinkNears ==
    ASSUME NEW m \in Nat, NEW k, Paced(k), k.fn.pos + k.left <= m, NEW n \in Int,
           MapLeft(m, k, IF k.fn.pos > 0 THEN k.fn.pos - 1 ELSE 0, "shrink") <= n
    PROVE  Nears(m, ShrinkFile(k), n)
<1> DEFINE at == IF k.fn.pos > 0 THEN k.fn.pos - 1 ELSE 0
<1>1. Seeks(m, k, at, "shrink")
  BY DEF Seeks, MapReturn, Paced, Measured
<1>2. Nears(m, Map(k, at, "shrink"), n)
  BY <1>1, MapNears
<1>. QED BY <1>2, EndNears DEF ShrinkFile, Paced

LEMMA ExtendedNears ==
    ASSUME NEW m \in Nat, NEW k, Paced(k), k.fn.pos + k.left <= m, NEW n \in Int,
           k.count # 0 => MapLeft(m, k, k.fn.pos, "loop") <= n,
           k.count = 0 => MapLeft(m, k, IF k.fn.pos > 0 THEN k.fn.pos - 1 ELSE 0, "shrink") <= n
    PROVE  Nears(m, Extended(k), n)
<1>1. CASE k.count > 0
  BY <1>1, LoopNears DEF Extended, Paced
<1>2. CASE ~(k.count > 0) /\ k.mode = "read"
  BY <1>2, EndNears DEF Extended, Paced
<1>3. CASE ~(k.count > 0) /\ k.mode # "read"
  <2> DEFINE j == Sized(k, k.fn.pos)
  <2>1. /\ Going(j) /\ Kin(k, j) /\ j.fn.size = k.fn.pos /\ j.fn.pos = k.fn.pos /\ j.fn.rel = k.fn.rel
        /\ j.fn.cluster = k.fn.cluster /\ \A x \in CallFields \ {"fn"} : j[x] = k[x]
    BY SizeFields DEF Paced
  <2>2. Extended(k) = ShrinkFile(j)
    BY <1>3 DEF Extended, Sized
  <2> HIDE DEF j
  <2>3. Paced(j) /\ j.left = k.left
    BY <2>1 DEF Paced, Measured, CallFields
  <2>4. MapLeft(m, j, IF k.fn.pos > 0 THEN k.fn.pos - 1 ELSE 0, "shrink") <= n
    <3>1. k.count = 0
      BY <1>3 DEF Paced
    <3>. QED BY <2>1, <3>1 DEF MapLeft
  <2>. QED BY <2>1, <2>2, <2>3, <2>4, ShrinkNears
<1>. QED BY <1>1, <1>2, <1>3

\* A run does not reach behind the request.
LEMMA RunReaches ==
    ASSUME NEW m \in Nat, NEW k, RunUpTo(m, k), k.left \in Nat
    PROVE  /\ k.fn.pos \in Nat /\ k.fn.pos <= m
           /\ k.run * SecSize \in Nat /\ k.run * SecSize <= k.left /\ k.fn.pos + (k.left - k.run * SecSize) <= m
<1> DEFINE a == k.run * SecSize
           b == k.wanted * SecSize
<1>1. a <= b /\ a \in Nat /\ b \in Nat
  BY Times DEF RunUpTo
<1>2. b <= k.left /\ k.fn.pos = k.from + a /\ k.from + k.left <= m /\ k.from \in Nat
  BY DEF RunUpTo
<1> HIDE DEF a, b
<1>3. k.fn.pos \in Nat /\ k.fn.pos <= m /\ a \in Nat /\ a <= k.left /\ k.fn.pos + (k.left - a) <= m
  BY <1>1, <1>2
<1>. QED BY <1>3 DEF a

\* A run that has just grown has its place in the chain still to come.
LEMMA GrowNears ==
    ASSUME NEW m \in Nat, NEW k, Paced(k), RunUpTo(m, k), k.fn.cluster # FREE, k.fn.rel < k.fn.pos \div SecSize,
           NEW n \in Int, Ahead(m, k.fn.rel) + 1 <= n
    PROVE  Nears(m, Grow(k), n)
<1>1. k.fn.pos \in Nat /\ k.fn.pos <= m
  BY RunReaches DEF Paced
<1>2. k.fn.rel \in Nat /\ k.fn.pos \div SecSize \in Nat /\ k.fn.pos \div SecSize <= m \div SecSize /\ m \div SecSize \in Nat
  BY <1>1, DivGrows DEF Paced, Measured
<1>3. Ahead(m, k.fn.rel) \in Int
  BY <1>2 DEF Ahead
<1>4. CASE k.run < k.wanted
  <2>1. Seeks(m, k, k.fn.pos, "run")
    BY <1>1, <1>4 DEF Seeks, MapReturn
  <2>2. MapLeft(m, k, k.fn.pos, "run") = Ahead(m, k.fn.rel) + 1
    <3>1. ~(k.fn.pos \div SecSize < k.fn.rel) /\ k.fn.rel # k.fn.pos \div SecSize
      BY <1>2
    <3> HIDE DEF Ahead
    <3>. QED BY <1>3, <3>1 DEF MapLeft, Way
  <2>. QED BY <1>3, <1>4, <2>1, <2>2, MapNears DEF Grow
<1>5. CASE ~(k.run < k.wanted)
  <2> DEFINE j == [k EXCEPT !.pc = "run"]
  <2>1. Going(j) /\ Kin(k, j) /\ j.pc = "run" /\ j.fn = k.fn /\ \A x \in CallFields \ {"pc"} : j[x] = k[x]
    BY EndFields DEF Paced
  <2>2. Grow(k) = j
    BY <1>5 DEF Grow
  <2> HIDE DEF j
  <2>3. j.left = k.left /\ j.from = k.from /\ j.run = k.run /\ j.wanted = k.wanted /\ j.count = k.count
    BY <2>1 DEF CallFields
  <2>4. RunUpTo(m, j)
    BY <2>1, <2>3, RunGoesAsFar
  <2>5. j.fn.rel <= j.fn.pos \div SecSize
    BY <1>2, <2>1
  <2>6. UnderWay(m, j)
    BY <2>1, <2>3, <2>4, <2>5 DEF UnderWay, Paced
  <2>7. RwLeft(m, j) = Ahead(m, k.fn.rel)
    <3>1. k.fn.rel # k.fn.pos \div SecSize
      BY <1>2
    <3>. QED BY <1>3, <2>1, <3>1 DEF RwLeft
  <2>. QED BY <1>3, <2>1, <2>2, <2>6, <2>7 DEF Nears, RwPc, UnderWay
<1>. QED BY <1>4, <1>5

LEMMA StartRunNears ==
    ASSUME NEW m \in Nat, NEW k, Paced(k), k.fn.cluster # FREE, k.fn.rel = k.fn.pos \div SecSize,
           k.left # 0, k.fn.pos + k.left <= m, k.mode = "read" => k.fn.pos < k.fn.size,
           NEW n \in Int, Ahead(m, k.fn.rel) + 1 <= n
    PROVE  Nears(m, StartRun(k), n)
<1> DEFINE room == IF k.mode = "read" /\ k.left > k.fn.size - k.fn.pos THEN k.fn.size - k.fn.pos ELSE k.left
           wanted == room \div SecSize
<1>1. k.fn.pos \in Nat /\ k.left \in Nat /\ k.fn.size \in Nat /\ k.fn.rel \in Nat /\ m \div SecSize \in Nat
  BY DivIs DEF Paced, Measured
<1>2. room \in Nat /\ room <= k.left
  BY <1>1
<1> HIDE DEF room
<1>3. wanted \in Nat /\ wanted * SecSize <= k.left
  <2>1. wanted \in Nat /\ wanted * SecSize <= room /\ wanted * SecSize \in Nat
    BY <1>2, DivIs, PlaceIn, FatAssumption
  <2>. QED BY <1>1, <1>2, <2>1
<1> HIDE DEF wanted
<1>4. Ahead(m, k.fn.rel) \in Int
  BY <1>1 DEF Ahead
<1>5. CASE k.fn.pos % SecSize # 0 \/ wanted = 0
  <2> DEFINE j == [k EXCEPT !.pc = "sector"]
  <2>1. Going(j) /\ Kin(k, j) /\ j.pc = "sector" /\ j.fn = k.fn /\ \A x \in CallFields \ {"pc"} : j[x] = k[x]
    BY EndFields DEF Paced
  <2>2. StartRun(k) = j
    BY <1>5 DEF StartRun, wanted, room
  <2> HIDE DEF j
  <2>3. j.left = k.left
    BY <2>1 DEF CallFields
  <2>4. UnderWay(m, j)
    BY <2>1, <2>3 DEF UnderWay, Paced, Kin
  <2>5. RwLeft(m, j) = Ahead(m, k.fn.rel) + 1
    BY <2>1 DEF RwLeft
  <2>. QED BY <1>4, <2>1, <2>2, <2>4, <2>5 DEF Nears, RwPc, UnderWay
<1>6. CASE ~(k.fn.pos % SecSize # 0 \/ wanted = 0)
  <2> DEFINE j == Sought(k, k.fn.pos, k.fn.cluster, 1, wanted, k.fn.pos + SecSize)
  <2>1. k.fn.pos + SecSize \in Nat /\ (k.fn.pos + SecSize) \div SecSize = k.fn.rel + 1
    <3>1. k.fn.pos <= k.fn.pos
      BY <1>1
    <3>2. (k.fn.pos + SecSize) \div SecSize = k.fn.pos \div SecSize + 1
      BY <1>1, <3>1, DivGrows
    <3>. QED BY <1>1, <3>2, FatAssumption
  <2>2. /\ Going(j) /\ Kin(k, j) /\ j.fn.size = k.fn.size /\ j.fn.pos = k.fn.pos + SecSize /\ j.fn.rel = k.fn.rel
        /\ j.fn.cluster = k.fn.cluster /\ j.left = k.left
        /\ j.from = k.fn.pos /\ j.first = k.fn.cluster /\ j.run = 1 /\ j.wanted = wanted
    BY SeekFields DEF Paced
  <2>3. StartRun(k) = Grow(j)
    BY <1>6 DEF StartRun, wanted, room, Sought
  <2> HIDE DEF j
  <2>4. RunUpTo(m, j)
    <3>1. 1 * SecSize = SecSize
      BY FatAssumption
    <3>. QED BY <1>1, <1>3, <1>6, <2>2, <3>1 DEF RunUpTo
  <2>5. Paced(j)
    BY <2>1, <2>2 DEF Paced, Measured, Kin
  <2>6. j.fn.rel < j.fn.pos \div SecSize
    BY <1>1, <2>1, <2>2
  <2>7. Nears(m, Grow(j), n)
    BY <2>2, <2>4, <2>5, <2>6, GrowNears
  <2>. QED BY <2>3, <2>7
<1>. QED BY <1>5, <1>6

LEMMA GrowRunNears ==
    ASSUME NEW m \in Nat, NEW k, Paced(k), k.fn.cluster # FREE, RunUpTo(m, k), k.run < k.wanted,
           k.fn.rel = k.fn.pos \div SecSize, NEW n \in Int, Ahead(m, k.fn.rel) + 3 <= n
    PROVE  Nears(m, GrowRun(k), n)
<1>1. /\ k.from \in Nat /\ k.run \in Nat /\ k.run # 0 /\ k.wanted \in Nat /\ k.fn.rel \in Nat /\ m \div SecSize \in Nat
      /\ k.fn.pos = k.from + k.run * SecSize /\ k.fn.pos \in Nat
  BY DivIs DEF RunUpTo, Paced, Measured
<1>2. Ahead(m, k.fn.rel) \in Int
  BY <1>1 DEF Ahead
<1>3. CASE k.fn.cluster # k.first + k.run
  <2> DEFINE j == [k EXCEPT !.pc = "run"]
  <2>1. Going(j) /\ Kin(k, j) /\ j.pc = "run" /\ j.fn = k.fn /\ \A x \in CallFields \ {"pc"} : j[x] = k[x]
    BY EndFields DEF Paced
  <2>2. GrowRun(k) = j
    BY <1>3 DEF GrowRun
  <2> HIDE DEF j
  <2>3. j.left = k.left /\ j.from = k.from /\ j.run = k.run /\ j.wanted = k.wanted /\ j.count = k.count
    BY <2>1 DEF CallFields
  <2>4. RunUpTo(m, j)
    BY <2>1, <2>3, RunGoesAsFar
  <2>5. UnderWay(m, j)
    BY <1>1, <2>1, <2>3, <2>4 DEF UnderWay, Paced
  <2>6. RwLeft(m, j) = Ahead(m, k.fn.rel) + 3
    BY <2>1 DEF RwLeft
  <2>. QED BY <1>2, <2>1, <2>2, <2>5, <2>6 DEF Nears, RwPc, UnderWay
<1>4. CASE k.fn.cluster = k.first + k.run
  <2> DEFINE pos == k.from + (k.run + 1) * SecSize
             j == Sought(k, k.from, k.first, k.run + 1, k.wanted, pos)
  <2>1. (k.run + 1) * SecSize = k.run * SecSize + SecSize /\ k.run * SecSize \in Nat
    BY <1>1, Times
  <2>2. pos = k.fn.pos + SecSize /\ pos \in Nat
    BY <1>1, <2>1, FatAssumption
  <2>3. pos \div SecSize = k.fn.rel + 1
    BY <1>1, <2>2, DivGrows
  <2>4. [k EXCEPT !.run = @ + 1, !.fn.pos = pos] = j
    BY DEF Going, Shaped, CallFields, Sought, Paced
  <2>5. GrowRun(k) = Grow([k EXCEPT !.run = @ + 1, !.fn.pos = pos])
    BY <1>4 DEF GrowRun
  <2> HIDE DEF pos
  <2>6. /\ Going(j) /\ Kin(k, j) /\ j.fn.size = k.fn.size /\ j.fn.pos = pos /\ j.fn.rel = k.fn.rel
        /\ j.fn.cluster = k.fn.cluster /\ j.left = k.left
        /\ j.from = k.from /\ j.first = k.first /\ j.run = k.run + 1 /\ j.wanted = k.wanted
    BY SeekFields DEF Paced
  <2> HIDE DEF j
  <2>7. RunUpTo(m, j)
    <3>1. j.run \in Nat \ {0} /\ j.run <= j.wanted
      BY <1>1, <2>6
    <3>2. j.fn.pos = j.from + j.run * SecSize
      BY <2>6 DEF pos
    <3>. QED BY <2>6, <3>1, <3>2 DEF RunUpTo
  <2>8. Paced(j)
    BY <2>2, <2>6 DEF Paced, Measured, Kin
  <2>9. j.fn.rel < j.fn.pos \div SecSize
    BY <1>1, <2>3, <2>6
  <2>10. Ahead(m, j.fn.rel) + 1 <= n
    BY <1>2, <2>6
  <2>11. Nears(m, Grow(j), n)
    BY <2>6, <2>7, <2>8, <2>9, <2>10, GrowNears
  <2>. QED BY <2>4, <2>5, <2>11
<1>. QED BY <1>3, <1>4

LEMMA AdvancedNears ==
    ASSUME NEW m \in Nat, NEW k, Paced(k), NEW c \in Nat, c <= k.left, k.fn.pos + (k.left - c) <= m, NEW n \in Int,
           k.left # c /\ ~(k.mode = "read" /\ k.fn.pos >= k.fn.size) => MapLeft(m, k, k.fn.pos, "loop") <= n
    PROVE  Nears(m, Advanced(k, c), n)
<1> DEFINE d == [k EXCEPT !.left = @ - c, !.from = 0, !.first = 0, !.run = 0, !.wanted = 0]
<1>1. Going(d) /\ Kin(k, d) /\ d.fn = k.fn /\ d.left = k.left - c
  BY DEF Going, Shaped, CallFields, Kin, Paced
<1>2. Advanced(k, c) = Loop(IF k.mode = "write" /\ k.fn.pos > k.fn.size THEN [d EXCEPT !.fn.size = k.fn.pos] ELSE d)
  BY DEF Advanced
<1> HIDE DEF d
<1>3. Paced(d) /\ d.fn.pos + d.left <= m /\ d.left = k.left - c /\ k.left \in Nat
  BY <1>1 DEF Paced, Kin
<1>4. CASE k.mode = "write" /\ k.fn.pos > k.fn.size
  <2> DEFINE j == Sized(d, k.fn.pos)
  <2>1. /\ Going(j) /\ Kin(d, j) /\ j.fn.size = k.fn.pos /\ j.fn.pos = d.fn.pos /\ j.fn.rel = d.fn.rel
        /\ j.fn.cluster = d.fn.cluster /\ \A x \in CallFields \ {"fn"} : j[x] = d[x]
    BY <1>1, SizeFields
  <2>2. Advanced(k, c) = Loop(j)
    BY <1>2, <1>4 DEF Sized
  <2> HIDE DEF j
  <2>3. j.left = d.left
    BY <2>1 DEF CallFields
  <2>4. Paced(j) /\ j.fn.pos + j.left <= m
    BY <1>1, <1>3, <2>1, <2>3 DEF Paced, Measured, Kin
  <2>5. j.left # 0 => MapLeft(m, j, j.fn.pos, "loop") <= n
    <3>1. j.left # 0 => k.left # c
      BY <1>3, <2>3
    <3>. QED BY <1>1, <1>4, <2>1, <3>1 DEF MapLeft
  <2>. QED BY <2>2, <2>4, <2>5, LoopNears
<1>5. CASE ~(k.mode = "write" /\ k.fn.pos > k.fn.size)
  <2>1. Advanced(k, c) = Loop(d)
    BY <1>2, <1>5
  <2>2. d.left # 0 /\ ~(d.mode = "read" /\ d.fn.pos >= d.fn.size) => MapLeft(m, d, d.fn.pos, "loop") <= n
    <3>1. d.left # 0 => k.left # c
      BY <1>3
    <3>. QED BY <1>1, <3>1 DEF MapLeft, Kin
  <2>. QED BY <1>3, <2>1, <2>2, LoopNears
<1>. QED BY <1>4, <1>5

\* map_cluster has found the place.
LEMMA MappedNears ==
    ASSUME NEW m \in Nat, NEW k, Paced(k), k.fn.cluster # FREE, Seeks(m, k, k.at, k.ret), k.fn.rel = k.at \div SecSize,
           NEW n \in Int, Way(m, k.fn.rel, k.at \div SecSize, k.ret) - 1 <= n
    PROVE  Nears(m, Mapped(k), n)
<1> DEFINE d == [k EXCEPT !.at = 0, !.ret = None]
           a == Ahead(m, k.fn.rel)
<1>1. /\ Going(d) /\ Kin(k, d) /\ d.fn = k.fn /\ d.left = k.left /\ d.from = k.from /\ d.first = k.first
      /\ d.run = k.run /\ d.wanted = k.wanted
  BY DEF Going, Shaped, CallFields, Kin, Paced
<1>2. /\ k.ret = "extend" => Mapped(k) = Extended(d)
      /\ k.ret = "loop" => Mapped(k) = StartRun(d)
      /\ k.ret = "run" => Mapped(k) = GrowRun(d)
      /\ k.ret = "shrink" => Mapped(k) = [d EXCEPT !.pc = "cut"]
  BY DEF Mapped
<1> HIDE DEF d
<1>3. Paced(d) /\ d.fn.pos \in Nat /\ k.fn.rel \in Nat /\ k.at \in Nat /\ k.at <= m /\ k.ret \in MapReturn
  BY <1>1 DEF Paced, Kin, Seeks, Measured
<1>4. a \in Nat /\ LastCluster \in Nat /\ LastCluster >= 2
  <2>1. k.fn.rel <= k.at \div SecSize
    BY <1>3
  <2>. QED BY <1>3, <2>1, WayIs, FatAssumption
<1> HIDE DEF a
<1>5. /\ k.ret = "extend" => a + LastCluster + 3 <= n
      /\ k.ret = "loop" => a + 1 <= n
      /\ k.ret = "run" => a + 3 <= n
      /\ k.ret = "shrink" => a + LastCluster + 2 <= n
  BY <1>4 DEF Way, a
<1>6. CASE k.ret = "extend"
  <2>1. d.fn.pos + d.left <= m
    BY <1>1, <1>6 DEF Seeks
  <2>2. d.count # 0 => MapLeft(m, d, d.fn.pos, "loop") = a + 2
    <3>1. SUFFICES ASSUME d.count # 0 PROVE MapLeft(m, d, d.fn.pos, "loop") = a + 2
      OBVIOUS
    <3>2. k.at = d.fn.pos
      BY <1>1, <1>6, <3>1 DEF Seeks, Kin
    <3>3. ~(d.fn.pos \div SecSize < d.fn.rel) /\ d.fn.rel = d.fn.pos \div SecSize /\ d.fn.cluster # FREE /\ a = Ahead(m, d.fn.rel)
      BY <1>1, <1>3, <3>2 DEF a
    <3>. QED BY <1>4, <3>3 DEF MapLeft, Way
  <2>3. d.count = 0 => MapLeft(m, d, IF d.fn.pos > 0 THEN d.fn.pos - 1 ELSE 0, "shrink") = a + LastCluster + 3
    <3>1. SUFFICES ASSUME d.count = 0
                   PROVE MapLeft(m, d, IF d.fn.pos > 0 THEN d.fn.pos - 1 ELSE 0, "shrink") = a + LastCluster + 3
      OBVIOUS
    <3>2. k.fn.pos # 0 /\ (k.fn.pos - 1) \div SecSize = k.at \div SecSize
      BY <1>1, <1>6, <3>1 DEF Seeks, Kin
    <3>3. (IF d.fn.pos > 0 THEN d.fn.pos - 1 ELSE 0) = d.fn.pos - 1
      BY <1>1, <1>3, <3>2
    <3>4. ~((d.fn.pos - 1) \div SecSize < d.fn.rel) /\ d.fn.cluster # FREE /\ a = Ahead(m, d.fn.rel)
      BY <1>1, <1>3, <3>2 DEF a
    <3>. QED BY <1>4, <3>3, <3>4 DEF MapLeft, Way
  <2>4. Nears(m, Extended(d), n)
    <3>1. d.count # 0 => MapLeft(m, d, d.fn.pos, "loop") <= n
      BY <1>4, <1>5, <1>6, <2>2
    <3>2. d.count = 0 => MapLeft(m, d, IF d.fn.pos > 0 THEN d.fn.pos - 1 ELSE 0, "shrink") <= n
      BY <1>5, <1>6, <2>3
    <3>. QED BY <1>3, <2>1, <3>1, <3>2, ExtendedNears
  <2>. QED BY <1>2, <1>6, <2>4
<1>7. CASE k.ret = "loop"
  <2>1. k.at = k.fn.pos /\ k.left # 0 /\ (k.mode = "read" => k.fn.pos < k.fn.size) /\ k.fn.pos + k.left <= m
    BY <1>7 DEF Seeks
  <2>2. Nears(m, StartRun(d), n)
    <3>1. Ahead(m, d.fn.rel) + 1 <= n
      BY <1>1, <1>5, <1>7 DEF a
    <3>2. d.fn.rel = d.fn.pos \div SecSize /\ d.left # 0 /\ d.fn.pos + d.left <= m /\ (d.mode = "read" => d.fn.pos < d.fn.size)
          /\ d.fn.cluster # FREE
      BY <1>1, <2>1 DEF Kin
    <3>. QED BY <1>3, <3>1, <3>2, StartRunNears
  <2>. QED BY <1>2, <1>7, <2>2
<1>8. CASE k.ret = "run"
  <2>1. k.at = k.fn.pos /\ RunUpTo(m, k) /\ k.run < k.wanted
    BY <1>8 DEF Seeks
  <2>2. Nears(m, GrowRun(d), n)
    <3>1. Ahead(m, d.fn.rel) + 3 <= n
      BY <1>1, <1>5, <1>8 DEF a
    <3>2. RunUpTo(m, d)
      BY <1>1, <2>1, RunGoesAsFar
    <3>3. d.fn.rel = d.fn.pos \div SecSize /\ d.run < d.wanted /\ d.fn.cluster # FREE
      BY <1>1, <2>1
    <3>. QED BY <1>3, <3>1, <3>2, <3>3, GrowRunNears
  <2>. QED BY <1>2, <1>8, <2>2
<1>9. CASE k.ret = "shrink"
  <2> DEFINE j == [d EXCEPT !.pc = "cut"]
  <2>1. Going(j) /\ Kin(d, j) /\ j.pc = "cut" /\ j.fn = d.fn /\ \A x \in CallFields \ {"pc"} : j[x] = d[x]
    BY <1>1, EndFields
  <2> HIDE DEF j
  <2>2. j.left = d.left
    BY <2>1 DEF CallFields
  <2>3. UnderWay(m, j) /\ RwLeft(m, j) = LastCluster + 2
    BY <1>3, <2>1, <2>2 DEF UnderWay, RwLeft, Paced, Kin
  <2>4. RwLeft(m, j) <= n
    BY <1>4, <1>5, <1>9, <2>3
  <2>5. Mapped(k) = j
    BY <1>2, <1>9 DEF j
  <2>. QED BY <2>1, <2>3, <2>4, <2>5 DEF Nears, RwPc, UnderWay
<1>. QED BY <1>3, <1>6, <1>7, <1>8, <1>9 DEF MapReturn

\* The chain ends, or an access fails, before the place is reached.
LEMMA NotMappedNears ==
    ASSUME NEW m \in Nat, NEW k, Paced(k), Seeks(m, k, k.at, k.ret), k.fn.rel <= k.at \div SecSize,
           k.ret = "run" => k.fn.cluster # FREE /\ k.fn.rel # k.at \div SecSize,
           NEW n \in Int, Way(m, k.fn.rel, k.at \div SecSize, k.ret) - 1 <= n
    PROVE  Nears(m, NotMapped(k), n)
<1>1. CASE k.ret = "extend"
  <2> DEFINE z == (k.fn.rel + 1) * SecSize
             j == Sized(k, z)
  <2>1. z \in Nat
    BY FatAssumption DEF Paced, Measured
  <2>2. NotMapped(k) = Return(IF k.fn.cluster = FREE THEN k ELSE j)
    BY <1>1 DEF NotMapped, Sized
  <2> HIDE DEF z
  <2>3. Going(j) /\ j.fn.size = z /\ j.fn.pos = k.fn.pos /\ j.fn.rel = k.fn.rel
    BY SizeFields DEF Paced
  <2> HIDE DEF j
  <2>4. Nears(m, Return(j), n)
    BY <2>1, <2>3, EndNears DEF Paced, Measured
  <2>. QED BY <2>2, <2>4, EndNears DEF Paced
<1>2. CASE k.ret \in {"loop", "shrink"}
  BY <1>2, EndNears DEF NotMapped, Paced
<1>3. CASE k.ret = "run"
  <2> DEFINE j == [k EXCEPT !.pc = "run"]
  <2>1. Going(j) /\ Kin(k, j) /\ j.pc = "run" /\ j.fn = k.fn /\ \A x \in CallFields \ {"pc"} : j[x] = k[x]
    BY EndFields DEF Paced
  <2>2. NotMapped(k) = j
    BY <1>3 DEF NotMapped
  <2> HIDE DEF j
  <2>3. j.left = k.left /\ j.from = k.from /\ j.run = k.run /\ j.wanted = k.wanted /\ j.count = k.count
    BY <2>1 DEF CallFields
  <2>4. k.at = k.fn.pos /\ RunUpTo(m, k) /\ k.at \in Nat /\ k.at <= m
    BY <1>3 DEF Seeks
  <2>5. UnderWay(m, j)
    <3>1. RunUpTo(m, j)
      BY <2>1, <2>3, <2>4, RunGoesAsFar
    <3>. QED BY <1>3, <2>1, <2>3, <2>4, <3>1 DEF UnderWay, Paced
  <2>6. RwLeft(m, j) <= n
    <3>1. Ahead(m, k.fn.rel) \in Nat
      BY <1>3, <2>4, WayIs DEF Paced, Measured, MapReturn
    <3>. QED BY <1>3, <2>1, <2>4, <3>1 DEF RwLeft, Way
  <2>. QED BY <2>1, <2>2, <2>5, <2>6 DEF Nears, RwPc, UnderWay
<1>4. k.ret \in MapReturn
  BY DEF Seeks
<1>. QED BY <1>1, <1>2, <1>3, <1>4 DEF MapReturn

-----------------------------------------------------------------------------
(* The counted steps.                                                      *)

\* What is left of a call is a number.
LEMMA RwLeftIs ==
    ASSUME NEW m \in Nat, NEW k, UnderWay(m, k), k.pc \in RwPc
    PROVE  RwLeft(m, k) \in Nat
<1>1. k.fn.rel \in Nat /\ k.fn.pos \in Nat /\ k.left \in Nat /\ LastCluster \in Nat
  BY FatAssumption DEF UnderWay, Measured
<1>2. CASE k.pc \in {"map", "walk"}
  <2>1. Way(m, k.fn.rel, k.at \div SecSize, k.ret) \in Nat
    BY <1>1, <1>2, WayIs DEF UnderWay, Seeks
  <2>. QED BY <1>2, <2>1 DEF RwLeft
<1>3. CASE k.pc \in {"run", "sector"}
  <2>1. k.fn.pos <= m /\ k.fn.rel <= k.fn.pos \div SecSize
    <3>1. CASE k.pc = "run"
      BY <1>1, <3>1, RunReaches DEF UnderWay
    <3>2. CASE k.pc = "sector"
      <4>1. k.fn.pos + k.left <= m /\ k.fn.rel = k.fn.pos \div SecSize
        BY <3>2 DEF UnderWay
      <4>. QED BY <1>1, <4>1
    <3>. QED BY <1>3, <3>1, <3>2
  <2>2. Ahead(m, k.fn.rel) \in Nat
    BY <1>1, <2>1, WayIs DEF MapReturn
  <2>. QED BY <1>3, <2>2 DEF RwLeft
<1>4. CASE k.pc = "cut"
  BY <1>1, <1>4 DEF RwLeft
<1>. QED BY <1>2, <1>3, <1>4 DEF RwPc

\* Fewer clusters are in use than LastCluster.
LEMMA InUseFits ==
    ASSUME NEW fat
    PROVE  IsFiniteSet(InUse(fat)) /\ Cardinality(InUse(fat)) \in Nat /\ Cardinality(InUse(fat)) <= LastCluster - 1
<1>1. IsFiniteSet(Cluster) /\ Cardinality(Cluster) = LastCluster - 1
  <2>1. 2 \in Int /\ LastCluster \in Int /\ 2 <= LastCluster
    BY FatAssumption
  <2>2. IsFiniteSet(2 .. LastCluster) /\ Cardinality(2 .. LastCluster) = LastCluster - 2 + 1
    BY <2>1, FS_Interval
  <2>. QED BY <2>1, <2>2 DEF Cluster
<1>2. InUse(fat) \in SUBSET Cluster
  BY DEF InUse
<1>. QED BY <1>1, <1>2, FS_Subset, FS_CardinalityType

LEMMA StepsLeftIs ==
    ASSUME NEW m \in Nat, NEW k, NEW fat, k.pc \in RwPc => UnderWay(m, k)
    PROVE  StepsLeft(m, fat, k) \in Nat
BY RwLeftIs, InUseFits DEF StepsLeft

\* The state after a step that ends the call, or lets it go on.
LEMMA EndCounts ==
    ASSUME NEW m \in Nat, Known(dir', sft'), call' = NoCall, steps' = 0
    PROVE  SInv(m)'
<1>1. NoCall.pc = "idle" /\ NoCall.pc \notin RwPc
  BY DEF NoCall, RwPc
<1>2. StepsLeft(m, vol'.fat, NoCall) = 0
  BY <1>1 DEF StepsLeft
<1>3. 0 <= 4 * (m \div SecSize + LastCluster)
  BY DivIs, FatAssumption
<1>. QED BY <1>1, <1>2, <1>3 DEF SInv, BetweenCalls

LEMMA OnCounts ==
    ASSUME NEW m \in Nat, Known(dir', sft'), NEW k, call' = k, k.pc # "idle", Measured(k.fn),
           k.pc \in RwPc => UnderWay(m, k), steps' \in Nat,
           steps' + StepsLeft(m, vol'.fat, k) <= 4 * (m \div SecSize + LastCluster)
    PROVE  SInv(m)'
<1>1. k # NoCall
  BY DEF NoCall
<1>. QED BY <1>1 DEF SInv, BetweenCalls

Counted == steps' = IF call' = NoCall THEN 0 ELSE steps + 1

\* A handle that is written back has numbers.
LEMMA KnownBack ==
    ASSUME NEW d, NEW s, Known(d, s), SftGood(s), NEW h, NEW fn, fn \notin {None, Orphan} => Measured(fn)
    PROVE  Known(d, [s EXCEPT ![h] = fn])
<1>1. \A g \in Handle : [s EXCEPT ![h] = fn][g] = IF g = h THEN fn ELSE s[g]
  BY DEF SftGood
<1>. QED BY <1>1 DEF Known

LEMMA KnownEntry ==
    ASSUME NEW d, NEW s, Known(d, s), DirGood(d), NEW f, NEW e, e # None => e.size \in Nat
    PROVE  Known([d EXCEPT ![f] = e], s)
<1>1. \A g \in File : [d EXCEPT ![f] = e][g] = IF g = f THEN e ELSE d[g]
  BY DEF DirGood
<1>. QED BY <1>1 DEF Known

\* A call goes on with a step less, or ends.
LEMMA LessLeft ==
    ASSUME NEW m \in Nat, SInv(m), Known(dir', sft'), Counted, NEW k, call' = k, k.pc # "idle", Measured(k.fn),
           k.pc \in RwPc => UnderWay(m, k),
           StepsLeft(m, vol'.fat, k) <= StepsLeft(m, vol.fat, call) - 1
    PROVE  SInv(m)'
<1>1. steps' = steps + 1
  BY DEF Counted, NoCall
<1>2. StepsLeft(m, vol'.fat, k) \in Nat
  BY StepsLeftIs
<1>3. StepsLeft(m, vol.fat, call) \in Nat
  BY StepsLeftIs DEF SInv
<1>4. steps \in Nat /\ steps + StepsLeft(m, vol.fat, call) <= 4 * (m \div SecSize + LastCluster)
  BY DEF SInv
<1>5. 4 * (m \div SecSize + LastCluster) \in Nat
  BY DivIs, FatAssumption
<1>6. steps' + StepsLeft(m, vol'.fat, k) <= 4 * (m \div SecSize + LastCluster)
  BY <1>1, <1>2, <1>3, <1>4, <1>5
<1>. QED BY <1>1, <1>4, <1>6, OnCounts

LEMMA BecomeCounts ==
    ASSUME IInv, NEW m \in Nat, SInv(m), NEW k, CallGood(k), Nears(m, k, StepsLeft(m, vol.fat, call) - 1),
           Become(k), Counted, dir' = dir
    PROVE  SInv(m)'
<1>1. Known(dir, sft) /\ SftGood(sft)
  BY DEF SInv, IInv
<1>2. CASE k.pc \in RwPc
  <2>1. call' = k /\ sft' = sft /\ k.pc # "idle"
    BY <1>2 DEF Become, RwPc
  <2>2. UnderWay(m, k) /\ RwLeft(m, k) <= StepsLeft(m, vol.fat, call) - 1 /\ Measured(k.fn)
    BY <1>2 DEF Nears
  <2>3. StepsLeft(m, vol'.fat, k) = RwLeft(m, k)
    BY <1>2 DEF StepsLeft
  <2>4. StepsLeft(m, vol'.fat, k) <= StepsLeft(m, vol.fat, call) - 1
    BY <2>2, <2>3
  <2>5. Known(dir', sft')
    BY <1>1, <2>1
  <2>. QED BY <2>1, <2>2, <2>4, <2>5, LessLeft
<1>3. CASE k.pc = "return"
  <2> DEFINE g == [k.fn EXCEPT !.pos = 0]
  <2>1. call' = NoCall /\ sft' = [sft EXCEPT ![k.h] = g] /\ steps' = 0
    BY <1>3 DEF Become, Counted
  <2>2. FnGood(k.fn) /\ Measured(k.fn)
    BY <1>3 DEF CallGood, Nears
  <2>3. Measured(g)
    BY <2>2, RewoundFields DEF Measured
  <2> HIDE DEF g
  <2>4. Known(dir', sft')
    BY <1>1, <2>1, <2>3, KnownBack
  <2>. QED BY <2>1, <2>4, EndCounts
<1>4. CASE k.pc = "abandon"
  BY <1>1, <1>4, EndCounts DEF Become, Counted
<1>. QED BY <1>2, <1>3, <1>4 DEF Nears

\* What is known during a read or write.
LEMMA RwNumbers ==
    ASSUME IInv, NEW m \in Nat, SInv(m), call.pc \in RwPc
    PROVE  /\ Paced(call) /\ UnderWay(m, call) /\ Measured(call.fn) /\ call.fn.rel \in Nat
           /\ StepsLeft(m, vol.fat, call) = RwLeft(m, call) /\ RwLeft(m, call) \in Nat
           /\ call.pc \in {"map", "walk"} => /\ call.at \in Nat /\ call.at <= m /\ call.ret \in MapReturn
                                             /\ Seeks(m, call, call.at, call.ret) /\ call.fn.rel <= Target
                                             /\ Way(m, call.fn.rel, Target, call.ret) \in Nat
           /\ call.pc = "walk" => /\ RwLeft(m, call) = Way(m, call.fn.rel, Target, call.ret)
                                  /\ call.fn.cluster # FREE /\ call.fn.start # FREE
<1>1. UnderWay(m, call) /\ CallGood(call) /\ call.pc # "idle"
  BY DEF SInv, IInv, RwPc
<1>2. Paced(call) /\ call.fn.rel \in Nat /\ Measured(call.fn)
  BY <1>1 DEF Paced, Going, CallGood, UnderWay, Measured
<1>3. RwLeft(m, call) \in Nat
  BY <1>1, RwLeftIs
<1>4. ASSUME call.pc \in {"map", "walk"}
      PROVE  /\ call.at \in Nat /\ call.at <= m /\ call.ret \in MapReturn
             /\ Seeks(m, call, call.at, call.ret) /\ call.fn.rel <= Target
             /\ Way(m, call.fn.rel, Target, call.ret) \in Nat
  <2>1. /\ call.at \in Nat /\ call.at <= m /\ call.ret \in MapReturn
        /\ Seeks(m, call, call.at, call.ret) /\ call.fn.rel <= call.at \div SecSize
    BY <1>1, <1>4 DEF UnderWay, Seeks
  <2>. QED BY <1>2, <2>1, WayIs DEF Target
<1>5. call.pc = "walk" => RwLeft(m, call) = Way(m, call.fn.rel, Target, call.ret)
  BY DEF RwLeft, Target
<1>6. call.pc = "walk" => call.fn.cluster # FREE /\ call.fn.start # FREE
  BY <1>1 DEF CallGood, FnGood
<1>7. StepsLeft(m, vol.fat, call) = RwLeft(m, call)
  BY DEF StepsLeft
<1>. QED BY <1>1, <1>2, <1>3, <1>4, <1>5, <1>6, <1>7

LEMMA ArriveCounts ==
    ASSUME IInv, NEW m \in Nat, SInv(m), Arrive, Counted
    PROVE  SInv(m)'
<1>1. call.pc = "walk" /\ call.pc \in RwPc /\ call.fn.rel = Target /\ Become(Mapped(call)) /\ dir' = dir
  BY DEF Arrive, RwPc
<1>2. /\ Paced(call) /\ call.ret \in MapReturn /\ call.fn.cluster # FREE
      /\ Seeks(m, call, call.at, call.ret)
      /\ StepsLeft(m, vol.fat, call) = Way(m, call.fn.rel, Target, call.ret)
      /\ Way(m, call.fn.rel, Target, call.ret) \in Nat
  BY <1>1, RwNumbers
<1> DEFINE n == StepsLeft(m, vol.fat, call) - 1
<1>3. n \in Int /\ Way(m, call.fn.rel, Target, call.ret) - 1 <= n
  BY <1>2
<1> HIDE DEF n
<1>4. Nears(m, Mapped(call), n)
  BY <1>1, <1>2, <1>3, MappedNears DEF Target
<1>5. CallGood(Mapped(call))
  BY <1>2, MappedIsGood DEF Paced
<1>. QED BY <1>1, <1>4, <1>5, BecomeCounts DEF n

\* map_cluster comes to the next cluster.
LEMMA PutNears ==
    ASSUME NEW m \in Nat, NEW k, Paced(k), k.pc = "walk", NEW x, NEW rel \in Nat,
           Seeks(m, k, k.at, k.ret), rel <= k.at \div SecSize, NEW n, Way(m, rel, k.at \div SecSize, k.ret) <= n
    PROVE  Nears(m, Put(k, x, rel), n)
<1> DEFINE j == Put(k, x, rel)
<1>1. /\ Kin(k, j) /\ j.fn.cluster = x /\ j.fn.rel = rel /\ j.fn.pos = k.fn.pos /\ j.fn.size = k.fn.size
      /\ \A f \in CallFields \ {"fn"} : j[f] = k[f]
  BY PutFields DEF Paced
<1> HIDE DEF j
<1>2. /\ j.left = k.left /\ j.pc = "walk" /\ j.at = k.at /\ j.ret = k.ret /\ j.from = k.from
      /\ j.run = k.run /\ j.wanted = k.wanted /\ j.count = k.count
  BY <1>1 DEF CallFields
<1>3. Seeks(m, j, j.at, j.ret)
  BY <1>1, <1>2, SeeksStill DEF Kin
<1>4. Measured(j.fn)
  BY <1>1 DEF Measured, Paced
<1>5. UnderWay(m, j)
  BY <1>1, <1>2, <1>3, <1>4 DEF UnderWay, Paced
<1>6. RwLeft(m, j) <= n
  BY <1>1, <1>2 DEF RwLeft
<1>. QED BY <1>2, <1>4, <1>5, <1>6 DEF Nears, RwPc, j

\* One place more is behind the walk.
LEMMA WalkIsShorter ==
    ASSUME IInv, NEW m \in Nat, SInv(m), call.pc = "walk", call.fn.rel # Target
    PROVE  /\ call.fn.rel + 1 \in Nat /\ call.fn.rel + 1 <= Target
           /\ Way(m, call.fn.rel + 1, Target, call.ret) <= StepsLeft(m, vol.fat, call) - 1
<1>1. call.fn.rel \in Nat /\ call.fn.rel <= Target /\ call.at \in Nat /\ call.at <= m /\ call.ret \in MapReturn
      /\ StepsLeft(m, vol.fat, call) = Way(m, call.fn.rel, Target, call.ret)
  BY RwNumbers DEF RwPc
<1>2. Target \in Nat
  BY <1>1, DivIs DEF Target
<1>3. call.fn.rel < Target /\ call.fn.rel + 1 <= Target
  BY <1>1, <1>2
<1>4. Way(m, call.fn.rel + 1, Target, call.ret) <= Way(m, call.fn.rel, Target, call.ret) - 1
  BY <1>1, <1>3, WayIs DEF Target
<1>. QED BY <1>1, <1>3, <1>4

LEMMA WalkCounts ==
    ASSUME IInv, NEW m \in Nat, SInv(m), WalkChain, Counted
    PROVE  SInv(m)'
<1>1. call.pc = "walk" /\ call.pc \in RwPc /\ call.fn.rel # Target /\ dir' = dir
  BY DEF WalkChain, RwPc
<1>2. /\ Paced(call) /\ call.ret \in MapReturn /\ call.fn.cluster # FREE /\ call.fn.start # FREE
      /\ Seeks(m, call, call.at, call.ret) /\ call.fn.rel <= Target
      /\ StepsLeft(m, vol.fat, call) = Way(m, call.fn.rel, Target, call.ret)
      /\ Way(m, call.fn.rel, Target, call.ret) \in Nat
  BY <1>1, RwNumbers
<1>3. PICK next \in {NextCluster(vol.fat, call.fn.cluster), Error} :
          Become(IF next \in Cluster THEN Put(call, next, call.fn.rel + 1) ELSE NotMapped(call))
  BY DEF WalkChain
<1> DEFINE n == StepsLeft(m, vol.fat, call) - 1
<1>4. n \in Int /\ Way(m, call.fn.rel, Target, call.ret) - 1 <= n
  BY <1>2
<1>5. call.fn.rel + 1 \in Nat /\ call.fn.rel + 1 <= Target /\ Way(m, call.fn.rel + 1, Target, call.ret) <= n
  BY <1>1, WalkIsShorter
<1> HIDE DEF n
<1>6. CASE next \in Cluster
  <2> DEFINE k == Put(call, next, call.fn.rel + 1)
  <2>1. Nears(m, k, n)
    BY <1>1, <1>2, <1>5, PutNears DEF Target
  <2>2. next \in Start /\ next # FREE
    BY <1>6, Marks DEF Start
  <2>3. Going(k) /\ k.fn.cluster = next /\ k.pc = "walk" /\ k.ret = call.ret
    BY <1>1, <1>2, <2>2, PutIsGood DEF Paced
  <2>4. Become(k)
    BY <1>3, <1>6
  <2> HIDE DEF k
  <2>5. CallGood(k)
    BY <1>2, <2>2, <2>3 DEF CallGood, Going
  <2>. QED BY <1>1, <2>1, <2>4, <2>5, BecomeCounts DEF n
<1>7. CASE next \notin Cluster
  <2>1. Nears(m, NotMapped(call), n)
    BY <1>1, <1>2, <1>4, NotMappedNears DEF Target
  <2>2. CallGood(NotMapped(call))
    BY <1>2, NotMappedIsGood DEF Paced
  <2>. QED BY <1>1, <1>3, <1>7, <2>1, <2>2, BecomeCounts DEF n
<1>. QED BY <1>6, <1>7

LEMMA ExtendFields ==
    ASSUME NEW v, NEW fn, FnGood(fn), NEW failure
    PROVE  LET g == Extend(v, fn, failure).fn
           IN  g.size = fn.size /\ g.pos = fn.pos /\ g.cluster = fn.cluster /\ g.rel = fn.rel
<1> DEFINE g == Extend(v, fn, failure).fn
<1>1. g = fn \/ \E s : g = [fn EXCEPT !.start = s]
  BY DEF Extend
<1>2. \A s : LET j == [fn EXCEPT !.start = s]
             IN  j.size = fn.size /\ j.pos = fn.pos /\ j.cluster = fn.cluster /\ j.rel = fn.rel
  BY StartFields
<1> HIDE DEF g
<1>3. g.size = fn.size /\ g.pos = fn.pos /\ g.cluster = fn.cluster /\ g.rel = fn.rel
  BY <1>1, <1>2
<1>. QED BY <1>3 DEF g

\* map_cluster makes the chain longer, or cannot.
LEMMA ExtendChainCounts ==
    ASSUME IInv, NEW m \in Nat, SInv(m), call.pc \in {"map", "walk"}, NEW rel \in Nat, ExtendChain(rel), Counted,
           rel <= Target, Way(m, rel, Target, call.ret) <= StepsLeft(m, vol.fat, call) - 1,
           Way(m, call.fn.rel, Target, call.ret) <= StepsLeft(m, vol.fat, call),
           call.pc = "walk" => call.fn.rel # Target
    PROVE  SInv(m)'
<1>1. call.pc \in RwPc /\ dir' = dir
  BY DEF ExtendChain, RwPc
<1>2. /\ Paced(call) /\ call.ret \in MapReturn
      /\ Seeks(m, call, call.at, call.ret) /\ call.fn.rel <= Target
      /\ Way(m, call.fn.rel, Target, call.ret) \in Nat /\ StepsLeft(m, vol.fat, call) \in Nat
      /\ UnderWay(m, call) /\ (call.pc = "walk" => call.fn.cluster # FREE)
  BY <1>1, RwNumbers
<1>3. PICK failure \in {0, NewEntry, LastEntry} \cup Cluster :
          LET e == Extend(vol, call.fn, failure)
              c == [call EXCEPT !.fn = e.fn, !.pc = "walk"]
          IN  Become(IF e.got = LAST THEN NotMapped(c) ELSE Put(c, e.got, rel))
  BY DEF ExtendChain
<1> DEFINE e == Extend(vol, call.fn, failure)
           c == [call EXCEPT !.fn = e.fn, !.pc = "walk"]
           n == StepsLeft(m, vol.fat, call) - 1
<1>4. Become(IF e.got = LAST THEN NotMapped(c) ELSE Put(c, e.got, rel))
  BY <1>3
<1>5. FnGood(e.fn) /\ e.got \in Cluster \cup {LAST} /\ (e.got # LAST => e.fn.start # FREE)
  BY <1>2, ExtendIsGood DEF IInv, Going, Paced
<1>6. e.fn.size = call.fn.size /\ e.fn.pos = call.fn.pos /\ e.fn.cluster = call.fn.cluster /\ e.fn.rel = call.fn.rel
  BY <1>2, ExtendFields DEF Paced, Going
<1> HIDE DEF e
<1>7. /\ Going(c) /\ c.pc = "walk" /\ c.fn = e.fn
      /\ \A x \in CallFields \ {"pc", "fn"} : c[x] = call[x]
  BY <1>2, <1>5 DEF Going, Shaped, CallFields, Paced
<1> HIDE DEF c
<1>8. /\ c.mode = call.mode /\ c.count = call.count /\ c.left = call.left /\ c.at = call.at /\ c.ret = call.ret
      /\ c.from = call.from /\ c.run = call.run /\ c.wanted = call.wanted
  BY <1>7 DEF CallFields
<1>9. Paced(c)
  BY <1>2, <1>6, <1>7, <1>8 DEF Paced, Measured
<1>10. Seeks(m, c, c.at, c.ret) /\ c.fn.rel = call.fn.rel /\ c.at \div SecSize = Target
  <2>1. Seeks(m, c, call.at, call.ret)
    BY <1>2, <1>6, <1>7, <1>8, SeeksStill
  <2>. QED BY <1>6, <1>7, <1>8, <2>1 DEF Target
<1>11. n \in Int /\ Way(m, call.fn.rel, Target, call.ret) - 1 <= n /\ Way(m, rel, Target, call.ret) <= n
  BY <1>2
<1> HIDE DEF n
<1>12. CASE e.got = LAST
  <2>1. c.ret = "run" => c.fn.cluster # FREE /\ c.fn.rel # c.at \div SecSize
    BY <1>2, <1>6, <1>7, <1>8, <1>10 DEF UnderWay
  <2>2. Nears(m, NotMapped(c), n)
    BY <1>2, <1>8, <1>9, <1>10, <1>11, <2>1, NotMappedNears
  <2>3. CallGood(NotMapped(c))
    BY <1>2, <1>7, <1>8, NotMappedIsGood
  <2>. QED BY <1>1, <1>4, <1>12, <2>2, <2>3, BecomeCounts DEF n
<1>13. CASE e.got # LAST
  <2> DEFINE k == Put(c, e.got, rel)
  <2>1. Nears(m, k, n)
    BY <1>7, <1>8, <1>9, <1>10, <1>11, PutNears
  <2>2. e.got \in Cluster /\ e.got \in Start /\ e.got # FREE
    BY <1>5, <1>13, Marks DEF Start
  <2>3. Going(k) /\ k.fn.cluster = e.got /\ k.pc = "walk" /\ k.ret = call.ret
    BY <1>5, <1>7, <1>8, <1>13, <2>2, PutIsGood
  <2>4. Become(k)
    BY <1>4, <1>13
  <2> HIDE DEF k
  <2>5. CallGood(k)
    BY <1>2, <2>2, <2>3 DEF CallGood, Going
  <2>. QED BY <1>1, <2>1, <2>4, <2>5, BecomeCounts DEF n
<1>. QED BY <1>12, <1>13

LEMMA MapEmptyCounts ==
    ASSUME IInv, NEW m \in Nat, SInv(m), MapEmpty, Counted
    PROVE  SInv(m)'
<1>1. call.pc = "map" /\ call.pc \in RwPc
  BY DEF MapEmpty, RwPc
<1>2. /\ Paced(call) /\ call.ret \in MapReturn /\ call.fn.rel \in Nat
      /\ Seeks(m, call, call.at, call.ret) /\ call.fn.rel <= Target /\ UnderWay(m, call)
      /\ Way(m, call.fn.rel, Target, call.ret) \in Nat
  BY <1>1, RwNumbers
<1>3. StepsLeft(m, vol.fat, call) = Way(m, call.fn.rel, Target, call.ret) + 1
  BY <1>1 DEF StepsLeft, RwLeft, Target
<1>4. CASE ExtendChain(call.fn.rel)
  <2>1. /\ Way(m, call.fn.rel, Target, call.ret) <= StepsLeft(m, vol.fat, call) - 1
        /\ Way(m, call.fn.rel, Target, call.ret) <= StepsLeft(m, vol.fat, call)
    BY <1>2, <1>3
  <2>. QED BY <1>1, <1>2, <1>4, <2>1, ExtendChainCounts
<1>5. CASE Become(NotMapped(call)) /\ UNCHANGED <<vol, dir, faults, seeded>>
  <2> DEFINE n == StepsLeft(m, vol.fat, call) - 1
  <2>1. n \in Int /\ Way(m, call.fn.rel, Target, call.ret) - 1 <= n
    BY <1>2, <1>3
  <2> HIDE DEF n
  <2>2. call.ret # "run"
    BY <1>1, <1>2 DEF UnderWay
  <2>3. Nears(m, NotMapped(call), n)
    BY <1>2, <2>1, <2>2, NotMappedNears DEF Target
  <2>4. CallGood(NotMapped(call))
    BY <1>2, NotMappedIsGood DEF Paced
  <2>. QED BY <1>5, <2>3, <2>4, BecomeCounts DEF n
<1>. QED BY <1>4, <1>5 DEF MapEmpty

LEMMA WalkOnCounts ==
    ASSUME IInv, NEW m \in Nat, SInv(m), WalkOn, Counted
    PROVE  SInv(m)'
<1>1. call.pc = "walk" /\ call.pc \in RwPc /\ call.fn.rel # Target /\ ExtendChain(call.fn.rel + 1)
  BY DEF WalkOn, RwPc
<1>2. StepsLeft(m, vol.fat, call) = Way(m, call.fn.rel, Target, call.ret) /\ Way(m, call.fn.rel, Target, call.ret) \in Nat
  BY <1>1, RwNumbers
<1>3. Way(m, call.fn.rel, Target, call.ret) <= StepsLeft(m, vol.fat, call)
  BY <1>2
<1>. QED BY <1>1, <1>3, WalkIsShorter, ExtendChainCounts

\* The rest of a sector from a place on.
LEMMA RoomIs ==
    ASSUME NEW p \in Nat
    PROVE  LET room == SecSize - (p % SecSize)
           IN  /\ room \in Nat /\ p + room = (p \div SecSize + 1) * SecSize
               /\ (p + room) \div SecSize = p \div SecSize + 1
<1> DEFINE d == p \div SecSize
           part == p % SecSize
           whole == d * SecSize
<1>1. d \in Nat /\ part \in 0 .. SecSize - 1 /\ p = SecSize * d + part /\ SecSize \in Nat \ {0}
  BY DivIs, FatAssumption
<1> HIDE DEF d, part
<1>2. whole = SecSize * d /\ whole \in Nat /\ (d + 1) * SecSize = whole + SecSize
  BY <1>1, Times
<1> HIDE DEF whole
<1>3. SecSize - part \in Nat /\ p + (SecSize - part) = (d + 1) * SecSize
  BY <1>1, <1>2
<1>4. ((d + 1) * SecSize) \div SecSize = d + 1
  <2>1. (0 + (d + 1) * SecSize) \div SecSize = 0 \div SecSize + (d + 1) /\ 0 \div SecSize = 0 /\ 0 % SecSize = 0
    <3>1. 0 % SecSize = 0 /\ 0 \div SecSize = 0
      BY FatAssumption
    <3>2. d + 1 \in Nat
      BY <1>1
    <3>. QED BY <3>1, <3>2, RunPlace
  <2>2. (d + 1) * SecSize \in Nat
    BY <1>2, FatAssumption
  <2>. QED BY <1>1, <2>1, <2>2
<1>. QED BY <1>3, <1>4 DEF d, part

\* The byte before a place inside a sector is in the same one.
LEMMA PlaceBefore ==
    ASSUME NEW p \in Nat, p % SecSize # 0
    PROVE  p # 0 /\ (p - 1) \div SecSize = p \div SecSize
<1> DEFINE d == p \div SecSize
           whole == d * SecSize
<1>1. d \in Nat /\ p % SecSize \in 0 .. SecSize - 1 /\ p = SecSize * d + (p % SecSize)
  BY DivIs
<1>2. p < (d + 1) * SecSize
  BY <1>1, PlaceIn
<1> HIDE DEF d
<1>3. whole = SecSize * d /\ whole \in Nat /\ (d + 1) * SecSize = whole + SecSize
  BY <1>1, Times
<1> HIDE DEF whole
<1>4. p # 0 /\ whole <= p - 1 /\ p - 1 < (d + 1) * SecSize /\ p - 1 \in Nat
  BY <1>1, <1>2, <1>3, FatAssumption
<1>. QED BY <1>1, <1>4, PlaceIn DEF d, whole

LEMMA DoRunCounts ==
    ASSUME IInv, NEW m \in Nat, SInv(m), DoRun, Counted
    PROVE  SInv(m)'
<1>1. call.pc = "run" /\ call.pc \in RwPc /\ dir' = dir
  BY DEF DoRun, RwPc
<1>2. /\ Paced(call) /\ UnderWay(m, call) /\ call.fn.rel \in Nat /\ call.left \in Nat
      /\ StepsLeft(m, vol.fat, call) = RwLeft(m, call) /\ RwLeft(m, call) \in Nat
  BY <1>1, RwNumbers DEF Paced
<1>3. RunUpTo(m, call) /\ call.fn.rel <= call.fn.pos \div SecSize /\ call.fn.cluster # FREE
  BY <1>1, <1>2 DEF UnderWay
<1>4. /\ call.fn.pos \in Nat /\ call.fn.pos <= m /\ call.run * SecSize \in Nat /\ call.run * SecSize <= call.left
      /\ call.fn.pos + (call.left - call.run * SecSize) <= m
  BY <1>2, <1>3, RunReaches
<1> DEFINE n == StepsLeft(m, vol.fat, call) - 1
<1>5. n \in Int
  BY <1>2
<1>6. MapLeft(m, call, call.fn.pos, "loop") = n
  <2>1. ~(call.fn.pos \div SecSize < call.fn.rel)
    BY <1>2, <1>3, <1>4, DivIs
  <2>2. Ahead(m, call.fn.rel) \in Nat
    BY <1>2, <1>3, <1>4, WayIs DEF MapReturn
  <2>. QED BY <1>1, <1>2, <1>3, <2>1, <2>2 DEF MapLeft, Way, RwLeft
<1> HIDE DEF n
<1>7. CASE Become(Advanced(call, call.run * SecSize))
  <2>1. Nears(m, Advanced(call, call.run * SecSize), n)
    BY <1>2, <1>4, <1>5, <1>6, AdvancedNears
  <2>2. CallGood(Advanced(call, call.run * SecSize))
    BY <1>2, AdvancedIsGood DEF Paced
  <2>. QED BY <1>1, <1>7, <2>1, <2>2, BecomeCounts DEF n
<1>8. CASE Become(Return([call EXCEPT !.fn.pos = call.from]))
  <2> DEFINE d == Sought(call, call.from, call.first, call.run, call.wanted, call.from)
  <2>1. d = [call EXCEPT !.fn.pos = call.from]
    BY <1>2 DEF Going, Shaped, CallFields, Sought, Paced
  <2>2. Going(d) /\ d.fn.size = call.fn.size /\ d.fn.pos = call.from /\ d.fn.rel = call.fn.rel
    BY <1>2, SeekFields DEF Paced
  <2>3. Become(Return(d))
    BY <1>8, <2>1
  <2> HIDE DEF d
  <2>4. Measured(d.fn)
    BY <1>2, <1>3, <2>2 DEF Paced, Measured, RunUpTo
  <2>5. Nears(m, Return(d), n) /\ CallGood(Return(d))
    BY <2>2, <2>4, EndNears, EndsAreGood
  <2>. QED BY <1>1, <2>3, <2>5, BecomeCounts DEF n
<1>. QED BY <1>7, <1>8 DEF DoRun

LEMMA DoSectorCounts ==
    ASSUME IInv, NEW m \in Nat, SInv(m), DoSector, Counted
    PROVE  SInv(m)'
<1>1. call.pc = "sector" /\ call.pc \in RwPc /\ dir' = dir
  BY DEF DoSector, RwPc
<1>2. /\ Paced(call) /\ UnderWay(m, call) /\ call.fn.rel \in Nat /\ call.left \in Nat
      /\ StepsLeft(m, vol.fat, call) = RwLeft(m, call) /\ RwLeft(m, call) \in Nat
      /\ call.fn.pos \in Nat /\ call.fn.size \in Nat
  BY <1>1, RwNumbers DEF Paced, Measured
<1>3. /\ call.fn.rel = call.fn.pos \div SecSize /\ call.left # 0 /\ call.fn.pos + call.left <= m
      /\ call.mode = "read" => call.fn.pos < call.fn.size
  BY <1>1, <1>2 DEF UnderWay
<1> DEFINE room == SecSize - (call.fn.pos % SecSize)
           upto == IF call.left < room THEN call.left ELSE room
           rest == call.fn.size - call.fn.pos
           n    == IF call.mode = "read" /\ rest < upto THEN rest ELSE upto
           b    == StepsLeft(m, vol.fat, call) - 1
<1>4. room \in Nat /\ (call.fn.pos + room) \div SecSize = call.fn.rel + 1
  BY <1>2, <1>3, RoomIs
<1>5. b = Ahead(m, call.fn.rel) /\ Ahead(m, call.fn.rel) \in Nat
  <2>1. call.fn.pos <= m
    BY <1>2, <1>3
  <2>2. call.fn.rel <= call.fn.pos \div SecSize
    BY <1>2, <1>3
  <2>3. Ahead(m, call.fn.rel) \in Nat
    BY <1>2, <2>1, <2>2, WayIs DEF MapReturn
  <2>. QED BY <1>1, <1>2, <2>3 DEF RwLeft
<1>6. CASE Become(Advanced([call EXCEPT !.fn.pos = @ + n], n))
  <2> HIDE DEF room, b
  <2>1. /\ n \in Nat /\ n <= call.left
        /\ n # call.left /\ ~(call.mode = "read" /\ call.fn.pos + n >= call.fn.size) => n = room
    BY <1>2, <1>3, <1>4
  <2>2. Become(Advanced([call EXCEPT !.fn.pos = @ + n], n))
    BY <1>6 DEF room
  <2> HIDE DEF n
  <2> DEFINE d == Sought(call, call.from, call.first, call.run, call.wanted, call.fn.pos + n)
  <2>3. d = [call EXCEPT !.fn.pos = @ + n]
    BY <1>2 DEF Going, Shaped, CallFields, Sought, Paced
  <2>4. Become(Advanced(d, n))
    BY <2>2, <2>3
  <2>5. /\ Going(d) /\ Kin(call, d) /\ d.fn.size = call.fn.size /\ d.fn.pos = call.fn.pos + n /\ d.fn.rel = call.fn.rel
        /\ d.fn.cluster = call.fn.cluster /\ d.left = call.left
    BY <1>2, SeekFields DEF Paced
  <2> HIDE DEF d
  <2>6. Paced(d)
    BY <1>2, <2>1, <2>5 DEF Paced, Measured, Kin
  <2>7. d.fn.pos + (d.left - n) <= m
    BY <1>2, <1>3, <2>1, <2>5
  <2>8. d.left # n /\ ~(d.mode = "read" /\ d.fn.pos >= d.fn.size) => MapLeft(m, d, d.fn.pos, "loop") <= b
    <3>1. SUFFICES ASSUME d.left # n, ~(d.mode = "read" /\ d.fn.pos >= d.fn.size)
                   PROVE  MapLeft(m, d, d.fn.pos, "loop") <= b
      OBVIOUS
    <3>2. n = room
      BY <2>1, <2>5, <3>1 DEF Kin
    <3>3. d.fn.pos \div SecSize = d.fn.rel + 1
      BY <1>4, <2>5, <3>2
    <3>4. ~(d.fn.pos \div SecSize < d.fn.rel) /\ d.fn.rel # d.fn.pos \div SecSize
      BY <1>2, <2>5, <3>3
    <3>5. Way(m, d.fn.rel, d.fn.pos \div SecSize, "loop") = b - 1
      BY <1>5, <2>5, <3>4 DEF Way
    <3>. QED BY <1>5, <3>4, <3>5 DEF MapLeft
  <2>9. Nears(m, Advanced(d, n), b)
    BY <1>5, <2>1, <2>5, <2>6, <2>7, <2>8, AdvancedNears
  <2>10. CallGood(Advanced(d, n))
    BY <2>5, AdvancedIsGood
  <2>. QED BY <1>1, <2>4, <2>9, <2>10, BecomeCounts DEF b
<1>7. CASE Become(Return(call))
  <2>1. Nears(m, Return(call), b) /\ CallGood(Return(call))
    BY <1>2, EndNears, EndsAreGood DEF Paced
  <2>. QED BY <1>1, <1>7, <2>1, BecomeCounts
<1>. QED BY <1>6, <1>7 DEF DoSector

LEMMA CutCounts ==
    ASSUME IInv, NEW m \in Nat, SInv(m), CutChain, Counted
    PROVE  SInv(m)'
<1>1. call.pc = "cut" /\ call.pc \in RwPc /\ dir' = dir
  BY DEF CutChain, RwPc
<1>2. Paced(call) /\ Going(call) /\ Measured(call.fn) /\ StepsLeft(m, vol.fat, call) = LastCluster + 2
  BY <1>1, RwNumbers DEF Paced, RwLeft
<1> DEFINE n == StepsLeft(m, vol.fat, call) - 1
           next == NextCluster(vol.fat, call.fn.cluster)
           c == IF call.fn.size = 0 THEN [call EXCEPT !.fn.cluster = FREE, !.fn.start = FREE] ELSE call
           k == [c EXCEPT !.pc = "wipe", !.ret = "flush", !.st = next]
<1>3. CASE Become(Return(call)) \/ Become(Abandon(call))
  <2>1. /\ Nears(m, Return(call), n) /\ CallGood(Return(call))
        /\ Nears(m, Abandon(call), n) /\ CallGood(Abandon(call))
    BY <1>2, EndNears, EndsAreGood
  <2>. QED BY <1>1, <1>3, <2>1, BecomeCounts
<1>4. CASE Become(k)
  <2>1. Going(c) /\ c.fn.size = call.fn.size /\ c.fn.pos = call.fn.pos /\ c.fn.rel = call.fn.rel
    BY <1>2, EmptiedFields
  <2> HIDE DEF c, next
  <2>2. k.fn = c.fn /\ k.pc = "wipe"
    BY <2>1, DoneFields DEF Going
  <2>3. Become(k)
    BY <1>4 DEF c, next
  <2> HIDE DEF k
  <2>4. call' = k /\ sft' = sft /\ k.pc # "idle" /\ k.pc \notin RwPc /\ Measured(k.fn)
    BY <1>2, <2>1, <2>2, <2>3 DEF Become, Measured, RwPc
  <2>5. StepsLeft(m, vol'.fat, k) <= StepsLeft(m, vol.fat, call) - 1
    <3>1. StepsLeft(m, vol'.fat, k) = Cardinality(InUse(vol'.fat)) + 2
      BY <2>2, <2>4 DEF StepsLeft
    <3>2. Cardinality(InUse(vol'.fat)) \in Nat /\ Cardinality(InUse(vol'.fat)) <= LastCluster - 1 /\ LastCluster \in Nat
      BY InUseFits, FatAssumption
    <3>. QED BY <1>2, <3>1, <3>2
  <2>6. Known(dir', sft')
    BY <1>1, <2>4 DEF SInv
  <2>. QED BY <2>4, <2>5, <2>6, LessLeft
<1>. QED BY <1>3, <1>4 DEF CutChain

LEMMA WipeCounts ==
    ASSUME IInv, NEW m \in Nat, SInv(m), Wipe, Counted
    PROVE  SInv(m)'
<1> DEFINE st   == call.st
           next == IF st = LAST THEN LAST ELSE NextCluster(vol.fat, st)
           done == [call EXCEPT !.pc = call.ret, !.ret = None, !.st = 0]
           on   == [call EXCEPT !.st = next]
           used == InUse(vol.fat)
<1>1. /\ call.pc = "wipe" /\ call.ret \in WipeReturn /\ Shaped(call) /\ st \in Cluster \cup {LAST}
      /\ Measured(call.fn) /\ Known(dir', sft')
  BY DEF Wipe, IInv, SInv, CallGood
<1>2. StepsLeft(m, vol.fat, call) = Cardinality(used) + 2
  BY <1>1 DEF StepsLeft, RwPc
<1>3. IsFiniteSet(used) /\ Cardinality(used) \in Nat
  BY InUseFits
<1>4. CASE call' = done
  <2>1. done.fn = call.fn /\ done.pc = call.ret
    BY <1>1, DoneFields
  <2> HIDE DEF done
  <2>2. done.pc # "idle" /\ done.pc \notin RwPc /\ Measured(done.fn) /\ StepsLeft(m, vol'.fat, done) = 1
    BY <1>1, <2>1 DEF WipeReturn, RwPc, StepsLeft
  <2>3. StepsLeft(m, vol'.fat, done) <= StepsLeft(m, vol.fat, call) - 1
    BY <1>2, <1>3, <2>2
  <2>. QED BY <1>1, <1>4, <2>2, <2>3, LessLeft
<1>5. CASE /\ st # LAST /\ next \notin {FREE, Error}
           /\ vol' = [LinkFat(vol, st, FREE) EXCEPT
                         !.hint = IF @ = UNKNCLUSTER \/ @ > st THEN st ELSE @]
           /\ call' = on
  <2>1. on.fn = call.fn /\ on.pc = "wipe"
    BY <1>1 DEF Shaped, CallFields
  <2> HIDE DEF on
  <2>2. st \in Cluster /\ vol.fat[st] # FREE
    BY <1>1, <1>5 DEF NextCluster
  <2>3. vol'.fat = [vol.fat EXCEPT ![st] = FREE] /\ vol.fat \in [Cluster -> Entry]
    BY <1>5 DEF LinkFat, IInv, VolGood
  <2>4. InUse(vol'.fat) = used \ {st} /\ st \in used
    BY <2>2, <2>3 DEF InUse
  <2>5. Cardinality(InUse(vol'.fat)) = Cardinality(used) - 1
    BY <1>3, <2>4, FS_RemoveElement
  <2>6. on.pc # "idle" /\ on.pc \notin RwPc /\ Measured(on.fn) /\ StepsLeft(m, vol'.fat, on) = Cardinality(InUse(vol'.fat)) + 2
    BY <1>1, <2>1 DEF RwPc, StepsLeft
  <2>7. StepsLeft(m, vol'.fat, on) <= StepsLeft(m, vol.fat, call) - 1
    BY <1>2, <1>3, <2>5, <2>6
  <2>. QED BY <1>1, <1>5, <2>6, <2>7, LessLeft
<1>. QED BY <1>4, <1>5 DEF Wipe

LEMMA FlushShrunkCounts ==
    ASSUME IInv, NEW m \in Nat, SInv(m), FlushShrunk, Counted
    PROVE  SInv(m)'
<1>1. Going(call) /\ Measured(call.fn) /\ dir' = dir
  BY DEF FlushShrunk, IInv, SInv, CallGood, Going
<1>2. \A n : Nears(m, Return(call), n) /\ Nears(m, Abandon(call), n)
  BY <1>1, EndNears
<1>3. CallGood(Return(call)) /\ CallGood(Abandon(call))
  BY <1>1, EndsAreGood
<1>. QED BY <1>1, <1>2, <1>3, BecomeCounts DEF FlushShrunk

LEMMA FreshIsMeasured ==
    ASSUME NEW f, NEW e, e.size \in Nat
    PROVE  Measured(Fresh(f, e))
BY DEF Fresh, Measured

LEMMA WriteEntryCounts ==
    ASSUME IInv, NEW m \in Nat, SInv(m), WriteEntry, Counted
    PROVE  SInv(m)'
<1> DEFINE f == call.fn.file
           written == [dir EXCEPT ![f] = IF call.pc = "create" THEN Empty ELSE None]
<1>1. Known(dir, sft) /\ SftGood(sft) /\ DirGood(dir)
  BY DEF SInv, IInv
<1>2. Measured(Fresh(f, Empty)) /\ Empty.size \in Nat
  BY FreshIsMeasured DEF Empty
<1>3. Known(written, sft)
  BY <1>1, <1>2, KnownEntry
<1>4. Known(written, [sft EXCEPT ![call.h] = Fresh(f, Empty)])
  BY <1>1, <1>2, <1>3, KnownBack
<1>5. Known(dir', sft')
  BY <1>1, <1>3, <1>4 DEF WriteEntry
<1>. QED BY <1>5, EndCounts DEF WriteEntry, Counted

LEMMA EndMoveCounts ==
    ASSUME IInv, NEW m \in Nat, SInv(m), EndMove, Counted
    PROVE  SInv(m)'
<1> DEFINE fn == call.fn
           e == [start |-> fn.start, size |-> fn.size]
<1>1. Known(dir, sft) /\ DirGood(dir) /\ Measured(fn)
  BY DEF SInv, IInv, EndMove
<1>2. e.size \in Nat
  BY <1>1 DEF Measured
<1>3. Known([dir EXCEPT ![fn.file] = e], sft)
  <2> HIDE DEF e
  <2>. QED BY <1>1, <1>2, KnownEntry
<1>4. Known(dir', sft')
  BY <1>1, <1>3 DEF EndMove
<1>. QED BY <1>4, EndCounts DEF EndMove, Counted

-----------------------------------------------------------------------------
(* A call starts with all of its steps to make.                            *)

\* A call that starts takes a way within its bounds.
LEMMA MapLeftFits ==
    ASSUME NEW m \in Nat, NEW k, k.fn.rel \in Nat, NEW at \in Nat, at <= m, NEW ret \in MapReturn
    PROVE  MapLeft(m, k, at, ret) <= 4 * (m \div SecSize + LastCluster)
<1> DEFINE rel == IF at \div SecSize < k.fn.rel THEN 0 ELSE k.fn.rel
           b == 4 * (m \div SecSize + LastCluster)
<1>1. rel \in Nat /\ rel <= at \div SecSize
  BY DivIs
<1> HIDE DEF rel
<1>2. b \in Nat
  BY DivIs, FatAssumption
<1>3. /\ Way(m, rel, at \div SecSize, ret) \in Nat
      /\ Way(m, rel, at \div SecSize, ret) <= 4 * (m \div SecSize + LastCluster) - 1
  BY <1>1, WayIs
<1>4. Way(m, rel, at \div SecSize, ret) <= b - 1
  BY <1>3
<1> HIDE DEF b
<1>5. Way(m, rel, at \div SecSize, ret) + (IF k.fn.cluster = FREE THEN 1 ELSE 0) <= b
  BY <1>2, <1>3, <1>4
<1>. QED BY <1>5 DEF MapLeft, rel, b

LEMMA StartCounts ==
    ASSUME IInv, NEW m \in Nat, Known(dir, sft), NEW k, CallGood(k), Nears(m, k, 4 * (m \div SecSize + LastCluster)),
           Become(k), dir' = dir, steps' = 0
    PROVE  SInv(m)'
<1>1. SftGood(sft)
  BY DEF IInv
<1>2. CASE k.pc \in RwPc
  <2>1. call' = k /\ sft' = sft /\ k.pc # "idle"
    BY <1>2 DEF Become, RwPc
  <2>2. UnderWay(m, k) /\ Measured(k.fn) /\ StepsLeft(m, vol'.fat, k) <= 4 * (m \div SecSize + LastCluster)
    BY <1>2 DEF Nears, StepsLeft
  <2>3. StepsLeft(m, vol'.fat, k) \in Nat
    BY <2>2, StepsLeftIs
  <2>. QED BY <2>1, <2>2, <2>3, OnCounts
<1>3. CASE k.pc = "return"
  <2> DEFINE g == [k.fn EXCEPT !.pos = 0]
  <2>1. call' = NoCall /\ sft' = [sft EXCEPT ![k.h] = g]
    BY <1>3 DEF Become
  <2>2. Measured(g)
    BY <1>3, RewoundFields DEF Measured, CallGood, Nears
  <2> HIDE DEF g
  <2>3. Known(dir', sft')
    BY <1>1, <2>1, <2>2, KnownBack
  <2>. QED BY <2>1, <2>3, EndCounts
<1>4. CASE k.pc = "abandon"
  BY <1>4, EndCounts DEF Become
<1>. QED BY <1>2, <1>3, <1>4 DEF Nears

LEMMA TransferCounts ==
    ASSUME IInv, NEW m \in Nat, SInv(m), NEW h \in Handle, NEW p \in Nat, NEW mode \in {"read", "write"}, NEW count \in Nat,
           p + count <= m, Transfer(h, p, mode, count), steps' = steps
    PROVE  SInv(m)'
<1> DEFINE fn == [sft[h] EXCEPT !.pos = p, !.clean = @ /\ mode = "read"]
           c  == [NoCall EXCEPT !.h = h, !.mode = mode, !.count = count, !.left = count, !.fn = fn]
           at == IF count = 0 /\ p % SecSize = 0 THEN p - 1 ELSE p
           k  == IF mode = "write" /\ p > fn.size THEN Map(c, at, "extend") ELSE Extended(c)
           b  == 4 * (m \div SecSize + LastCluster)
<1>1. Open(h) /\ dir' = dir /\ Become(k) /\ steps' = 0 /\ Known(dir, sft)
  BY DEF Transfer, SInv
<1>2. FnGood(sft[h]) /\ Measured(sft[h])
  BY <1>1 DEF IInv, SftGood, Known, Open
<1>3. FnGood(fn) /\ fn.pos = p /\ \A x \in FnFields \ {"pos", "clean"} : fn[x] = sft[h][x]
  BY <1>2 DEF FnGood, FnFields
<1> HIDE DEF fn
<1>4. fn.size \in Nat /\ fn.rel \in Nat
  BY <1>2, <1>3 DEF FnFields, Measured
<1>5. Going(c) /\ c.mode = mode /\ c.count = count /\ c.left = count /\ c.fn = fn
  BY <1>3 DEF Going, Shaped, CallFields, NoCall
<1> HIDE DEF c
<1>6. Paced(c) /\ c.fn.pos + c.left <= m
  BY <1>3, <1>4, <1>5 DEF Paced, Measured
<1>7. b \in Int /\ p <= m
  BY DivIs, FatAssumption
<1>8. \A a \in Nat, ret \in MapReturn : a <= m => MapLeft(m, c, a, ret) <= b
  BY <1>4, <1>5, MapLeftFits
<1> HIDE DEF b
<1>9. Nears(m, k, b) /\ CallGood(k)
  <2>1. CASE mode = "write" /\ p > fn.size
    <3>1. p # 0
      BY <1>4, <2>1
    <3>2. at \in Nat /\ at <= m
      BY <1>7, <3>1
    <3>3. IF count = 0 THEN (p - 1) \div SecSize = at \div SecSize ELSE at = p
      <4>1. CASE count = 0 /\ p % SecSize # 0
        BY <4>1, PlaceBefore
      <4>2. CASE ~(count = 0 /\ p % SecSize # 0)
        BY <4>2
      <4>. QED BY <4>1, <4>2
    <3> HIDE DEF at
    <3>4. Seeks(m, c, at, "extend")
      BY <1>3, <1>5, <1>6, <3>1, <3>2, <3>3 DEF Seeks, MapReturn
    <3>5. MapLeft(m, c, at, "extend") <= b
      BY <1>8, <3>2 DEF MapReturn
    <3>6. Nears(m, Map(c, at, "extend"), b)
      BY <1>6, <1>7, <3>4, <3>5, MapNears
    <3>7. CallGood(Map(c, at, "extend"))
      BY <1>5, MapIsGood DEF MapReturn
    <3>. QED BY <2>1, <3>6, <3>7
  <2>2. CASE ~(mode = "write" /\ p > fn.size)
    <3> DEFINE before == IF p > 0 THEN p - 1 ELSE 0
    <3>1. before \in Nat /\ before <= m
      BY <1>7
    <3> HIDE DEF before
    <3>2. MapLeft(m, c, p, "loop") <= b /\ MapLeft(m, c, before, "shrink") <= b
      BY <1>7, <1>8, <3>1 DEF MapReturn
    <3>3. Nears(m, Extended(c), b)
      BY <1>3, <1>5, <1>6, <1>7, <3>2, ExtendedNears DEF before
    <3>4. CallGood(Extended(c))
      BY <1>5, ExtendedIsGood
    <3>. QED BY <2>2, <3>3, <3>4
  <2>. QED BY <2>1, <2>2
<1> HIDE DEF k
<1>. QED BY <1>1, <1>9, StartCounts DEF b

\* Between calls nothing has been counted.
LEMMA IdleCounts ==
    ASSUME NEW m \in Nat, SInv(m), BetweenCalls, steps' = steps
    PROVE  Known(dir, sft) /\ steps' = 0 /\ call = NoCall
BY DEF SInv, BetweenCalls

LEMMA OpenCounts ==
    ASSUME IInv, NEW m \in Nat, SInv(m), NEW f \in File, NEW h \in Handle, OpenFile(f, h), steps' = steps
    PROVE  SInv(m)'
<1>1. Known(dir, sft) /\ steps' = 0 /\ call = NoCall
  BY IdleCounts DEF OpenFile
<1>2. Measured(Fresh(f, dir[f]))
  BY <1>1, FreshIsMeasured DEF OpenFile, Known
<1>3. Known(dir, [sft EXCEPT ![h] = Fresh(f, dir[f])])
  BY <1>1, <1>2, KnownBack DEF IInv
<1>. QED BY <1>1, <1>3, EndCounts DEF OpenFile

LEMMA WipeOutCounts ==
    ASSUME NEW m \in Nat, SInv(m), BetweenCalls, NEW f, NEW c, Shaped(c), c.ret \in WipeReturn, WipeOut(f, c),
           UNCHANGED <<vol, dir, sft>>, steps' = steps
    PROVE  SInv(m)'
<1> DEFINE fn  == Fresh(f, Empty)
           pc  == IF StartOf(f) = FREE THEN c.ret ELSE "wipe"
           ret == IF StartOf(f) = FREE THEN None ELSE c.ret
           st  == StartOf(f)
           k   == [c EXCEPT !.fn = fn, !.st = st, !.pc = pc, !.ret = ret]
<1>1. call' = k
  BY DEF WipeOut
<1>2. Measured(fn)
  BY FreshIsMeasured DEF Empty
<1>3. pc \in WipeReturn \cup {"wipe"}
  OBVIOUS
<1> HIDE DEF fn, pc, ret, st
<1>4. k.fn = fn /\ k.pc = pc
  BY DEF Shaped, CallFields
<1> HIDE DEF k
<1>5. k.pc # "idle" /\ k.pc \notin RwPc
  BY <1>3, <1>4 DEF WipeReturn, RwPc
<1>6. StepsLeft(m, vol'.fat, k) <= LastCluster + 1 /\ StepsLeft(m, vol'.fat, k) \in Nat
  BY <1>5, InUseFits, FatAssumption DEF StepsLeft
<1>7. Known(dir', sft') /\ steps' = 0
  BY IdleCounts
<1>8. LastCluster + 1 <= 4 * (m \div SecSize + LastCluster)
  BY DivIs, FatAssumption
<1>9. steps' + StepsLeft(m, vol'.fat, k) <= 4 * (m \div SecSize + LastCluster)
  <2> DEFINE b == 4 * (m \div SecSize + LastCluster)
  <2>1. b \in Nat /\ LastCluster \in Nat
    BY DivIs, FatAssumption
  <2> HIDE DEF b
  <2>2. LastCluster + 1 <= b
    BY <1>8 DEF b
  <2>3. steps' + StepsLeft(m, vol'.fat, k) <= b
    BY <1>6, <1>7, <2>1, <2>2
  <2>. QED BY <2>3 DEF b
<1>. QED BY <1>1, <1>2, <1>4, <1>5, <1>7, <1>9, OnCounts

LEMMA CreateCounts ==
    ASSUME NEW m \in Nat, SInv(m), NEW f \in File, NEW h \in Handle, Create(f, h), steps' = steps
    PROVE  SInv(m)'
<1>1. /\ Shaped([NoCall EXCEPT !.h = h, !.ret = "create"])
      /\ [NoCall EXCEPT !.h = h, !.ret = "create"].ret \in WipeReturn
  BY DEF NoCall, Shaped, CallFields, WipeReturn
<1>. QED BY <1>1, WipeOutCounts DEF Create

LEMMA DeleteCounts ==
    ASSUME NEW m \in Nat, SInv(m), NEW f \in File, Delete(f), steps' = steps
    PROVE  SInv(m)'
<1>1. Shaped([NoCall EXCEPT !.ret = "delete"]) /\ [NoCall EXCEPT !.ret = "delete"].ret \in WipeReturn
  BY DEF NoCall, Shaped, CallFields, WipeReturn
<1>. QED BY <1>1, WipeOutCounts DEF Delete

LEMMA MoveCounts ==
    ASSUME IInv, NEW m \in Nat, SInv(m), NEW f \in File, NEW g \in File, Move(f, g), steps' = steps
    PROVE  SInv(m)'
<1>1. Known(dir, sft) /\ steps' = 0 /\ call = NoCall /\ DirGood(dir) /\ UNCHANGED <<vol, sft>>
  BY IdleCounts DEF Move, IInv
<1>2. Known([dir EXCEPT ![f] = None], sft)
  BY <1>1, KnownEntry
<1>3. CASE call' = call
  <2>1. Known(dir', sft')
    BY <1>1, <1>2 DEF Move
  <2>. QED BY <1>1, <1>3, <2>1, EndCounts
<1>4. CASE dir' = [dir EXCEPT ![f] = None] /\ call' = [NoCall EXCEPT !.pc = "move", !.fn = Fresh(g, dir[f])]
  <2> DEFINE k == [NoCall EXCEPT !.pc = "move", !.fn = Fresh(g, dir[f])]
  <2>1. Measured(Fresh(g, dir[f]))
    BY <1>1, FreshIsMeasured DEF Move, Known
  <2>2. k.pc = "move" /\ k.fn = Fresh(g, dir[f]) /\ call' = k
    BY <1>4 DEF NoCall
  <2> HIDE DEF k
  <2>3. k.pc # "idle" /\ k.pc \notin RwPc /\ StepsLeft(m, vol'.fat, k) = 1
    BY <2>2 DEF RwPc, StepsLeft
  <2>4. 0 + 1 <= 4 * (m \div SecSize + LastCluster)
    BY DivIs, FatAssumption
  <2>5. Known(dir', sft')
    BY <1>1, <1>2, <1>4
  <2>. QED BY <1>1, <2>1, <2>2, <2>3, <2>4, <2>5, OnCounts
<1>. QED BY <1>3, <1>4 DEF Move

LEMMA CloseCounts ==
    ASSUME IInv, NEW m \in Nat, SInv(m), NEW h \in Handle, Close(h), steps' = steps
    PROVE  SInv(m)'
<1> DEFINE fn == sft[h]
           e == [start |-> fn.start, size |-> fn.size]
           written == IF fn.clean THEN dir ELSE [dir EXCEPT ![fn.file] = e]
<1>1. Known(dir, sft) /\ steps' = 0 /\ call = NoCall /\ DirGood(dir) /\ SftGood(sft) /\ call' = call
  BY IdleCounts DEF Close, IInv
<1>2. e.size \in Nat
  BY <1>1 DEF Close, Open, Known, Measured
<1>3. Known(written, sft)
  <2> HIDE DEF e
  <2>. QED BY <1>1, <1>2, KnownEntry
<1>4. dir' \in {dir, written} /\ sft' \in {[sft EXCEPT ![h] = None], [sft EXCEPT ![h] = Orphan]}
  BY DEF Close
<1> HIDE DEF written
<1>5. Known(dir', sft')
  BY <1>1, <1>3, <1>4, KnownBack
<1>. QED BY <1>1, <1>5, EndCounts

LEMMA StepCounts ==
    ASSUME IInv, NEW m, Reach(m), SInv(m), [FatNext]_fatvars
    PROVE  SInv(m)'
<1>1. m \in Nat
  BY DEF Reach
<1>2. CASE UNCHANGED fatvars
  BY <1>2 DEF fatvars, SInv, BetweenCalls
<1>3. CASE Proceed
  <2>1. Counted
    BY <1>3 DEF Proceed, Counted
  <2>. QED BY <1>1, <1>3, <2>1, MapEmptyCounts, ArriveCounts, WalkCounts, WalkOnCounts, DoRunCounts, DoSectorCounts, CutCounts,
         WipeCounts, FlushShrunkCounts, WriteEntryCounts, EndMoveCounts DEF Proceed
<1>4. CASE Ask
  <2>1. steps' = steps
    BY <1>4 DEF Ask
  <2>2. \A p \in Position, n \in Count : p \in Nat /\ n \in Nat /\ p + n <= m
    BY <1>1, FatAssumption DEF Reach
  <2>3. ASSUME DosFree PROVE SInv(m)'
    BY <1>1, <2>1, <2>3, IdleCounts, EndCounts DEF DosFree
  <2>. QED BY <1>1, <1>4, <2>1, <2>2, <2>3, TransferCounts, CloseCounts, OpenCounts, CreateCounts, DeleteCounts, MoveCounts DEF Ask
<1>. QED BY <1>2, <1>3, <1>4 DEF FatNext

LEMMA InitCounts ==
    ASSUME FatInit, NEW m, Reach(m)
    PROVE  SInv(m)
<1>1. call = NoCall /\ steps = 0 /\ NoCall.pc = "idle" /\ m \in Nat
  BY DEF FatInit, NoCall, Reach
<1>2. Known(dir, sft)
  <2>1. \A f \in File : dir[f] # None => dir[f].size \in Nat
    BY FatAssumption DEF FatInit
  <2>2. \A h \in Handle : sft[h] = None
    BY DEF FatInit
  <2>. QED BY <2>1, <2>2 DEF Known
<1>3. StepsLeft(m, vol.fat, call) = 0 /\ call.pc \notin RwPc
  BY <1>1 DEF StepsLeft, RwPc
<1>4. 0 + 0 <= 4 * (m \div SecSize + LastCluster)
  BY <1>1, DivIs, FatAssumption
<1>. QED BY <1>1, <1>2, <1>3, <1>4 DEF SInv

\* What is left of a call is never less than nothing.
LEMMA BoundHolds ==
    ASSUME NEW m \in Nat, SInv(m)
    PROVE  steps <= 4 * (m \div SecSize + LastCluster)
<1>1. StepsLeft(m, vol.fat, call) \in Nat /\ steps \in Nat
  BY StepsLeftIs DEF SInv
<1>2. 4 * (m \div SecSize + LastCluster) \in Nat
  BY DivIs, FatAssumption
<1>3. steps + StepsLeft(m, vol.fat, call) <= 4 * (m \div SecSize + LastCluster)
  BY DEF SInv
<1>. QED BY <1>1, <1>2, <1>3

\* A request that no other one reaches further than gives the bound.
LEMMA FurthestBounds ==
    ASSUME NEW n \in Count, NEW p \in Position, Reach(n + p), SInv(n + p)
    PROVE  CallsEnd
<1>1. n \in Nat /\ p \in Nat /\ \A j \in Count, q \in Position : j \in Nat /\ q \in Nat
  BY FatAssumption
<1>2. steps <= 4 * ((n + p) \div SecSize + LastCluster)
  BY BoundHolds DEF Reach
<1>3. ASSUME NEW j \in Count, NEW q \in Position, \A i \in Count, r \in Position : i + r <= j + q
      PROVE  steps <= 4 * ((j + q) \div SecSize + LastCluster)
  <2>1. n + p <= j + q /\ j + q <= n + p
    BY <1>3 DEF Reach
  <2>2. j + q = n + p
    BY <1>1, <2>1
  <2>. QED BY <1>2, <2>2
<1>. QED BY <1>3 DEF CallsEnd

-----------------------------------------------------------------------------
\* The inductive invariant holds in every reachable state: the count agrees
\* with the FAT, and what calls, handles and the directory remember are
\* clusters of the volume.
THEOREM Invariance == FatSpec => []IInv
<1>1. FatInit => IInv
  BY InitIsGood
<1>2. IInv /\ [FatNext]_fatvars => IInv'
  BY StepIsGood
<1>. QED BY <1>1, <1>2, PTL DEF FatSpec

\* The free count DOS reports without looking at the FAT is right until
\* something fails, and then at most too low, on volumes of any size and with
\* any FAT (link_fat, dos_free).
THEOREM FreeCountTrueHolds == FatSpec => []FreeCountTrue
<1>1. IInv => FreeCountTrue
  BY DEF IInv, VolGood, CountTrue, FreeCountTrue
<1>. QED BY <1>1, Invariance, PTL

\* The volume stays laid out: as long as no failure has seeded a cross link,
\* there is a layout of the clusters, each the i-th of one file or of what is
\* being wiped, or of nobody, that the FAT, the directory, the handles and the
\* call in progress all agree with.
THEOREM LayoutInvariance == FatSpec => []WInv
<1>1. FatInit => WInv
  BY InitIsLaid
<1>2. IInv /\ WInv /\ [FatNext]_fatvars => WInv'
  BY StepKeepsLayout
<1>. QED BY <1>1, <1>2, Invariance, PTL DEF FatSpec

\* Between calls every file is a chain of used clusters that ends, long enough
\* for its size and shared with no other file, and open handles remember
\* clusters of their file (rwblock, shrink_file, wipe_out_clusters, dos_close).
THEOREM FilesWholeHolds == FatSpec => []FilesWhole
<1>1. WInv => FilesWhole
  BY LaidFilesAreWhole DEF WInv, FilesWhole
<1>. QED BY <1>1, LayoutInvariance, PTL

\* Until something fails every cluster is free or in the chain of a file,
\* also after a write into a full disk (dos_extend, wipe_out).
THEOREM NothingLostHolds == FatSpec => []NothingLost
<1>1. WInv => NothingLost
  BY LaidNothingIsLost DEF WInv, NothingLost
<1>. QED BY <1>1, LayoutInvariance, PTL

\* A sector, or a run of sectors found to be contiguous, goes to the clusters
\* that the file's chain has at these places (rwblock, map_cluster).
THEOREM TransfersInPlaceHolds == FatSpec => []TransfersInPlace
<1>1. WInv => TransfersInPlace
  BY LaidTransfersAreInPlace DEF WInv, TransfersInPlace
<1>. QED BY <1>1, LayoutInvariance, PTL

\* The steps of a call and those it has left at most stay within the bound,
\* whatever the FAT looks like and whatever fails: each step of rwblock,
\* map_cluster, shrink_file and wipe_out_clusters leaves one less to make.
THEOREM StepsInvariance ==
    ASSUME NEW m, Reach(m)
    PROVE  FatSpec => []SInv(m)
<1>1. FatInit => SInv(m)
  BY InitCounts
<1>2. IInv /\ SInv(m) /\ [FatNext]_fatvars => SInv(m)'
  BY StepCounts
<1>. QED BY <1>1, <1>2, Invariance, PTL DEF FatSpec

\* Every call comes to an end within a bound given by what it asks for and the
\* number of clusters, on any FAT, with cycles and cross links too (rwblock,
\* map_cluster, shrink_file, wipe_out_clusters).
THEOREM CallsEndHolds == FatSpec => []CallsEnd
<1>1. CASE \E n \in Count, p \in Position : Reach(n + p)
  <2>1. PICK m : Reach(m) /\ \E n \in Count, p \in Position : m = n + p
    BY <1>1
  <2>2. FatSpec => []SInv(m)
    BY <2>1, StepsInvariance
  <2>3. SInv(m) => CallsEnd
    BY <2>1, FurthestBounds
  <2>. QED BY <2>2, <2>3, PTL
<1>2. CASE ~\E n \in Count, p \in Position : Reach(n + p)
  <2>1. CallsEnd
    <3>1. \A n \in Count, p \in Position : n \in Nat /\ p \in Nat
      BY FatAssumption
    <3>. QED BY <1>2, <3>1 DEF CallsEnd, Reach
  <2>. QED BY <2>1, PTL
<1>. QED BY <1>1, <1>2
=============================================================================
