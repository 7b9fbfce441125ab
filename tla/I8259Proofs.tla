---------------------------- MODULE I8259Proofs ----------------------------
(***************************************************************************)
(* For any number of lines, any wiring and any sequence of guest commands: *)
(* the types of the controllers, that no active request waits unsignalled, *)
(* and that no request of the slave is lost on the cascade line.           *)
(*                                                                         *)
(* The strengthening is CascadeLow: the cascade line is low between any    *)
(* two operations.  Without it the next pulse of pic_update_irq would be   *)
(* no rising edge and the request of the slave would be dropped.           *)
(*                                                                         *)
(* Under the timer interrupt (I8259Isr) the same holds between operations, *)
(* and what irr may lose is what was requested since the main context      *)
(* loaded it: lines of the timer interrupt and the cascade, never a        *)
(* device's.                                                               *)
(*                                                                         *)
(* With nested handlers (I8259Handlers) the stack of handlers is, line by  *)
(* line, what the controllers have in service, strictly nested on the      *)
(* master; of the slave's handlers there is one at a time.  It needs that  *)
(* no vector is spurious: intr and the cascade request stand only while    *)
(* there is something to acknowledge.                                      *)
(*                                                                         *)
(* Of the delivery of every edge, what needs no fairness is proved: a      *)
(* request is kept until it is taken, it is signalled when nothing holds   *)
(* it back, and between edges everything comes to an end.                  *)
(***************************************************************************)
EXTENDS I8259Isr, I8259Handlers, SequenceTheorems, WellFoundedInduction,
        FiniteSetTheorems, TLAPS

Pair == [Pic -> PicState]

CascadeLow(p) == Cascade \notin p["master"].last_irr

Good(p) == p \in Pair /\ CascadeLow(p)

IInv == TypeOK /\ CascadeLow(pics) /\ Signalled /\ CascadeKept

-----------------------------------------------------------------------------
(* The helpers.                                                            *)

\* The cascade is one of the lines.
LEMMA CascadeIsLine == Cascade \in Line /\ LineCount \in Nat /\ LineCount > 0
  BY LinesAssumption DEF Cascade, Line

\* A non-empty set of naturals has a least element.
LEMMA LeastExists ==
    ASSUME NEW S, S \subseteq Nat, S # {}
    PROVE  \E x \in S : \A y \in S : x <= y
<1>1. \E m \in S : \A y \in S : ~(<<y, m>> \in OpToRel(<, Nat))
  BY NatLessThanWellFounded, WFMin
<1>2. PICK m \in S : \A y \in S : ~(<<y, m>> \in OpToRel(<, Nat))
  BY <1>1
<1>3. \A y \in S : ~(y < m)
  BY <1>2, Zenon DEF OpToRel
<1>. QED BY <1>3, SMT

\* Rotation by priority_add reaches every line.
LEMMA EveryLineHasPriority ==
    ASSUME NEW s \in PicState, NEW l \in Line
    PROVE  \E pr \in Line : Rotated(s, pr) = l
<1>1. s.priority_add \in Line
  BY DEF PicState
<1>2. CASE l >= s.priority_add
  <2>1. l - s.priority_add \in Line /\ (l - s.priority_add) + s.priority_add = l
    BY <1>1, <1>2, LinesAssumption DEF Line
  <2>2. l % LineCount = l
    BY LinesAssumption DEF Line
  <2>. QED BY <2>1, <2>2 DEF Rotated, LineAt
<1>3. CASE l < s.priority_add
  <2>. DEFINE pr == l - s.priority_add + LineCount
  <2>1. pr \in Line /\ pr + s.priority_add = l + LineCount
    BY <1>1, <1>3, LinesAssumption DEF Line
  <2>2. (l + LineCount) % LineCount = l
    BY LinesAssumption DEF Line
  <2>. QED BY <2>1, <2>2 DEF Rotated, LineAt
<1>. QED BY <1>1, <1>2, <1>3, LinesAssumption DEF Line

\* get_priority finds a line of the mask.
LEMMA PriorityOfMask ==
    ASSUME NEW s \in PicState, NEW mask \in SUBSET Line, mask # {}
    PROVE  GetPriority(s, mask) \in Line /\ Rotated(s, GetPriority(s, mask)) \in mask
<1>. DEFINE S == {pr \in Line : Rotated(s, pr) \in mask}
<1>1. PICK l \in Line : l \in mask
  OBVIOUS
<1>2. S # {} /\ S \subseteq Nat
  <2>1. PICK pr \in Line : Rotated(s, pr) = l
    BY EveryLineHasPriority
  <2>2. pr \in S
    BY <1>1, <2>1
  <2>. QED BY <2>2, LinesAssumption DEF Line
<1>. HIDE DEF S
<1>3. PICK pr \in S : \A q \in S : pr <= q
  BY <1>2, LeastExists
<1>4. pr \in Line /\ Rotated(s, pr) \in mask
  BY <1>3 DEF S
<1>5. ASSUME NEW q \in 0 .. pr - 1 PROVE Rotated(s, q) \notin mask
  <2>1. q \in Line /\ ~(pr <= q)
    BY <1>4, LinesAssumption DEF Line
  <2>. QED BY <2>1, <1>3 DEF S
<1>. DEFINE f == Foremost(s.priority_add, mask)
<1>6. f \in Line /\ Rotated(s, f) \in mask
  BY <1>4, <1>5 DEF Foremost, Rotated
<1>. QED BY <1>6 DEF GetPriority

\* pic_get_irq returns a requested line or none.
LEMMA GetIrqIsLine ==
    ASSUME NEW p \in Pair, NEW w \in Pic
    PROVE  PicGetIrq(p, w) \in Line \cup {NoLine}
<1>. DEFINE mask == p[w].irr \ p[w].imr
<1>1. p[w] \in PicState /\ mask \in SUBSET Line
  BY DEF Pair, PicState
<1>2. CASE mask = {}
  BY <1>2 DEF PicGetIrq, GetPriority
<1>3. CASE mask # {}
  BY <1>1, <1>3, PriorityOfMask DEF PicGetIrq
<1>. QED BY <1>2, <1>3

\* The line a non-specific EOI ends is a line.
LEMMA TopInServiceIsLine ==
    ASSUME TypeOK, NEW w \in Pic, pics[w].isr # {}
    PROVE  TopInService(w) \in Line
  BY PriorityOfMask DEF TypeOK, PicState, TopInService

\* A pulse requests its line and leaves it low.
LEMMA PulseIsGood ==
    ASSUME NEW s \in PicState, NEW l \in Line, l \notin s.last_irr
    PROVE  /\ Pulse(s, l) \in PicState
           /\ Pulse(s, l).last_irr = s.last_irr
           /\ Pulse(s, l).irr = s.irr \cup {l}
<1>. DEFINE u == [s EXCEPT !.irr = s.irr \cup {l}]
            v == [u EXCEPT !.last_irr = s.last_irr \cup {l}]
            z == [v EXCEPT !.last_irr = (s.last_irr \cup {l}) \ {l}]
<1>1. u \in PicState /\ u.irr = s.irr \cup {l} /\ u.last_irr = s.last_irr
  BY DEF PicState
<1>2. PicSetIrq1(s, l, TRUE) = v
  BY DEF PicSetIrq1
<1>. HIDE DEF u
<1>3. v \in PicState /\ v.irr = s.irr \cup {l} /\ v.last_irr = s.last_irr \cup {l}
  BY <1>1 DEF PicState
<1>4. Pulse(s, l) = [v EXCEPT !.last_irr = v.last_irr \ {l}]
  BY <1>2 DEF Pulse, PicSetIrq1
<1>. HIDE DEF v
<1>5. (s.last_irr \cup {l}) \ {l} = s.last_irr
  OBVIOUS
<1>. QED BY <1>3, <1>4, <1>5 DEF PicState

\* What pic_update_irq leaves behind: a wanting slave is on the cascade line.
LEMMA UpdateIsGood ==
    ASSUME NEW p, Good(p)
    PROVE  /\ Good(PicUpdateIrq(p))
           /\ Wants(PicUpdateIrq(p), "slave") => Cascade \in PicUpdateIrq(p)["master"].irr
<1>1. CASE ~Wants(p, "slave")
  BY <1>1 DEF PicUpdateIrq
<1>2. CASE Wants(p, "slave")
  <2>1. p["master"] \in PicState /\ p \in Pair
    BY DEF Good, Pair, Pic
  <2>2. /\ Pulse(p["master"], Cascade) \in PicState
        /\ Pulse(p["master"], Cascade).last_irr = p["master"].last_irr
        /\ Pulse(p["master"], Cascade).irr = p["master"].irr \cup {Cascade}
    BY <2>1, PulseIsGood, CascadeIsLine DEF Good, CascadeLow
  <2>3. PicUpdateIrq(p) = [p EXCEPT !["master"] = Pulse(p["master"], Cascade)]
    BY <1>2 DEF PicUpdateIrq
  <2>. QED BY <2>1, <2>2, <2>3 DEF Good, Pair, Pic, CascadeLow
<1>. QED BY <1>1, <1>2

-----------------------------------------------------------------------------
(* The two ways an operation ends.                                         *)

\* An operation that ends in pic_update_irq keeps the invariant.
LEMMA SettleIsGood ==
    ASSUME IInv, NEW p, Good(p), Settle(p)
    PROVE  IInv'
<1>1. Good(pics') /\ (Wants(pics', "slave") => Cascade \in pics'["master"].irr)
  BY UpdateIsGood DEF Settle
<1>2. intr' = (intr \/ Wants(pics', "master")) /\ settled' = TRUE
  BY DEF Settle
<1>3. intr' \in BOOLEAN /\ settled' \in BOOLEAN /\ (Wants(pics', "master") => intr')
  BY <1>2 DEF IInv, TypeOK
<1>. QED BY <1>1, <1>3 DEF IInv, TypeOK, Signalled, CascadeKept, Good, Pair, Wants, CascadeLow

\* One that does not keeps it when no request became active by it.
LEMMA QuietIsGood ==
    ASSUME IInv, NEW p, Good(p), NEW kept \in BOOLEAN, Quiet(p, kept),
           kept => /\ \A w \in Pic : PicGetIrq(p, w) = PicGetIrq(pics, w)
                   /\ p["master"].irr = pics["master"].irr
    PROVE  IInv'
<1>1. pics' = p /\ intr' = intr /\ settled' = (settled /\ kept)
  BY DEF Quiet
<1>2. settled' \in BOOLEAN /\ intr' \in BOOLEAN
  BY <1>1 DEF IInv, TypeOK
<1>3. Signalled' /\ CascadeKept'
  BY <1>1 DEF IInv, Signalled, CascadeKept, Wants, Pic
<1>. QED BY <1>1, <1>2, <1>3 DEF IInv, TypeOK, Good, Pair, CascadeLow

-----------------------------------------------------------------------------
(* The operations.                                                         *)

\* Both controllers are PicStates.
LEMMA PairFields ==
    ASSUME TypeOK, NEW w \in Pic
    PROVE  pics[w] \in PicState /\ pics \in Pair
  BY DEF TypeOK, Pair

\* Replacing the record of one controller, its last_irr kept or without the
\* cascade line, leaves a good pair.
LEMMA ReplaceIsGood ==
    ASSUME NEW p, Good(p), NEW w \in Pic, NEW s \in PicState,
           w = "master" => Cascade \notin s.last_irr
    PROVE  Good([p EXCEPT ![w] = s])
  BY DEF Good, Pair, CascadeLow, Pic

\* i8259_set_irq.
LEMMA SetIrqIsGood ==
    ASSUME IInv, NEW d \in DevLine, NEW level \in BOOLEAN, SetIrq(d[1], d[2], level)
    PROVE  IInv'
<1>. DEFINE w == d[1]
            l == d[2]
            s == PicSetIrq1(pics[w], l, level)
<1>1. w \in Pic /\ l \in Line /\ (w = "master" => l # Cascade)
  BY LinesAssumption
<1>2. Good(pics) /\ pics[w] \in PicState
  BY <1>1, PairFields DEF IInv, Good
<1>. HIDE DEF w, l
<1>3. s \in PicState /\ s.last_irr \subseteq pics[w].last_irr \cup {l}
  <2>1. CASE level
    <3>. DEFINE u == [pics[w] EXCEPT !.irr = IF l \in pics[w].last_irr THEN pics[w].irr
                                             ELSE pics[w].irr \cup {l}]
    <3>1. u \in PicState /\ u.last_irr = pics[w].last_irr
      BY <1>1, <1>2 DEF PicState
    <3>2. s = [u EXCEPT !.last_irr = pics[w].last_irr \cup {l}]
      BY <2>1 DEF PicSetIrq1
    <3>. HIDE DEF u, s
    <3>. QED BY <1>1, <3>1, <3>2 DEF PicState
  <2>2. CASE ~level
    BY <1>1, <1>2, <2>2 DEF PicSetIrq1, PicState
  <2>. QED BY <2>1, <2>2
<1>4. Settle([pics EXCEPT ![w] = s])
  BY DEF SetIrq, w, l
<1>. HIDE DEF s
<1>5. Good([pics EXCEPT ![w] = s])
  BY <1>1, <1>2, <1>3, ReplaceIsGood DEF Good, CascadeLow
<1>. QED BY <1>4, <1>5, SettleIsGood

\* pic_intack.
LEMMA IntackIsGood ==
    ASSUME NEW p, Good(p), NEW w \in Pic, NEW l \in Line
    PROVE  Good([p EXCEPT ![w] = PicIntack(@, l)])
<1>. DEFINE s == p[w]
            u == [s EXCEPT !.irr = s.irr \ {l}]
<1>1. s \in PicState
  BY DEF Good, Pair
<1>. HIDE DEF s
<1>2. u \in PicState /\ u.last_irr = s.last_irr
  BY <1>1 DEF PicState
<1>3. PicIntack(s, l) \in PicState /\ PicIntack(s, l).last_irr = s.last_irr
  <2>1. (l + 1) % LineCount \in Line
    BY LinesAssumption DEF Line, Cascade
  <2>2. CASE s.auto_eoi
    <3>. DEFINE a == IF s.rotate_on_auto_eoi THEN (l + 1) % LineCount ELSE s.priority_add
    <3>1. a \in Line
      BY <1>1, <2>1 DEF PicState
    <3>2. PicIntack(s, l) = [u EXCEPT !.priority_add = a]
      BY <2>2, <1>1 DEF PicIntack, PicState
    <3>. HIDE DEF a, u
    <3>. QED BY <1>2, <3>1, <3>2 DEF PicState
  <2>3. CASE ~s.auto_eoi
    <3>1. PicIntack(s, l) = [u EXCEPT !.isr = s.isr \cup {l}]
      BY <2>3, <1>1 DEF PicIntack, PicState
    <3>2. s.isr \cup {l} \in SUBSET Line
      BY <1>1 DEF PicState
    <3>. HIDE DEF u
    <3>. QED BY <1>2, <3>1, <3>2 DEF PicState
  <2>. QED BY <2>2, <2>3
<1>. QED BY <1>3, ReplaceIsGood DEF Good, CascadeLow, s

\* i8259_read_irq, before its pic_update_irq.
LEMMA AcknowledgedIsGood ==
    ASSUME NEW p, Good(p)
    PROVE  Good(Acknowledged(p).p)
<1>. DEFINE irq  == PicGetIrq(p, "master")
            q    == [p EXCEPT !["master"] = PicIntack(@, irq)]
            irq2 == PicGetIrq(q, "slave")
            r    == [q EXCEPT !["slave"] = PicIntack(@, irq2)]
<1>1. CASE irq = NoLine
  BY <1>1 DEF Acknowledged
<1>2. CASE irq # NoLine
  <2>1. irq \in Line
    BY <1>2, GetIrqIsLine DEF Good, Pic
  <2>. HIDE DEF irq
  <2>2. Good(q)
    BY <2>1, IntackIsGood DEF Pic
  <2>. HIDE DEF q
  <2>3. irq2 # NoLine => Good(r)
    <3>1. irq2 \in Line \cup {NoLine}
      BY <2>2, GetIrqIsLine DEF Good, Pic
    <3>. HIDE DEF irq2
    <3>. QED BY <2>2, <3>1, IntackIsGood DEF Pic
  <2>4. Acknowledged(p).p = IF irq # Cascade THEN q ELSE IF irq2 = NoLine THEN q ELSE r
    BY <1>2, Zenon DEF Acknowledged, irq, q
  <2>. HIDE DEF r, irq2
  <2>. QED BY <2>2, <2>3, <2>4
<1>. QED BY <1>1, <1>2

\* The acknowledge of the CPU.
LEMMA TakeInterruptIsGood == IInv /\ TakeInterrupt => IInv'
<1>. SUFFICES ASSUME IInv, TakeInterrupt PROVE IInv'
  OBVIOUS
<1>. DEFINE p == Acknowledged(pics).p
<1>1. Good(p)
  BY AcknowledgedIsGood, PairFields DEF IInv, Good, TypeOK, Pair
<1>2. /\ pics' = PicUpdateIrq(p) /\ intr' = Wants(pics', "master") /\ settled' = TRUE
  BY DEF TakeInterrupt
<1>. HIDE DEF p
<1>3. Good(pics') /\ (Wants(pics', "slave") => Cascade \in pics'["master"].irr)
  BY <1>1, <1>2, UpdateIsGood
<1>4. intr' \in BOOLEAN /\ settled' \in BOOLEAN /\ (Wants(pics', "master") => intr')
  BY <1>2 DEF Wants
<1>. QED BY <1>3, <1>4 DEF IInv, TypeOK, Signalled, CascadeKept, Good, Pair, Wants, CascadeLow

\* An EOI, with or without rotation, and OCW2 6.
LEMMA EndServiceIsGood ==
    ASSUME IInv, NEW w \in Pic, NEW l \in Line
    PROVE  /\ Good(EndService(w, l))
           /\ Good(EndServiceRotating(w, l))
           /\ Good([pics EXCEPT ![w].priority_add = (l + 1) % LineCount])
<1>. DEFINE a == (l + 1) % LineCount
            s == pics[w]
            u == [s EXCEPT !.isr = s.isr \ {l}]
            v == [u EXCEPT !.priority_add = a]
            z == [s EXCEPT !.priority_add = a]
<1>1. a \in Line
  BY LinesAssumption DEF Line, Cascade
<1>2. s \in PicState /\ Good(pics)
  BY PairFields DEF IInv, Good
<1>3. u \in PicState /\ u.last_irr = s.last_irr
  BY <1>2 DEF PicState
<1>4. z \in PicState /\ z.last_irr = s.last_irr
  BY <1>1, <1>2 DEF PicState
<1>5. v \in PicState /\ v.last_irr = s.last_irr
  <2>. HIDE DEF u, a
  <2>. QED BY <1>1, <1>3 DEF PicState
<1>6. EndService(w, l) = [pics EXCEPT ![w] = u]
  BY DEF EndService
<1>7. EndServiceRotating(w, l) = [pics EXCEPT ![w] = v]
  BY <1>2, PairFields DEF EndServiceRotating, IInv, Pair, PicState
<1>. HIDE DEF u, v
<1>8. Good([pics EXCEPT ![w] = u]) /\ Good([pics EXCEPT ![w] = v]) /\ Good([pics EXCEPT ![w] = z])
  BY <1>2, <1>3, <1>4, <1>5, ReplaceIsGood DEF Good, CascadeLow
<1>. QED BY <1>6, <1>7, <1>8

\* OCW2 1 and 5.
LEMMA NonSpecificEoiIsGood ==
    ASSUME IInv, NEW w \in Pic, NEW rotate \in BOOLEAN, NonSpecificEoi(w, rotate)
    PROVE  IInv'
<1>1. CASE pics[w].isr = {}
  BY <1>1 DEF NonSpecificEoi, IInv, TypeOK, CascadeLow, Signalled, CascadeKept, Wants,
              PicGetIrq, InService
<1>2. CASE pics[w].isr # {}
  <2>1. TopInService(w) \in Line
    BY <1>2, TopInServiceIsLine DEF IInv
  <2>. QED BY <1>2, <2>1, EndServiceIsGood, SettleIsGood DEF NonSpecificEoi
<1>. QED BY <1>1, <1>2

\* OCW2 3, 6 and 7.
LEMMA SpecificEoiIsGood ==
    ASSUME IInv, NEW w \in Pic, NEW l \in Line, NEW rotate \in BOOLEAN,
           SpecificEoi(w, l, rotate) \/ SetPriority(w, l)
    PROVE  IInv'
  BY EndServiceIsGood, SettleIsGood DEF SpecificEoi, SetPriority

\* The fields that pic_get_irq reads.
SameRequests(s, t) ==
    /\ s.irr = t.irr /\ s.imr = t.imr /\ s.isr = t.isr /\ s.special_mask = t.special_mask
    /\ s.priority_add = t.priority_add
    /\ s.special_fully_nested_mode = t.special_fully_nested_mode

\* pic_get_irq depends on those fields only.
LEMMA GetIrqOfSame ==
    ASSUME NEW p, NEW q, NEW w, SameRequests(p[w], q[w])
    PROVE  PicGetIrq(p, w) = PicGetIrq(q, w)
<1>1. \A x : Rotated(p[w], x) = Rotated(q[w], x)
  BY DEF Rotated, SameRequests
<1>2. \A mask : GetPriority(p[w], mask) = GetPriority(q[w], mask)
  BY DEF GetPriority, SameRequests
<1>3. InService(p, w) = InService(q, w) /\ p[w].irr = q[w].irr /\ p[w].imr = q[w].imr
  BY DEF InService, SameRequests
<1>. QED BY <1>1, <1>2, <1>3 DEF PicGetIrq

\* OCW2 0 and 4.
LEMMA RotateOnAutoEoiIsGood ==
    ASSUME IInv, NEW w \in Pic, NEW on \in BOOLEAN, RotateOnAutoEoi(w, on)
    PROVE  IInv'
<1>. DEFINE s == [pics[w] EXCEPT !.rotate_on_auto_eoi = on]
            p == [pics EXCEPT ![w] = s]
<1>1. /\ s \in PicState /\ s.last_irr = pics[w].last_irr /\ s.irr = pics[w].irr
      /\ s.imr = pics[w].imr /\ s.isr = pics[w].isr /\ s.special_mask = pics[w].special_mask
      /\ s.priority_add = pics[w].priority_add
      /\ s.special_fully_nested_mode = pics[w].special_fully_nested_mode
  BY PairFields DEF IInv, PicState
<1>2. Quiet(p, TRUE)
  BY DEF RotateOnAutoEoi
<1>. HIDE DEF s
<1>3. Good(p)
  BY <1>1, PairFields, ReplaceIsGood DEF IInv, Good, CascadeLow
<1>4. \A v \in Pic : PicGetIrq(p, v) = PicGetIrq(pics, v)
  <2>1. \A v \in Pic : SameRequests(p[v], pics[v])
    BY <1>1, PairFields DEF IInv, Pair, SameRequests
  <2>. HIDE DEF p
  <2>. QED BY <2>1, GetIrqOfSame
<1>5. p["master"].irr = pics["master"].irr
  BY <1>1, PairFields DEF IInv, Pair, Pic
<1>. QED BY <1>2, <1>3, <1>4, <1>5, QuietIsGood

\* OCW3.
LEMMA Ocw3IsGood ==
    ASSUME IInv, NEW w \in Pic, NEW poll \in BOOLEAN, NEW mode \in {"keep", "set", "reset"},
           Ocw3(w, poll, mode)
    PROVE  IInv'
<1>. DEFINE b == pics[w].poll \/ poll
            m == IF mode = "keep" THEN pics[w].special_mask ELSE mode = "set"
            u == [pics[w] EXCEPT !.poll = b]
            s == [u EXCEPT !.special_mask = m]
            p == [pics EXCEPT ![w] = s]
<1>1. pics[w] \in PicState /\ pics \in Pair /\ b \in BOOLEAN /\ m \in BOOLEAN
  BY PairFields DEF IInv, PicState
<1>2. Quiet(p, mode = "keep")
  BY <1>1, Zenon DEF Ocw3, Pair, PicState
<1>3. u \in PicState /\ SameRequests(u, pics[w]) /\ u.last_irr = pics[w].last_irr
  <2>. HIDE DEF b
  <2>. QED BY <1>1 DEF PicState, SameRequests
<1>4. /\ s \in PicState /\ s.last_irr = u.last_irr /\ s.irr = u.irr
      /\ m = u.special_mask => SameRequests(s, u)
  <2>. HIDE DEF u, m
  <2>. QED BY <1>1, <1>3 DEF PicState, SameRequests
<1>5. mode = "keep" => m = u.special_mask
  BY <1>1, <1>3 DEF SameRequests
<1>. HIDE DEF s, u, m
<1>6. Good(p)
  BY <1>1, <1>3, <1>4, ReplaceIsGood DEF IInv, Good, CascadeLow
<1>7. mode = "keep" => \A v \in Pic : PicGetIrq(p, v) = PicGetIrq(pics, v)
  <2>1. mode = "keep" => \A v \in Pic : SameRequests(p[v], pics[v])
    BY <1>1, <1>3, <1>4, <1>5 DEF Pair, SameRequests
  <2>. HIDE DEF p
  <2>. QED BY <2>1, GetIrqOfSame
<1>8. p["master"].irr = pics["master"].irr
  BY <1>1, <1>3, <1>4 DEF Pair, Pic, SameRequests
<1>. QED BY <1>2, <1>6, <1>7, <1>8, QuietIsGood

\* ICW1.
LEMMA Icw1IsGood ==
    ASSUME IInv, NEW w \in Pic, NEW init4 \in BOOLEAN, NEW single \in BOOLEAN,
           Icw1(w, init4, single)
    PROVE  IInv'
<1>. DEFINE s == [PicReset EXCEPT !.init_state = 1, !.init4 = init4, !.single_mode = single]
<1>1. s \in PicState /\ s.last_irr = {}
  <2>. DEFINE u == [PicReset EXCEPT !.init_state = 1]
              v == [u EXCEPT !.init4 = init4]
  <2>1. 0 \in Line
    BY LinesAssumption DEF Line, Cascade
  <2>2. PicReset \in PicState /\ PicReset.last_irr = {}
    BY <2>1 DEF PicReset, PicState
  <2>3. u \in PicState /\ u.last_irr = {}
    BY <2>2 DEF PicState
  <2>4. s = [v EXCEPT !.single_mode = single]
    OBVIOUS
  <2>. HIDE DEF u, s
  <2>5. v \in PicState /\ v.last_irr = {}
    BY <2>3 DEF PicState
  <2>. HIDE DEF v
  <2>. QED BY <2>4, <2>5 DEF PicState
<1>2. Quiet([pics EXCEPT ![w] = s], FALSE)
  BY DEF Icw1
<1>. HIDE DEF s
<1>3. Good([pics EXCEPT ![w] = s])
  BY <1>1, PairFields, ReplaceIsGood DEF IInv, Good
<1>. QED BY <1>2, <1>3, QuietIsGood

\* ICW2 and ICW3.
LEMMA Icw23IsGood ==
    ASSUME IInv, NEW w \in Pic, Icw23(w)
    PROVE  IInv'
<1>. DEFINE i == IF pics[w].init_state = 1 /\ ~pics[w].single_mode THEN 2
                 ELSE IF pics[w].init4 THEN 3 ELSE 0
            s == [pics[w] EXCEPT !.init_state = i]
            p == [pics EXCEPT ![w] = s]
<1>1. pics[w] \in PicState /\ pics \in Pair /\ i \in 0 .. 3
  BY PairFields DEF IInv
<1>2. Quiet(p, TRUE)
  BY DEF Icw23
<1>. HIDE DEF i
<1>3. s \in PicState /\ SameRequests(s, pics[w]) /\ s.last_irr = pics[w].last_irr
  BY <1>1 DEF PicState, SameRequests
<1>. HIDE DEF s
<1>4. Good(p)
  BY <1>1, <1>3, ReplaceIsGood DEF IInv, Good, CascadeLow
<1>5. \A v \in Pic : PicGetIrq(p, v) = PicGetIrq(pics, v)
  <2>1. \A v \in Pic : SameRequests(p[v], pics[v])
    BY <1>1, <1>3 DEF Pair, SameRequests
  <2>. HIDE DEF p
  <2>. QED BY <2>1, GetIrqOfSame
<1>6. p["master"].irr = pics["master"].irr
  BY <1>1, <1>3 DEF Pair, Pic, SameRequests
<1>. QED BY <1>2, <1>4, <1>5, <1>6, QuietIsGood

\* ICW4.
LEMMA Icw4IsGood ==
    ASSUME IInv, NEW w \in Pic, NEW sfnm \in BOOLEAN, NEW aeoi \in BOOLEAN, Icw4(w, sfnm, aeoi)
    PROVE  IInv'
<1>. DEFINE t == pics[w]
            u == [t EXCEPT !.special_fully_nested_mode = sfnm]
            v == [u EXCEPT !.auto_eoi = aeoi]
            s == [v EXCEPT !.init_state = 0]
            p == [pics EXCEPT ![w] = s]
<1>1. t \in PicState /\ pics \in Pair
  BY PairFields DEF IInv
<1>2. Quiet(p, FALSE)
  BY <1>1, Zenon DEF Icw4, Pair, PicState
<1>. HIDE DEF t
<1>3. u \in PicState /\ u.last_irr = t.last_irr
  BY <1>1 DEF PicState
<1>. HIDE DEF u
<1>4. v \in PicState /\ v.last_irr = t.last_irr
  BY <1>3 DEF PicState
<1>. HIDE DEF v
<1>5. s \in PicState /\ s.last_irr = t.last_irr
  BY <1>4 DEF PicState
<1>. HIDE DEF s
<1>6. Good(p)
  BY <1>1, <1>5, ReplaceIsGood DEF IInv, Good, CascadeLow, t
<1>. QED BY <1>2, <1>6, QuietIsGood

\* OCW1.
LEMMA Ocw1IsGood ==
    ASSUME IInv, NEW w \in Pic, NEW mask \in Mask, Ocw1(w, mask)
    PROVE  IInv'
<1>1. mask \in SUBSET Line
  BY LinesAssumption
<1>2. [pics[w] EXCEPT !.imr = mask] \in PicState
      /\ [pics[w] EXCEPT !.imr = mask].last_irr = pics[w].last_irr
  BY <1>1, PairFields DEF IInv, PicState
<1>3. Good([pics EXCEPT ![w].imr = mask])
  BY <1>2, PairFields, ReplaceIsGood DEF IInv, Good, CascadeLow
<1>. QED BY <1>3, SettleIsGood DEF Ocw1

\* A poll withdraws a request.
LEMMA WithdrawIsGood ==
    ASSUME NEW p, Good(p), NEW w \in Pic, NEW l
    PROVE  Good([p EXCEPT ![w] = Withdraw(@, l)])
<1>. DEFINE s == p[w]
            u == [s EXCEPT !.irr = s.irr \ {l}]
            v == [u EXCEPT !.isr = u.isr \ {l}]
<1>1. s \in PicState
  BY DEF Good, Pair
<1>2. u \in PicState /\ u.last_irr = s.last_irr /\ u.isr = s.isr
  BY <1>1 DEF PicState
<1>3. Withdraw(s, l) = [u EXCEPT !.isr = s.isr \ {l}]
  BY DEF Withdraw
<1>. HIDE DEF u, s
<1>4. v \in PicState /\ v.last_irr = s.last_irr
  BY <1>2 DEF PicState
<1>. HIDE DEF v
<1>5. Withdraw(s, l) \in PicState /\ Withdraw(s, l).last_irr = s.last_irr
  BY <1>2, <1>3, <1>4 DEF v
<1>. QED BY <1>5, ReplaceIsGood DEF Good, CascadeLow, s

\* A read in poll mode.
LEMMA PollReadIsGood ==
    ASSUME IInv, NEW w \in Pic, PollRead(w)
    PROVE  IInv'
<1>. DEFINE l == PicGetIrq(pics, w)
            p == [pics EXCEPT ![w].poll = FALSE]
            q == IF w = "slave" THEN [p EXCEPT !["master"] = Withdraw(@, Cascade)] ELSE p
            r == [q EXCEPT ![w] = Withdraw(@, l)]
<1>1. pics \in Pair /\ CascadeLow(pics) /\ pics[w] \in PicState
  BY PairFields DEF IInv
<1>2. Good(p)
  <2>1. [pics[w] EXCEPT !.poll = FALSE] \in PicState
        /\ [pics[w] EXCEPT !.poll = FALSE].last_irr = pics[w].last_irr
    BY <1>1 DEF PicState
  <2>. QED BY <1>1, <2>1, ReplaceIsGood DEF Good, CascadeLow
<1>3. Settle(p) \/ Quiet(r, FALSE) \/ Settle(r)
  BY Zenon DEF PollRead
<1>. HIDE DEF p, l
<1>4. Good(q)
  BY <1>2, WithdrawIsGood DEF Pic
<1>. HIDE DEF q
<1>5. Good(r)
  BY <1>4, WithdrawIsGood
<1>. HIDE DEF r
<1>. QED BY <1>2, <1>3, <1>5, SettleIsGood, QuietIsGood

-----------------------------------------------------------------------------
(* The theorems.                                                           *)

\* After i8259_init.
LEMMA InitIsGood == Init => IInv
<1>. SUFFICES ASSUME Init PROVE IInv
  OBVIOUS
<1>1. 0 \in Line
  BY LinesAssumption DEF Line, Cascade
<1>2. PicReset \in PicState
  BY <1>1 DEF PicReset, PicState
<1>3. \A w \in Pic : ~Wants(pics, w)
  BY DEF Init, Wants, PicGetIrq, GetPriority, PicReset
<1>. QED BY <1>2, <1>3 DEF Init, IInv, TypeOK, CascadeLow, Signalled, CascadeKept, Pic, PicReset

\* Every operation keeps the invariant.
LEMMA StepIsGood == IInv /\ [Next]_vars => IInv'
<1>. SUFFICES ASSUME IInv, [Next]_vars PROVE IInv'
  OBVIOUS
<1>1. CASE UNCHANGED vars
  BY <1>1 DEF vars, IInv, TypeOK, CascadeLow, Signalled, CascadeKept, Wants, PicGetIrq, InService
<1>2. CASE Device
  BY <1>2, SetIrqIsGood DEF Device
<1>3. CASE TakeInterrupt
  BY <1>3, TakeInterruptIsGood
<1>4. ASSUME NEW w \in Pic, Guest(w, Command) PROVE IInv'
  <2>1. ASSUME NonSpecificEoi(w, FALSE) \/ NonSpecificEoi(w, TRUE) PROVE IInv'
    BY <2>1, NonSpecificEoiIsGood
  <2>2. ASSUME NEW l \in Line, SpecificEoi(w, l, FALSE) \/ SpecificEoi(w, l, TRUE) \/ SetPriority(w, l)
        PROVE IInv'
    BY <2>2, SpecificEoiIsGood
  <2>3. ASSUME NEW on \in BOOLEAN, RotateOnAutoEoi(w, on) PROVE IInv'
    BY <2>3, RotateOnAutoEoiIsGood
  <2>4. ASSUME NEW mask \in Mask, Ocw1(w, mask) PROVE IInv'
    BY <2>4, Ocw1IsGood
  <2>5. ASSUME NEW mode \in {"keep", "set", "reset"}, Ocw3(w, FALSE, mode) \/ Ocw3(w, TRUE, "keep")
        PROVE IInv'
    BY <2>5, Ocw3IsGood
  <2>6. ASSUME PollRead(w) PROVE IInv'
    BY <2>6, PollReadIsGood
  <2>7. ASSUME NEW a \in BOOLEAN, NEW b \in BOOLEAN, Icw1(w, a, b) \/ Icw4(w, a, b) PROVE IInv'
    BY <2>7, Icw1IsGood, Icw4IsGood
  <2>8. ASSUME Icw23(w) PROVE IInv'
    BY <2>8, Icw23IsGood
  <2>. QED BY <1>4, <2>1, <2>2, <2>3, <2>4, <2>5, <2>6, <2>7, <2>8 DEF Guest
<1>. QED BY <1>1, <1>2, <1>3, <1>4 DEF Next

\* The inductive invariant holds in every reachable state.
THEOREM Invariance == Spec => []IInv
<1>. QED BY InitIsGood, StepIsGood, PTL DEF Spec

\* The fields of the PicStates keep their types.
THEOREM TypeCorrect == Spec => []TypeOK
<1>1. IInv => TypeOK
  BY DEF IInv
<1>. QED BY <1>1, Invariance, PTL

\* No active request waits in the controllers with intr low.
THEOREM SignalledHolds == Spec => []Signalled
<1>1. IInv => Signalled
  BY DEF IInv
<1>. QED BY <1>1, Invariance, PTL

\* A request of the slave is never lost on the cascade line.
THEOREM CascadeKeptHolds == Spec => []CascadeKept
<1>1. IInv => CascadeKept
  BY DEF IInv
<1>. QED BY <1>1, Invariance, PTL

-----------------------------------------------------------------------------
(* What the operations do to the requests and the lines in service.        *)

\* The registers that say which requests are held back.
SameService(s, t) ==
    /\ t.isr = s.isr /\ t.imr = s.imr /\ t.special_mask = s.special_mask
    /\ t.priority_add = s.priority_add /\ t.auto_eoi = s.auto_eoi
    /\ t.special_fully_nested_mode = s.special_fully_nested_mode

\* A line that changes its level.
LEMMA SetIrq1Is ==
    ASSUME NEW s \in PicState, NEW l \in Line, NEW level \in BOOLEAN
    PROVE  /\ PicSetIrq1(s, l, level) \in PicState
           /\ SameService(s, PicSetIrq1(s, l, level))
           /\ PicSetIrq1(s, l, level).irr = s.irr \/ PicSetIrq1(s, l, level).irr = s.irr \cup {l}
           /\ level /\ l \notin s.last_irr => PicSetIrq1(s, l, level).irr = s.irr \cup {l}
           /\ ~level => PicSetIrq1(s, l, level).irr = s.irr
           /\ PicSetIrq1(s, l, level).last_irr = (IF level THEN s.last_irr \cup {l} ELSE s.last_irr \ {l})
<1>1. CASE level
  <2> DEFINE r == IF l \in s.last_irr THEN s.irr ELSE s.irr \cup {l}
             u == [s EXCEPT !.irr = r]
             v == [u EXCEPT !.last_irr = s.last_irr \cup {l}]
  <2>1. r \in SUBSET Line
    BY DEF PicState
  <2>2. PicSetIrq1(s, l, level) = v
    BY <1>1 DEF PicSetIrq1
  <2>3. r = s.irr \/ r = s.irr \cup {l}
    OBVIOUS
  <2>4. l \notin s.last_irr => r = s.irr \cup {l}
    OBVIOUS
  <2> HIDE DEF r
  <2>5. u \in PicState /\ SameService(s, u) /\ u.irr = r /\ u.last_irr = s.last_irr
    BY <2>1 DEF PicState, SameService
  <2> HIDE DEF u
  <2>6. v \in PicState /\ SameService(u, v) /\ v.irr = u.irr /\ v.last_irr = s.last_irr \cup {l}
    BY <2>5 DEF PicState, SameService
  <2> HIDE DEF v
  <2> QED
    BY <1>1, <2>2, <2>3, <2>5, <2>6, <2>4 DEF SameService
<1>2. CASE ~level
  BY <1>2 DEF PicSetIrq1, PicState, SameService
<1> QED
  BY <1>1, <1>2

\* The pulse of the cascade line requests it, and that is all it does.
LEMMA UpdateKeeps ==
    ASSUME NEW p, Good(p), NEW w \in Pic
    PROVE  /\ SameService(p[w], PicUpdateIrq(p)[w])
           /\ PicUpdateIrq(p)[w].last_irr = p[w].last_irr
           /\ PicUpdateIrq(p)[w].irr =
                 IF w = "master" /\ Wants(p, "slave") THEN p[w].irr \cup {Cascade} ELSE p[w].irr
<1>1. CASE ~Wants(p, "slave")
  BY <1>1 DEF PicUpdateIrq, SameService
<1>2. CASE Wants(p, "slave")
  <2> DEFINE s == p["master"]
             u == PicSetIrq1(s, Cascade, TRUE)
             v == PicSetIrq1(u, Cascade, FALSE)
  <2>1. s \in PicState /\ p \in Pair /\ Cascade \notin s.last_irr
    BY DEF Good, Pair, Pic, CascadeLow
  <2>2. PicUpdateIrq(p) = [p EXCEPT !["master"] = v]
    BY <1>2 DEF PicUpdateIrq, Pulse
  <2> HIDE DEF s
  <2>3. /\ u \in PicState /\ SameService(s, u) /\ u.irr = s.irr \cup {Cascade}
        /\ u.last_irr = s.last_irr \cup {Cascade}
    BY <2>1, SetIrq1Is, CascadeIsLine
  <2> HIDE DEF u
  <2>4. v \in PicState /\ SameService(u, v) /\ v.irr = u.irr /\ v.last_irr = u.last_irr \ {Cascade}
    BY <2>3, SetIrq1Is, CascadeIsLine
  <2> HIDE DEF v
  <2>5. SameService(s, v) /\ v.last_irr = s.last_irr /\ v.irr = s.irr \cup {Cascade}
    BY <2>1, <2>3, <2>4 DEF SameService
  <2>6. w # "master" => PicUpdateIrq(p)[w] = p[w]
    BY <2>1, <2>2 DEF Pair
  <2>7. w = "master" => PicUpdateIrq(p)[w] = v
    BY <2>1, <2>2 DEF Pair
  <2>8. w # "master" => SameService(p[w], PicUpdateIrq(p)[w])
    BY <2>6 DEF SameService
  <2>9. w = "master" => p[w] = s
    BY DEF s
  <2> QED
    BY <1>2, <2>5, <2>6, <2>7, <2>8, <2>9
<1> QED
  BY <1>1, <1>2

\* An acknowledge takes the request of its line, and serves it unless the
\* controller ends interrupts by itself.
LEMMA IntackIs ==
    ASSUME NEW s \in PicState, NEW l \in Line
    PROVE  /\ PicIntack(s, l) \in PicState /\ PicIntack(s, l).last_irr = s.last_irr
           /\ PicIntack(s, l).irr = s.irr \ {l}
           /\ ~s.auto_eoi => /\ PicIntack(s, l).isr = s.isr \cup {l}
                             /\ PicIntack(s, l).imr = s.imr
                             /\ PicIntack(s, l).special_mask = s.special_mask
                             /\ PicIntack(s, l).priority_add = s.priority_add
                             /\ PicIntack(s, l).auto_eoi = s.auto_eoi
                             /\ PicIntack(s, l).special_fully_nested_mode
                                   = s.special_fully_nested_mode
<1> DEFINE u == [s EXCEPT !.irr = s.irr \ {l}]
<1>1. u \in PicState /\ u.last_irr = s.last_irr /\ u.irr = s.irr \ {l} /\ SameService(s, u)
  BY DEF PicState, SameService
<1>2. CASE s.auto_eoi
  <2> DEFINE a == IF s.rotate_on_auto_eoi THEN (l + 1) % LineCount ELSE s.priority_add
  <2>1. a \in Line
    BY LinesAssumption DEF Line, Cascade, PicState
  <2>2. PicIntack(s, l) = [u EXCEPT !.priority_add = a]
    BY <1>2 DEF PicIntack, PicState
  <2> HIDE DEF a, u
  <2> QED
    BY <1>1, <1>2, <2>1, <2>2 DEF PicState
<1>3. CASE ~s.auto_eoi
  <2>1. PicIntack(s, l) = [u EXCEPT !.isr = s.isr \cup {l}]
    BY <1>3 DEF PicIntack, PicState
  <2>2. s.isr \cup {l} \in SUBSET Line
    BY DEF PicState
  <2> HIDE DEF u
  <2> QED
    BY <1>1, <2>1, <2>2 DEF PicState, SameService
<1> QED
  BY <1>2, <1>3

\* The acknowledge of the CPU takes no request but the one it returns, and the
\* cascade's.
LEMMA AcknowledgedIs ==
    ASSUME NEW p, Good(p), NEW d \in Pic \X Line, d # <<"master", Cascade>>,
           d[2] \in p[d[1]].irr, d[2] \notin Acknowledged(p).p[d[1]].irr
    PROVE  /\ Acknowledged(p).vec.pic = d[1] /\ Acknowledged(p).vec.line = d[2]
           /\ Acknowledged(p).vec.spurious = FALSE
<1> DEFINE irq  == PicGetIrq(p, "master")
           q    == [p EXCEPT !["master"] = PicIntack(@, irq)]
           irq2 == PicGetIrq(q, "slave")
           r    == [q EXCEPT !["slave"] = PicIntack(@, irq2)]
<1>1. irq # NoLine
  BY DEF Acknowledged
<1>2. irq \in Line
  BY <1>1, GetIrqIsLine DEF Good, Pic
<1>3. p \in Pair /\ p["master"] \in PicState /\ p["slave"] \in PicState /\ d[1] \in {"master", "slave"}
  BY DEF Good, Pair, Pic
<1>4. CASE irq # Cascade
  <2>1. /\ Acknowledged(p).p = q
        /\ Acknowledged(p).vec = [pic |-> "master", line |-> irq, spurious |-> FALSE]
    BY <1>1, <1>4, Zenon DEF Acknowledged, irq, q
  <2> HIDE DEF irq
  <2>2. q["slave"] = p["slave"] /\ q["master"].irr = p["master"].irr \ {irq}
    BY <1>2, <1>3, IntackIs DEF Pair, Pic
  <2> HIDE DEF q
  <2>3. d[1] = "master" /\ d[2] = irq
    BY <1>3, <2>1, <2>2
  <2> QED
    BY <2>1, <2>3
<1>5. CASE irq = Cascade
  <2>1. Good(q)
    BY <1>2, IntackIsGood DEF Pic
  <2>2. Acknowledged(p).p = IF irq2 = NoLine THEN q ELSE r
    BY <1>1, <1>5, Zenon DEF Acknowledged, irq, q, irq2, r
  <2>3. irq2 # NoLine =>
          Acknowledged(p).vec = [pic |-> "slave", line |-> irq2, spurious |-> FALSE]
    BY <1>1, <1>5, Zenon DEF Acknowledged, irq, q, irq2, r
  <2> HIDE DEF irq
  <2>4. q["slave"] = p["slave"] /\ q["master"].irr = p["master"].irr \ {irq}
    BY <1>2, <1>3, IntackIs DEF Pair, Pic
  <2>5. d[2] \in q[d[1]].irr
    <3>1. CASE d[1] = "slave"
      BY <2>4, <3>1
    <3>2. CASE d[1] = "master"
      <4>1. d[2] # Cascade
        <5>1. d = <<d[1], d[2]>>
          OBVIOUS
        <5> QED
          BY <3>2, <5>1
      <4> QED
        BY <1>5, <2>4, <3>2, <4>1
    <3> QED
      BY <1>3, <3>1, <3>2
  <2> HIDE DEF q
  <2>6. irq2 # NoLine
    BY <2>2, <2>5
  <2>7. irq2 \in Line
    BY <2>1, <2>6, GetIrqIsLine DEF Good, Pic
  <2> HIDE DEF irq2
  <2>8. r["master"] = q["master"] /\ r["slave"].irr = q["slave"].irr \ {irq2}
    <3>1. q \in Pair /\ q["slave"] \in PicState
      BY <2>1 DEF Good, Pair, Pic
    <3> QED
      BY <2>7, <3>1, IntackIs DEF Pair, Pic
  <2> HIDE DEF r
  <2>9. d[1] = "slave" /\ d[2] = irq2
    BY <1>3, <2>2, <2>5, <2>6, <2>8
  <2> QED
    BY <2>3, <2>6, <2>9
<1> QED
  BY <1>4, <1>5

-----------------------------------------------------------------------------
(* The main context cut by the timer interrupt (I8259Isr).                 *)

\* Lines the timer interrupt may request while the main context holds an irr
\* it has loaded: its own and the cascade.
TickLine(w, l) == <<w, l>> \in IsrLine \/ (w = "master" /\ l = Cascade)

\* An irr the main context has loaded from controller w: what has been
\* requested since is of the timer interrupt.
Loaded(w) == /\ job.irr \subseteq Line
             /\ \A l \in pics[w].irr \ job.irr : TickLine(w, l)

\* The main context's place in its operation.
JobType ==
    \/ job.at \in {"idle", "update", "raise"}
    \/ job.at = "store" /\ <<job.pic, job.line>> \in DevLine /\ Loaded(job.pic)
    \/ job.at = "cascade" /\ Loaded("master")

\* The inductive invariant: once the slave was looked at, its request is on
\* the cascade line, whatever was stored over the timer interrupt's pulse.
IsrInv ==
    /\ Good(pics) /\ intr \in BOOLEAN
    /\ owed \subseteq IsrLine
    /\ JobType
    /\ job.at \in {"idle", "raise"} /\ Wants(pics, "slave") => Cascade \in pics["master"].irr
    /\ job.at = "idle" /\ Wants(pics, "master") => intr

\* In progress, an operation owes nothing yet.
LEMMA BusyIsGood ==
    ASSUME Good(pics'), intr' = intr, IsrInv, owed' = owed, JobType',
           job'.at \in {"update", "store", "cascade"}
    PROVE  IsrInv'
BY Zenon DEF IsrInv, Good, Pair, CascadeLow

\* No device and no timer is wired to the cascade line.
LEMMA DeviceLines ==
    ASSUME NEW d \in DevLine \cup IsrLine
    PROVE  /\ d[1] \in Pic /\ d[2] \in Line /\ (d[1] = "master" => d[2] # Cascade)
           /\ d = <<d[1], d[2]>>
BY LinesAssumption, IsrLineAssumption

\* A device of the main context raises its line: irr is loaded.
LEMMA RaiseLineKeeps ==
    ASSUME IsrInv, NEW d \in DevLine, RaiseLine(d[1], d[2])
    PROVE  IsrInv'
<1>1. pics' = pics /\ intr' = intr /\ owed' = owed
  BY DEF RaiseLine
<1>2. Good(pics')
  BY <1>1 DEF IsrInv
<1>3. d[1] \in Pic /\ d = <<d[1], d[2]>>
  BY DeviceLines
<1>4. CASE d[2] \in pics[d[1]].last_irr
  <2>1. job' = [at |-> "update"]
    BY <1>4 DEF RaiseLine
  <2>2. JobType' /\ job'.at = "update"
    BY <2>1 DEF JobType
  <2> QED
    BY <1>1, <1>2, <2>2, BusyIsGood
<1>5. CASE d[2] \notin pics[d[1]].last_irr
  <2>1. job' = [at |-> "store", pic |-> d[1], line |-> d[2], irr |-> pics[d[1]].irr]
    BY <1>5 DEF RaiseLine
  <2>2. pics[d[1]].irr \subseteq Line
    BY <1>3 DEF IsrInv, Good, Pair, PicState
  <2>3. JobType' /\ job'.at = "store"
    BY <1>1, <1>3, <2>1, <2>2 DEF JobType, Loaded
  <2> QED
    BY <1>1, <1>2, <2>3, BusyIsGood
<1> QED
  BY <1>4, <1>5

\* The store of irr with the request of the device.
LEMMA StoreRequestIs ==
    ASSUME IsrInv, StoreRequest
    PROVE  /\ Good(pics') /\ <<job.pic, job.line>> \in DevLine /\ Loaded(job.pic)
           /\ \A v \in Pic : pics'[v].irr = IF v = job.pic THEN job.irr \cup {job.line}
                                            ELSE pics[v].irr
<1>1. <<job.pic, job.line>> \in DevLine /\ Loaded(job.pic)
  BY DEF StoreRequest, IsrInv, JobType
<1> DEFINE w == job.pic
           l == job.line
           i == job.irr \cup {l}
           u == [pics[w] EXCEPT !.irr = i]
           s == [u EXCEPT !.last_irr = @ \cup {l}]
<1>2. w \in Pic /\ l \in Line /\ (w = "master" => l # Cascade)
  BY <1>1, LinesAssumption
<1>3. i \in SUBSET Line
  BY <1>1, <1>2 DEF Loaded
<1>4. Good(pics) /\ pics \in Pair /\ pics[w] \in PicState
  BY <1>2 DEF IsrInv, Good, Pair
<1>5. pics' = [pics EXCEPT ![w].irr = i, ![w].last_irr = @ \cup {l}]
  BY DEF StoreRequest
<1> HIDE DEF w, l, i
<1>6. pics' = [pics EXCEPT ![w] = s]
  BY <1>2, <1>4, <1>5, Zenon DEF Pair, PicState
<1>7. u \in PicState /\ u.last_irr = pics[w].last_irr /\ u.irr = i
  BY <1>3, <1>4 DEF PicState
<1> HIDE DEF u
<1>8. s \in PicState /\ s.last_irr = pics[w].last_irr \cup {l} /\ s.irr = i
  BY <1>2, <1>7 DEF PicState
<1> HIDE DEF s
<1>9. w = "master" => Cascade \notin s.last_irr
  BY <1>2, <1>4, <1>8 DEF Good, CascadeLow
<1>10. Good(pics') /\ \A v \in Pic : pics'[v].irr = IF v = w THEN i ELSE pics[v].irr
  <2>1. Good([pics EXCEPT ![w] = s])
    BY <1>2, <1>4, <1>8, <1>9, ReplaceIsGood
  <2>2. \A v \in Pic : pics'[v].irr = IF v = w THEN i ELSE pics[v].irr
    BY <1>4, <1>6, <1>8 DEF Pair
  <2> QED
    BY <1>6, <2>1, <2>2
<1> QED
  BY <1>1, <1>10 DEF i, w, l

\* The main context goes on to the update.
LEMMA StoreRequestKeeps ==
    ASSUME IsrInv, StoreRequest
    PROVE  IsrInv'
<1>1. Good(pics')
  BY StoreRequestIs
<1>2. job' = [at |-> "update"] /\ intr' = intr /\ owed' = owed
  BY DEF StoreRequest
<1>3. JobType' /\ job'.at = "update"
  BY <1>2 DEF JobType
<1> QED
  BY <1>1, <1>2, <1>3, BusyIsGood

\* A line that falls, an EOI and a write of the mask leave the requests alone.
LEMMA OtherKeeps ==
    ASSUME IsrInv,
           \/ \E d \in DevLine : LowerLine(d[1], d[2])
           \/ \E w \in Pic : EndInterrupt(w) \/ \E mask \in Mask : WriteMask(w, mask)
    PROVE  IsrInv' /\ \A v \in Pic : pics'[v].irr = pics[v].irr
<1>1. Good(pics) /\ pics \in Pair
  BY DEF IsrInv, Good
<1> DEFINE Kept == /\ Good(pics') /\ \A v \in Pic : pics'[v].irr = pics[v].irr
                   /\ job' = [at |-> "update"] /\ intr' = intr /\ owed' = owed
<1>2. Kept
  <2>1. ASSUME NEW d \in DevLine, LowerLine(d[1], d[2]) PROVE Kept
    <3> DEFINE w == d[1]
               l == d[2]
               s == PicSetIrq1(pics[w], l, FALSE)
    <3>1. w \in Pic /\ l \in Line
      BY DeviceLines
    <3>2. pics' = [pics EXCEPT ![w] = s]
      BY <2>1 DEF LowerLine
    <3> HIDE DEF w, l
    <3>3. pics[w] \in PicState
      BY <1>1, <3>1 DEF Pair
    <3>4. s \in PicState /\ s.irr = pics[w].irr /\ s.last_irr = pics[w].last_irr \ {l}
      BY <3>1, <3>3, SetIrq1Is
    <3> HIDE DEF s
    <3>5. Good(pics')
      BY <1>1, <3>1, <3>4, <3>2, ReplaceIsGood DEF Good, CascadeLow
    <3> QED
      BY <1>1, <2>1, <3>1, <3>4, <3>2, <3>5 DEF LowerLine, Pair
  <2>2. ASSUME NEW w \in Pic, EndInterrupt(w) PROVE Kept
    <3> DEFINE i == pics[w].isr \ {TopInService(w)}
               s == [pics[w] EXCEPT !.isr = i]
    <3>1. i \in SUBSET Line
      BY <1>1 DEF Pair, PicState
    <3>2. pics' = [pics EXCEPT ![w] = s]
      BY <2>2 DEF EndInterrupt, EndService
    <3> HIDE DEF i
    <3>3. s \in PicState /\ s.irr = pics[w].irr /\ s.last_irr = pics[w].last_irr
      BY <1>1, <3>1 DEF Pair, PicState
    <3> HIDE DEF s
    <3>4. Good(pics')
      BY <1>1, <3>2, <3>3, ReplaceIsGood DEF Good, CascadeLow
    <3> QED
      BY <1>1, <2>2, <3>2, <3>3, <3>4 DEF EndInterrupt, Pair
  <2>3. ASSUME NEW w \in Pic, NEW mask \in Mask, WriteMask(w, mask) PROVE Kept
    <3> DEFINE s == [pics[w] EXCEPT !.imr = mask]
    <3>1. mask \in SUBSET Line
      BY LinesAssumption
    <3>2. pics' = [pics EXCEPT ![w] = s]
      BY <2>3 DEF WriteMask
    <3>3. s \in PicState /\ s.irr = pics[w].irr /\ s.last_irr = pics[w].last_irr
      BY <1>1, <3>1 DEF Pair, PicState
    <3> HIDE DEF s
    <3>4. Good(pics')
      BY <1>1, <3>2, <3>3, ReplaceIsGood DEF Good, CascadeLow
    <3> QED
      BY <1>1, <2>3, <3>2, <3>3, <3>4 DEF WriteMask, Pair
  <2> QED
    BY <2>1, <2>2, <2>3
<1>3. JobType' /\ job'.at = "update"
  BY <1>2 DEF JobType
<1> QED
  BY <1>2, <1>3, BusyIsGood

\* The look at the slave: if it wants nothing, nothing need be on the cascade line.
LEMMA UpdateSlaveKeeps ==
    ASSUME IsrInv, UpdateSlave
    PROVE  IsrInv'
<1>1. pics' = pics /\ intr' = intr /\ owed' = owed
  BY DEF UpdateSlave
<1>2. Good(pics') /\ Good(pics)
  BY <1>1 DEF IsrInv
<1>3. CASE Wants(pics, "slave")
  <2>1. job' = [at |-> "cascade", irr |-> pics["master"].irr]
    BY <1>3 DEF UpdateSlave
  <2>2. pics["master"].irr \subseteq Line
    BY <1>2 DEF Good, Pair, Pic, PicState
  <2>3. JobType' /\ job'.at = "cascade"
    BY <1>1, <2>1, <2>2 DEF JobType, Loaded
  <2> QED
    BY <1>1, <1>2, <2>3, BusyIsGood
<1>4. CASE ~Wants(pics, "slave")
  <2>1. job' = [at |-> "raise"]
    BY <1>4 DEF UpdateSlave
  <2>2. JobType' /\ job'.at = "raise"
    BY <2>1 DEF JobType
  <2>3. ~Wants(pics', "slave")
    BY <1>1, <1>4
  <2> QED
    BY <1>1, <1>2, <2>2, <2>3 DEF IsrInv
<1> QED
  BY <1>3, <1>4

\* The store of irr with the request of the cascade.
LEMMA StoreCascadeIs ==
    ASSUME IsrInv, StoreCascade
    PROVE  /\ Good(pics') /\ Loaded("master")
           /\ \A v \in Pic : pics'[v].irr = IF v = "master" THEN job.irr \cup {Cascade}
                                            ELSE pics[v].irr
<1>1. Loaded("master")
  BY DEF StoreCascade, IsrInv, JobType
<1>2. job.irr \cup {Cascade} \in SUBSET Line
  BY <1>1, CascadeIsLine DEF Loaded
<1>3. Good(pics) /\ pics \in Pair /\ pics' = [pics EXCEPT !["master"].irr = job.irr \cup {Cascade}]
  BY DEF StoreCascade, IsrInv, Good
<1> DEFINE i == job.irr \cup {Cascade}
           s == [pics["master"] EXCEPT !.irr = i]
<1>4. s \in PicState /\ s.irr = i /\ s.last_irr = pics["master"].last_irr
  <2> HIDE DEF i
  <2> QED
    BY <1>2, <1>3 DEF Pair, PicState, Pic, i
<1>5. pics' = [pics EXCEPT !["master"] = s]
  BY <1>3
<1> HIDE DEF s, i
<1>6. "master" \in Pic /\ Cascade \notin s.last_irr
  BY <1>3, <1>4 DEF Good, CascadeLow, Pic
<1> DEFINE w == "master"
<1>7. w \in Pic /\ pics' = [pics EXCEPT ![w] = s] /\ Cascade \notin s.last_irr
  BY <1>5, <1>6
<1> HIDE DEF w
<1>8. Good([pics EXCEPT ![w] = s])
  BY <1>3, <1>4, <1>7, ReplaceIsGood
<1>9. Good(pics')
  BY <1>7, <1>8
<1>10. \A v \in Pic : pics'[v].irr = IF v = "master" THEN i ELSE pics[v].irr
  BY <1>3, <1>4, <1>5 DEF Pair
<1> QED
  BY <1>1, <1>9, <1>10 DEF i

\* After it the cascade line is requested.
LEMMA StoreCascadeKeeps ==
    ASSUME IsrInv, StoreCascade
    PROVE  IsrInv'
<1>1. Good(pics') /\ Cascade \in pics'["master"].irr
  BY StoreCascadeIs DEF Pic
<1>2. job' = [at |-> "raise"] /\ intr' = intr /\ owed' = owed
  BY DEF StoreCascade
<1>3. JobType' /\ job'.at = "raise"
  BY <1>2 DEF JobType
<1> QED
  BY <1>1, <1>2, <1>3 DEF IsrInv

\* The test that raises intr.
LEMMA RaiseIntrKeeps ==
    ASSUME IsrInv, RaiseIntr
    PROVE  IsrInv'
<1>1. job' = [at |-> "idle"] /\ pics' = pics /\ owed' = owed /\ job.at = "raise"
  BY DEF RaiseIntr
<1>2. intr' = (intr \/ Wants(pics, "master"))
  BY DEF RaiseIntr
<1>3. intr' \in BOOLEAN /\ (Wants(pics', "master") => intr')
  BY <1>1, <1>2 DEF IsrInv
<1>4. JobType' /\ job'.at = "idle"
  BY <1>1 DEF JobType
<1> QED
  BY <1>1, <1>3, <1>4 DEF IsrInv

\* The acknowledge, which nothing cuts.
LEMMA AcknowledgeKeeps ==
    ASSUME IsrInv, Acknowledge
    PROVE  IsrInv'
<1> DEFINE p == Acknowledged(pics).p
<1>1. Good(p)
  BY AcknowledgedIsGood DEF IsrInv
<1>2. pics' = PicUpdateIrq(p) /\ intr' = Wants(pics', "master")
  BY DEF Acknowledge, TakeInterrupt
<1> HIDE DEF p
<1>3. Good(pics') /\ (Wants(pics', "slave") => Cascade \in pics'["master"].irr)
  BY <1>1, <1>2, UpdateIsGood
<1>4. intr' \in BOOLEAN /\ (Wants(pics', "master") => intr')
  BY <1>2 DEF Wants
<1>5. job' = job /\ owed' \subseteq IsrLine /\ job.at = "idle"
  BY DEF Acknowledge, IsrInv, Idle
<1>6. JobType'
  BY <1>5 DEF JobType
<1> QED
  BY <1>3, <1>4, <1>5, <1>6 DEF IsrInv

\* The timer interrupt adds requests of its own line and of the cascade only.
LEMMA TickIs ==
    ASSUME Good(pics), NEW d \in IsrLine, Tick(d[1], d[2])
    PROVE  /\ Good(pics')
           /\ Wants(pics', "slave") => Cascade \in pics'["master"].irr
           /\ \A v \in Pic : /\ pics[v].irr \subseteq pics'[v].irr
                             /\ \A l \in pics'[v].irr \ pics[v].irr : TickLine(v, l)
<1> DEFINE w == d[1]
           l == d[2]
           s == PicSetIrq1(pics[w], l, TRUE)
           a == [pics EXCEPT ![w] = s]
           p == PicUpdateIrq(a)
           t == PicSetIrq1(p[w], l, FALSE)
           b == [p EXCEPT ![w] = t]
<1>1. /\ w \in Pic /\ l \in Line /\ (w = "master" => l # Cascade) /\ TickLine(w, l)
      /\ TickLine("master", Cascade)
  BY DeviceLines DEF TickLine
<1>2. pics' = PicUpdateIrq(b)
  BY DEF Tick, Lowered
<1> HIDE DEF w, l
<1>3. /\ s \in PicState /\ (s.irr = pics[w].irr \/ s.irr = pics[w].irr \cup {l})
      /\ s.last_irr = pics[w].last_irr \cup {l}
  BY <1>1, SetIrq1Is DEF Good, Pair
<1> HIDE DEF s
<1>4. Good(a) /\ \A v \in Pic : a[v].irr = IF v = w THEN s.irr ELSE pics[v].irr
  BY <1>1, <1>3, ReplaceIsGood DEF Good, CascadeLow, Pair
<1> HIDE DEF a
<1>5. /\ Good(p)
      /\ \A v \in Pic : p[v].irr = IF v = "master" /\ Wants(a, "slave")
                                   THEN a[v].irr \cup {Cascade} ELSE a[v].irr
  BY <1>4, UpdateIsGood, UpdateKeeps
<1> HIDE DEF p
<1>6. t \in PicState /\ t.irr = p[w].irr /\ t.last_irr = p[w].last_irr \ {l}
  BY <1>1, <1>5, SetIrq1Is DEF Good, Pair
<1> HIDE DEF t
<1>7. Good(b) /\ \A v \in Pic : b[v].irr = p[v].irr
  BY <1>1, <1>5, <1>6, ReplaceIsGood DEF Good, CascadeLow, Pair
<1> HIDE DEF b
<1>8. /\ Good(pics') /\ (Wants(pics', "slave") => Cascade \in pics'["master"].irr)
      /\ \A v \in Pic : pics'[v].irr = IF v = "master" /\ Wants(b, "slave")
                                       THEN b[v].irr \cup {Cascade} ELSE b[v].irr
  BY <1>2, <1>7, UpdateIsGood, UpdateKeeps
<1> HIDE DEF TickLine
<1>9. ASSUME NEW v \in Pic
      PROVE  /\ pics[v].irr \subseteq pics'[v].irr
             /\ \A k \in pics'[v].irr \ pics[v].irr : TickLine(v, k)
  <2>1. /\ pics[v].irr \subseteq a[v].irr /\ a[v].irr \subseteq b[v].irr
        /\ b[v].irr \subseteq pics'[v].irr
    BY <1>3, <1>4, <1>5, <1>7, <1>8
  <2>2. ASSUME NEW k \in pics'[v].irr \ pics[v].irr PROVE TickLine(v, k)
    <3>1. CASE k \notin b[v].irr
      BY <1>1, <1>8, <2>2, <3>1
    <3>2. CASE k \in b[v].irr /\ k \notin a[v].irr
      BY <1>1, <1>5, <1>7, <3>2
    <3>3. CASE k \in a[v].irr
      BY <1>1, <1>3, <1>4, <2>2, <3>3
    <3> QED
      BY <3>1, <3>2, <3>3
  <2> QED
    BY <2>1, <2>2
<1> QED
  BY <1>8, <1>9

\* The timer interrupt, at any place of the main context.
LEMMA TickKeeps ==
    ASSUME IsrInv, NEW d \in IsrLine, Tick(d[1], d[2])
    PROVE  IsrInv'
<1>1. /\ Good(pics')
      /\ Wants(pics', "slave") => Cascade \in pics'["master"].irr
      /\ \A v \in Pic : /\ pics[v].irr \subseteq pics'[v].irr
                        /\ \A l \in pics'[v].irr \ pics[v].irr : TickLine(v, l)
  BY TickIs DEF IsrInv
<1>2. job' = job
  BY DEF Tick
<1>3. owed' \subseteq IsrLine
  <2>1. owed' = owed \cup {d}
    BY DeviceLines DEF Tick
  <2> QED
    BY <2>1 DEF IsrInv
<1>4. intr' \in BOOLEAN /\ (Wants(pics', "master") => intr')
  BY DEF Tick, IsrInv, Wants
<1>5. JobType'
  <2>1. ASSUME NEW w \in Pic, Loaded(w) PROVE Loaded(w)'
    BY <1>1, <1>2, <2>1 DEF Loaded, TickLine
  <2>2. <<job.pic, job.line>> \in DevLine => job.pic \in Pic
    BY LinesAssumption
  <2> QED
    BY <1>2, <2>1, <2>2 DEF JobType, IsrInv, Pic
<1> QED
  BY <1>1, <1>2, <1>3, <1>4, <1>5 DEF IsrInv

\* Before the first operation.
LEMMA IsrInitIsGood == IsrInit => IsrInv
<1> SUFFICES ASSUME IsrInit PROVE IsrInv
  OBVIOUS
<1>1. IInv
  BY InitIsGood DEF IsrInit
<1>2. settled
  BY DEF IsrInit, Init
<1>3. job.at = "idle" /\ owed = {}
  BY DEF IsrInit
<1> QED
  BY <1>1, <1>2, <1>3 DEF IInv, TypeOK, Good, Pair, Signalled, CascadeKept, IsrInv, JobType

\* Every step of both contexts keeps the invariant.
LEMMA IsrStepIsGood == IsrInv /\ [IsrNext]_isrVars => IsrInv'
<1> SUFFICES ASSUME IsrInv, [IsrNext]_isrVars PROVE IsrInv'
  OBVIOUS
<1>1. CASE UNCHANGED isrVars
  BY <1>1 DEF isrVars, IsrInv, Good, JobType, Loaded, TickLine, CascadeLow, Wants, PicGetIrq, InService
<1>2. CASE IsrNext
  BY <1>2, RaiseLineKeeps, OtherKeeps, StoreRequestKeeps, UpdateSlaveKeeps, StoreCascadeKeeps,
     RaiseIntrKeeps, AcknowledgeKeeps, TickKeeps DEF IsrNext, Main
<1> QED
  BY <1>1, <1>2

\* The inductive invariant of the main context and the timer interrupt.
THEOREM IsrInvariance == IsrSpec => []IsrInv
BY IsrInitIsGood, IsrStepIsGood, PTL DEF IsrSpec

\* Between two operations of the main context every active request is on intr
\* and a request of the slave on the cascade line, wherever the timer interrupt
\* has cut in.
THEOREM IdleConsistentHolds == IsrSpec => []IdleConsistent
<1>1. IsrInv => IdleConsistent
  BY DEF IsrInv, IdleConsistent, Idle
<1> QED
  BY <1>1, IsrInvariance, PTL

\* What each step of the main context and of the timer interrupt may take from
\* the requests.
LEMMA RequestsLost ==
    ASSUME IsrInv, IsrNext, NEW d \in Pic \X Line, d # <<"master", Cascade>>,
           d[2] \in pics[d[1]].irr, d[2] \notin pics'[d[1]].irr
    PROVE  \/ Acknowledge /\ vec'.pic = d[1] /\ vec'.line = d[2] /\ vec'.spurious = FALSE
           \/ /\ StoreRequest /\ d[1] = job.pic /\ d[2] \notin job.irr /\ job.at = "store"
              /\ TickLine(d[1], d[2])
           \/ /\ StoreCascade /\ d[1] = "master" /\ d[2] \notin job.irr /\ job.at = "cascade"
              /\ TickLine(d[1], d[2])
<1>1. d[1] \in Pic /\ d[2] \in Line
  OBVIOUS
<1>2. ASSUME NEW e \in DevLine, RaiseLine(e[1], e[2]) PROVE FALSE
  BY <1>2 DEF RaiseLine
<1>3. ASSUME \/ \E e \in DevLine : LowerLine(e[1], e[2])
             \/ \E w \in Pic : EndInterrupt(w) \/ \E mask \in Mask : WriteMask(w, mask)
      PROVE  FALSE
  BY <1>1, <1>3, OtherKeeps
<1>4. ASSUME UpdateSlave \/ RaiseIntr PROVE FALSE
  BY <1>4 DEF UpdateSlave, RaiseIntr
<1>5. ASSUME NEW e \in IsrLine, Tick(e[1], e[2]) PROVE FALSE
  BY <1>1, <1>5, TickIs DEF IsrInv
<1>6. CASE StoreRequest
  <2>1. /\ Loaded(job.pic) /\ job.at = "store"
        /\ pics'[d[1]].irr = IF d[1] = job.pic THEN job.irr \cup {job.line} ELSE pics[d[1]].irr
    BY <1>1, <1>6, StoreRequestIs DEF StoreRequest
  <2> QED
    BY <1>6, <2>1 DEF Loaded
<1>7. CASE StoreCascade
  <2>1. /\ Loaded("master") /\ job.at = "cascade"
        /\ pics'[d[1]].irr = IF d[1] = "master" THEN job.irr \cup {Cascade} ELSE pics[d[1]].irr
    BY <1>1, <1>7, StoreCascadeIs DEF StoreCascade
  <2> QED
    BY <1>7, <2>1 DEF Loaded
<1>8. CASE Acknowledge
  <2> DEFINE p == Acknowledged(pics).p
  <2>1. pics' = PicUpdateIrq(p) /\ vec' = Acknowledged(pics).vec
    BY <1>8 DEF Acknowledge, TakeInterrupt
  <2>2. Good(pics) /\ Good(p)
    BY AcknowledgedIsGood DEF IsrInv
  <2>3. p[d[1]].irr \subseteq pics'[d[1]].irr
    <3> HIDE DEF p
    <3> QED
      BY <1>1, <2>1, <2>2, UpdateKeeps
  <2>4. d[2] \notin p[d[1]].irr
    BY <2>3
  <2>5. /\ Acknowledged(pics).vec.pic = d[1] /\ Acknowledged(pics).vec.line = d[2]
        /\ Acknowledged(pics).vec.spurious = FALSE
    BY <2>2, <2>4, AcknowledgedIs
  <2> QED
    BY <1>8, <2>1, <2>5
<1> QED
  BY <1>2, <1>3, <1>4, <1>5, <1>6, <1>7, <1>8 DEF IsrNext, Main

\* A pulsed request that disappears was acknowledged, or it came between a load
\* and a store of irr by the main context.
THEOREM OnlyWindowsLoseTicksHolds == IsrSpec => OnlyWindowsLoseTicks
<1>1. ASSUME IsrInv, IsrNext, NEW d \in owed, Latched(d), ~Latched(d)'
      PROVE  \/ d \notin owed'
             \/ job.at \in {"store", "cascade"} /\ d[2] \notin job.irr
  <2>1. d \in IsrLine
    BY <1>1 DEF IsrInv
  <2>2. d \in Pic \X Line /\ d # <<"master", Cascade>> /\ d = <<d[1], d[2]>>
    BY <2>1, IsrLineAssumption
  <2>3. d[2] \in pics[d[1]].irr /\ d[2] \notin pics'[d[1]].irr
    BY <1>1 DEF Latched
  <2>4. CASE Acknowledge /\ vec'.pic = d[1] /\ vec'.line = d[2]
    BY <2>2, <2>4 DEF Acknowledge
  <2> QED
    BY <1>1, <2>2, <2>3, <2>4, RequestsLost
<1>2. IsrInv /\ [IsrNext]_isrVars =>
        [\A d \in owed : Latched(d) /\ ~Latched(d)' =>
            \/ d \notin owed'
            \/ job.at \in {"store", "cascade"} /\ d[2] \notin job.irr]_isrVars
  BY <1>1
<1> QED
  BY <1>2, IsrInvariance, PTL DEF IsrSpec, OnlyWindowsLoseTicks

\* A request that a device of the main context has raised disappears only by
\* being handed to the CPU.
THEOREM DeviceRequestKeptHolds == IsrSpec => DeviceRequestKept
<1>1. ASSUME IsrInv, IsrNext, NEW d \in DevLine \ IsrLine, Latched(d), ~Latched(d)'
      PROVE  <<vec'.pic, vec'.line>> = d /\ ~vec'.spurious
  <2>1. d \in Pic \X Line /\ d # <<"master", Cascade>> /\ d = <<d[1], d[2]>>
    BY LinesAssumption
  <2>2. d[2] \in pics[d[1]].irr /\ d[2] \notin pics'[d[1]].irr
    BY <1>1 DEF Latched
  <2>3. ~TickLine(d[1], d[2])
    BY <2>1 DEF TickLine
  <2>4. vec'.pic = d[1] /\ vec'.line = d[2] /\ vec'.spurious = FALSE
    BY <1>1, <2>1, <2>2, <2>3, RequestsLost
  <2> QED
    BY <2>1, <2>4
<1>2. IsrInv /\ [IsrNext]_isrVars =>
        [\A d \in DevLine \ IsrLine : Latched(d) /\ ~Latched(d)' =>
            <<vec'.pic, vec'.line>> = d /\ ~vec'.spurious]_isrVars
  BY <1>1
<1> QED
  BY <1>2, IsrInvariance, PTL DEF IsrSpec, DeviceRequestKept

-----------------------------------------------------------------------------
(* Nested handlers (I8259Handlers).                                        *)

\* A controller as the guest leaves it: fixed priorities, nothing masked.
Fixed(s) == /\ s.priority_add = 0 /\ s.imr = {} /\ ~s.special_mask /\ ~s.auto_eoi
            /\ ~s.special_fully_nested_mode

Handler == [pic : Pic, line : Line, slaveDone : BOOLEAN]

\* The line of the master a handler is served on.
MasterLine(h) == IF h.pic = "master" THEN h.line ELSE Cascade

\* A handler whose EOI the slave waits for.
Unfinished(h) == h.pic = "slave" /\ ~h.slaveDone

\* The handlers are the lines in service: on the master strictly nested, the
\* innermost first; on the slave those that have not sent their first EOI.
Served(p, hs) ==
    /\ hs \in Seq(Handler)
    /\ \A i \in 1 .. Len(hs) : hs[i].pic = "master" => hs[i].slaveDone
    /\ \A i, j \in 1 .. Len(hs) : i < j => MasterLine(hs[i]) < MasterLine(hs[j])
    /\ \A l \in Line : l \in p["master"].isr <=> \E i \in 1 .. Len(hs) : MasterLine(hs[i]) = l
    /\ \A l \in Line : l \in p["slave"].isr <=>
                          \E i \in 1 .. Len(hs) : Unfinished(hs[i]) /\ hs[i].line = l

\* The inductive invariant.  An interrupt is signalled, and the cascade line
\* requested, only as long as there is a request to acknowledge: no handler is
\* entered for a spurious vector.
HInv ==
    /\ Good(pics) /\ intr \in BOOLEAN
    /\ \A w \in Pic : Fixed(pics[w])
    /\ intr => Wants(pics, "master")
    /\ Cascade \in pics["master"].irr => Wants(pics, "slave")
    /\ Served(pics, handlers)

-----------------------------------------------------------------------------
(* Fixed priorities.                                                       *)

\* The least line of a mask is the one of the highest priority.
LEMMA FixedPriority ==
    ASSUME NEW s \in PicState, Fixed(s), NEW mask \in SUBSET Line, mask # {}
    PROVE  /\ GetPriority(s, mask) \in mask /\ Rotated(s, GetPriority(s, mask)) \in mask
           /\ Rotated(s, GetPriority(s, mask)) = GetPriority(s, mask)
           /\ \A l \in mask : GetPriority(s, mask) <= l
<1> DEFINE g == GetPriority(s, mask)
<1>1. \A l \in Line : LineAt(0, l) = l
  BY LinesAssumption DEF LineAt, Line
<1>2. g = Foremost(0, mask)
  BY DEF GetPriority, Fixed
<1>3. PICK m \in mask : \A l \in mask : m <= l
  <2>1. mask \subseteq Nat
    BY DEF Line
  <2> QED
    BY <2>1, LeastExists
<1>4. \A q \in 0 .. m - 1 : q \in Line /\ q \notin mask
  BY <1>3, LinesAssumption DEF Line
<1>5. m \in Line /\ LineAt(0, m) \in mask /\ \A q \in 0 .. m - 1 : LineAt(0, q) \notin mask
  BY <1>1, <1>3, <1>4
<1>6. g \in Line /\ LineAt(0, g) \in mask /\ \A q \in 0 .. g - 1 : LineAt(0, q) \notin mask
  BY <1>2, <1>5 DEF Foremost
<1> HIDE DEF g
<1>7. g \in mask
  BY <1>1, <1>6
<1>8. \A l \in mask : g <= l
  <2>1. SUFFICES ASSUME NEW l \in mask, ~(g <= l) PROVE FALSE
    OBVIOUS
  <2>2. l \in Line /\ l \in 0 .. g - 1
    BY <1>6, <2>1, LinesAssumption DEF Line
  <2>3. LineAt(0, l) = l
    BY <1>1, <2>2
  <2> QED
    BY <1>6, <2>2, <2>3
<1>9. Rotated(s, g) = LineAt(0, g)
  BY DEF Rotated, Fixed
<1>10. Rotated(s, g) = g
  BY <1>1, <1>6, <1>9
<1> QED
  BY <1>7, <1>8, <1>10 DEF g

\* A request is active when it is below every line in service, and then the
\* least one is taken.
LEMMA FixedGetIrq ==
    ASSUME NEW p, Good(p), NEW w \in Pic, Fixed(p[w])
    PROVE  /\ Wants(p, w) <=> \E l \in p[w].irr : \A m \in p[w].isr : l < m
           /\ Wants(p, w) => /\ PicGetIrq(p, w) \in p[w].irr
                             /\ \A m \in p[w].isr : PicGetIrq(p, w) < m
<1> DEFINE s == p[w]
           irr == s.irr
           isr == s.isr
<1>1. s \in PicState /\ Fixed(s) /\ irr \in SUBSET Line /\ isr \in SUBSET Line
  BY DEF Good, Pair, PicState
<1>2. InService(p, w) = isr /\ s.irr \ s.imr = irr
  BY <1>1 DEF Fixed, InService, PicState
<1>3. irr = {} => GetPriority(s, irr) = LineCount
  BY DEF GetPriority
<1>4. isr = {} => GetPriority(s, isr) = LineCount
  BY DEF GetPriority
<1> DEFINE a == GetPriority(s, irr)
           b == GetPriority(s, isr)
<1>5. irr # {} => a \in irr /\ a \in Line /\ Rotated(s, a) = a /\ \A l \in irr : a <= l
  BY <1>1, FixedPriority
<1>6. isr # {} => b \in isr /\ b \in Line /\ \A l \in isr : b <= l
  BY <1>1, FixedPriority
<1>7. PicGetIrq(p, w) = IF a # LineCount /\ a < b THEN Rotated(s, a) ELSE NoLine
  BY <1>2 DEF PicGetIrq
<1> HIDE DEF s, irr, isr, a, b
<1>8. LineCount \in Nat /\ \A l \in Line : l \in Nat /\ l < LineCount /\ l # NoLine
  BY LinesAssumption DEF Line, NoLine
<1>9. CASE irr = {}
  BY <1>3, <1>7, <1>9 DEF Wants, a, irr, s
<1>10. CASE irr # {} /\ isr = {}
  BY <1>4, <1>5, <1>7, <1>8, <1>10 DEF Wants, b, irr, isr, s
<1>11. CASE irr # {} /\ isr # {}
  <2>1. a \in irr /\ a \in Line /\ Rotated(s, a) = a /\ a # LineCount
    BY <1>5, <1>8, <1>11
  <2>2. b \in isr /\ b \in Line
    BY <1>6, <1>11
  <2>3. CASE a < b
    <3>1. PicGetIrq(p, w) = a /\ Wants(p, w)
      BY <1>7, <1>8, <2>1, <2>3 DEF Wants
    <3>2. \A m \in isr : a < m
      BY <1>1, <1>6, <1>8, <1>11, <2>1, <2>2, <2>3
    <3> QED
      BY <2>1, <3>1, <3>2 DEF irr, isr, s
  <2>4. CASE ~(a < b)
    <3>1. ~Wants(p, w)
      BY <1>7, <2>4 DEF Wants
    <3>2. \A l \in irr : ~(l < b)
      BY <1>1, <1>5, <1>8, <1>11, <2>1, <2>2, <2>4
    <3> QED
      BY <2>2, <3>1, <3>2 DEF irr, isr, s
  <2> QED
    BY <2>3, <2>4
<1> QED
  BY <1>9, <1>10, <1>11

-----------------------------------------------------------------------------
(* The stack of handlers.                                                  *)

\* A handler put on the stack.
LEMMA PushIs ==
    ASSUME NEW hs \in Seq(Handler), NEW h \in Handler
    PROVE  /\ <<h>> \o hs \in Seq(Handler) /\ Len(<<h>> \o hs) = Len(hs) + 1
           /\ (<<h>> \o hs)[1] = h
           /\ \A i \in 1 .. Len(hs) : (<<h>> \o hs)[i + 1] = hs[i]
<1>1. <<h>> \in Seq(Handler) /\ Len(<<h>>) = 1 /\ <<h>>[1] = h
  OBVIOUS
<1> DEFINE t == <<h>>
           s == t \o hs
           n == Len(hs)
<1>2. n \in Nat
  BY LenProperties
<1> HIDE DEF t
<1>3. /\ s \in Seq(Handler) /\ Len(s) = Len(t) + n
      /\ \A i \in 1 .. Len(t) + n : s[i] = IF i <= Len(t) THEN t[i] ELSE hs[i - Len(t)]
  BY <1>1, ConcatProperties DEF t
<1> HIDE DEF s, n
<1>4. Len(t) = 1 /\ t[1] = h
  BY <1>1 DEF t
<1>5. Len(s) = n + 1 /\ s[1] = h
  BY <1>2, <1>3, <1>4
<1>6. ASSUME NEW i \in 1 .. n PROVE s[i + 1] = hs[i]
  <2>1. i + 1 \in 1 .. 1 + n /\ ~(i + 1 <= 1) /\ i + 1 - 1 = i
    BY <1>2
  <2>2. s[i + 1] = hs[i + 1 - 1]
    BY <1>3, <1>4, <2>1
  <2> QED
    BY <2>1, <2>2
<1> QED
  BY <1>3, <1>5, <1>6 DEF s, n, t

\* The stack without its first handler.
LEMMA PopIs ==
    ASSUME NEW hs \in Seq(Handler), hs # <<>>
    PROVE  /\ Tail(hs) \in Seq(Handler) /\ Len(Tail(hs)) = Len(hs) - 1
           /\ Head(hs) = hs[1] /\ Len(hs) \in Nat \ {0} /\ hs[1] \in Handler
           /\ \A i \in 1 .. Len(hs) - 1 : Tail(hs)[i] = hs[i + 1]
<1>1. Len(hs) \in Nat \ {0}
  BY EmptySeq, LenProperties
<1>2. /\ Head(hs) \in Handler /\ Tail(hs) \in Seq(Handler) /\ Len(Tail(hs)) = Len(hs) - 1
      /\ \A i \in 1 .. Len(Tail(hs)) : Tail(hs)[i] = hs[i + 1]
  BY HeadTailProperties
<1>3. Head(hs) = hs[1]
  OBVIOUS
<1> QED
  BY <1>1, <1>2, <1>3

\* The lines in service after a handler is entered.
LEMMA ServedPush ==
    ASSUME NEW p, NEW q, NEW hs, Served(p, hs), NEW h \in Handler,
           h.pic = "master" => h.slaveDone,
           \A w \in Pic : p[w].isr \subseteq Line,
           q["master"].isr = p["master"].isr \cup {MasterLine(h)},
           \A m \in p["master"].isr : MasterLine(h) < m,
           q["slave"].isr = p["slave"].isr \cup {l \in {h.line} : Unfinished(h)}
    PROVE  Served(q, <<h>> \o hs)
<1> DEFINE s == <<h>> \o hs
           n == Len(hs)
<1>1. hs \in Seq(Handler) /\ n \in Nat
  BY LenProperties DEF Served
<1>2. /\ s \in Seq(Handler) /\ Len(s) = n + 1 /\ s[1] = h
      /\ \A i \in 1 .. n : s[i + 1] = hs[i]
  BY <1>1, PushIs
<1> HIDE DEF s, n
<1>3. \A i \in 1 .. n + 1 : i = 1 \/ (i - 1 \in 1 .. n /\ i - 1 + 1 = i)
  BY <1>1
<1>4. \A i \in 1 .. n + 1 : i = 1 \/ (i - 1 \in 1 .. n /\ s[i] = hs[i - 1])
  BY <1>2, <1>3
<1>5. 1 \in 1 .. n + 1 /\ \A i \in 1 .. n : i + 1 \in 1 .. n + 1
  BY <1>1
<1>6. /\ \A i \in 1 .. n : hs[i] \in Handler
      /\ \A i \in 1 .. n : hs[i].pic = "master" => hs[i].slaveDone
      /\ \A i, j \in 1 .. n : i < j => MasterLine(hs[i]) < MasterLine(hs[j])
      /\ \A l \in Line : l \in p["master"].isr <=> \E i \in 1 .. n : MasterLine(hs[i]) = l
      /\ \A l \in Line : l \in p["slave"].isr <=> \E i \in 1 .. n : Unfinished(hs[i]) /\ hs[i].line = l
  BY <1>1 DEF Served, n
<1>7. \A g \in Handler : MasterLine(g) \in Line
  BY CascadeIsLine DEF MasterLine, Handler
<1>8. \A i \in 1 .. n + 1 : s[i].pic = "master" => s[i].slaveDone
  BY <1>2, <1>4, <1>6
<1>9. ASSUME NEW i \in 1 .. n + 1, NEW j \in 1 .. n + 1, i < j
      PROVE  MasterLine(s[i]) < MasterLine(s[j])
  <2>1. j # 1
    BY <1>1, <1>9
  <2>2. j - 1 \in 1 .. n /\ s[j] = hs[j - 1]
    BY <1>4, <2>1
  <2>3. CASE i = 1
    <3>1. MasterLine(hs[j - 1]) \in p["master"].isr
      BY <1>6, <1>7, <2>2
    <3> QED
      BY <1>2, <2>2, <2>3, <3>1
  <2>4. CASE i # 1
    <3>1. i - 1 \in 1 .. n /\ s[i] = hs[i - 1]
      BY <1>4, <2>4
    <3>2. i - 1 < j - 1
      BY <1>1, <1>9
    <3> QED
      BY <1>6, <2>2, <3>1, <3>2
  <2> QED
    BY <2>3, <2>4
<1>10. ASSUME NEW l \in Line
      PROVE  l \in q["master"].isr <=> \E i \in 1 .. n + 1 : MasterLine(s[i]) = l
  <2>1. ASSUME l \in q["master"].isr PROVE \E i \in 1 .. n + 1 : MasterLine(s[i]) = l
    <3>1. CASE l = MasterLine(h)
      BY <1>2, <1>5, <3>1
    <3>2. CASE l \in p["master"].isr
      <4>1. PICK i \in 1 .. n : MasterLine(hs[i]) = l
        BY <1>6, <3>2
      <4> QED
        BY <1>2, <1>5, <4>1
    <3> QED
      BY <2>1, <3>1, <3>2
  <2>2. ASSUME NEW i \in 1 .. n + 1, MasterLine(s[i]) = l PROVE l \in q["master"].isr
    BY <1>2, <1>4, <1>6, <2>2
  <2> QED
    BY <2>1, <2>2
<1>11. ASSUME NEW l \in Line
       PROVE  l \in q["slave"].isr <=> \E i \in 1 .. n + 1 : Unfinished(s[i]) /\ s[i].line = l
  <2>1. ASSUME l \in q["slave"].isr
        PROVE  \E i \in 1 .. n + 1 : Unfinished(s[i]) /\ s[i].line = l
    <3>1. CASE l = h.line /\ Unfinished(h)
      BY <1>2, <1>5, <3>1
    <3>2. CASE l \in p["slave"].isr
      <4>1. PICK i \in 1 .. n : Unfinished(hs[i]) /\ hs[i].line = l
        BY <1>6, <3>2
      <4> QED
        BY <1>2, <1>5, <4>1
    <3> QED
      BY <2>1, <3>1, <3>2
  <2>2. ASSUME NEW i \in 1 .. n + 1, Unfinished(s[i]) /\ s[i].line = l PROVE l \in q["slave"].isr
    BY <1>2, <1>4, <1>6, <2>2
  <2> QED
    BY <2>1, <2>2
<1> QED
  BY <1>2, <1>8, <1>9, <1>10, <1>11 DEF Served, s

\* The lines in service after the innermost handler's last EOI.
LEMMA ServedPop ==
    ASSUME NEW p, NEW q, NEW hs, Served(p, hs), hs # <<>>, ~Unfinished(Head(hs)),
           q["master"].isr = p["master"].isr \ {MasterLine(Head(hs))},
           q["slave"].isr = p["slave"].isr
    PROVE  Served(q, Tail(hs))
<1> DEFINE s == Tail(hs)
           n == Len(hs)
           h == Head(hs)
<1>1. hs \in Seq(Handler)
  BY DEF Served
<1>2. /\ s \in Seq(Handler) /\ Len(s) = n - 1 /\ h = hs[1] /\ n \in Nat \ {0}
      /\ \A i \in 1 .. n - 1 : s[i] = hs[i + 1]
  BY <1>1, PopIs
<1>3. ~Unfinished(h) /\ q["master"].isr = p["master"].isr \ {MasterLine(h)}
  OBVIOUS
<1>4. /\ \A i \in 1 .. n : hs[i] \in Handler
      /\ \A i \in 1 .. n : hs[i].pic = "master" => hs[i].slaveDone
      /\ \A i, j \in 1 .. n : i < j => MasterLine(hs[i]) < MasterLine(hs[j])
      /\ \A l \in Line : l \in p["master"].isr <=> \E i \in 1 .. n : MasterLine(hs[i]) = l
      /\ \A l \in Line : l \in p["slave"].isr <=> \E i \in 1 .. n : Unfinished(hs[i]) /\ hs[i].line = l
  BY <1>1 DEF Served
<1> HIDE DEF s, n, h
<1>5. /\ \A i \in 1 .. n - 1 : i + 1 \in 1 .. n /\ 1 < i + 1
      /\ \A i, j \in 1 .. n - 1 : i < j => i + 1 < j + 1
      /\ \A i \in 1 .. n : i # 1 => i - 1 \in 1 .. n - 1 /\ i - 1 + 1 = i
      /\ 1 \in 1 .. n
  BY <1>2
<1>6. \A i \in 1 .. n : i # 1 => i - 1 \in 1 .. n - 1 /\ s[i - 1] = hs[i]
  BY <1>2, <1>5
<1>7. \A g \in Handler : MasterLine(g) \in Line /\ MasterLine(g) \in Int
  BY CascadeIsLine DEF MasterLine, Handler, Line
<1>8. \A i \in 1 .. n - 1 : MasterLine(hs[i + 1]) # MasterLine(h)
  <2>1. \A i \in 1 .. n - 1 : MasterLine(h) < MasterLine(hs[i + 1])
    BY <1>2, <1>4, <1>5
  <2> QED
    BY <1>2, <1>4, <1>5, <1>7, <2>1
<1>9. \A i \in 1 .. n - 1 : s[i].pic = "master" => s[i].slaveDone
  BY <1>2, <1>4, <1>5
<1>10. \A i, j \in 1 .. n - 1 : i < j => MasterLine(s[i]) < MasterLine(s[j])
  BY <1>2, <1>4, <1>5
<1>11. ASSUME NEW l \in Line
       PROVE  l \in q["master"].isr <=> \E i \in 1 .. n - 1 : MasterLine(s[i]) = l
  <2>1. ASSUME l \in q["master"].isr PROVE \E i \in 1 .. n - 1 : MasterLine(s[i]) = l
    <3>1. PICK i \in 1 .. n : MasterLine(hs[i]) = l
      BY <1>3, <1>4, <2>1
    <3>2. i # 1
      BY <1>2, <1>3, <2>1, <3>1
    <3> QED
      BY <1>6, <3>1, <3>2
  <2>2. ASSUME NEW i \in 1 .. n - 1, MasterLine(s[i]) = l PROVE l \in q["master"].isr
    <3>1. MasterLine(hs[i + 1]) = l /\ i + 1 \in 1 .. n
      BY <1>2, <1>5, <2>2
    <3>2. l # MasterLine(h)
      BY <1>8, <3>1
    <3> QED
      BY <1>3, <1>4, <3>1, <3>2
  <2> QED
    BY <2>1, <2>2
<1>12. ASSUME NEW l \in Line
       PROVE  l \in q["slave"].isr <=> \E i \in 1 .. n - 1 : Unfinished(s[i]) /\ s[i].line = l
  <2>1. ASSUME l \in q["slave"].isr
        PROVE  \E i \in 1 .. n - 1 : Unfinished(s[i]) /\ s[i].line = l
    <3>1. PICK i \in 1 .. n : Unfinished(hs[i]) /\ hs[i].line = l
      BY <1>4, <2>1
    <3>2. i # 1
      BY <1>2, <1>3, <3>1
    <3> QED
      BY <1>6, <3>1, <3>2
  <2>2. ASSUME NEW i \in 1 .. n - 1, Unfinished(s[i]) /\ s[i].line = l PROVE l \in q["slave"].isr
    <3>1. Unfinished(hs[i + 1]) /\ hs[i + 1].line = l /\ i + 1 \in 1 .. n
      BY <1>2, <1>5, <2>2
    <3> QED
      BY <1>4, <3>1
  <2> QED
    BY <2>1, <2>2
<1> QED
  BY <1>2, <1>9, <1>10, <1>11, <1>12 DEF Served, s

\* There is one handler of the slave at a time, because the cascade line is in
\* service for it.
LEMMA OneSlaveHandler ==
    ASSUME NEW p, NEW hs, Served(p, hs), NEW i \in 1 .. Len(hs), NEW j \in 1 .. Len(hs),
           hs[i].pic # "master", hs[j].pic # "master"
    PROVE  i = j
<1>1. Len(hs) \in Nat
  BY LenProperties DEF Served
<1>2. MasterLine(hs[i]) = Cascade /\ MasterLine(hs[j]) = Cascade
  BY DEF MasterLine
<1>3. ~(i < j) /\ ~(j < i)
  <2>1. i < j => Cascade < Cascade
    BY <1>2 DEF Served
  <2>2. j < i => Cascade < Cascade
    BY <1>2 DEF Served
  <2> QED
    BY <2>1, <2>2 DEF Cascade
<1> QED
  BY <1>1, <1>3

\* The innermost handler has sent the slave's EOI.
LEMMA ServedDone ==
    ASSUME NEW p, NEW q, NEW hs, Served(p, hs), hs # <<>>, Unfinished(Head(hs)),
           q["master"].isr = p["master"].isr,
           q["slave"].isr = p["slave"].isr \ {Head(hs).line}
    PROVE  Served(q, [hs EXCEPT ![1].slaveDone = TRUE])
<1> DEFINE n == Len(hs)
           g == [hs[1] EXCEPT !.slaveDone = TRUE]
           s == [hs EXCEPT ![1].slaveDone = TRUE]
<1>1. hs \in Seq(Handler)
  BY DEF Served
<1>2. n \in Nat \ {0} /\ Head(hs) = hs[1] /\ hs[1] \in Handler
  BY <1>1, PopIs
<1>3. /\ g \in Handler /\ g.pic = hs[1].pic /\ g.line = hs[1].line /\ g.slaveDone = TRUE
      /\ MasterLine(g) = MasterLine(hs[1]) /\ ~Unfinished(g)
  BY <1>2 DEF Handler, MasterLine, Unfinished
<1>4. s = [hs EXCEPT ![1] = g]
  OBVIOUS
<1> HIDE DEF g, s
<1>5. s \in Seq(Handler) /\ Len(s) = n /\ \A i \in 1 .. n : s[i] = IF i = 1 THEN g ELSE hs[i]
  BY <1>1, <1>2, <1>3, <1>4, ExceptSeq
<1>6. Unfinished(hs[1]) /\ q["slave"].isr = p["slave"].isr \ {hs[1].line}
  BY <1>2
<1>7. /\ \A i \in 1 .. n : hs[i] \in Handler
      /\ \A i \in 1 .. n : hs[i].pic = "master" => hs[i].slaveDone
      /\ \A i, j \in 1 .. n : i < j => MasterLine(hs[i]) < MasterLine(hs[j])
      /\ \A l \in Line : l \in p["master"].isr <=> \E i \in 1 .. n : MasterLine(hs[i]) = l
      /\ \A l \in Line : l \in p["slave"].isr <=> \E i \in 1 .. n : Unfinished(hs[i]) /\ hs[i].line = l
  BY <1>1 DEF Served
<1>8. \A i \in 1 .. n : Unfinished(hs[i]) => i = 1
  <2>1. 1 \in 1 .. n
    BY <1>2
  <2> QED
    BY <1>6, <2>1, OneSlaveHandler DEF Unfinished
<1> HIDE DEF n
<1>9. \A i \in 1 .. n : MasterLine(s[i]) = MasterLine(hs[i]) /\ ~Unfinished(s[i])
  BY <1>3, <1>5, <1>8
<1>10. \A i \in 1 .. n : s[i].pic = "master" => s[i].slaveDone
  BY <1>3, <1>5, <1>7
<1>11. \A l \in Line : l \notin q["slave"].isr
  BY <1>6, <1>7, <1>8
<1>12. \A l \in Line : l \in q["master"].isr <=> \E i \in 1 .. n : MasterLine(s[i]) = l
  BY <1>7, <1>9
<1>13. \A i, j \in 1 .. n : i < j => MasterLine(s[i]) < MasterLine(s[j])
  BY <1>7, <1>9
<1> QED
  BY <1>5, <1>9, <1>10, <1>11, <1>12, <1>13 DEF Served, s

-----------------------------------------------------------------------------
(* The steps of devices and handlers.                                      *)

\* A request stays active when requests come and services end.
LEMMA WantsStays ==
    ASSUME NEW p, Good(p), NEW q, Good(q), NEW w \in Pic, Fixed(p[w]), Fixed(q[w]),
           p[w].irr \subseteq q[w].irr, q[w].isr \subseteq p[w].isr, Wants(p, w)
    PROVE  Wants(q, w)
<1>1. PICK l \in p[w].irr : \A m \in p[w].isr : l < m
  BY FixedGetIrq
<1>2. l \in q[w].irr /\ \A m \in q[w].isr : l < m
  BY <1>1
<1> QED
  BY <1>2, FixedGetIrq

\* Who is served depends on the lines in service only.
LEMMA ServedOfSame ==
    ASSUME NEW p, NEW q, NEW hs, Served(p, hs),
           \A w \in Pic : q[w].isr = p[w].isr
    PROVE  Served(q, hs)
BY DEF Served, Pic

\* What pic_update_irq leaves of controllers that are in order.
LEMMA UpdateKeepsOrder ==
    ASSUME NEW p, Good(p), \A w \in Pic : Fixed(p[w]),
           Cascade \in p["master"].irr => Wants(p, "slave"),
           NEW q, q = PicUpdateIrq(p), NEW hs, Served(p, hs)
    PROVE  /\ Good(q) /\ \A w \in Pic : Fixed(q[w])
           /\ Cascade \in q["master"].irr => Wants(q, "slave")
           /\ Wants(p, "master") => Wants(q, "master")
           /\ Served(q, hs)
           /\ \A w \in Pic : q[w].isr = p[w].isr /\ q[w].last_irr = p[w].last_irr
<1>1. Good(q)
  BY UpdateIsGood
<1>2. \A w \in Pic : /\ SameService(p[w], q[w]) /\ q[w].last_irr = p[w].last_irr
                     /\ q[w].irr = IF w = "master" /\ Wants(p, "slave")
                                   THEN p[w].irr \cup {Cascade} ELSE p[w].irr
  BY UpdateKeeps
<1>3. \A w \in Pic : /\ Fixed(q[w]) /\ p[w].irr \subseteq q[w].irr /\ q[w].isr = p[w].isr
  <2>1. ASSUME NEW w \in Pic PROVE Fixed(q[w]) /\ q[w].isr = p[w].isr
    <3>1. SameService(p[w], q[w]) /\ Fixed(p[w])
      BY <1>2
    <3> QED
      BY <3>1 DEF SameService, Fixed
  <2>2. ASSUME NEW w \in Pic PROVE p[w].irr \subseteq q[w].irr
    BY <1>2
  <2> QED
    BY <2>1, <2>2
<1>4. \A w \in Pic : Wants(p, w) => Wants(q, w)
  BY <1>1, <1>3, WantsStays
<1>5. Cascade \in q["master"].irr => Wants(p, "slave")
  BY <1>2 DEF Pic
<1>6. Served(q, hs)
  BY <1>3, ServedOfSame
<1> QED
  BY <1>1, <1>2, <1>3, <1>4, <1>5, <1>6 DEF Pic

\* An operation that takes no request away and ends in pic_update_irq.
LEMMA SettleKeeps ==
    ASSUME HInv, NEW p, Good(p), \A w \in Pic : Fixed(p[w]),
           \A w \in Pic : pics[w].irr \subseteq p[w].irr /\ p[w].isr \subseteq pics[w].isr,
           Cascade \in p["master"].irr => Cascade \in pics["master"].irr,
           Served(p, handlers'), Settle(p)
    PROVE  HInv' /\ \A w \in Pic : pics'[w].isr = p[w].isr
<1>1. Good(pics) /\ \A w \in Pic : Fixed(pics[w])
  BY DEF HInv
<1>2. \A w \in Pic : Wants(pics, w) => Wants(p, w)
  BY <1>1, WantsStays
<1>3. Cascade \in p["master"].irr => Wants(p, "slave")
  BY <1>2 DEF HInv, Pic
<1>4. pics' = PicUpdateIrq(p) /\ intr' = (intr \/ Wants(pics', "master"))
  BY DEF Settle
<1> DEFINE q == pics'
           hs == handlers'
<1>5. q = PicUpdateIrq(p) /\ Served(p, hs)
  BY <1>4
<1> HIDE DEF q, hs
<1>6. /\ Good(q) /\ \A w \in Pic : Fixed(q[w])
      /\ Cascade \in q["master"].irr => Wants(q, "slave")
      /\ Wants(p, "master") => Wants(q, "master")
      /\ Served(q, hs)
      /\ \A w \in Pic : q[w].isr = p[w].isr
  BY <1>3, <1>5, UpdateKeepsOrder
<1>7. intr' \in BOOLEAN /\ (intr' => Wants(q, "master"))
  <2>1. intr => Wants(q, "master")
    BY <1>2, <1>6 DEF HInv, Pic
  <2>2. intr \in BOOLEAN
    BY DEF HInv
  <2> QED
    BY <1>4, <2>1, <2>2 DEF q, Wants
<1> QED
  BY <1>6, <1>7 DEF HInv, q, hs

\* A device makes an edge.
LEMMA SetIrqKeepsOrder ==
    ASSUME HInv, NEW d \in DevLine, NEW level \in BOOLEAN, SetIrq(d[1], d[2], level),
           handlers' = handlers
    PROVE  HInv' /\ \A w \in Pic : pics'[w].isr = pics[w].isr
<1> DEFINE w == d[1]
           l == d[2]
           s == PicSetIrq1(pics[w], l, level)
           p == [pics EXCEPT ![w] = s]
<1>1. w \in Pic /\ l \in Line /\ (w = "master" => l # Cascade)
  BY LinesAssumption
<1>2. Settle(p)
  BY DEF SetIrq
<1> HIDE DEF w, l
<1>3. Good(pics) /\ pics \in Pair /\ pics[w] \in PicState /\ \A v \in Pic : Fixed(pics[v])
  BY <1>1 DEF HInv, Good, Pair
<1>4. /\ s \in PicState /\ SameService(pics[w], s)
      /\ s.irr = pics[w].irr \/ s.irr = pics[w].irr \cup {l}
      /\ s.last_irr = IF level THEN pics[w].last_irr \cup {l} ELSE pics[w].last_irr \ {l}
  BY <1>1, <1>3, SetIrq1Is
<1> HIDE DEF s
<1>5. Fixed(s) /\ s.isr = pics[w].isr
  BY <1>1, <1>3, <1>4 DEF SameService, Fixed
<1>6. Good(p)
  <2>1. w = "master" => Cascade \notin s.last_irr
    BY <1>1, <1>3, <1>4 DEF Good, CascadeLow
  <2> QED
    BY <1>1, <1>3, <1>4, <2>1, ReplaceIsGood
<1>7. \A v \in Pic : p[v] = IF v = w THEN s ELSE pics[v]
  BY <1>3 DEF Pair
<1> HIDE DEF p
<1>8. /\ \A v \in Pic : Fixed(p[v])
      /\ \A v \in Pic : pics[v].irr \subseteq p[v].irr /\ p[v].isr = pics[v].isr
      /\ Cascade \in p["master"].irr => Cascade \in pics["master"].irr
  BY <1>1, <1>3, <1>4, <1>5, <1>7 DEF Pic
<1>9. Served(p, handlers')
  BY <1>8, ServedOfSame DEF HInv
<1> QED
  BY <1>2, <1>6, <1>8, <1>9, SettleKeeps

\* An EOI ends the least line in service.
LEMMA EoiIs ==
    ASSUME HInv, NEW w \in Pic, NonSpecificEoi(w, FALSE), NEW l \in pics[w].isr,
           \A m \in pics[w].isr : l <= m
    PROVE  /\ Settle(EndService(w, l)) /\ Good(EndService(w, l))
           /\ \A v \in Pic : /\ Fixed(EndService(w, l)[v])
                             /\ EndService(w, l)[v].irr = pics[v].irr
                             /\ EndService(w, l)[v].isr = IF v = w THEN pics[v].isr \ {l}
                                                          ELSE pics[v].isr
<1>1. Good(pics) /\ pics \in Pair /\ pics[w] \in PicState /\ \A v \in Pic : Fixed(pics[v])
  BY DEF HInv, Good, Pair
<1>2. pics[w].isr \in SUBSET Line
  BY <1>1 DEF PicState
<1>3. TopInService(w) = l
  <2> DEFINE t == TopInService(w)
  <2>1. t \in pics[w].isr /\ \A m \in pics[w].isr : t <= m
    BY <1>1, <1>2, FixedPriority DEF TopInService
  <2> HIDE DEF t
  <2>2. t \in Int /\ l \in Int /\ t <= l /\ l <= t
    BY <1>2, <2>1 DEF Line
  <2> QED
    BY <2>2 DEF t
<1>4. Settle(EndService(w, l))
  BY <1>3 DEF NonSpecificEoi
<1> DEFINE i == pics[w].isr \ {l}
           s == [pics[w] EXCEPT !.isr = i]
<1>5. i \in SUBSET Line
  BY <1>2
<1>6. EndService(w, l) = [pics EXCEPT ![w] = s]
  BY DEF EndService
<1> HIDE DEF i
<1>7. /\ s \in PicState /\ s.irr = pics[w].irr /\ s.last_irr = pics[w].last_irr /\ s.isr = i
      /\ Fixed(s)
  BY <1>1, <1>5 DEF PicState, Fixed
<1> HIDE DEF s
<1>8. Good(EndService(w, l))
  <2>1. w = "master" => Cascade \notin s.last_irr
    BY <1>1, <1>7 DEF Good, CascadeLow
  <2>2. Good([pics EXCEPT ![w] = s])
    BY <1>1, <1>7, <2>1, ReplaceIsGood
  <2> QED
    BY <1>6, <2>2
<1> QED
  BY <1>1, <1>4, <1>6, <1>7, <1>8 DEF Pair, i

\* The slave's EOI: the one line of the slave in service is the handler's.
LEMMA SlaveEoiKeeps ==
    ASSUME HInv, SlaveEoi
    PROVE  /\ HInv' /\ Head(handlers).pic = "slave"
           /\ pics'["slave"].isr = pics["slave"].isr \ {Head(handlers).line}
           /\ pics'["master"].isr = pics["master"].isr
<1> DEFINE h == Head(handlers)
           l == h.line
           p == EndService("slave", l)
<1>1. /\ handlers \in Seq(Handler) /\ handlers # <<>> /\ ~h.slaveDone /\ Served(pics, handlers)
      /\ NonSpecificEoi("slave", FALSE)
      /\ handlers' = [handlers EXCEPT ![1].slaveDone = TRUE]
  BY DEF SlaveEoi, HInv, Served
<1>2. h = handlers[1] /\ Len(handlers) \in Nat \ {0} /\ h \in Handler /\ 1 \in 1 .. Len(handlers)
  BY <1>1, PopIs
<1>3. h.pic = "slave" /\ Unfinished(h) /\ l \in Line
  <2>1. h.pic = "master" => h.slaveDone
    BY <1>1, <1>2 DEF Served
  <2> QED
    BY <1>1, <1>2, <2>1 DEF Unfinished, Handler, Pic
<1>4. l \in pics["slave"].isr
  BY <1>1, <1>2, <1>3 DEF Served
<1>5. ASSUME NEW m \in pics["slave"].isr PROVE m = l
  <2>1. m \in Line
    BY DEF HInv, Good, Pair, PicState, Pic
  <2>2. PICK i \in 1 .. Len(handlers) : Unfinished(handlers[i]) /\ handlers[i].line = m
    BY <1>1, <2>1 DEF Served
  <2>3. i = 1
    BY <1>1, <1>2, <1>3, <2>2, OneSlaveHandler DEF Unfinished
  <2> QED
    BY <1>2, <2>2, <2>3
<1>6. \A m \in pics["slave"].isr : l <= m
  BY <1>3, <1>5 DEF Line
<1> HIDE DEF l
<1>7. /\ Settle(p) /\ Good(p)
      /\ \A v \in Pic : /\ Fixed(p[v]) /\ p[v].irr = pics[v].irr
                        /\ p[v].isr = IF v = "slave" THEN pics[v].isr \ {l} ELSE pics[v].isr
  BY <1>1, <1>4, <1>6, EoiIs DEF Pic
<1> HIDE DEF p
<1>8. p["master"].isr = pics["master"].isr /\ p["slave"].isr = pics["slave"].isr \ {l}
  BY <1>7 DEF Pic
<1>9. Served(p, handlers')
  BY <1>1, <1>3, <1>8, ServedDone DEF l
<1>10. HInv' /\ \A w \in Pic : pics'[w].isr = p[w].isr
  BY <1>7, <1>9, SettleKeeps DEF Pic
<1> QED
  BY <1>3, <1>8, <1>10 DEF l, Pic

\* The master's EOI: the least line in service is that of the innermost
\* handler, or the cascade line it came by.
LEMMA MasterEoiKeeps ==
    ASSUME HInv, MasterEoi
    PROVE  /\ HInv'
           /\ pics'["master"].isr = pics["master"].isr \ {MasterLine(Head(handlers))}
           /\ pics'["slave"].isr = pics["slave"].isr
<1> DEFINE h == Head(handlers)
           l == MasterLine(h)
           p == EndService("master", l)
<1>1. /\ handlers \in Seq(Handler) /\ handlers # <<>> /\ h.slaveDone /\ Served(pics, handlers)
      /\ NonSpecificEoi("master", FALSE) /\ handlers' = Tail(handlers)
  BY DEF MasterEoi, HInv, Served
<1>2. h = handlers[1] /\ Len(handlers) \in Nat \ {0} /\ h \in Handler /\ 1 \in 1 .. Len(handlers)
  BY <1>1, PopIs
<1>3. ~Unfinished(h) /\ l \in Line
  BY <1>1, <1>2, CascadeIsLine DEF Unfinished, MasterLine, Handler
<1>4. l \in pics["master"].isr
  BY <1>1, <1>2, <1>3 DEF Served
<1>5. ASSUME NEW m \in pics["master"].isr PROVE l <= m
  <2>1. m \in Line
    BY DEF HInv, Good, Pair, PicState, Pic
  <2>2. PICK i \in 1 .. Len(handlers) : MasterLine(handlers[i]) = m
    BY <1>1, <2>1 DEF Served
  <2>3. CASE i = 1
    BY <1>2, <1>3, <2>2, <2>3 DEF Line
  <2>4. CASE 1 < i
    <3>1. MasterLine(handlers[1]) < MasterLine(handlers[i])
      BY <1>1, <1>2, <2>4 DEF Served
    <3> QED
      BY <1>2, <1>3, <2>1, <2>2, <3>1 DEF Line
  <2> QED
    BY <1>2, <2>3, <2>4
<1> HIDE DEF l
<1>6. /\ Settle(p) /\ Good(p)
      /\ \A v \in Pic : /\ Fixed(p[v]) /\ p[v].irr = pics[v].irr
                        /\ p[v].isr = IF v = "master" THEN pics[v].isr \ {l} ELSE pics[v].isr
  BY <1>1, <1>4, <1>5, EoiIs DEF Pic
<1> HIDE DEF p
<1>7. p["master"].isr = pics["master"].isr \ {l} /\ p["slave"].isr = pics["slave"].isr
  BY <1>6 DEF Pic
<1>8. Served(p, handlers')
  BY <1>1, <1>3, <1>7, ServedPop DEF l
<1>9. HInv' /\ \A w \in Pic : pics'[w].isr = p[w].isr
  BY <1>6, <1>8, SettleKeeps DEF Pic
<1> QED
  BY <1>7, <1>9 DEF l, Pic

\* What an acknowledge leaves when a request is active and the cascade line, if
\* it is taken, is requested for good reason.
LEMMA TakenIs ==
    ASSUME HInv, Wants(pics, "master"),
           NEW a, a = Acknowledged(pics), NEW p, p = a.p,
           NEW h, h = [pic |-> a.vec.pic, line |-> a.vec.line,
                       slaveDone |-> a.vec.pic = "master"]
    PROVE  /\ Good(p) /\ \A w \in Pic : Fixed(p[w])
           /\ Cascade \in p["master"].irr => Wants(p, "slave")
           /\ h \in Handler /\ (h.pic = "master" => h.slaveDone)
           /\ p["master"].isr = pics["master"].isr \cup {MasterLine(h)}
           /\ \A m \in pics["master"].isr : MasterLine(h) < m
           /\ p["slave"].isr = pics["slave"].isr \cup {l \in {h.line} : Unfinished(h)}
           /\ Unfinished(h) => \A m \in pics["slave"].isr : h.line < m
<1> DEFINE irq  == PicGetIrq(pics, "master")
           s    == PicIntack(pics["master"], irq)
           q    == [pics EXCEPT !["master"] = s]
           irq2 == PicGetIrq(q, "slave")
           t    == PicIntack(q["slave"], irq2)
           r    == [q EXCEPT !["slave"] = t]
<1>1. /\ Good(pics) /\ pics \in Pair /\ \A w \in Pic : Fixed(pics[w]) /\ pics[w] \in PicState
      /\ "master" \in Pic /\ "slave" \in Pic
  BY DEF HInv, Good, Pair, Pic
<1>2. irq \in pics["master"].irr /\ irq \in Line /\ irq # NoLine
      /\ \A m \in pics["master"].isr : irq < m
  <2>1. irq \in pics["master"].irr /\ \A m \in pics["master"].isr : irq < m
    BY <1>1, FixedGetIrq
  <2>2. irq \in Line
    BY <1>1, <2>1 DEF PicState
  <2> QED
    BY <2>1, <2>2 DEF Wants
<1>3. Good(p)
  BY <1>1, AcknowledgedIsGood
<1>4. a = IF irq # Cascade
          THEN [p |-> q, vec |-> [pic |-> "master", line |-> irq, spurious |-> FALSE]]
          ELSE IF irq2 = NoLine
          THEN [p |-> q, vec |-> [pic |-> "slave", line |-> LineCount - 1, spurious |-> TRUE]]
          ELSE [p |-> r, vec |-> [pic |-> "slave", line |-> irq2, spurious |-> FALSE]]
  <2>1. a = Acknowledged(pics)
    OBVIOUS
  <2>2. irq # NoLine
    BY <1>2
  <2> QED
    BY <2>1, <2>2, Zenon DEF Acknowledged
<1> HIDE DEF irq
<1>5. Good(q)
  BY <1>1, <1>2, IntackIsGood
<1>6. /\ s.irr = pics["master"].irr \ {irq} /\ s.isr = pics["master"].isr \cup {irq} /\ Fixed(s)
  <2>1. ~pics["master"].auto_eoi
    BY <1>1 DEF Fixed
  <2> QED
    BY <1>1, <1>2, <2>1, IntackIs DEF Fixed
<1> HIDE DEF s
<1>7. q["master"] = s /\ q["slave"] = pics["slave"]
  BY <1>1 DEF Pair
<1> HIDE DEF q
<1>8. \A w \in Pic : Fixed(q[w])
  BY <1>1, <1>6, <1>7 DEF Pic
<1>9. Wants(pics, "slave") => Wants(q, "slave")
  BY <1>1, <1>5, <1>7, <1>8, WantsStays
<1>10. CASE irq # Cascade
  <2>1. p = q /\ a.vec.pic = "master" /\ a.vec.line = irq
    BY <1>4, <1>10
  <2>2. h.pic = "master" /\ h.line = irq /\ h.slaveDone = TRUE /\ h = [pic |-> "master", line |-> irq, slaveDone |-> TRUE]
    BY <2>1
  <2>3. h \in Handler
    BY <1>1, <1>2, <2>2 DEF Handler
  <2>4. MasterLine(h) = irq /\ ~Unfinished(h)
    BY <2>2 DEF MasterLine, Unfinished
  <2>5. Cascade \in p["master"].irr => Wants(p, "slave")
    BY <1>6, <1>7, <1>9, <2>1 DEF HInv
  <2>6. p["slave"].isr = pics["slave"].isr \cup {l \in {h.line} : Unfinished(h)}
    BY <1>7, <2>1, <2>4
  <2>7. p["master"].isr = pics["master"].isr \cup {MasterLine(h)}
    BY <1>6, <1>7, <2>1, <2>4
  <2> QED
    BY <1>2, <1>3, <1>8, <2>1, <2>2, <2>3, <2>4, <2>5, <2>6, <2>7
<1>11. CASE irq = Cascade
  <2>1. Wants(q, "slave")
    BY <1>2, <1>9, <1>11 DEF HInv
  <2>2. /\ irq2 \in q["slave"].irr /\ irq2 \in Line /\ irq2 # NoLine
        /\ \A m \in q["slave"].isr : irq2 < m
    <3>1. irq2 \in q["slave"].irr /\ \A m \in q["slave"].isr : irq2 < m
      BY <1>1, <1>5, <1>8, <2>1, FixedGetIrq
    <3>2. irq2 \in Line
      BY <1>1, <1>7, <3>1 DEF PicState
    <3> QED
      BY <2>1, <3>1, <3>2 DEF Wants
  <2> HIDE DEF irq2
  <2>3. p = r /\ a.vec.pic = "slave" /\ a.vec.line = irq2
    BY <1>4, <1>11, <2>2
  <2>4. t.isr = q["slave"].isr \cup {irq2} /\ Fixed(t)
    <3>1. ~q["slave"].auto_eoi /\ q["slave"] \in PicState
      BY <1>1, <1>7 DEF Fixed
    <3> QED
      BY <1>1, <1>8, <2>2, <3>1, IntackIs DEF Fixed
  <2> HIDE DEF t
  <2>5. r["master"] = s /\ r["slave"] = t
    BY <1>1, <1>5, <1>7 DEF Good, Pair
  <2> HIDE DEF r
  <2>6. h.pic = "slave" /\ h.line = irq2 /\ h.slaveDone = FALSE /\ h = [pic |-> "slave", line |-> irq2, slaveDone |-> FALSE]
    BY <2>3
  <2>7. h \in Handler
    BY <1>1, <2>2, <2>6 DEF Handler
  <2>8. MasterLine(h) = irq /\ Unfinished(h)
    BY <1>11, <2>6 DEF MasterLine, Unfinished
  <2>9. Cascade \notin p["master"].irr
    BY <1>6, <1>11, <2>3, <2>5
  <2>10. p["slave"].isr = pics["slave"].isr \cup {l \in {h.line} : Unfinished(h)}
    BY <1>7, <2>3, <2>4, <2>5, <2>6, <2>8
  <2>11. p["master"].isr = pics["master"].isr \cup {MasterLine(h)}
    BY <1>6, <2>3, <2>5, <2>8
  <2>12. \A w \in Pic : Fixed(p[w])
    BY <1>6, <2>3, <2>4, <2>5 DEF Pic
  <2>13. \A m \in pics["slave"].isr : h.line < m
    BY <1>7, <2>2, <2>6
  <2> QED
    BY <1>2, <1>3, <2>6, <2>7, <2>8, <2>9, <2>10, <2>11, <2>12, <2>13
<1> QED
  BY <1>10, <1>11

\* The CPU takes an interrupt and enters its handler.
LEMMA EnterKeeps ==
    ASSUME HInv, Enter
    PROVE  /\ HInv'
           /\ \A w \in Pic : \A l \in pics'[w].isr \ pics[w].isr : \A m \in pics[w].isr : l < m
           /\ \A w \in Pic : pics[w].isr \subseteq pics'[w].isr
<1> DEFINE a == Acknowledged(pics)
           p == a.p
           h == [pic |-> a.vec.pic, line |-> a.vec.line, slaveDone |-> a.vec.pic = "master"]
           q == pics'
           hs == handlers'
<1>1. /\ q = PicUpdateIrq(p) /\ intr' = Wants(q, "master") /\ intr
      /\ hs = <<h>> \o handlers
  BY DEF Enter, TakeInterrupt
<1>2. Wants(pics, "master")
  BY <1>1 DEF HInv
<1>3. /\ Good(p) /\ \A w \in Pic : Fixed(p[w])
      /\ Cascade \in p["master"].irr => Wants(p, "slave")
      /\ h \in Handler /\ (h.pic = "master" => h.slaveDone)
      /\ p["master"].isr = pics["master"].isr \cup {MasterLine(h)}
      /\ \A m \in pics["master"].isr : MasterLine(h) < m
      /\ p["slave"].isr = pics["slave"].isr \cup {l \in {h.line} : Unfinished(h)}
      /\ Unfinished(h) => \A m \in pics["slave"].isr : h.line < m
  BY <1>2, TakenIs
<1> HIDE DEF a, p, h, q, hs
<1>4. \A w \in Pic : pics[w].isr \subseteq Line
  BY DEF HInv, Good, Pair, PicState
<1>5. Served(p, hs)
  <2>1. Served(pics, handlers)
    BY DEF HInv
  <2>2. Served(p, <<h>> \o handlers)
    BY <1>3, <1>4, <2>1, ServedPush
  <2> QED
    BY <1>1, <2>2
<1>6. /\ Good(q) /\ \A w \in Pic : Fixed(q[w])
      /\ Cascade \in q["master"].irr => Wants(q, "slave")
      /\ Served(q, hs)
      /\ \A w \in Pic : q[w].isr = p[w].isr
  BY <1>1, <1>3, <1>5, UpdateKeepsOrder
<1>7. intr' \in BOOLEAN /\ (intr' => Wants(q, "master"))
  BY <1>1 DEF Wants
<1>8. HInv'
  BY <1>6, <1>7 DEF HInv, q, hs
<1>9. /\ q["master"].isr = pics["master"].isr \cup {MasterLine(h)}
      /\ q["slave"].isr = pics["slave"].isr \cup {l \in {h.line} : Unfinished(h)}
  BY <1>3, <1>6 DEF Pic
<1>10. ASSUME NEW w \in Pic, NEW l \in q[w].isr \ pics[w].isr, NEW m \in pics[w].isr
       PROVE  l < m
  BY <1>3, <1>9, <1>10 DEF Pic
<1>11. \A w \in Pic : pics[w].isr \subseteq q[w].isr
  BY <1>9 DEF Pic
<1> QED
  BY <1>8, <1>10, <1>11 DEF q

\* Before the first interrupt.
LEMMA GuestInitIsGood == GuestInit => HInv
<1> SUFFICES ASSUME GuestInit PROVE HInv
  OBVIOUS
<1>1. pics = [w \in Pic |-> PicReset] /\ intr = FALSE /\ handlers = <<>>
  BY DEF GuestInit, Init
<1>2. IInv
  BY InitIsGood DEF GuestInit
<1>3. Good(pics)
  BY <1>2 DEF IInv, TypeOK, Good, Pair
<1>4. \A w \in Pic : Fixed(pics[w]) /\ pics[w].isr = {} /\ pics[w].irr = {}
  BY <1>1 DEF PicReset, Fixed
<1>5. Served(pics, handlers)
  <2>1. handlers \in Seq(Handler) /\ Len(handlers) = 0
    BY <1>1
  <2>2. 1 .. Len(handlers) = {}
    BY <2>1
  <2>3. pics["master"].isr = {} /\ pics["slave"].isr = {}
    BY <1>4 DEF Pic
  <2> QED
    BY <2>1, <2>2, <2>3 DEF Served
<1> QED
  BY <1>1, <1>3, <1>4, <1>5 DEF HInv, Pic

\* The edges of devices.
LEMMA RaiseOrLower ==
    ASSUME HInv, NEW d \in DevLine, Raise(d) \/ Lower(d)
    PROVE  HInv' /\ \A w \in Pic : pics'[w].isr = pics[w].isr
BY SetIrqKeepsOrder DEF Raise, Lower

\* Every step of devices and handlers keeps the invariant.
LEMMA GuestStepIsGood == HInv /\ [GuestNext]_guestVars => HInv'
<1> SUFFICES ASSUME HInv, [GuestNext]_guestVars PROVE HInv'
  OBVIOUS
<1>1. CASE UNCHANGED guestVars
  BY <1>1 DEF guestVars, HInv, Good, CascadeLow, Wants, PicGetIrq, InService, Served
<1>2. CASE GuestNext
  BY <1>2, EnterKeeps, SlaveEoiKeeps, MasterEoiKeeps, RaiseOrLower DEF GuestNext
<1> QED
  BY <1>1, <1>2

\* The inductive invariant of the controllers under nested handlers.
THEOREM HandlersInvariance == GuestSpec => []HInv
BY GuestInitIsGood, GuestStepIsGood, PTL DEF GuestSpec

\* A handler is entered only over handlers of lower priority of its controller.
THEOREM NestedServiceHolds == GuestSpec => NestedService
<1>1. ASSUME HInv, GuestNext
      PROVE  \A w \in Pic : \A l \in pics'[w].isr \ pics[w].isr : \A m \in pics[w].isr : l < m
  <2>1. CASE Enter
    BY <1>1, <2>1, EnterKeeps
  <2>2. CASE SlaveEoi
    BY <1>1, <2>2, SlaveEoiKeeps DEF Pic
  <2>3. CASE MasterEoi
    BY <1>1, <2>3, MasterEoiKeeps DEF Pic
  <2>4. CASE \E d \in DevLine : Raise(d) \/ Lower(d)
    BY <1>1, <2>4, RaiseOrLower
  <2> QED
    BY <1>1, <2>1, <2>2, <2>3, <2>4 DEF GuestNext
<1>2. HInv /\ [GuestNext]_guestVars =>
        [\A w \in Pic : \A l \in pics'[w].isr \ pics[w].isr : \A m \in pics[w].isr : l < m]_guestVars
  BY <1>1
<1> QED
  BY <1>2, HandlersInvariance, PTL DEF GuestSpec, NestedService

\* Each EOI ends the line its handler was entered for, and on the master, for a
\* handler of the slave, the cascade line.
THEOREM EoiEndsOwnLineHolds == GuestSpec => EoiEndsOwnLine
<1> DEFINE Ends == \A w \in Pic : LET ended == pics[w].isr \ pics'[w].isr
                                      h     == Head(handlers)
                                  IN  ended # {} => ended = {IF h.pic = w THEN h.line ELSE Cascade}
<1>1. ASSUME HInv, GuestNext PROVE Ends
  <2>1. CASE Enter
    BY <1>1, <2>1, EnterKeeps
  <2>2. CASE SlaveEoi
    BY <1>1, <2>2, SlaveEoiKeeps DEF Pic
  <2>3. CASE MasterEoi
    BY <1>1, <2>3, MasterEoiKeeps DEF Pic, MasterLine
  <2>4. CASE \E d \in DevLine : Raise(d) \/ Lower(d)
    BY <1>1, <2>4, RaiseOrLower
  <2> QED
    BY <1>1, <2>1, <2>2, <2>3, <2>4 DEF GuestNext
<1>2. HInv /\ [GuestNext]_guestVars => [Ends]_guestVars
  BY <1>1
<1> QED
  BY <1>2, HandlersInvariance, PTL DEF GuestSpec, EoiEndsOwnLine

-----------------------------------------------------------------------------
(* Every request is delivered in the end.                                  *)

\* Requests of devices, and the lines that are up.
Pending(p)   == {d \in (Pic \X Line) \ {<<"master", Cascade>>} : d[2] \in p[d[1]].irr}
HighLines(p) == {d \in DevLine : d[2] \in p[d[1]].last_irr}

\* What is left to do when the devices make no further edge: handlers to
\* enter, EOIs to come, lines to lower.
Left == 4 * Cardinality(Pending(pics)) + 2 * Len(handlers)
            + Cardinality(pics["slave"].isr) + Cardinality(HighLines(pics))

\* pic_update_irq requests the cascade line only.
LEMMA UpdateRequestsNothing ==
    ASSUME NEW p, Good(p), NEW q, q = PicUpdateIrq(p)
    PROVE  Pending(q) = Pending(p) /\ HighLines(q) = HighLines(p)
<1>1. \A w \in Pic : /\ q[w].last_irr = p[w].last_irr
                     /\ q[w].irr = IF w = "master" /\ Wants(p, "slave")
                                   THEN p[w].irr \cup {Cascade} ELSE p[w].irr
  BY UpdateKeeps
<1>2. ASSUME NEW d \in (Pic \X Line) \ {<<"master", Cascade>>}
      PROVE  d[2] \in q[d[1]].irr <=> d[2] \in p[d[1]].irr
  <2> DEFINE w == d[1]
             l == d[2]
  <2>1. w \in Pic /\ (w = "master" => l # Cascade)
    <3>1. d = <<w, l>>
      OBVIOUS
    <3> QED
      BY <3>1
  <2> HIDE DEF w, l
  <2>2. l \in q[w].irr <=> l \in p[w].irr
    BY <1>1, <2>1
  <2> QED
    BY <2>2 DEF w, l
<1>3. ASSUME NEW d \in DevLine PROVE q[d[1]].last_irr = p[d[1]].last_irr
  BY <1>1, DeviceLines
<1> QED
  BY <1>2, <1>3 DEF Pending, HighLines

\* The acknowledge of an active request takes that of one device.
LEMMA AcknowledgeTakesOne ==
    ASSUME HInv, Wants(pics, "master"), NEW p, p = Acknowledged(pics).p
    PROVE  /\ \E d \in Pending(pics) : Pending(p) = Pending(pics) \ {d}
           /\ HighLines(p) = HighLines(pics)
<1> DEFINE irq  == PicGetIrq(pics, "master")
           s    == PicIntack(pics["master"], irq)
           q    == [pics EXCEPT !["master"] = s]
           irq2 == PicGetIrq(q, "slave")
           t    == PicIntack(q["slave"], irq2)
           r    == [q EXCEPT !["slave"] = t]
<1>1. /\ Good(pics) /\ pics \in Pair /\ \A w \in Pic : Fixed(pics[w]) /\ pics[w] \in PicState
      /\ Pic = {"master", "slave"}
  BY DEF HInv, Good, Pair, Pic
<1>2. irq \in pics["master"].irr /\ irq \in Line /\ irq # NoLine
  <2>1. irq \in pics["master"].irr
    BY <1>1, FixedGetIrq
  <2> QED
    BY <1>1, <2>1 DEF Wants, PicState
<1>3. p = IF irq # Cascade THEN q ELSE IF irq2 = NoLine THEN q ELSE r
  BY <1>2, Zenon DEF Acknowledged
<1> HIDE DEF irq
<1>4. Good(q)
  BY <1>1, <1>2, IntackIsGood
<1>5. s.irr = pics["master"].irr \ {irq} /\ s.last_irr = pics["master"].last_irr /\ Fixed(s)
  <2>1. ~pics["master"].auto_eoi
    BY <1>1 DEF Fixed
  <2> QED
    BY <1>1, <1>2, <2>1, IntackIs DEF Fixed
<1> HIDE DEF s
<1>6. q["master"] = s /\ q["slave"] = pics["slave"]
  BY <1>1 DEF Pair
<1> HIDE DEF q
<1>7. \A w \in Pic : Fixed(q[w])
  BY <1>1, <1>5, <1>6
<1>8. CASE irq # Cascade
  <2> DEFINE d == <<"master", irq>>
  <2>1. d \in Pending(pics)
    BY <1>1, <1>2, <1>8 DEF Pending
  <2>2. Pending(p) = Pending(pics) \ {d}
    <3>1. ASSUME NEW e \in (Pic \X Line) \ {<<"master", Cascade>>}
          PROVE  e[2] \in p[e[1]].irr <=> e[2] \in pics[e[1]].irr /\ e # d
      <4>1. e[1] \in {"master", "slave"} /\ e = <<e[1], e[2]>>
        BY <1>1
      <4> QED
        BY <1>3, <1>5, <1>6, <1>8, <4>1
    <3> QED
      BY <3>1 DEF Pending
  <2>3. HighLines(p) = HighLines(pics)
    <3>1. \A e \in DevLine : e[1] \in {"master", "slave"}
      BY <1>1, DeviceLines
    <3> QED
      BY <1>3, <1>5, <1>6, <1>8, <3>1 DEF HighLines
  <2> QED
    BY <2>1, <2>2, <2>3
<1>9. CASE irq = Cascade
  <2>1. Wants(pics, "slave")
    BY <1>2, <1>9 DEF HInv
  <2>2. Wants(q, "slave")
    BY <1>1, <1>4, <1>6, <1>7, <2>1, WantsStays
  <2>3. irq2 \in q["slave"].irr /\ irq2 \in Line /\ irq2 # NoLine
    <3>1. irq2 \in q["slave"].irr
      BY <1>1, <1>4, <1>7, <2>2, FixedGetIrq
    <3> QED
      BY <1>1, <1>6, <2>2, <3>1 DEF Wants, PicState
  <2> HIDE DEF irq2
  <2>4. t.irr = q["slave"].irr \ {irq2} /\ t.last_irr = q["slave"].last_irr
    BY <1>1, <1>6, <2>3, IntackIs
  <2> HIDE DEF t
  <2>5. p["master"] = s /\ p["slave"] = t
    BY <1>1, <1>3, <1>4, <1>6, <1>9, <2>3 DEF Good, Pair
  <2> DEFINE d == <<"slave", irq2>>
  <2>6. d \in Pending(pics)
    BY <1>1, <1>6, <2>3 DEF Pending
  <2>7. Pending(p) = Pending(pics) \ {d}
    <3>1. ASSUME NEW e \in (Pic \X Line) \ {<<"master", Cascade>>}
          PROVE  e[2] \in p[e[1]].irr <=> e[2] \in pics[e[1]].irr /\ e # d
      <4>1. e[1] \in {"master", "slave"} /\ e = <<e[1], e[2]>> /\ (e[1] = "master" => e[2] # Cascade)
        BY <1>1
      <4> QED
        BY <1>5, <1>6, <1>9, <2>4, <2>5, <4>1
    <3> QED
      BY <3>1 DEF Pending
  <2>8. HighLines(p) = HighLines(pics)
    <3>1. \A e \in DevLine : e[1] \in {"master", "slave"}
      BY <1>1, DeviceLines
    <3> QED
      BY <1>5, <1>6, <2>4, <2>5, <3>1 DEF HighLines
  <2> QED
    BY <2>6, <2>7, <2>8
<1> QED
  BY <1>8, <1>9

\* What is counted can be counted.
LEMMA Countable ==
    ASSUME NEW p \in Pair
    PROVE  /\ IsFiniteSet(Pending(p)) /\ IsFiniteSet(HighLines(p)) /\ IsFiniteSet(p["slave"].isr)
           /\ Cardinality(Pending(p)) \in Nat /\ Cardinality(HighLines(p)) \in Nat
           /\ Cardinality(p["slave"].isr) \in Nat
<1>1. IsFiniteSet(Line)
  <2>1. Line = 0 .. LineCount - 1 /\ 0 \in Int /\ LineCount - 1 \in Int
    BY LinesAssumption DEF Line
  <2> QED
    BY <2>1, FS_Interval
<1>2. IsFiniteSet(Pic)
  <2>1. IsFiniteSet({"master"} \cup {"slave"})
    BY FS_Singleton, FS_AddElement
  <2> QED
    BY <2>1 DEF Pic
<1>3. IsFiniteSet(Pic \X Line)
  BY <1>1, <1>2, FS_Product
<1>4. /\ Pending(p) \in SUBSET (Pic \X Line)
      /\ HighLines(p) \in SUBSET (Pic \X Line)
      /\ p["slave"].isr \in SUBSET Line
  <2>1. p["slave"] \in PicState
    BY DEF Pair, Pic
  <2> QED
    BY <2>1, LinesAssumption DEF Pending, HighLines, PicState
<1>5. IsFiniteSet(Pending(p)) /\ IsFiniteSet(HighLines(p)) /\ IsFiniteSet(p["slave"].isr)
  BY <1>1, <1>3, <1>4, FS_Subset
<1> QED
  BY <1>5, FS_CardinalityType

\* One part becomes less, or a request becomes a handler that has its EOIs to come.
LEMMA LessLeft ==
    ASSUME NEW a \in Nat, NEW b \in Nat, NEW c \in Nat, NEW d \in Nat,
           NEW e \in Nat, NEW f \in Nat, NEW g \in Nat, NEW h \in Nat,
           \/ e = a - 1 /\ f = b + 1 /\ g <= c + 1 /\ h = d
           \/ e = a /\ f = b /\ g = c - 1 /\ h = d
           \/ e = a /\ f = b - 1 /\ g = c /\ h = d
           \/ e = a /\ f = b /\ g = c /\ h = d - 1
    PROVE  4 * e + 2 * f + g + h < 4 * a + 2 * b + c + d
OBVIOUS

\* The same of what is left.
LEMMA LeavesLess ==
    ASSUME HInv, HInv',
           \/ /\ \E d \in Pending(pics) : Pending(pics') = Pending(pics) \ {d}
              /\ Len(handlers') = Len(handlers) + 1
              /\ \E l \in Line : pics'["slave"].isr \subseteq pics["slave"].isr \cup {l}
              /\ HighLines(pics') = HighLines(pics)
           \/ /\ Pending(pics') = Pending(pics) /\ Len(handlers') = Len(handlers)
              /\ \E l \in pics["slave"].isr : pics'["slave"].isr = pics["slave"].isr \ {l}
              /\ HighLines(pics') = HighLines(pics)
           \/ /\ Pending(pics') = Pending(pics) /\ Len(handlers') = Len(handlers) - 1
              /\ pics'["slave"].isr = pics["slave"].isr
              /\ HighLines(pics') = HighLines(pics)
           \/ /\ Pending(pics') = Pending(pics) /\ Len(handlers') = Len(handlers)
              /\ pics'["slave"].isr = pics["slave"].isr
              /\ \E d \in HighLines(pics) : HighLines(pics') = HighLines(pics) \ {d}
    PROVE  Left' < Left
<1> DEFINE a == Cardinality(Pending(pics))
           b == Len(handlers)
           c == Cardinality(pics["slave"].isr)
           d == Cardinality(HighLines(pics))
           e == Cardinality(Pending(pics'))
           f == Len(handlers')
           g == Cardinality(pics'["slave"].isr)
           h == Cardinality(HighLines(pics'))
<1> DEFINE q == pics'
<1>0. pics \in Pair /\ q \in Pair /\ b \in Nat /\ f \in Nat
  BY DEF HInv, Good, Served
<1>1. a \in Nat /\ b \in Nat /\ c \in Nat /\ d \in Nat
  BY <1>0, Countable
<1>2. e \in Nat /\ f \in Nat /\ g \in Nat /\ h \in Nat
  <2>1. Cardinality(Pending(q)) \in Nat /\ Cardinality(HighLines(q)) \in Nat /\ Cardinality(q["slave"].isr) \in Nat
    <3> HIDE DEF q
    <3> QED
      BY <1>0, Countable
  <2> QED
    BY <1>0, <2>1
<1>3. /\ \A x \in Pending(pics) : Pending(pics') = Pending(pics) \ {x} => e = a - 1
      /\ \A x \in HighLines(pics) : HighLines(pics') = HighLines(pics) \ {x} => h = d - 1
      /\ \A x \in pics["slave"].isr : pics'["slave"].isr = pics["slave"].isr \ {x} => g = c - 1
  BY <1>0, Countable, FS_RemoveElement
<1>4. \A x \in Line : pics'["slave"].isr \subseteq pics["slave"].isr \cup {x} => g <= c + 1
  <2>1. ASSUME NEW x \in Line, pics'["slave"].isr \subseteq pics["slave"].isr \cup {x} PROVE g <= c + 1
    <3> DEFINE S == pics["slave"].isr \cup {x}
               k == Cardinality(S)
    <3>1. IsFiniteSet(S) /\ (k = c \/ k = c + 1)
      BY <1>0, Countable, FS_AddElement
    <3>2. g <= k
      BY <2>1, <3>1, FS_Subset
    <3> HIDE DEF c, g, k
    <3> QED
      BY <1>1, <1>2, <3>1, <3>2
  <2> QED
    BY <2>1
<1>5. /\ Pending(pics') = Pending(pics) => e = a
      /\ HighLines(pics') = HighLines(pics) => h = d
      /\ pics'["slave"].isr = pics["slave"].isr => g = c
  OBVIOUS
<1>6. \/ e = a - 1 /\ f = b + 1 /\ g <= c + 1 /\ h = d
      \/ e = a /\ f = b /\ g = c - 1 /\ h = d
      \/ e = a /\ f = b - 1 /\ g = c /\ h = d
      \/ e = a /\ f = b /\ g = c /\ h = d - 1
  <2> HIDE DEF a, c, d, e, g, h
  <2> QED
    BY <1>3, <1>4, <1>5
<1>7. Left = 4 * a + 2 * b + c + d /\ Left' = 4 * e + 2 * f + g + h
  BY DEF Left
<1> HIDE DEF a, b, c, d, e, f, g, h
<1> QED
  BY <1>1, <1>2, <1>6, <1>7, LessLeft

\* A line that goes down.
LEMMA LowerIs ==
    ASSUME HInv, NEW d \in DevLine, Lower(d)
    PROVE  /\ Pending(pics') = Pending(pics) /\ handlers' = handlers
           /\ pics'["slave"].isr = pics["slave"].isr
           /\ d \in HighLines(pics) /\ HighLines(pics') = HighLines(pics) \ {d}
<1> DEFINE w == d[1]
           l == d[2]
           s == PicSetIrq1(pics[w], l, FALSE)
           p == [pics EXCEPT ![w] = s]
           q == pics'
<1>1. w \in Pic /\ l \in Line /\ (w = "master" => l # Cascade) /\ d = <<w, l>>
  BY DeviceLines
<1>2. q = PicUpdateIrq(p) /\ l \in pics[w].last_irr /\ handlers' = handlers
  BY DEF Lower, High, SetIrq, Settle
<1>3. Good(pics) /\ pics \in Pair /\ pics[w] \in PicState
  BY <1>1 DEF HInv, Good, Pair
<1> HIDE DEF w, l
<1>4. /\ s \in PicState /\ s.irr = pics[w].irr
      /\ s.last_irr = pics[w].last_irr \ {l}
  BY <1>1, <1>3, SetIrq1Is
<1> HIDE DEF s
<1>5. Good(p)
  <2>1. w = "master" => Cascade \notin s.last_irr
    BY <1>1, <1>3, <1>4 DEF Good, CascadeLow
  <2> QED
    BY <1>1, <1>3, <1>4, <2>1, ReplaceIsGood
<1>6. \A v \in Pic : p[v] = IF v = w THEN s ELSE pics[v]
  BY <1>3 DEF Pair
<1> HIDE DEF p, q
<1>7. Pending(q) = Pending(p) /\ HighLines(q) = HighLines(p)
  BY <1>2, <1>5, UpdateRequestsNothing
<1>8. Pending(p) = Pending(pics)
  <2>1. \A v \in Pic : p[v].irr = pics[v].irr
    BY <1>4, <1>6
  <2>2. \A x \in (Pic \X Line) \ {<<"master", Cascade>>} : p[x[1]].irr = pics[x[1]].irr
    BY <2>1
  <2> QED
    BY <2>2 DEF Pending
<1>9. HighLines(p) = HighLines(pics) \ {d}
  <2>1. ASSUME NEW x \in DevLine
        PROVE  x[2] \in p[x[1]].last_irr <=> x[2] \in pics[x[1]].last_irr /\ x # d
    <3>1. x[1] \in Pic /\ x = <<x[1], x[2]>>
      BY DeviceLines
    <3> QED
      BY <1>1, <1>4, <1>6, <3>1
  <2> QED
    BY <2>1 DEF HighLines
<1>10. d \in HighLines(pics)
  BY <1>2 DEF HighLines, w, l
<1>11. pics'["slave"].isr = pics["slave"].isr
  BY RaiseOrLower DEF Pic
<1> QED
  BY <1>2, <1>7, <1>8, <1>9, <1>10, <1>11 DEF q

\* An EOI.
LEMMA EoiRequestsNothing ==
    ASSUME HInv, NEW w \in Pic, NonSpecificEoi(w, FALSE)
    PROVE  Pending(pics') = Pending(pics) /\ HighLines(pics') = HighLines(pics)
<1>1. CASE pics[w].isr = {}
  BY <1>1 DEF NonSpecificEoi
<1>2. CASE pics[w].isr # {}
  <2> DEFINE t == TopInService(w)
             s == [pics[w] EXCEPT !.isr = pics[w].isr \ {t}]
             p == EndService(w, t)
             q == pics'
  <2>1. Good(pics) /\ pics \in Pair /\ pics[w] \in PicState
    BY DEF HInv, Good, Pair
  <2>2. p = [pics EXCEPT ![w] = s] /\ q = PicUpdateIrq(p)
    BY <1>2 DEF NonSpecificEoi, Settle, EndService
  <2> HIDE DEF t
  <2>3. s \in PicState /\ s.irr = pics[w].irr /\ s.last_irr = pics[w].last_irr
    BY <2>1 DEF PicState
  <2> HIDE DEF s, p, q
  <2>4. Good(p)
    <3>1. w = "master" => Cascade \notin s.last_irr
      BY <2>1, <2>3 DEF Good, CascadeLow
    <3> QED
      BY <2>1, <2>2, <2>3, <3>1, ReplaceIsGood
  <2>5. \A v \in Pic : p[v].irr = pics[v].irr /\ p[v].last_irr = pics[v].last_irr
    BY <2>1, <2>2, <2>3 DEF Pair
  <2>6. Pending(p) = Pending(pics)
    <3>1. \A x \in (Pic \X Line) \ {<<"master", Cascade>>} : p[x[1]].irr = pics[x[1]].irr
      BY <2>5
    <3> QED
      BY <3>1 DEF Pending
  <2>7. HighLines(p) = HighLines(pics)
    <3>1. \A x \in DevLine : p[x[1]].last_irr = pics[x[1]].last_irr
      BY <2>5, DeviceLines
    <3> QED
      BY <3>1 DEF HighLines
  <2> QED
    BY <2>2, <2>4, <2>6, <2>7, UpdateRequestsNothing DEF q
<1> QED
  BY <1>1, <1>2

LEMMA EnterLeavesLess ==
    ASSUME HInv, Enter
    PROVE  Left' < Left
<1> DEFINE a == Acknowledged(pics)
           p == a.p
           h == [pic |-> a.vec.pic, line |-> a.vec.line, slaveDone |-> a.vec.pic = "master"]
           q == pics'
           hs == handlers'
<1>1. q = PicUpdateIrq(p) /\ hs = <<h>> \o handlers /\ Wants(pics, "master")
  BY DEF Enter, TakeInterrupt, HInv
<1>2. Good(p) /\ h \in Handler /\ p["slave"].isr = pics["slave"].isr \cup {l \in {h.line} : Unfinished(h)}
  BY <1>1, TakenIs
<1>3. /\ \E d \in Pending(pics) : Pending(p) = Pending(pics) \ {d}
      /\ HighLines(p) = HighLines(pics)
  BY <1>1, AcknowledgeTakesOne
<1>4. HInv'
  BY EnterKeeps
<1> HIDE DEF a, p, h, q, hs
<1>5. Pending(q) = Pending(p) /\ HighLines(q) = HighLines(p)
  BY <1>1, <1>2, UpdateRequestsNothing
<1>6. q["slave"].isr = p["slave"].isr
  BY <1>1, <1>2, UpdateKeeps DEF SameService, Pic
<1>7. Len(hs) = Len(handlers) + 1
  BY <1>1, <1>2, PushIs DEF HInv, Served
<1>8. \E l \in Line : q["slave"].isr \subseteq pics["slave"].isr \cup {l}
  BY <1>2, <1>6 DEF Handler
<1> QED
  BY <1>3, <1>4, <1>5, <1>7, <1>8, LeavesLess DEF q, hs

\* Every step but an edge leaves less to do.
LEMMA GuestLeavesLess ==
    ASSUME HInv, edges \in [DevLine -> Nat], GuestNext, edges' = edges
    PROVE  Left' < Left
<1>1. HInv'
  BY GuestStepIsGood
<1>2. CASE SlaveEoi
  <2> DEFINE l == Head(handlers).line
  <2>1. pics'["slave"].isr = pics["slave"].isr \ {l}
    BY <1>2, SlaveEoiKeeps
  <2>2. l \in pics["slave"].isr
    <3>1. /\ Head(handlers) = handlers[1] /\ 1 \in 1 .. Len(handlers) /\ ~Head(handlers).slaveDone
          /\ Head(handlers) \in Handler
      BY <1>2, PopIs DEF SlaveEoi, HInv, Served
    <3>2. Unfinished(Head(handlers)) /\ l \in Line
      BY <1>2, <3>1, SlaveEoiKeeps DEF Unfinished, Handler
    <3> QED
      BY <3>1, <3>2 DEF HInv, Served
  <2>3. Pending(pics') = Pending(pics) /\ HighLines(pics') = HighLines(pics)
    BY <1>2, EoiRequestsNothing DEF SlaveEoi, Pic
  <2>4. Len(handlers') = Len(handlers)
    BY <1>2 DEF SlaveEoi, HInv, Served
  <2> QED
    BY <1>1, <2>1, <2>2, <2>3, <2>4, LeavesLess
<1>3. CASE MasterEoi
  <2>1. pics'["slave"].isr = pics["slave"].isr
    BY <1>3, MasterEoiKeeps
  <2>2. Pending(pics') = Pending(pics) /\ HighLines(pics') = HighLines(pics)
    BY <1>3, EoiRequestsNothing DEF MasterEoi, Pic
  <2>3. Len(handlers') = Len(handlers) - 1
    BY <1>3, PopIs DEF MasterEoi, HInv, Served
  <2> QED
    BY <1>1, <2>1, <2>2, <2>3, LeavesLess
<1>4. ASSUME NEW d \in DevLine, Lower(d) PROVE Left' < Left
  BY <1>1, <1>4, LowerIs, LeavesLess
<1>5. ASSUME NEW d \in DevLine, Raise(d) PROVE FALSE
  BY <1>5 DEF Raise
<1> QED
  BY <1>2, <1>3, <1>4, <1>5, EnterLeavesLess DEF GuestNext

\* The invariants together; pic_update_irq has always run.
GInv == IInv /\ HInv /\ settled = TRUE /\ edges \in [DevLine -> Nat]

LEMMA GuestInitIsSettled == GuestInit => GInv
<1> SUFFICES ASSUME GuestInit PROVE GInv
  OBVIOUS
<1>1. IInv /\ HInv
  BY InitIsGood, GuestInitIsGood DEF GuestInit
<1>2. settled = TRUE /\ edges = [d \in DevLine |-> 0]
  BY DEF GuestInit, Init
<1> QED
  BY <1>1, <1>2 DEF GInv

LEMMA GuestStepIsSettled == GInv /\ [GuestNext]_guestVars => GInv'
<1> SUFFICES ASSUME GInv, [GuestNext]_guestVars PROVE GInv'
  OBVIOUS
<1>1. HInv'
  BY GuestStepIsGood DEF GInv
<1>2. CASE UNCHANGED guestVars
  BY <1>1, <1>2 DEF guestVars, GInv, IInv, TypeOK, CascadeLow, Signalled, CascadeKept, Wants,
                    PicGetIrq, InService
<1>3. ASSUME NEW d \in DevLine, Raise(d) \/ Lower(d)
      PROVE  IInv' /\ settled' = TRUE /\ edges' \in [DevLine -> Nat]
  <2>1. PICK level \in BOOLEAN : SetIrq(d[1], d[2], level)
    BY <1>3 DEF Raise, Lower
  <2>2. IInv' /\ settled' = TRUE
    BY <2>1, SetIrqIsGood DEF GInv, SetIrq, Settle
  <2>3. edges' \in [DevLine -> Nat]
    <3>1. edges' = edges \/ edges' = [edges EXCEPT ![d] = @ + 1]
      BY <1>3 DEF Raise, Lower
    <3>2. edges \in [DevLine -> Nat]
      BY DEF GInv
    <3> QED
      BY <3>1, <3>2
  <2> QED
    BY <2>2, <2>3
<1>4. ASSUME NEW w \in Pic, NonSpecificEoi(w, FALSE)
      PROVE  IInv' /\ settled' = TRUE
  <2>1. IInv'
    BY <1>4, NonSpecificEoiIsGood DEF GInv
  <2>2. settled' = TRUE
    BY <1>4 DEF NonSpecificEoi, Settle, GInv
  <2> QED
    BY <2>1, <2>2
<1>5. CASE Enter
  BY <1>1, <1>5, TakeInterruptIsGood DEF Enter, TakeInterrupt, GInv
<1>6. CASE SlaveEoi \/ MasterEoi
  BY <1>1, <1>4, <1>6 DEF SlaveEoi, MasterEoi, GInv, Pic
<1> QED
  BY <1>1, <1>2, <1>3, <1>5, <1>6 DEF GuestNext, GInv

\* The inductive invariant with what the controllers promise.
LEMMA GuestSettled == GuestSpec => []GInv
BY GuestInitIsSettled, GuestStepIsSettled, PTL DEF GuestSpec

\* A request of a device that nothing of its controllers holds back is
\* signalled, and so is every one while no handler runs.
LEMMA ForemostIsSignalled ==
    ASSUME GInv, NEW d \in DevLine, d[2] \in pics[d[1]].irr,
           \/ handlers = <<>>
           \/ /\ \A m \in pics[d[1]].isr : d[2] < m
              /\ \A m \in pics["master"].isr : (IF d[1] = "master" THEN d[2] ELSE Cascade) < m
    PROVE  intr
<1>1. /\ Good(pics) /\ \A w \in Pic : Fixed(pics[w]) /\ pics[w].isr \subseteq Line
      /\ "master" \in Pic /\ "slave" \in Pic /\ d[1] \in {"master", "slave"}
  BY DeviceLines DEF GInv, HInv, Good, Pair, PicState, Pic
<1>2. handlers = <<>> => pics["master"].isr = {} /\ pics["slave"].isr = {}
  <2> SUFFICES ASSUME handlers = <<>> PROVE pics["master"].isr = {} /\ pics["slave"].isr = {}
    OBVIOUS
  <2>1. 1 .. Len(handlers) = {}
    OBVIOUS
  <2> QED
    BY <1>1, <2>1 DEF GInv, HInv, Served
<1>3. /\ \A m \in pics[d[1]].isr : d[2] < m
      /\ \A m \in pics["master"].isr : (IF d[1] = "master" THEN d[2] ELSE Cascade) < m
  BY <1>1, <1>2
<1>4. Wants(pics, "master")
  <2>1. CASE d[1] = "master"
    BY <1>1, <1>3, <2>1, FixedGetIrq
  <2>2. CASE d[1] = "slave"
    <3>1. Wants(pics, "slave")
      BY <1>1, <1>3, <2>2, FixedGetIrq
    <3>2. Cascade \in pics["master"].irr
      BY <3>1 DEF GInv, IInv, CascadeKept
    <3> QED
      BY <1>1, <1>3, <2>2, <3>2, FixedGetIrq
  <2> QED
    BY <1>1, <2>1, <2>2
<1> QED
  BY <1>4 DEF GInv, IInv, Signalled

\* A request that disappears was taken.
LEMMA RequestsTaken ==
    ASSUME GInv, GuestNext, NEW d \in DevLine, d[2] \in pics[d[1]].irr, d[2] \notin pics'[d[1]].irr
    PROVE  vec'.pic = d[1] /\ vec'.line = d[2] /\ vec'.spurious = FALSE
<1>1. d \in (Pic \X Line) \ {<<"master", Cascade>>}
  BY LinesAssumption
<1>2. ASSUME Pending(pics') = Pending(pics) PROVE FALSE
  BY <1>1, <1>2 DEF Pending
<1>3. CASE Enter
  <2> DEFINE p == Acknowledged(pics).p
             q == pics'
  <2>1. q = PicUpdateIrq(p) /\ vec' = Acknowledged(pics).vec
    BY <1>3 DEF Enter, TakeInterrupt
  <2>2. Good(pics) /\ Good(p)
    BY AcknowledgedIsGood DEF GInv, HInv
  <2>3. d[2] \notin p[d[1]].irr
    <3> HIDE DEF p
    <3>1. Pending(q) = Pending(p)
      <4> HIDE DEF q
      <4> QED
        BY <2>1, <2>2, UpdateRequestsNothing
    <3> QED
      BY <1>1, <3>1 DEF Pending
  <2> QED
    BY <1>1, <2>1, <2>2, <2>3, AcknowledgedIs
<1>4. CASE SlaveEoi \/ MasterEoi
  BY <1>2, <1>4, EoiRequestsNothing DEF SlaveEoi, MasterEoi, Pic, GInv
<1>5. ASSUME NEW e \in DevLine, Lower(e) PROVE FALSE
  BY <1>2, <1>5, LowerIs DEF GInv
<1>6. ASSUME NEW e \in DevLine, Raise(e) PROVE FALSE
  <2> DEFINE w == e[1]
             s == PicSetIrq1(pics[w], e[2], TRUE)
             p == [pics EXCEPT ![w] = s]
             q == pics'
  <2>1. w \in Pic /\ e[2] \in Line /\ (w = "master" => e[2] # Cascade)
    BY DeviceLines
  <2>2. q = PicUpdateIrq(p)
    BY <1>6 DEF Raise, SetIrq, Settle
  <2>3. Good(pics) /\ pics \in Pair /\ pics[w] \in PicState
    BY <2>1 DEF GInv, HInv, Good, Pair
  <2>4. s \in PicState /\ pics[w].irr \subseteq s.irr /\ s.last_irr = pics[w].last_irr \cup {e[2]}
    <3> DEFINE u == pics[w]
               l == e[2]
    <3>1. u \in PicState /\ l \in Line
      BY <2>1, <2>3
    <3> HIDE DEF u, l
    <3>2. /\ PicSetIrq1(u, l, TRUE) \in PicState
          /\ \/ PicSetIrq1(u, l, TRUE).irr = u.irr
             \/ PicSetIrq1(u, l, TRUE).irr = u.irr \cup {l}
          /\ PicSetIrq1(u, l, TRUE).last_irr = (IF TRUE THEN u.last_irr \cup {l} ELSE u.last_irr \ {l})
      BY <3>1, SetIrq1Is, Zenon
    <3> QED
      BY <3>2 DEF u, l
  <2> HIDE DEF s
  <2>5. Good(p)
    <3>1. w = "master" => Cascade \notin s.last_irr
      BY <2>1, <2>3, <2>4 DEF Good, CascadeLow
    <3> QED
      BY <2>1, <2>3, <2>4, <3>1, ReplaceIsGood
  <2>6. \A v \in Pic : pics[v].irr \subseteq p[v].irr
    BY <2>3, <2>4 DEF Pair
  <2> HIDE DEF p
  <2>7. Pending(q) = Pending(p)
    <3> HIDE DEF q
    <3> QED
      BY <2>2, <2>5, UpdateRequestsNothing
  <2>8. d[1] \in Pic
    BY DeviceLines
  <2> QED
    BY <1>1, <2>6, <2>7, <2>8 DEF Pending
<1> QED
  BY <1>3, <1>4, <1>5, <1>6 DEF GuestNext

\* What a device requests leaves the controllers only as the vector of that
\* device (pic_set_irq1, pic_intack and pic_update_irq): no request is lost.
THEOREM RequestsOnlyTaken ==
    GuestSpec => [][\A d \in DevLine :
                       d[2] \in pics[d[1]].irr /\ d[2] \notin pics'[d[1]].irr =>
                           vec'.pic = d[1] /\ vec'.line = d[2] /\ vec'.spurious = FALSE]_guestVars
<1>1. GInv /\ [GuestNext]_guestVars =>
        [\A d \in DevLine :
            d[2] \in pics[d[1]].irr /\ d[2] \notin pics'[d[1]].irr =>
                vec'.pic = d[1] /\ vec'.line = d[2] /\ vec'.spurious = FALSE]_guestVars
  BY RequestsTaken
<1> QED
  BY <1>1, GuestSettled, PTL DEF GuestSpec

\* A request is on intr as soon as no handler of its priority or above runs on
\* the way to the CPU, and at the latest when none runs (pic_get_irq and
\* pic_update_irq).
THEOREM ForemostSignalled ==
    GuestSpec => [](\A d \in DevLine :
                       /\ d[2] \in pics[d[1]].irr
                       /\ \/ handlers = <<>>
                          \/ /\ \A m \in pics[d[1]].isr : d[2] < m
                             /\ \A m \in pics["master"].isr :
                                   (IF d[1] = "master" THEN d[2] ELSE Cascade) < m
                       => intr)
<1>1. GInv => \A d \in DevLine :
                 /\ d[2] \in pics[d[1]].irr
                 /\ \/ handlers = <<>>
                    \/ /\ \A m \in pics[d[1]].isr : d[2] < m
                       /\ \A m \in pics["master"].isr :
                             (IF d[1] = "master" THEN d[2] ELSE Cascade) < m
                 => intr
  BY ForemostIsSignalled
<1> QED
  BY <1>1, GuestSettled, PTL

\* Between two edges the controllers and the handlers come to rest: a request
\* makes one handler, a handler one EOI for each controller, and no step makes
\* a request of its own (pic_update_irq pulses the cascade line at every one).
THEOREM HandlersEnd ==
    GuestSpec => [][edges' = edges => Left \in Nat /\ Left' < Left]_guestVars
<1>1. HInv => Left \in Nat
  <2> SUFFICES ASSUME HInv PROVE Left \in Nat
    OBVIOUS
  <2> DEFINE a == Cardinality(Pending(pics))
             b == Len(handlers)
             c == Cardinality(pics["slave"].isr)
             d == Cardinality(HighLines(pics))
  <2>1. a \in Nat /\ b \in Nat /\ c \in Nat /\ d \in Nat
    BY Countable DEF HInv, Good, Served
  <2>2. Left = 4 * a + 2 * b + c + d
    BY DEF Left
  <2> HIDE DEF a, b, c, d
  <2> QED
    BY <2>1, <2>2
<1>2. GInv /\ [GuestNext]_guestVars => [edges' = edges => Left \in Nat /\ Left' < Left]_guestVars
  BY <1>1, GuestLeavesLess DEF GInv
<1> QED
  BY <1>2, GuestSettled, PTL DEF GuestSpec
=============================================================================
