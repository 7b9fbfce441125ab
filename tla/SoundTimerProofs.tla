-------------------------- MODULE SoundTimerProofs --------------------------
(***************************************************************************)
(* Playback is sound for every size of the ring, of a block and of the     *)
(* channel's buffer, and for any number of commands; the timer gives its   *)
(* ticks neither early nor never, for every range of its words.            *)
(*                                                                         *)
(* The inductive invariant of playback adds to the types what core 1       *)
(* relies on between its steps: unless the ring was flushed under it,      *)
(* audio_p is what it has read, and the sample it takes is still there.    *)
(* And a single block that has ended has stopped the device.  That of the  *)
(* timer bounds the ticks owed by the time the channel has been in use.    *)
(* A measure of what a block has left (ToGo) shows that the two cores      *)
(* never take a block back that plays.                                     *)
(***************************************************************************)
EXTENDS Sb16Dma, I8254, WellFoundedInduction, TLAPS

\* What core 1 has read of the ring.
InStep1 == core1.step = "store" => core1.p = p /\ core1.advance <= Used

RingInv == raced \/ (Used <= BufLen /\ InStep1)

EndsInv == ~auto => ended <= 1 /\ (ended = 1 => ~running)

IInv == SbTypeOK /\ RingInv /\ StoppedIsQuiet /\ EndsInv

-----------------------------------------------------------------------------
(* Counters that wrap.                                                     *)

LEMMA RingDistance ==
    ASSUME NEW w \in Nat \ {0}, NEW a \in 0 .. w - 1, NEW b \in 0 .. w - 1
    PROVE  /\ (b - a) % w \in 0 .. w - 1
           /\ (b - a) % w = IF a <= b THEN b - a ELSE b - a + w
<1>1. CASE a <= b
  BY <1>1
<1>2. CASE ~(a <= b)
  BY <1>2
<1>. QED BY <1>1, <1>2

LEMMA RingAdvance ==
    ASSUME NEW w \in Nat \ {0}, NEW a \in 0 .. w - 1, NEW n \in 0 .. w - 1
    PROVE  /\ (a + n) % w \in 0 .. w - 1
           /\ (a + n) % w = IF a + n < w THEN a + n ELSE a + n - w
<1>1. CASE a + n < w
  BY <1>1
<1>2. CASE ~(a + n < w)
  BY <1>2
<1>. QED BY <1>1, <1>2

-----------------------------------------------------------------------------
(* The ring: its ends move by what fits.                                   *)

\* From here on only the two lemmas speak of remainders.
LEMMA StoreFits ==
    ASSUME NEW w \in Nat \ {0}, NEW a \in 0 .. w - 1, NEW b \in 0 .. w - 1,
           NEW n \in Nat, ((b - a) % w) + n < w
    PROVE  /\ (b + n) % w \in 0 .. w - 1
           /\ (((b + n) % w) - a) % w = ((b - a) % w) + n
<1>1. n \in 0 .. w - 1 /\ (b - a) % w = IF a <= b THEN b - a ELSE b - a + w
  BY RingDistance
<1>. DEFINE c == (b + n) % w
<1>2. c \in 0 .. w - 1 /\ c = IF b + n < w THEN b + n ELSE b + n - w
  BY <1>1, RingAdvance
<1>. HIDE DEF c
<1>3. (c - a) % w = IF a <= c THEN c - a ELSE c - a + w
  BY <1>2, RingDistance
<1>4. (c - a) % w = ((b - a) % w) + n
  BY <1>1, <1>2, <1>3
<1>. QED BY <1>2, <1>4 DEF c

LEMMA TakeThere ==
    ASSUME NEW w \in Nat \ {0}, NEW a \in 0 .. w - 1, NEW b \in 0 .. w - 1,
           NEW n \in Nat, n <= (b - a) % w
    PROVE  /\ (a + n) % w \in 0 .. w - 1
           /\ (b - ((a + n) % w)) % w = ((b - a) % w) - n
<1>1. n \in 0 .. w - 1 /\ (b - a) % w = IF a <= b THEN b - a ELSE b - a + w
  BY RingDistance
<1>. DEFINE c == (a + n) % w
<1>2. c \in 0 .. w - 1 /\ c = IF a + n < w THEN a + n ELSE a + n - w
  BY <1>1, RingAdvance
<1>. HIDE DEF c
<1>3. (b - c) % w = IF c <= b THEN b - c ELSE b - c + w
  BY <1>2, RingDistance
<1>4. (b - c) % w = ((b - a) % w) - n
  BY <1>1, <1>2, <1>3
<1>. QED BY <1>2, <1>4 DEF c

-----------------------------------------------------------------------------
(* Initially, and step by step.                                            *)

LEMMA Sizes1 == /\ Wrap \in Nat \ {0} /\ BufLen \in Nat \ {0} /\ BufLen < Wrap /\ 1 < Wrap
                /\ Sizes \subseteq Nat \ {0} /\ DmaLen \in Nat \ {0}
BY Sb16Assumption

\* The channel hands over no more than fits and than is left of the block.
LEMMA TransferFits ==
    ASSUME SbTypeOK, NEW copy, copy = Least(left, DmaLen)
    PROVE  /\ Least(copy, Room) \in 0 .. BufLen
           /\ Least(copy, Room) <= left
           /\ ~raced /\ RingInv => Used + Least(copy, Room) <= BufLen
<1>1. Used \in 0 .. Wrap - 1
  BY Sizes1, RingDistance DEF Used, SbTypeOK
<1>2. left \in Nat
  BY DEF SbTypeOK
<1>. QED BY <1>1, <1>2, Sizes1 DEF Least, Room, RingInv

LEMMA InitIsGood == SbInit => IInv
<1>. SUFFICES ASSUME SbInit PROVE IInv
  OBVIOUS
<1>1. 0 \in 0 .. Wrap - 1
  BY Sizes1
<1>2. Used = 0
  BY <1>1, Sizes1, RingDistance DEF SbInit, Used
<1>3. SbTypeOK
  <2>1. /\ running \in BOOLEAN /\ dreq \in BOOLEAN /\ masked \in BOOLEAN /\ auto \in BOOLEAN
        /\ irq \in BOOLEAN /\ late \in BOOLEAN /\ raced \in BOOLEAN
    BY DEF SbInit
  <2>2. block = -1 /\ left = 0 /\ p = 0 /\ q = 0 /\ core1 = Idle /\ ended = 0
    BY DEF SbInit
  <2>. QED BY <1>1, <2>1, <2>2 DEF SbTypeOK
<1>4. RingInv
  BY <1>2, Sizes1 DEF SbInit, RingInv, InStep1, Idle
<1>5. StoppedIsQuiet /\ EndsInv
  BY DEF SbInit, StoppedIsQuiet, EndsInv
<1>. QED BY <1>3, <1>4, <1>5 DEF IInv

LEMMA TypeStep == SbTypeOK /\ [SbNext]_sbvars => SbTypeOK'
<1>. SUFFICES ASSUME SbTypeOK, [SbNext]_sbvars PROVE SbTypeOK'
  OBVIOUS
<1>. USE DEF SbTypeOK
<1>1. ASSUME NEW isAuto \in BOOLEAN, NEW n \in Sizes, Start(isAuto, n) PROVE SbTypeOK'
  <2>1. /\ running' = TRUE /\ dreq' = TRUE /\ late' = FALSE /\ auto' = isAuto
        /\ block' = n /\ left' = n /\ ended' = 0
        /\ UNCHANGED <<masked, q, irq, core1>>
    BY <1>1 DEF Start, Control
  <2>2. p' \in {p, q} /\ raced' \in BOOLEAN
    BY <1>1 DEF Start, Flush
  <2>3. running' \in BOOLEAN /\ dreq' \in BOOLEAN /\ late' \in BOOLEAN /\ auto' \in BOOLEAN
    BY <2>1
  <2>. QED BY <2>1, <2>2, <2>3, Sizes1
<1>2. ASSUME NEW n \in Sizes \cup {0}, SetBlockSize(n) PROVE SbTypeOK'
  BY <1>2 DEF SetBlockSize
<1>3. CASE Halt \/ Continue \/ ExitAuto \/ Reset \/ Ack
  <2>1. CASE Halt \/ Continue
    <3>1. running' \in BOOLEAN /\ dreq' \in BOOLEAN /\ late' \in BOOLEAN
      BY <2>1 DEF Halt, Continue, Control
    <3>2. ended' = 0 /\ UNCHANGED <<masked, auto, block, left, p, q, irq, core1, raced>>
      BY <2>1 DEF Halt, Continue
    <3>. QED BY <3>1, <3>2
  <2>3. CASE ExitAuto
    <3>1. auto' \in BOOLEAN
      BY <2>3 DEF ExitAuto
    <3>2. /\ ended' = 0
          /\ UNCHANGED <<running, dreq, masked, block, left, p, q, irq, core1, late, raced>>
      BY <2>3 DEF ExitAuto
    <3>. QED BY <3>1, <3>2
  <2>4. CASE Reset
    <3>1. /\ running' \in BOOLEAN /\ dreq' \in BOOLEAN /\ late' \in BOOLEAN
          /\ auto' \in BOOLEAN /\ irq' \in BOOLEAN
      BY <2>4 DEF Reset, Control
    <3>2. /\ block' = -1 /\ left' = 0 /\ ended' = 0
          /\ UNCHANGED <<masked, p, q, core1, raced>>
      BY <2>4 DEF Reset
    <3>. QED BY <3>1, <3>2
  <2>5. CASE Ack
    BY <2>5 DEF Ack
  <2>. QED BY <1>3, <2>1, <2>3, <2>4, <2>5
<1>4. ASSUME NEW m \in BOOLEAN, SetMask(m) PROVE SbTypeOK'
  BY <1>4 DEF SetMask
<1>5. CASE DmaRun
  <2>. DEFINE copy == Least(left, DmaLen)
              n == Least(copy, Room)
  <2>1. n \in 0 .. BufLen /\ n <= left
    BY TransferFits
  <2>2. q' = (q + n) % Wrap
    BY <1>5 DEF DmaRun, Transfer
  <2>. HIDE DEF n
  <2>3. q' \in 0 .. Wrap - 1
    <3>1. n \in 0 .. Wrap - 1 /\ q \in 0 .. Wrap - 1 /\ Wrap \in Nat \ {0}
      BY <2>1, Sizes1
    <3>2. (q + n) % Wrap \in 0 .. Wrap - 1
      BY <3>1, RingAdvance
    <3>. QED BY <2>2, <3>2
  <2>4. block \in Nat
    <3>1. block \in Sizes \cup {-1} /\ block > 0
      BY <1>5 DEF DmaRun, SbTypeOK
    <3>2. Sizes \subseteq Nat
      BY Sizes1
    <3>. QED BY <3>1, <3>2
  <2>5. UNCHANGED <<masked, auto, block, p, core1, raced>>
    BY <1>5 DEF DmaRun, Transfer
  <2>6. CASE n = left
    <3>1. BlockEnds
      BY <1>5, <2>6 DEF DmaRun, Transfer, n
    <3>2. irq' = TRUE /\ left' = block /\ ended' \in 0 .. 2
      BY <3>1 DEF BlockEnds, Least
    <3>3. running' \in BOOLEAN /\ dreq' \in BOOLEAN /\ late' \in BOOLEAN
      BY <3>1 DEF BlockEnds, Control
    <3>. QED BY <2>3, <2>4, <2>5, <3>2, <3>3
  <2>7. CASE n # left
    <3>1. left' = left - n /\ dreq' \in BOOLEAN /\ UNCHANGED <<running, irq, ended, late>>
      BY <1>5, <2>7 DEF DmaRun, Transfer, n
    <3>. QED BY <2>1, <2>3, <2>5, <3>1
  <2>. QED BY <2>6, <2>7
<1>6. CASE SampleBegins
  <2>1. Used \in 0 .. Wrap - 1
    BY Sizes1, RingDistance DEF Used
  <2>2. Least(1, Used) \in {0, 1}
    BY <2>1 DEF Least
  <2>. QED BY <1>6, <2>2 DEF SampleBegins
<1>7. CASE SampleStores
  <2>1. core1.p \in 0 .. Wrap - 1 /\ core1.advance \in 0 .. Wrap - 1
    BY <1>7, Sizes1 DEF SampleStores, Idle
  <2>2. \A from \in 0 .. Wrap - 1 : (from + core1.advance) % Wrap \in 0 .. Wrap - 1
    BY <2>1, Sizes1, RingAdvance
  <2>3. p' \in 0 .. Wrap - 1
    BY <1>7, <2>1, <2>2 DEF SampleStores
  <2>. QED BY <1>7, <2>3 DEF SampleStores
<1>8. CASE SampleChecks
  BY <1>8 DEF SampleChecks
<1>9. CASE SampleHolds
  BY <1>9 DEF SampleHolds
<1>10. CASE UNCHANGED sbvars
  BY <1>10 DEF sbvars
<1>. QED BY <1>1, <1>2, <1>3, <1>4, <1>5, <1>6, <1>7, <1>8, <1>9, <1>10 DEF SbNext, SampleStep

\* A stop takes the request away; only core 1 sets it again, and then it is late.
LEMMA QuietStep == SbTypeOK /\ StoppedIsQuiet /\ [SbNext]_sbvars => StoppedIsQuiet'
<1>. SUFFICES ASSUME SbTypeOK, StoppedIsQuiet, [SbNext]_sbvars PROVE StoppedIsQuiet'
  OBVIOUS
<1>. USE DEF StoppedIsQuiet
<1>1. CASE \/ \E isAuto \in BOOLEAN, n \in Sizes : Start(isAuto, n)
           \/ \E n \in Sizes \cup {0} : SetBlockSize(n)
           \/ \E m \in BOOLEAN : SetMask(m)
  BY <1>1 DEF Start, SetBlockSize, SetMask, Control
<1>2. CASE Halt \/ Continue \/ ExitAuto \/ Reset \/ Ack
  BY <1>2 DEF Halt, Continue, ExitAuto, Reset, Ack, Control
<1>3. CASE DmaRun
  BY <1>3 DEF DmaRun, Transfer, BlockEnds, Control
<1>4. CASE SampleStep
  BY <1>4 DEF SampleStep, SampleBegins, SampleStores, SampleChecks, SampleHolds
<1>5. CASE UNCHANGED sbvars
  BY <1>5 DEF sbvars
<1>. QED BY <1>1, <1>2, <1>3, <1>4, <1>5 DEF SbNext

LEMMA EndsStep == SbTypeOK /\ StoppedIsQuiet /\ EndsInv /\ [SbNext]_sbvars => EndsInv'
<1>. SUFFICES ASSUME SbTypeOK, StoppedIsQuiet, EndsInv, [SbNext]_sbvars PROVE EndsInv'
  OBVIOUS
<1>. USE DEF EndsInv
<1>1. CASE \/ \E isAuto \in BOOLEAN, n \in Sizes : Start(isAuto, n)
           \/ \E n \in Sizes \cup {0} : SetBlockSize(n)
           \/ \E m \in BOOLEAN : SetMask(m)
  <2>1. ended' = 0 \/ UNCHANGED <<auto, ended, running>>
    BY <1>1 DEF Start, SetBlockSize, SetMask
  <2>. QED BY <2>1
<1>2. CASE Halt \/ Continue \/ ExitAuto \/ Reset \/ Ack
  <2>1. ended' = 0 \/ UNCHANGED <<auto, ended, running>>
    BY <1>2 DEF Halt, Continue, ExitAuto, Reset, Ack
  <2>. QED BY <2>1
<1>3. CASE DmaRun
  <2>1. ended \in 0 .. 2 /\ auto' = auto
    BY <1>3 DEF DmaRun, Transfer, SbTypeOK
  \* The request that is served is that of a running device, or late.
  <2>2. CASE BlockEnds /\ ~auto
    BY <1>3, <2>1, <2>2 DEF DmaRun, BlockEnds, Control, Least, StoppedIsQuiet
  <2>3. CASE auto
    BY <2>1, <2>3
  <2>4. CASE UNCHANGED <<running, ended>>
    BY <2>1, <2>4
  <2>. QED BY <1>3, <2>2, <2>3, <2>4 DEF DmaRun, Transfer
<1>4. CASE SampleStep
  BY <1>4 DEF SampleStep, SampleBegins, SampleStores, SampleChecks, SampleHolds
<1>5. CASE UNCHANGED sbvars
  BY <1>5 DEF sbvars
<1>. QED BY <1>1, <1>2, <1>3, <1>4, <1>5 DEF SbNext

LEMMA RingStep == SbTypeOK /\ RingInv /\ [SbNext]_sbvars => RingInv'
<1>. SUFFICES ASSUME SbTypeOK, RingInv, [SbNext]_sbvars PROVE RingInv'
  OBVIOUS
<1>. USE DEF RingInv
<1>t. /\ p \in 0 .. Wrap - 1 /\ q \in 0 .. Wrap - 1
      /\ Used \in 0 .. Wrap - 1
  BY Sizes1, RingDistance DEF SbTypeOK, Used
<1>0. ASSUME UNCHANGED <<p, q, raced, core1>> PROVE RingInv'
  BY <1>0 DEF InStep1, Used
<1>1. ASSUME NEW isAuto \in BOOLEAN, NEW n \in Sizes, Start(isAuto, n) PROVE RingInv'
  <2>1. CASE isAuto
    BY <1>0, <1>1, <2>1 DEF Start, Flush
  \* The flush: if core 1 is between its read and its store the ring is raced.
  <2>2. CASE ~isAuto
    <3>1. p' = q /\ q' = q /\ core1' = core1 /\ raced' = (core1.step = "store")
      BY <1>1, <2>2 DEF Start, Flush
    <3>2. (q - q) % Wrap = 0
      BY <1>t, Sizes1, RingDistance
    <3>3. Used' <= BufLen
      BY <3>1, <3>2, Sizes1 DEF Used
    <3>. QED BY <3>1, <3>3 DEF InStep1
  <2>. QED BY <2>1, <2>2
<1>2. CASE (\E n \in Sizes \cup {0} : SetBlockSize(n)) \/ (\E m \in BOOLEAN : SetMask(m))
  BY <1>0, <1>2 DEF SetBlockSize, SetMask
<1>3. CASE Halt \/ Continue \/ ExitAuto \/ Reset \/ Ack
  BY <1>0, <1>3 DEF Halt, Continue, ExitAuto, Reset, Ack
<1>4. CASE DmaRun
  <2>. DEFINE copy == Least(left, DmaLen)
              n == Least(copy, Room)
  <2>1. n \in 0 .. BufLen /\ (~raced => Used + n <= BufLen)
    BY TransferFits
  <2>2. q' = (q + n) % Wrap /\ UNCHANGED <<p, core1, raced>>
    BY <1>4 DEF DmaRun, Transfer
  <2>. HIDE DEF n
  <2>3. ASSUME ~raced PROVE Used' = Used + n
    <3>1. ((q - p) % Wrap) + n < Wrap
      BY <1>t, <2>1, <2>3, Sizes1 DEF Used
    <3>2. (((q + n) % Wrap) - p) % Wrap = ((q - p) % Wrap) + n
      <4>1. n \in Nat /\ Wrap \in Nat \ {0}
        BY <2>1, Sizes1
      <4>. QED BY <1>t, <3>1, <4>1, StoreFits
    <3>. QED BY <2>2, <3>2 DEF Used
  <2>4. core1.step = "store" => core1.advance \in Nat
    BY DEF SbTypeOK, Idle
  <2>. QED BY <1>t, <2>1, <2>2, <2>3, <2>4 DEF InStep1
<1>5. CASE SampleBegins
  <2>1. CASE Used > BufLen
    <3>1. raced'
      BY <1>t, <1>5, <2>1, Sizes1 DEF SampleBegins
    <3>. QED BY <3>1
  <2>2. CASE ~(Used > BufLen)
    <3>1. /\ core1' = [step |-> "store", p |-> p, advance |-> Least(1, Used)]
          /\ UNCHANGED <<p, q, raced>>
      BY <1>5, <2>2 DEF SampleBegins
    <3>2. Used' = Used
      BY <3>1 DEF Used
    <3>. QED BY <1>t, <2>2, <3>1, <3>2, Sizes1 DEF InStep1, Least
  <2>. QED BY <2>1, <2>2
<1>6. CASE SampleStores
  <2>. DEFINE m == core1.advance
  <2>1. m \in Nat /\ core1'.step = "check" /\ UNCHANGED <<q, raced>>
    BY <1>6 DEF SampleStores, SbTypeOK, Idle
  <2>2. ASSUME ~raced PROVE Used' <= BufLen
    <3>1. p' = (p + m) % Wrap /\ m <= Used
      BY <1>6, <2>2 DEF SampleStores, InStep1
    <3>2. (q - ((p + m) % Wrap)) % Wrap = ((q - p) % Wrap) - m
      <4>1. m <= (q - p) % Wrap
        BY <3>1 DEF Used
      <4>2. m \in Nat /\ Wrap \in Nat \ {0} /\ p \in 0 .. Wrap - 1 /\ q \in 0 .. Wrap - 1
        BY <1>t, <2>1, Sizes1
      <4>. HIDE DEF m
      <4>. QED BY ONLY <4>1, <4>2, TakeThere
    <3>3. Used' = (q - ((p + m) % Wrap)) % Wrap
      BY <2>1, <3>1, Zenon DEF Used
    <3>4. Used' = Used - m
      BY <3>2, <3>3, Zenon DEF Used
    <3>. QED BY <1>t, <2>1, <2>2, <3>4, Sizes1
  <2>. QED BY <2>1, <2>2 DEF InStep1
<1>7. CASE SampleChecks \/ SampleHolds
  <2>1. UNCHANGED <<p, q, raced>> /\ core1'.step # "store"
    BY <1>7 DEF SampleChecks, SampleHolds, Idle
  <2>. QED BY <2>1 DEF InStep1, Used
<1>8. CASE UNCHANGED sbvars
  BY <1>0, <1>8 DEF sbvars
<1>. QED BY <1>1, <1>2, <1>3, <1>4, <1>5, <1>6, <1>7, <1>8 DEF SbNext, SampleStep

-----------------------------------------------------------------------------
(* The theorems.                                                           *)

\* The inductive invariant holds in every reachable state.
THEOREM Invariance == SbSpec => []IInv
<1>1. IInv /\ [SbNext]_sbvars => IInv'
  BY TypeStep, QuietStep, EndsStep, RingStep DEF IInv
<1>. QED BY InitIsGood, <1>1, PTL DEF SbSpec

\* The ring never holds more than it has room for, whatever interleaving of
\* the two cores, except after a flush that fell into core 1's advance.
THEOREM RingSoundHolds == SbSpec => []RingSound
<1>1. IInv => RingSound
  BY DEF IInv, RingInv, RingSound
<1>. QED BY Invariance, <1>1, PTL

\* A stopped device has no request but a late one.
THEOREM StoppedIsQuietHolds == SbSpec => []StoppedIsQuiet
<1>1. IInv => StoppedIsQuiet
  BY DEF IInv
<1>. QED BY Invariance, <1>1, PTL

\* A command for a single block gets one interrupt for it.
THEOREM SingleEndsOnceHolds == SbSpec => []SingleEndsOnce
<1>1. IInv => SingleEndsOnce
  BY DEF IInv, EndsInv, SingleEndsOnce
<1>. QED BY Invariance, <1>1, PTL

-----------------------------------------------------------------------------
(* A block that plays comes to its end.                                    *)

\* The store that core 1 is about to make leaves no room in the ring.
Spoils ==
    /\ core1.step = "store"
    /\ \E from \in {core1.p, p} : (q - ((from + core1.advance) % Wrap)) % Wrap >= BufLen

\* How far core 1 is from the state in which the channel can go on: the
\* request is set and the ring has room.
Near ==
    IF Spoils THEN IF dreq THEN 12 ELSE 11
    ELSE IF Used < BufLen
    THEN IF dreq THEN 0
         ELSE CASE core1.step = "idle"  -> 4
                [] core1.step = "store" -> 3
                [] core1.step = "check" -> 2
                [] core1.step = "hold"  -> 1
    ELSE (IF dreq THEN 1 ELSE 0) +
         CASE core1.step = "idle"  -> 6
           [] core1.step = "store" -> 5
           [] core1.step = "check" -> 9
           [] core1.step = "hold"  -> 8

\* A sample that the channel hands over brings the end nearer, wherever core 1 is.
ToGo == 13 * left + Near

\* The steps of core 1.
LEMMA StepsOfCore1 ==
    ASSUME SbTypeOK
    PROVE  /\ core1.step \in {"idle", "store", "check", "hold"}
           /\ core1.step = "idle" <=> core1 = Idle
           /\ core1.step = "store" => core1.p \in 0 .. Wrap - 1 /\ core1.advance \in {0, 1}
           /\ Used \in 0 .. Wrap - 1
<1>1. core1 \in {Idle, [step |-> "check"], [step |-> "hold"]}
         \cup [step : {"store"}, p : 0 .. Wrap - 1, advance : {0, 1}]
  BY DEF SbTypeOK
<1>2. Used \in 0 .. Wrap - 1
  BY Sizes1, RingDistance DEF Used, SbTypeOK
<1> QED
  BY <1>1, <1>2 DEF Idle

LEMMA NearIs ==
    ASSUME SbTypeOK
    PROVE  /\ Near \in 0 .. 12
           /\ Spoils => core1.step = "store"
BY StepsOfCore1 DEF Near, Spoils

\* Core 1 finds the ring overrun, or a sample that it can take.
LEMMA BeginsNears ==
    ASSUME SbTypeOK, SampleBegins
    PROVE  /\ Near' <= Near
           /\ (dreq /\ Used < BufLen) \/ Near' < Near
<1>1. /\ core1 = Idle /\ dreq' = dreq /\ q' = q
      /\ p \in 0 .. Wrap - 1 /\ q \in 0 .. Wrap - 1 /\ Wrap \in Nat \ {0} /\ BufLen \in Nat \ {0}
      /\ dreq \in BOOLEAN /\ Used \in 0 .. Wrap - 1
  BY Sizes1, StepsOfCore1 DEF SampleBegins, SbTypeOK
<1>2. ~Spoils /\ core1.step = "idle"
  BY <1>1 DEF Spoils, Idle
<1>3. CASE Used > BufLen
  <2>1. p' = q /\ core1' = core1
    BY <1>3 DEF SampleBegins
  <2>2. Used' = 0
    <3>1. (q - q) % Wrap = 0
      BY <1>1, RingDistance
    <3> QED
      BY <1>1, <2>1, <3>1 DEF Used
  <2>3. ~Spoils' /\ core1'.step = "idle"
    BY <1>2, <2>1 DEF Spoils
  <2> QED
    BY <1>1, <1>2, <1>3, <2>2, <2>3 DEF Near
<1>4. CASE ~(Used > BufLen)
  <2> DEFINE n == Least(1, Used)
  <2>1. core1' = [step |-> "store", p |-> p, advance |-> n] /\ p' = p
    BY <1>4 DEF SampleBegins
  <2>2. Used' = Used
    BY <1>1, <2>1 DEF Used
  <2>3. n \in Nat /\ n <= Used /\ Used - n < BufLen
    BY <1>1, <1>4 DEF Least
  <2> HIDE DEF n
  <2>4. (q - ((p + n) % Wrap)) % Wrap = Used - n
    BY <1>1, <2>3, TakeThere DEF Used
  <2>5. ~Spoils'
    <3>1. core1'.p = p /\ core1'.advance = n
      BY <2>1
    <3>2. ~((q - ((p + n) % Wrap)) % Wrap >= BufLen)
      BY <1>1, <2>3, <2>4
    <3> QED
      BY <1>1, <2>1, <3>1, <3>2, Zenon DEF Spoils
  <2>6. core1'.step = "store"
    BY <2>1
  <2> QED
    BY <1>1, <1>2, <2>2, <2>5, <2>6 DEF Near
<1> QED
  BY <1>3, <1>4

\* It advances audio_p.
LEMMA StoresNears ==
    ASSUME SbTypeOK, SampleStores
    PROVE  /\ Near' <= Near
           /\ (dreq /\ Used < BufLen /\ ~Spoils) \/ Near' < Near
<1>1. /\ core1.step = "store" /\ dreq' = dreq /\ q' = q /\ core1'.step = "check"
      /\ dreq \in BOOLEAN /\ BufLen \in Nat /\ Used \in Int
  BY Sizes1, StepsOfCore1 DEF SampleStores, SbTypeOK
<1>2. PICK from \in {core1.p, p} : p' = (from + core1.advance) % Wrap
  BY DEF SampleStores
<1>3. Used' = (q - ((from + core1.advance) % Wrap)) % Wrap
  BY <1>1, <1>2 DEF Used
<1>4. ~Spoils => ~(Used' >= BufLen)
  BY <1>1, <1>3, Zenon DEF Spoils
<1>5. ~Spoils'
  BY <1>1 DEF Spoils
<1>6. Used' \in Int
  <2>1. p' \in 0 .. Wrap - 1
    <3>1. from \in 0 .. Wrap - 1 /\ core1.advance \in 0 .. Wrap - 1
      BY <1>1, Sizes1, StepsOfCore1 DEF SbTypeOK
    <3> QED
      BY <1>2, <3>1, Sizes1, RingAdvance
  <2>2. q \in 0 .. Wrap - 1
    BY DEF SbTypeOK
  <2> QED
    BY <1>1, <2>1, <2>2, Sizes1, RingDistance DEF Used
<1>7. ~Spoils => Used' < BufLen
  BY <1>1, <1>4, <1>6
<1> QED
  BY <1>1, <1>5, <1>6, <1>7 DEF Near

\* It finds the device running, and sets the request.
LEMMA HoldsNears ==
    ASSUME SbTypeOK, running, SampleChecks \/ SampleHolds
    PROVE  /\ Near' <= Near
           /\ (dreq /\ Used < BufLen) \/ Near' < Near
<1>1. p' = p /\ q' = q /\ Used' = Used /\ Used \in Int /\ BufLen \in Int /\ dreq \in BOOLEAN
  <2>1. p' = p /\ q' = q
    BY DEF SampleChecks, SampleHolds
  <2>2. Used' = Used
    BY <2>1 DEF Used
  <2>3. Used \in Int /\ BufLen \in Int /\ dreq \in BOOLEAN
    BY Sizes1, StepsOfCore1 DEF SbTypeOK
  <2> QED
    BY <2>1, <2>2, <2>3
<1>2. CASE SampleChecks
  <2>1. core1.step = "check" /\ core1'.step = "hold" /\ dreq' = dreq
    BY <1>2 DEF SampleChecks
  <2>2. ~Spoils /\ ~Spoils'
    BY <2>1 DEF Spoils
  <2> QED
    BY <1>1, <2>1, <2>2 DEF Near
<1>3. CASE SampleHolds
  <2>1. core1.step = "hold" /\ core1'.step = "idle" /\ dreq' = TRUE
    BY <1>3 DEF SampleHolds, Idle
  <2>2. ~Spoils /\ ~Spoils'
    BY <2>1 DEF Spoils
  <2> QED
    BY <1>1, <2>1, <2>2 DEF Near
<1> QED
  BY <1>2, <1>3

\* The channel hands over samples, or finds the ring full and drops the request.
LEMMA DmaNears ==
    ASSUME SbTypeOK, SbTypeOK', DmaRun, running, ~late, ended = 0, ended' = 0
    PROVE  ToGo' < ToGo
<1> DEFINE copy == Least(left, DmaLen)
           n == Least(copy, Room)
<1>1. /\ left \in Nat /\ DmaLen \in Nat \ {0} /\ BufLen \in Nat /\ Used \in 0 .. Wrap - 1
      /\ Room = IF Used > BufLen THEN 0 ELSE BufLen - Used
  BY Sizes1, StepsOfCore1 DEF SbTypeOK, Room
<1>2. n # left
  <2> SUFFICES ASSUME n = left PROVE FALSE
    OBVIOUS
  <2>1. BlockEnds
    BY DEF DmaRun, Transfer
  <2>2. ended' = Least(ended + 1, 2)
    BY <2>1 DEF BlockEnds
  <2> QED
    BY <2>2 DEF Least
<1>3. /\ q' = (q + n) % Wrap /\ left' = left - n /\ dreq' = (n = copy) /\ dreq
      /\ UNCHANGED <<p, core1>>
  BY <1>2 DEF DmaRun, Transfer
<1>4. /\ n \in Nat /\ n <= left
      /\ n = 0 => copy > 0 /\ ~(Used < BufLen)
  BY <1>1, <1>2 DEF Least
<1> HIDE DEF copy, n
<1>5. Near \in 0 .. 12 /\ Near' \in 0 .. 12
  <2>1. core1'.step \in {"idle", "store", "check", "hold"}
    BY <1>3, StepsOfCore1
  <2>2. Near' \in 0 .. 12
    BY <2>1 DEF Near
  <2> QED
    BY <2>2, NearIs
<1> DEFINE a == left
           b == left'
           c == Near
           d == Near'
<1>e. ToGo = 13 * a + c /\ ToGo' = 13 * b + d
  BY DEF ToGo
<1>6. CASE n # 0
  <2>1. a \in Nat /\ b \in Int /\ b <= a - 1 /\ c \in 0 .. 12 /\ d \in 0 .. 12
    BY <1>1, <1>3, <1>4, <1>5, <1>6
  <2> HIDE DEF a, b, c, d
  <2>2. 13 * b + d < 13 * a + c
    BY <2>1
  <2> QED
    BY <1>e, <2>2
<1>7. CASE n = 0
  <2>1. q' = q /\ left' = left /\ ~dreq'
    <3>1. q \in 0 .. Wrap - 1 /\ Wrap \in Nat \ {0}
      BY Sizes1 DEF SbTypeOK
    <3>2. (q + 0) % Wrap = q
      BY <3>1
    <3>3. q' = q /\ left' = left
      BY <1>1, <1>3, <1>7, <3>2
    <3>4. copy # 0
      <4>1. copy \in Nat /\ copy > 0
        BY <1>1, <1>4, <1>7 DEF copy, Least
      <4> QED
        BY <4>1
    <3> QED
      BY <1>3, <1>7, <3>3, <3>4
  <2>2. Used' = Used /\ (Spoils' <=> Spoils)
    BY <1>3, <2>1 DEF Used, Spoils
  <2>3. Near' < Near
    BY <1>1, <1>3, <1>4, <1>7, <2>1, <2>2, StepsOfCore1 DEF Near
  <2>4. a \in Nat /\ b = a /\ c \in Int /\ d \in Int /\ d < c
    BY <1>1, <1>5, <2>1, <2>3
  <2> HIDE DEF a, b, c, d
  <2>5. 13 * b + d < 13 * a + c
    BY <2>4
  <2> QED
    BY <1>e, <2>5
<1> QED
  BY <1>6, <1>7

\* A device that runs has not been stopped; commands are counted.
LEMMA RunningIsNotLate == SbSpec => []((running => ~late) /\ commands \in Nat)
<1>1. SbInit => (running => ~late) /\ commands \in Nat
  BY DEF SbInit
<1>2. /\ (running => ~late) /\ commands \in Nat
      /\ [SbNext]_sbvars
      => ((running => ~late) /\ commands \in Nat)'
  <2> SUFFICES ASSUME running => ~late, commands \in Nat, [SbNext]_sbvars
               PROVE  (running' => ~late') /\ commands' \in Nat
    OBVIOUS
  <2>1. CASE \/ \E isAuto \in BOOLEAN, n \in Sizes : Start(isAuto, n)
             \/ \E n \in Sizes \cup {0} : SetBlockSize(n)
             \/ \E m \in BOOLEAN : SetMask(m)
    BY <2>1 DEF Start, SetBlockSize, SetMask, Control, Access, Command
  <2>2. CASE Halt \/ Continue \/ ExitAuto \/ Reset \/ Ack
    BY <2>2 DEF Halt, Continue, ExitAuto, Reset, Ack, Control, Access, Command
  <2>3. CASE DmaRun
    BY <2>3 DEF DmaRun, Transfer, BlockEnds, Control
  <2>4. CASE SampleStep
    <3>1. UNCHANGED <<running, commands>> /\ (late' = late \/ late' = (late \/ ~running))
      BY <2>4, Zenon DEF SampleStep, SampleBegins, SampleStores, SampleChecks, SampleHolds
    <3>2. running' = running /\ commands' = commands
      BY <3>1
    <3>3. running' => ~late'
      <4>1. CASE ~running
        BY <4>1, <3>2
      <4>2. CASE running
        <5>1. ~late /\ ~(late \/ ~running)
          BY <4>2, Zenon
        <5>2. late' = late \/ late' = (late \/ ~running)
          BY <3>1, Zenon
        <5>3. CASE late' = late
          BY <5>1, <5>3
        <5>4. CASE late' = (late \/ ~running)
          BY <5>1, <5>4
        <5> QED
          BY <5>2, <5>3, <5>4
      <4> QED
        BY <4>1, <4>2
    <3> QED
      BY <3>2, <3>3
  <2>5. CASE UNCHANGED sbvars
    BY <2>5 DEF sbvars
  <2> QED
    BY <2>1, <2>2, <2>3, <2>4, <2>5 DEF SbNext
<1> QED
  BY <1>1, <1>2, PTL DEF SbSpec

\* What a step of either core does while a block plays.
LEMMA StepNears ==
    ASSUME SbTypeOK, SbTypeOK', running => ~late, commands \in Nat, SbNext, running, running', ended = 0, ended' = 0,
           commands' = commands
    PROVE  /\ ToGo \in Nat /\ ToGo' <= ToGo
           /\ DmaRun => ToGo' < ToGo
           /\ irq' = irq => (dreq /\ Used < BufLen) \/ ToGo' < ToGo
<1>1. left \in Nat /\ Near \in 0 .. 12
  BY NearIs DEF SbTypeOK
<1>2. ToGo \in Nat
  BY <1>1 DEF ToGo
<1>3. CASE DmaRun
  <2>1. ToGo' < ToGo
    BY <1>3, DmaNears
  <2>2. ToGo' \in Int
    <3>1. left' \in Nat /\ Near' \in Int
      <4>1. core1' = core1
        BY <1>3 DEF DmaRun, Transfer
      <4>2. core1'.step \in {"idle", "store", "check", "hold"}
        BY <4>1, StepsOfCore1
      <4> QED
        BY <4>2 DEF Near, SbTypeOK
    <3> QED
      BY <3>1 DEF ToGo
  <2> QED
    BY <1>2, <2>1, <2>2
<1>4. CASE SampleStep
  <2>1. left' = left
    BY <1>4 DEF SampleStep, SampleBegins, SampleStores, SampleChecks, SampleHolds
  <2>2. /\ Near' <= Near
        /\ (dreq /\ Used < BufLen) \/ Near' < Near
    BY <1>4, BeginsNears, StoresNears, HoldsNears DEF SampleStep
  <2>3. Near' \in Int
    <3>1. core1'.step \in {"idle", "store", "check", "hold"}
      BY <1>4 DEF SampleStep, SampleBegins, SampleStores, SampleChecks, SampleHolds, Idle
    <3> QED
      BY <3>1 DEF Near
  <2> DEFINE a == left
             c == Near
             d == Near'
  <2>4. ToGo = 13 * a + c /\ ToGo' = 13 * a + d
    BY <2>1 DEF ToGo
  <2>5. a \in Nat /\ c \in Int /\ d \in Int /\ d <= c /\ ((dreq /\ Used < BufLen) \/ d < c)
    BY <1>1, <2>2, <2>3
  <2> HIDE DEF a, c, d
  <2>6. ToGo' <= ToGo /\ ((dreq /\ Used < BufLen) \/ ToGo' < ToGo)
    BY <2>4, <2>5
  <2>7. ~DmaRun \/ ToGo' < ToGo
    BY DmaNears
  <2> QED
    BY <1>2, <2>6, <2>7
<1>5. CASE Ack
  <2>1. irq' # irq /\ UNCHANGED <<left, core1, p, q, dreq>>
    BY <1>5 DEF Ack
  <2>2. Near' = Near
    BY <2>1 DEF Near, Spoils, Used
  <2>3. ToGo' = ToGo
    BY <2>1, <2>2 DEF ToGo
  <2>4. ~DmaRun \/ ToGo' < ToGo
    BY DmaNears
  <2> QED
    BY <1>2, <2>1, <2>3, <2>4
<1>6. ASSUME Access PROVE FALSE
  BY <1>6 DEF Access
<1> QED
  BY <1>3, <1>4, <1>5, <1>6
  DEF SbNext, Command, Start, SetBlockSize, Halt, Continue, ExitAuto, Reset, SetMask

\* A block that plays comes nearer to its end with all the channel does, and
\* with all core 1 does until the channel can go on; nothing that either core
\* does takes it back, wherever they cut each other: a request that a full ring
\* dropped is set again with room for a sample (SB_read_DMA and sb16_getsample).
THEOREM BlockNears ==
    SbSpec => [][running /\ running' /\ ended = 0 /\ ended' = 0 /\ commands' = commands =>
                     /\ ToGo \in Nat /\ ToGo' <= ToGo
                     /\ DmaRun => ToGo' < ToGo
                     /\ irq' = irq => (dreq /\ Used < BufLen) \/ ToGo' < ToGo]_sbvars
<1>1. /\ SbTypeOK /\ SbTypeOK' /\ (running => ~late) /\ commands \in Nat /\ [SbNext]_sbvars
      => [running /\ running' /\ ended = 0 /\ ended' = 0 /\ commands' = commands =>
              /\ ToGo \in Nat /\ ToGo' <= ToGo
              /\ DmaRun => ToGo' < ToGo
              /\ irq' = irq => (dreq /\ Used < BufLen) \/ ToGo' < ToGo]_sbvars
  BY StepNears
<1>2. IInv => SbTypeOK
  BY DEF IInv
<1> QED
  BY <1>1, <1>2, Invariance, RunningIsNotLate, PTL DEF SbSpec

-----------------------------------------------------------------------------
(* The timer.                                                              *)

\* What core 0 knows of the channel between two updates: the ticks are those
\* given since it was loaded, they are not ahead of the clock, and not so far
\* behind it that Due would be wrong: what is owed grows by two fifths of the
\* time at most, and by the lateness of the updates.  Past half the clock's range no tick is
\* due any more but the one that loads the channel again.
PitInv ==
    /\ PitTypeOK
    /\ last = given /\ given <= Counted(real) /\ given <= Counted(Word \div 2)
    /\ 2 * real - 5 * given <= 5 * count + 4 + 2 * (lag + MaxLate)
    /\ real > Word \div 2 => Counted(real) <= given + count

\* Six counts in five microseconds, and nothing of a count.
LEMMA CountedIs ==
    ASSUME NEW us \in Nat
    PROVE  Counted(us) \in Nat /\ 5 * Counted(us) <= 6 * us /\ 6 * us < 5 * Counted(us) + 5
BY DEF Counted

\* Half the clock's range, and how short a period and a pause are against it.
LEMMA HalfWord ==
    \E h \in Nat :
        /\ Word = 4 * h /\ Word \div 2 = 2 * h
        /\ 10 * (Byte * Byte) + 12 * MaxPause + 10 <= 4 * h
        /\ Byte * Byte \in Nat
<1>1. Word = 4 * (Word \div 4) /\ Word \div 4 \in Nat
  BY PitAssumption
<1>2. PICK h \in Nat : Word \div 4 = h
  BY <1>1
<1>3. Word = 4 * h
  BY <1>1, <1>2
<1>4. Word \div 2 = 2 * h
  BY <1>3
<1>. QED BY <1>3, <1>4, PitAssumption

\* The first element of a set of numbers.
LEMMA First ==
    ASSUME NEW S, S \subseteq Nat, S # {}
    PROVE  \E m \in S : \A y \in S : m <= y
<1>1. PICK m \in S : \A y \in S : ~(<<y, m>> \in OpToRel(<, Nat))
  BY NatLessThanWellFounded, WFMin
<1>2. \A y \in S : ~(y < m)
  BY <1>1, Zenon DEF OpToRel
<1>. QED BY <1>2

\* The ticks the loop of i8254_update_irq gives.
LEMMA TicksAre ==
    ASSUME NEW l, NEW d, NEW max \in Nat
    PROVE  /\ DueTicks(l, d, max) \in 0 .. max
           /\ \A i \in 0 .. DueTicks(l, d, max) - 1 : Due((l + i * count) % Word, d)
           /\ \/ DueTicks(l, d, max) = max
              \/ ~Due((l + DueTicks(l, d, max) * count) % Word, d)
<1> DEFINE S == {n \in 0 .. max : n = max \/ ~Due((l + n * count) % Word, d)}
           Ends(n) == /\ \A i \in 0 .. n - 1 : Due((l + i * count) % Word, d)
                      /\ n = max \/ ~Due((l + n * count) % Word, d)
<1>1. PICK n \in S : \A y \in S : n <= y
  <2>1. max \in S /\ S \subseteq Nat
    OBVIOUS
  <2> HIDE DEF S
  <2>. QED BY <2>1, First
<1>2. n \in 0 .. max /\ Ends(n)
  BY <1>1
<1>3. DueTicks(l, d, max) = CHOOSE m \in 0 .. max : Ends(m)
  BY DEF DueTicks
<1> HIDE DEF Ends
<1>4. DueTicks(l, d, max) \in 0 .. max /\ Ends(DueTicks(l, d, max))
  BY <1>2, <1>3
<1>. QED BY <1>4 DEF Ends

\* What is below the modulus stays.
LEMMA RingStays ==
    ASSUME NEW w \in Nat \ {0}, NEW a \in 0 .. w - 1
    PROVE  a % w = a
OBVIOUS

\* The comparison of words, for distances below half their range.
LEMMA DueIs ==
    ASSUME NEW h \in Nat, Word = 4 * h, Word \div 2 = 2 * h, count \in 0 .. h,
           NEW x \in Nat, NEW d \in 0 .. Word - 1, x <= d, d - x <= 2 * h
    PROVE  Due(x % Word, d) <=> x + count < d
<1>1. h # 0 /\ Word \in Nat \ {0}
  OBVIOUS
<1>2. x % Word = x
  BY <1>1, RingStays
<1>3. CASE x + count < d
  <2>1. d - (x + count) \in 1 .. 2 * h
    BY <1>3
  <2>2. (x + count - d) % Word = x + count - d + Word
    BY <1>1, <1>3, RingDistance
  <2>. QED BY <1>2, <1>3, <2>1, <2>2 DEF Due
<1>4. CASE ~(x + count < d)
  <2>1. x + count - d \in 0 .. h
    BY <1>4
  <2>2. (x + count - d) % Word = x + count - d
    <3>1. PICK r \in 0 .. h : r = x + count - d
      BY <2>1
    <3>2. r \in 0 .. Word - 1
      BY <1>1
    <3>3. r % Word = r
      BY <1>1, <3>2, RingStays
    <3>. QED BY <3>1, <3>3
  <2>. QED BY <1>2, <1>4, <2>1, <2>2 DEF Due
<1>. QED BY <1>3, <1>4

\* So the loop gives the ticks that are due, as long as it may.
LEMMA TicksDue ==
    ASSUME NEW h \in Nat, Word = 4 * h, Word \div 2 = 2 * h, count \in 0 .. h,
           NEW l \in Nat, NEW d \in 0 .. Word - 1, l <= d, d - l <= 2 * h, NEW max \in Nat
    PROVE  LET n == DueTicks(l, d, max)
           IN  /\ n \in 0 .. max /\ n * count \in Nat /\ l + n * count <= d
               /\ n = max \/ d <= l + n * count + count
<1> DEFINE n == DueTicks(l, d, max)
           S == {i \in 0 .. n : ~(l + i * count <= d)}
<1>1. /\ n \in 0 .. max
      /\ \A i \in 0 .. n - 1 : Due((l + i * count) % Word, d)
      /\ n = max \/ ~Due((l + n * count) % Word, d)
  BY TicksAre
<1> HIDE DEF n
<1>2. \A i \in Nat : i * count \in Nat /\ l + i * count \in Nat
  OBVIOUS
<1>3. S = {}
  <2>1. SUFFICES ASSUME S # {} PROVE FALSE
    OBVIOUS
  <2>2. PICK i \in S : \A y \in S : i <= y
    <3>1. S \subseteq Nat
      BY <1>1
    <3> HIDE DEF S
    <3>. QED BY <3>1, <2>1, First
  <2>3. i # 0 /\ i \in 0 .. n
    BY <1>1
  <2>4. i - 1 \in 0 .. n - 1 /\ i - 1 \in Nat /\ ~(i - 1 \in S)
    BY <2>2, <2>3, <1>1
  <2>5. PICK m \in Nat : m = i - 1
    BY <2>4
  <2>6. l + m * count <= d
    BY <2>4, <2>5, <1>1
  <2>7. Due((l + m * count) % Word, d)
    BY <2>4, <2>5, <1>1
  <2>8. l + m * count + count < d
    BY <2>6, <2>7, <1>2, DueIs
  <2>9. i * count = m * count + count
    <3>1. i = m + 1
      BY <2>5, <2>3, <1>1
    <3>. QED BY <3>1
  <2>. QED BY <2>8, <2>9, <2>2, <1>2
<1>4. l + n * count <= d
  <2>1. n \in Nat
    BY <1>1
  <2>2. n \in 0 .. n
    BY <2>1
  <2>3. ~(n \in S)
    BY <1>3
  <2>. QED BY <2>2, <2>3
<1>5. n = max \/ d <= l + n * count + count
  BY <1>1, <1>2, <1>4, DueIs
<1>. QED BY <1>1, <1>2, <1>4, <1>5 DEF n

\* After the channel was loaded again the old distance makes no tick due.
LEMMA NoneDue ==
    ASSUME NEW h \in Nat, Word = 4 * h, Word \div 2 = 2 * h, count \in 0 .. h,
           NEW d \in 0 .. Word - 1, d - count > 2 * h, NEW max \in Nat
    PROVE  DueTicks(0, d, max) = 0
<1>1. Word \in Nat \ {0}
  OBVIOUS
<1>2. (0 + 0 * count) % Word = 0
  BY <1>1, RingAdvance
<1>3. (0 + count - d) % Word = count - d + Word
  BY <1>1, RingDistance
<1>4. ~Due(0, d)
  BY <1>3 DEF Due
<1>5. DueTicks(0, d, max) \in Nat
  BY TicksAre
<1>6. CASE DueTicks(0, d, max) # 0
  <2>1. 0 \in 0 .. DueTicks(0, d, max) - 1
    BY <1>5, <1>6
  <2>2. Due((0 + 0 * count) % Word, d)
    BY <2>1, TicksAre
  <2>. QED BY <2>2, <1>2, <1>4
<1>. QED BY <1>6

-----------------------------------------------------------------------------
(* The steps.                                                              *)

LEMMA PitInitWorks == ASSUME PitInit PROVE PitInv
<1>1. PICK h \in Nat : Word = 4 * h /\ Word \div 2 = 2 * h /\ Byte * Byte \in Nat
  BY HalfWord
<1>2. Counted(0) = 0
  BY DEF Counted
<1>3. Counted(2 * h) \in Nat
  BY CountedIs
<1>4. Byte * Byte >= 1
  BY PitAssumption
<1>5. Word >= 1 /\ MaxLate \in Nat
  BY PitAssumption, <1>4 DEF MaxPause
<1>. QED BY <1>1, <1>2, <1>3, <1>4, <1>5, PitAssumption DEF PitInit, PitInv, PitTypeOK, Period

\* A count that is written loads the channel.
LEMMA LoadWorks ==
    ASSUME PitInv, NEW v \in 0 .. Byte * Byte - 1, LoadCount(v),
           lag' = lag, mode0' \in 0 .. 7, access' \in {"lsb", "msb", "word0", "word1"}, latch' \in 0 .. Byte - 1
    PROVE  PitInv' /\ real' = 0
<1>1. PICK h \in Nat : Word = 4 * h /\ Word \div 2 = 2 * h /\ Byte * Byte \in Nat
  BY HalfWord
<1>2. Counted(0) = 0
  BY DEF Counted
<1>3. Counted(2 * h) \in Nat
  <2>1. 2 * h \in Nat
    OBVIOUS
  <2>. QED BY <2>1, CountedIs
<1>4. Byte * Byte >= 1
  BY PitAssumption
<1>5. Word >= 1 /\ MaxLate \in Nat
  BY PitAssumption, <1>4 DEF MaxPause
<1>6. count' \in 1 .. Byte * Byte
  BY <1>1, <1>4 DEF LoadCount, Period
<1>. QED BY <1>1, <1>2, <1>3, <1>4, <1>5, <1>6 DEF LoadCount, PitInv, PitTypeOK

\* A write to the channel's ports.
LEMMA WritesWork ==
    ASSUME PitInv, NEW b \in Data, WriteData(b)
    PROVE  PitInv' /\ (real' = 0 \/ UNCHANGED <<real, given, fired>>)
<1>1. b \in 0 .. Byte - 1 /\ Byte \in Nat \ {0}
  BY PitAssumption
<1>2. latch \in 0 .. Byte - 1 /\ mode0 \in 0 .. 7 /\ mode0' = mode0 /\ fired' = fired /\ lag' = lag
      /\ access \in {"lsb", "msb", "word0", "word1"}
  BY DEF PitInv, PitTypeOK, WriteData
<1>3. /\ b \in 0 .. Byte * Byte - 1 /\ b * Byte \in 0 .. Byte * Byte - 1
      /\ latch + b * Byte \in 0 .. Byte * Byte - 1
  <2>1. PICK y \in Nat : Byte = y + 1
    <3>1. Byte - 1 \in Nat /\ Byte = (Byte - 1) + 1
      BY <1>1
    <3>. QED BY <3>1
  <2>2. PICK z \in Nat : y = b + z
    <3>1. y - b \in Nat /\ y = b + (y - b)
      BY <1>1, <2>1
    <3>. QED BY <3>1
  <2>3. Byte * Byte = y * Byte + Byte /\ y * Byte = b * Byte + z * Byte
    BY <2>1, <2>2, <1>1
  <2>4. b * Byte \in Nat /\ z * Byte \in Nat /\ y * Byte \in Nat
    BY <2>1, <2>2, <1>1
  <2>5. Byte <= Byte * Byte
    BY <2>3, <2>4, <1>1
  <2>. QED BY <2>3, <2>4, <2>5, <1>1, <1>2
<1>4. CASE access = "lsb"
  <2>1. LoadCount(b) /\ UNCHANGED <<access, latch>>
    BY <1>4 DEF WriteData
  <2>. QED BY <2>1, <1>2, <1>3, LoadWorks
<1>5. CASE access = "msb"
  <2>1. LoadCount(b * Byte) /\ UNCHANGED <<access, latch>>
    BY <1>5 DEF WriteData
  <2>. QED BY <2>1, <1>2, <1>3, LoadWorks
<1>6. CASE access = "word1"
  <2>1. LoadCount(latch + b * Byte) /\ access' = "word0" /\ UNCHANGED latch
    BY <1>6 DEF WriteData
  <2>. QED BY <2>1, <1>2, <1>3, LoadWorks
<1>7. CASE access = "word0"
  <2>1. latch' = b /\ access' = "word1" /\ UNCHANGED <<count, since, last, fresh, real, given>>
    BY <1>7 DEF WriteData
  <2>. QED BY <2>1, <1>1, <1>2 DEF PitInv, PitTypeOK
<1>. QED BY <1>2, <1>4, <1>5, <1>6, <1>7

\* The clock and the distance an update works with, r microseconds after the
\* channel was loaded and with g counts given.
LEMMA UpdateIs ==
    ASSUME PitInv, NEW slip \in 0 .. MaxLate, NEW t \in 0 .. MaxPause, t <= Pace + slip - lag,
           NEW h \in Nat, Word = 4 * h, Word \div 2 = 2 * h,
           10 * (Byte * Byte) + 12 * MaxPause + 10 <= 4 * h, Byte * Byte \in Nat
    PROVE  LET us == real + t
               d  == Counted(us)
           IN  /\ (since + t) % Word = us /\ us \in 0 .. Word - 1 /\ d % Word = d /\ d \in 0 .. Word - 1
               /\ (us - since) % Word = t
               /\ given <= d /\ d - given <= 2 * h
               /\ count \in 0 .. h /\ given \in Nat /\ real \in Nat
<1> DEFINE us == real + t
           d == Counted(us)
           e == Counted(real)
<1>1. /\ since = real /\ real \in Nat /\ given \in Nat /\ given <= e
      /\ given <= Counted(2 * h) /\ count \in 1 .. Byte * Byte
      /\ 2 * real - 5 * given <= 5 * count + 4 + 2 * (lag + MaxLate)
      /\ lag \in -MaxLate .. MaxLate
      /\ real > 2 * h => e <= given + count
      /\ real < Word
  BY DEF PitInv, PitTypeOK
<1>2. /\ MaxPause \in Nat /\ t \in Nat /\ us \in Nat
      /\ 6 * t + 2 * (lag + MaxLate) <= 6 * MaxPause
  BY <1>1, PitAssumption DEF MaxPause
<1>3. /\ d \in Nat /\ 5 * d <= 6 * us /\ 6 * us < 5 * d + 5
      /\ e \in Nat /\ 5 * e <= 6 * real /\ 6 * real < 5 * e + 5
      /\ Counted(2 * h) \in Nat /\ 5 * Counted(2 * h) <= 12 * h
  <2>1. 2 * h \in Nat /\ 6 * (2 * h) = 12 * h
    OBVIOUS
  <2>2. d \in Nat /\ 5 * d <= 6 * us /\ 6 * us < 5 * d + 5
    <3> HIDE DEF us
    <3>. QED BY <1>2, CountedIs
  <2>3. e \in Nat /\ 5 * e <= 6 * real /\ 6 * real < 5 * e + 5
    BY <1>1, CountedIs
  <2>4. Counted(2 * h) \in Nat /\ 5 * Counted(2 * h) <= 6 * (2 * h)
    BY <2>1, CountedIs
  <2>. QED BY <2>1, <2>2, <2>3, <2>4
<1> HIDE DEF d, e
<1>4. us < 4 * h /\ d < 4 * h /\ given <= d /\ d - given <= 2 * h
  <2>1. CASE real <= 2 * h
    <3>1. PICK l \in Nat : l = lag + MaxLate
      BY <1>1, PitAssumption
    <3>. QED BY <2>1, <3>1, <1>1, <1>2, <1>3
  <2>2. CASE real > 2 * h
    BY <2>2, <1>1, <1>2, <1>3
  <2>. QED BY <2>1, <2>2, <1>1
<1>5. Word \in Nat \ {0} /\ us \in 0 .. Word - 1 /\ d \in 0 .. Word - 1 /\ t \in 0 .. Word - 1
  BY <1>1, <1>2, <1>3, <1>4
<1>6. us % Word = us /\ d % Word = d /\ (us - real) % Word = t
  <2>1. us - real = t
    BY <1>1, <1>2
  <2>. QED BY <2>1, <1>5, RingStays
<1>7. count \in 0 .. h
  BY <1>1, <1>2
<1>. QED BY <1>1, <1>4, <1>5, <1>6, <1>7 DEF d


\* An update that does not load the channel again keeps its ticks in the
\* bounds, and all that is due is given when fewer than it may give are.
LEMMA GivenIs ==
    ASSUME PitInv, NEW slip \in 0 .. MaxLate, NEW t \in 0 .. MaxPause, t <= Pace + slip - lag,
           NEW h \in Nat, Word = 4 * h, Word \div 2 = 2 * h,
           10 * (Byte * Byte) + 12 * MaxPause + 10 <= 4 * h, Byte * Byte \in Nat,
           ~(TooLong(real + t) /\ DueTicks(given, Counted(real + t), MaxTicks) > 0)
    PROVE  LET us == real + t
               d  == Counted(us)
               n  == DueTicks(given, d, MaxTicks)
               g  == given + n * count
           IN  /\ n \in 0 .. MaxTicks
               /\ g \in 0 .. Word - 1 /\ g <= d /\ g <= Counted(Word \div 2)
               /\ 2 * us - 5 * g <= 5 * count + 4 + 2 * (slip + MaxLate)
               /\ us > Word \div 2 => d <= g + count
               /\ n < MaxTicks => d <= g + count
<1> DEFINE us == real + t
           d == Counted(us)
           e == Counted(real)
           c == Counted(2 * h)
           n == DueTicks(given, d, MaxTicks)
           m == n * count
<1>1. /\ us \in 0 .. Word - 1 /\ d \in 0 .. Word - 1 /\ given <= d /\ d - given <= 2 * h
      /\ count \in 0 .. h /\ given \in Nat /\ real \in Nat
  BY UpdateIs
<1>2. /\ given <= c /\ count >= 1 /\ count \in Nat
      /\ 2 * real - 5 * given <= 5 * count + 4 + 2 * (lag + MaxLate)
      /\ lag \in -MaxLate .. MaxLate
  BY DEF PitInv, PitTypeOK
<1>3. /\ MaxLate \in Nat /\ MaxTicks \in Nat /\ MaxTicks > 0 /\ t \in Nat /\ Pace \in Nat
      /\ slip \in Nat /\ 2 * Pace <= 5 * MaxTicks
  BY PitAssumption, PaceAssumption DEF MaxPause
<1>4. /\ d \in Nat /\ 5 * d <= 6 * us /\ 6 * us < 5 * d + 5
      /\ e \in Nat /\ 5 * e <= 6 * real /\ 6 * real < 5 * e + 5
      /\ c \in Nat /\ 6 * (2 * h) < 5 * c + 5
  <2>1. 2 * h \in Nat /\ us \in Nat
    BY <1>1
  <2>2. d \in Nat /\ 5 * d <= 6 * us /\ 6 * us < 5 * d + 5
    <3> HIDE DEF us
    <3>. QED BY <2>1, CountedIs
  <2>3. e \in Nat /\ 5 * e <= 6 * real /\ 6 * real < 5 * e + 5
    BY <1>1, CountedIs
  <2>4. c \in Nat /\ 6 * (2 * h) < 5 * c + 5
    BY <2>1, CountedIs
  <2>. QED BY <2>2, <2>3, <2>4
<1> HIDE DEF d, e, c
<1>5. n \in 0 .. MaxTicks /\ m \in Nat /\ given + m <= d /\ (n = MaxTicks \/ d <= given + m + count)
  BY <1>1, <1>3, TicksDue
<1>6. us > 2 * h => n = 0
  BY <1>3, <1>5 DEF TooLong, d
<1>7. n = 0 => m = 0
  BY <1>2
<1>8. n = MaxTicks => m >= MaxTicks
  <2>1. PICK k \in Nat : count = k + 1
    <3>1. count - 1 \in Nat /\ count = (count - 1) + 1
      BY <1>2
    <3>. QED BY <3>1
  <2>2. MaxTicks * k \in Nat /\ MaxTicks * (k + 1) = MaxTicks * k + MaxTicks
    BY <2>1, <1>3
  <2>. QED BY <2>1, <2>2, <1>3
<1> HIDE DEF m, n
<1>9. given + m <= c
  BY <1>1, <1>2, <1>4, <1>5, <1>6, <1>7
<1>10. 2 * us - 5 * (given + m) <= 5 * count + 4 + 2 * (slip + MaxLate)
  <2>1. CASE n = MaxTicks
    BY <2>1, <1>1, <1>2, <1>3, <1>4, <1>5, <1>8
  <2>2. CASE d <= given + m + count
    BY <2>2, <1>1, <1>2, <1>3, <1>4, <1>5
  <2>. QED BY <2>1, <2>2, <1>5
<1>11. us > 2 * h => d <= given + m + count
  BY <1>3, <1>5, <1>6
<1>12. n < MaxTicks => d <= given + m + count
  BY <1>3, <1>5
<1>13. given + m \in 0 .. Word - 1
  BY <1>1, <1>5
<1>. QED BY <1>5, <1>9, <1>10, <1>11, <1>12, <1>13 DEF d, c, n, m

\* An update that loads the channel again.
LEMMA ReloadWorks ==
    ASSUME PitInv, NEW slip \in 0 .. MaxLate, NEW t \in 0 .. MaxPause, t <= Pace + slip - lag,
           TooLong(real + t)
    PROVE  LET d == Counted(real + t) IN DueTicks(0, d, MaxTicks - 1) = 0
<1>1. PICK h \in Nat : Word = 4 * h /\ Word \div 2 = 2 * h /\ Byte * Byte \in Nat
                       /\ 10 * (Byte * Byte) + 12 * MaxPause + 10 <= 4 * h
  BY HalfWord
<1> DEFINE us == real + t
           d == Counted(us)
<1>2. /\ us \in 0 .. Word - 1 /\ d \in 0 .. Word - 1 /\ count \in 0 .. h
  BY <1>1, UpdateIs
<1>3. us > 2 * h /\ us \in Nat
  BY <1>1, <1>2 DEF TooLong
<1>4. d \in Nat /\ 6 * us < 5 * d + 5
  <2> HIDE DEF us
  <2>. QED BY <1>3, CountedIs
<1>5. count \in Nat /\ count <= Byte * Byte
  BY DEF PitInv, PitTypeOK
<1>6. MaxPause \in Nat /\ MaxTicks - 1 \in Nat
  BY PitAssumption DEF MaxPause
<1> HIDE DEF d
<1>7. d - count > 2 * h
  BY <1>1, <1>3, <1>4, <1>5, <1>6
<1>. QED BY <1>1, <1>2, <1>6, <1>7, NoneDue DEF d

\* The update of core 0.
LEMMA UpdateWorks ==
    ASSUME PitInv, NEW slip \in 0 .. MaxLate, NEW t \in 0 .. MaxPause, t <= Pace + slip - lag,
           UpdateTimer(slip, t)
    PROVE  /\ PitInv'
           /\ fired' < MaxTicks /\ real' # 0 /\ ~aborted' => Counted(real') - given' <= count'
<1>1. PICK h \in Nat : Word = 4 * h /\ Word \div 2 = 2 * h /\ Byte * Byte \in Nat
                       /\ 10 * (Byte * Byte) + 12 * MaxPause + 10 <= 4 * h
  BY HalfWord
<1> DEFINE us == real + t
           d == Counted(us)
           n == DueTicks(given, d, MaxTicks)
<1>2. /\ (since + t) % Word = us /\ us \in 0 .. Word - 1 /\ d % Word = d /\ d \in 0 .. Word - 1
      /\ (us - since) % Word = t
  BY <1>1, UpdateIs
<1>3. last = given /\ since = real /\ PitTypeOK
  BY DEF PitInv, PitTypeOK
<1>4. ~aborted /\ UNCHANGED <<mode0, count, access, latch, writes>>
      /\ IF mode0 \in {2, 3} THEN GiveTicks(us, d) /\ lag' = slip /\ fresh' = FALSE /\ UNCHANGED aborted
         ELSE aborted' = TRUE /\ UNCHANGED <<since, last, lag, fresh, real, given, fired>>
  <2> HIDE DEF us
  <2>. QED BY <1>2, Zenon DEF UpdateTimer, d, us
<1>0. MaxLate \in Nat /\ slip \in -MaxLate .. MaxLate
  BY PitAssumption
<1>5. CASE ~(mode0 \in {2, 3})
  BY <1>3, <1>4, <1>5 DEF PitInv, PitTypeOK
<1>6. CASE mode0 \in {2, 3} /\ TooLong(us) /\ n > 0
  <2>1. DueTicks(0, d, MaxTicks - 1) = 0
    BY <1>6, ReloadWorks
  <2> HIDE DEF us, d
  <2>2. since' = 0 /\ real' = 0 /\ last' = 0 * count /\ given' = 0 * count
    BY <1>3, <1>4, <1>6, <2>1 DEF GiveTicks
  <2>3. last' = 0 /\ given' = 0
    BY <2>2, <1>3 DEF PitTypeOK
  <2>4. Counted(0) = 0
    BY DEF Counted
  <2>5. Counted(Word \div 2) \in Nat
    <3>1. 2 * h \in Nat
      OBVIOUS
    <3>. QED BY <3>1, <1>1, CountedIs
  <2>6. 0 \in 0 .. Word - 1
    BY <1>1, <1>2
  <2>7. lag' = slip /\ fresh' = FALSE /\ UNCHANGED <<mode0, count, access, latch>>
    BY <1>4, <1>6
  <2>8. PitTypeOK'
    BY <2>2, <2>3, <2>6, <2>7, <1>0, <1>3 DEF PitTypeOK
  <2>9. count \in Nat
    BY <1>1, <1>3 DEF PitTypeOK
  <2>10. 2 * real' - 5 * given' <= 5 * count' + 4 + 2 * (lag' + MaxLate)
    BY <2>2, <2>3, <2>7, <2>9, <1>0
  <2>11. ~(0 > Word \div 2)
    BY <1>1
  <2>. QED BY <2>2, <2>3, <2>4, <2>5, <2>8, <2>10, <2>11 DEF PitInv
<1>7. CASE mode0 \in {2, 3} /\ ~(TooLong(us) /\ n > 0)
  <2> DEFINE g == given + n * count
  <2>1. /\ n \in 0 .. MaxTicks
        /\ g \in 0 .. Word - 1 /\ g <= d /\ g <= Counted(Word \div 2)
        /\ 2 * us - 5 * g <= 5 * count + 4 + 2 * (slip + MaxLate)
        /\ us > Word \div 2 => d <= g + count
        /\ n < MaxTicks => d <= g + count
    BY <1>1, <1>7, GivenIs
  <2>2. g % Word = g
    <3>1. Word \in Nat \ {0}
      BY <1>1, <1>2
    <3> HIDE DEF g
    <3>. QED BY <3>1, <2>1, RingStays
  <2>3. since' = us /\ real' = real + t /\ last' = g % Word /\ given' = g /\ fired' = n
    <3> HIDE DEF us, d
    <3>. QED BY <1>2, <1>3, <1>4, <1>7 DEF GiveTicks, us, d
  <2>4. real' = us /\ last' = g /\ Counted(real') = d
    BY <2>2, <2>3
  <2> HIDE DEF us, d, n, g
  <2>5. g \in Int /\ d \in Int /\ count \in Int
    BY <1>2, <1>3, <2>1 DEF PitTypeOK
  <2>6. count' = count /\ lag' = slip /\ PitTypeOK'
    BY <1>0, <1>2, <1>3, <1>4, <1>7, <2>1, <2>3, <2>4 DEF PitTypeOK
  <2>7. PitInv'
    BY <2>1, <2>3, <2>4, <2>6 DEF PitInv
  <2>8. fired' < MaxTicks => Counted(real') - given' <= count'
    BY <2>1, <2>3, <2>4, <2>5, <2>6
  <2>. QED BY <2>7, <2>8
<1>8. fired' < MaxTicks /\ real' # 0 /\ ~aborted' => Counted(real') - given' <= count'
  BY <1>4, <1>6, <1>7
<1>. QED BY <1>5, <1>6, <1>7

\* Every step keeps the invariant, and the ticks of an update are those due.
LEMMA PitStepWorks ==
    ASSUME PitInv, [PitNext]_pitvars
    PROVE  /\ PitInv'
           /\ \/ fired' < MaxTicks /\ real' # 0 /\ ~aborted' => Counted(real') - given' <= count'
              \/ UNCHANGED <<real, given, fired>>
<1>1. ASSUME NEW m \in Mode, NEW a \in {"lsb", "msb", "word0"}, WriteControl(m, a)
      PROVE  PitInv' /\ UNCHANGED <<real, given, fired>>
  BY <1>1, PitAssumption DEF WriteControl, PitInv, PitTypeOK
<1>2. ASSUME NEW b \in Data, WriteData(b)
      PROVE  PitInv' /\ (real' = 0 \/ UNCHANGED <<real, given, fired>>)
  BY <1>2, WritesWork
<1>3. ASSUME NEW slip \in 0 .. MaxLate, NEW t \in 0 .. MaxPause, UpdateTimer(slip, t)
      PROVE  /\ PitInv'
             /\ fired' < MaxTicks /\ real' # 0 /\ ~aborted' => Counted(real') - given' <= count'
  <2>1. t <= Pace + slip - lag
    BY <1>3 DEF UpdateTimer
  <2>. QED BY <1>3, <2>1, UpdateWorks
<1>4. CASE UNCHANGED pitvars
  BY <1>4 DEF pitvars, PitInv, PitTypeOK
<1>. QED BY <1>1, <1>2, <1>3, <1>4 DEF PitNext

\* PitInv holds always: what core 0 remembers of the channel is true, and the
\* channel is loaded again before the distances could be mistaken.
THEOREM PitInvariance == PitSpec => []PitInv
<1>1. PitInit => PitInv
  BY PitInitWorks
<1>2. PitInv /\ [PitNext]_pitvars => PitInv'
  BY PitStepWorks
<1>. QED BY <1>1, <1>2, PTL DEF PitSpec

\* No tick comes before its time (i8254_update_irq).
THEOREM NeverEarlyHolds == PitSpec => []NeverEarly
<1>1. PitInv => NeverEarly
  BY DEF PitInv, NeverEarly
<1>. QED BY <1>1, PitInvariance, PTL

\* After an update at most one period is owed, or all it may give were given.
THEOREM InStepHolds == PitSpec => InStep
<1>1. PitInv /\ [PitNext]_pitvars =>
          [fired' < MaxTicks /\ real' # 0 /\ ~aborted' => Counted(real') - given' <= count']_<<real, given, fired>>
  BY PitStepWorks
<1>. QED BY <1>1, PitInvariance, PTL DEF PitSpec, InStep
=============================================================================
