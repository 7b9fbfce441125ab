---------------------------- MODULE I8042Proofs ----------------------------
(***************************************************************************)
(* The keyboard controller serves any set of keys with any codes, queues   *)
(* of any size and reserve, and any number of events.                      *)
(*                                                                         *)
(* The bytes of the keyboard that are not handled yet form one stream: the *)
(* byte the handler has read, the queue, and the byte that waits for its   *)
(* E0 to be read.  As long as nothing was refused or torn apart, every key *)
(* that the guest takes for pressed, or will when it comes to the make of  *)
(* the key, has a break further on unless it is held.  With the stream     *)
(* empty this is NoKeyStuck.  Refusals need the reserve: no make stands in *)
(* it.  The mouse's bytes, behind those of the packet the handler has      *)
(* begun, are packets and answers, each packet whole.                      *)
(*                                                                         *)
(* The BIOS calls that set the mouse up read bytes themselves.  They can   *)
(* break the stream only if bytes of the keyboard waited, and the packets  *)
(* only if the queue is left with the rest of one at its head: what is     *)
(* left of whole packets by reads at the head is whole but for the first.  *)
(***************************************************************************)
EXTENDS I8042, SequenceTheorems, TLAPS

-----------------------------------------------------------------------------
(* Bytes.                                                                  *)

\* The codes a byte may carry, and what the two devices may send.
Codes == Range(Scan) \cup {FakeShift, SysRq}
KBytes == {E0, Reply} \cup ({"make", "break"} \X Codes)
MBytes == {Reply} \cup ({"packet"} \X (0 .. 2))

\* The kinds of bytes are told apart, and so are their codes.
LEMMA ByteFacts ==
    /\ KBytes \subseteq Bytes /\ MBytes \subseteq Bytes
    /\ E0 \in KBytes /\ Reply \in KBytes /\ Reply \in MBytes /\ E0 # Reply
    /\ \A v \in Codes : Make(v) \in KBytes /\ Break(v) \in KBytes
    /\ \A v \in Codes : Make(v) # E0 /\ Break(v) # E0
    /\ \A v, w \in Codes : Make(v) # Break(w)
    /\ \A v, w \in Codes : (Make(v) = Make(w) => v = w) /\ (Break(v) = Break(w) => v = w)
    /\ \A v \in Codes : Reply # Make(v) /\ Reply # Break(v)
    /\ \A v \in Codes : Make(v)[1] = "make" /\ Break(v)[1] = "break"
    /\ E0[1] = "E0" /\ Reply[1] = "reply"
    /\ \A b \in KBytes : b = E0 \/ b = Reply \/ \E v \in Codes : b = Make(v) \/ b = Break(v)
  BY DEF KBytes, MBytes, Bytes, E0, Reply, Make, Break, Codes

\* A key sends bytes of the keyboard.
LEMMA KeyBytes ==
    ASSUME NEW k \in Key, NEW down \in BOOLEAN
    PROVE  /\ Scan[k] \in Codes /\ KeyByte(k, down) \in KBytes /\ KeyByte(k, down) # E0
           /\ FakeShift \in Codes /\ SysRq \in Codes
<1>1. Scan[k] \in Codes /\ FakeShift \in Codes /\ SysRq \in Codes
  BY KbdAssumption DEF Codes, Range
<1> QED
  BY <1>1, ByteFacts DEF KeyByte

-----------------------------------------------------------------------------
(* Queues.                                                                 *)

\* How many of n bytes find room.
LEMMA FitsIs ==
    ASSUME NEW l \in 0 .. QueueSize, NEW q, Len(q) = l, NEW n \in Nat, NEW critical \in BOOLEAN
    PROVE  /\ Fits(q, n, critical) \in 0 .. n /\ l + Fits(q, n, critical) \in 0 .. QueueSize
           /\ critical /\ l + n <= QueueSize => Fits(q, n, critical) = n
           /\ critical /\ Fits(q, n, critical) < n => l + Fits(q, n, critical) = QueueSize
           /\ ~critical /\ Fits(q, n, critical) > 0 =>
                 l + Fits(q, n, critical) <= QueueSize - Reserve
  BY KbdAssumption DEF Fits

\* Concatenation, by name.
Cat(q, r) == q \o r

\* Concatenation of sequences over one set.
LEMMA CatIs ==
    ASSUME NEW T, NEW a \in Seq(T), NEW b \in Seq(T), NEW c \in Seq(T)
    PROVE  /\ Cat(a, b) \in Seq(T) /\ Cat(b, c) \in Seq(T)
           /\ Cat(Cat(a, b), c) = Cat(a, Cat(b, c))
  BY ConcatAssociative, ConcatProperties DEF Cat

\* Nothing is added.
LEMMA CatEmpty ==
    ASSUME NEW T, NEW a \in Seq(T)
    PROVE  Cat(a, <<>>) = a /\ Cat(<<>>, a) = a
  BY ConcatEmptySeq DEF Cat

\* Two bytes, one after the other.
LEMMA CatOfTwo ==
    ASSUME NEW T, NEW x \in T, NEW y \in T
    PROVE  Cat(<<x>>, <<y>>) = <<x, y>>
<1> DEFINE a == <<x>>
           b == <<y>>
           c == <<x, y>>
           d == a \o b
<1>1. /\ a \in Seq(T) /\ Len(a) = 1 /\ a[1] = x
      /\ b \in Seq(T) /\ Len(b) = 1 /\ b[1] = y
      /\ c \in Seq(T) /\ Len(c) = 2 /\ c[1] = x /\ c[2] = y
  OBVIOUS
<1> HIDE DEF a, b, c
<1>2. /\ d \in Seq(T) /\ Len(d) = Len(a) + Len(b)
      /\ \A i \in 1 .. Len(a) + Len(b) : d[i] = IF i <= Len(a) THEN a[i] ELSE b[i - Len(a)]
  BY <1>1, ConcatProperties
<1> HIDE DEF d
<1>3. Len(d) = 2 /\ d[1] = a[1] /\ d[2] = b[1]
  BY <1>1, <1>2
<1>4. d = c
  BY <1>1, <1>2, <1>3, SeqEqual
<1> QED
  BY <1>4 DEF Cat, a, b, c, d

\* What a queue holds after n bytes were offered.
LEMMA QueuedIs ==
    ASSUME NEW T, NEW q \in Seq(T), NEW bs \in Seq(T), Len(q) <= QueueSize,
           NEW critical \in BOOLEAN
    PROVE  LET n == Fits(q, Len(bs), critical)
               r == Queued(q, bs, critical)
           IN  /\ n \in 0 .. Len(bs) /\ r \in Seq(T) /\ Len(r) = Len(q) + n /\ Len(r) <= QueueSize
               /\ \A i \in 1 .. Len(r) : r[i] = IF i <= Len(q) THEN q[i] ELSE bs[i - Len(q)]
               /\ n = 0 => r = q
               /\ n = Len(bs) => r = Cat(q, bs)
               /\ critical /\ n < Len(bs) => Len(r) = QueueSize
               /\ ~critical /\ n > 0 => Len(r) <= QueueSize - Reserve
<1> DEFINE n == Fits(q, Len(bs), critical)
           t == SubSeq(bs, 1, n)
           r == q \o t
<1>1. Len(q) \in 0 .. QueueSize /\ Len(bs) \in Nat
  BY KbdAssumption
<1>2. /\ n \in 0 .. Len(bs) /\ Len(q) + n \in 0 .. QueueSize
      /\ critical /\ n < Len(bs) => Len(q) + n = QueueSize
      /\ ~critical /\ n > 0 => Len(q) + n <= QueueSize - Reserve
  BY <1>1, FitsIs
<1> HIDE DEF n
<1>3. t \in Seq(T) /\ Len(t) = n /\ \A i \in 1 .. n : t[i] = bs[i]
  <2>1. n \in Int /\ 1 \in Int /\ (\A i \in 1 .. n : bs[i] \in T) /\ n - 1 + 1 = n
    BY <1>2, ElementOfSeq
  <2>2. /\ SubSeq(bs, 1, n) \in Seq(T)
        /\ Len(SubSeq(bs, 1, n)) = IF 1 <= n THEN n - 1 + 1 ELSE 0
        /\ \A i \in 1 .. n - 1 + 1 : SubSeq(bs, 1, n)[i] = bs[1 + i - 1]
    BY <2>1, SubSeqProperties
  <2>3. \A i \in 1 .. n : 1 + i - 1 = i
    OBVIOUS
  <2> QED
    BY <1>2, <2>1, <2>2, <2>3
<1> HIDE DEF t
<1>4. /\ r \in Seq(T) /\ Len(r) = Len(q) + n
      /\ \A i \in 1 .. Len(q) + n : r[i] = IF i <= Len(q) THEN q[i] ELSE t[i - Len(q)]
  BY <1>3, ConcatProperties
<1>5. ASSUME NEW i \in 1 .. Len(r), ~(i <= Len(q)) PROVE t[i - Len(q)] = bs[i - Len(q)]
  <2>1. i - Len(q) \in 1 .. n
    BY <1>1, <1>2, <1>4, <1>5
  <2> QED
    BY <1>3, <2>1
<1>6. n = 0 => r = q
  BY <1>3, ConcatEmptySeq, EmptySeq
<1>7. n = Len(bs) => t = bs
  BY <1>3, SeqEqual
<1>8. Queued(q, bs, critical) = r
  BY DEF Queued, t, n
<1>8a. n = Len(bs) => r = Cat(q, bs)
  BY <1>7 DEF r, Cat
<1> HIDE DEF r
<1>9. /\ n \in 0 .. Len(bs) /\ r \in Seq(T) /\ Len(r) = Len(q) + n /\ Len(r) <= QueueSize
      /\ \A i \in 1 .. Len(r) : r[i] = IF i <= Len(q) THEN q[i] ELSE bs[i - Len(q)]
      /\ n = 0 => r = q
      /\ n = Len(bs) => r = Cat(q, bs)
      /\ critical /\ n < Len(bs) => Len(r) = QueueSize
      /\ ~critical /\ n > 0 => Len(r) <= QueueSize - Reserve
  BY <1>2, <1>4, <1>5, <1>6, <1>8a
<1> QED
  BY <1>8, <1>9 DEF n

-----------------------------------------------------------------------------
(* The keyboard's bytes as one stream.                                     *)

\* What the guest may take for a key: after E0 two codes are no keys.
Ids == {x \in BOOLEAN \X Codes : x[1] => x[2] \notin {FakeShift, SysRq}}

\* Whether byte i of the stream comes after an E0; e0 is said of the first.
Prefix(s, e0, i) == IF i = 1 THEN e0 ELSE s[i - 1] = E0

\* Byte i takes the key x down, or up.
Means(s, e0, i, x) == x[1] = Prefix(s, e0, i)
Makes(s, e0, i, x)  == s[i] = Make(x[2]) /\ Means(s, e0, i, x)
Breaks(s, e0, i, x) == s[i] = Break(x[2]) /\ Means(s, e0, i, x)

\* The stream ends in the middle of a code.
Open(s, e0) == IF s = <<>> THEN e0 ELSE s[Len(s)] = E0

\* Whatever key is not held, and is down or will be, will be released after.
StreamInv(s, e0, down, heldIds) ==
    /\ ~Open(s, e0)
    /\ \A x \in down \ heldIds : \E j \in 1 .. Len(s) : Breaks(s, e0, j, x)
    /\ \A x \in Ids \ heldIds, i \in 1 .. Len(s) :
          Makes(s, e0, i, x) => \E j \in i + 1 .. Len(s) : Breaks(s, e0, j, x)

\* The stream goes on, and some keys are pressed or released.
LEMMA StreamGrows ==
    ASSUME NEW s \in Seq(KBytes), NEW bs \in Seq(KBytes), NEW e0 \in BOOLEAN,
           NEW down \in SUBSET Ids, NEW before, NEW after,
           StreamInv(s, e0, down, before),
           ~Open(bs, FALSE),
           \A x \in Ids \ after : x \in before => \E j \in 1 .. Len(bs) : Breaks(bs, FALSE, j, x),
           \A x \in Ids \ after, i \in 1 .. Len(bs) :
               Makes(bs, FALSE, i, x) => \E j \in i + 1 .. Len(bs) : Breaks(bs, FALSE, j, x)
    PROVE  StreamInv(s \o bs, e0, down, after)
<1> DEFINE t == s \o bs
           m == Len(s)
           n == Len(bs)
<1>1. /\ t \in Seq(KBytes) /\ Len(t) = m + n /\ m \in Nat /\ n \in Nat
      /\ \A i \in 1 .. m + n : t[i] = IF i <= m THEN s[i] ELSE bs[i - m]
  BY ConcatProperties, LenProperties
<1>2. \A i \in 1 .. m : t[i] = s[i]
  BY <1>1
<1>3. \A i \in 1 .. n : t[m + i] = bs[i]
  <2>1. \A i \in 1 .. n : m + i \in 1 .. m + n /\ ~(m + i <= m) /\ m + i - m = i
    BY <1>1
  <2> QED
    BY <1>1, <2>1
<1> HIDE DEF t
<1>4. ASSUME NEW i \in 1 .. m PROVE Prefix(t, e0, i) = Prefix(s, e0, i)
  BY <1>1, <1>2 DEF Prefix
<1>5. ASSUME NEW i \in 1 .. n PROVE Prefix(t, e0, m + i) = Prefix(bs, FALSE, i)
  <2>1. CASE i = 1 /\ m = 0
    <3>1. s = <<>>
      BY <2>1, EmptySeq
    <3>2. e0 = FALSE
      BY <3>1 DEF StreamInv, Open
    <3>3. m + i = 1 /\ i = 1
      BY <2>1
    <3>4. Prefix(bs, FALSE, i) = FALSE
      BY <3>3 DEF Prefix
    <3>5. Prefix(t, e0, m + i) = e0
      BY <3>3 DEF Prefix
    <3> QED
      BY <3>2, <3>4, <3>5
  <2>2. CASE i = 1 /\ m # 0
    <3>1. s # <<>> /\ m + i # 1 /\ m + i - 1 = m /\ m \in 1 .. m /\ i = 1
      BY <1>1, <2>2, EmptySeq
    <3>2. s[m] # E0
      BY <3>1 DEF StreamInv, Open
    <3>3. Prefix(t, e0, m + i) = (t[m] = E0)
      BY <3>1 DEF Prefix
    <3>4. t[m] # E0
      BY <1>2, <3>1, <3>2
    <3>5. Prefix(bs, FALSE, i) = FALSE
      BY <3>1 DEF Prefix
    <3> QED
      BY <3>3, <3>4, <3>5
  <2>3. CASE i # 1
    <3>1. i - 1 \in 1 .. n /\ m + i # 1 /\ m + i - 1 = m + (i - 1)
      BY <1>1, <2>3
    <3> QED
      BY <1>3, <2>3, <3>1 DEF Prefix
  <2> QED
    BY <2>1, <2>2, <2>3
<1>6. ASSUME NEW x, NEW i \in 1 .. m
      PROVE  /\ Makes(t, e0, i, x) <=> Makes(s, e0, i, x)
             /\ Breaks(t, e0, i, x) <=> Breaks(s, e0, i, x)
  BY <1>2, <1>4 DEF Makes, Breaks, Means
<1>7. ASSUME NEW x, NEW i \in 1 .. n
      PROVE  /\ Makes(t, e0, m + i, x) <=> Makes(bs, FALSE, i, x)
             /\ Breaks(t, e0, m + i, x) <=> Breaks(bs, FALSE, i, x)
  BY <1>3, <1>5 DEF Makes, Breaks, Means
\* A key that was held has a break in what was appended.
<1>8. ASSUME NEW x \in Ids \ after, NEW i \in Nat, i <= m,
             x \notin before => \E j \in i + 1 .. m : Breaks(s, e0, j, x)
      PROVE  \E j \in i + 1 .. m + n : Breaks(t, e0, j, x)
  <2>1. CASE x \notin before
    <3>1. PICK j \in i + 1 .. m : Breaks(s, e0, j, x)
      BY <1>8, <2>1
    <3>2. j \in 1 .. m /\ j \in i + 1 .. m + n
      BY <1>1, <3>1
    <3> QED
      BY <1>6, <3>1, <3>2
  <2>2. CASE x \in before
    <3>1. PICK j \in 1 .. n : Breaks(bs, FALSE, j, x)
      BY <2>2
    <3>2. m + j \in i + 1 .. m + n
      BY <1>1, <1>8, <3>1
    <3> QED
      BY <1>7, <3>1, <3>2
  <2> QED
    BY <2>1, <2>2
<1>9. ~Open(t, e0)
  <2>1. CASE n = 0
    <3>1. bs = <<>> /\ t = s
      BY <2>1, EmptySeq, ConcatEmptySeq DEF t
    <3> QED
      BY <3>1 DEF StreamInv
  <2>2. CASE n # 0
    <3>1. n \in 1 .. n /\ t # <<>> /\ bs # <<>>
      BY <1>1, <2>2, EmptySeq
    <3> QED
      BY <1>1, <1>3, <3>1 DEF Open
  <2> QED
    BY <2>1, <2>2
<1>10. ASSUME NEW x \in down \ after PROVE \E j \in 1 .. m + n : Breaks(t, e0, j, x)
  <2>1. x \notin before => \E j \in 0 + 1 .. m : Breaks(s, e0, j, x)
    BY DEF StreamInv
  <2> QED
    BY <1>1, <1>8, <2>1
<1>11. ASSUME NEW x \in Ids \ after, NEW i \in 1 .. m + n, Makes(t, e0, i, x)
       PROVE  \E j \in i + 1 .. m + n : Breaks(t, e0, j, x)
  <2>1. CASE i <= m
    <3>1. i \in 1 .. m /\ i \in Nat
      BY <1>1, <2>1
    <3>2. x \notin before => \E j \in i + 1 .. m : Breaks(s, e0, j, x)
      BY <1>6, <1>11, <3>1 DEF StreamInv
    <3> QED
      BY <1>8, <2>1, <3>1, <3>2
  <2>2. CASE ~(i <= m)
    <3> DEFINE k == i - m
    <3>1. k \in 1 .. n /\ m + k = i
      BY <1>1, <2>2
    <3> HIDE DEF k
    <3>2. PICK j \in k + 1 .. n : Breaks(bs, FALSE, j, x)
      BY <1>7, <1>11, <3>1
    <3>3. j \in 1 .. n /\ m + j \in i + 1 .. m + n
      BY <1>1, <3>1, <3>2
    <3> QED
      BY <1>7, <3>2, <3>3
  <2> QED
    BY <2>1, <2>2
<1> QED
  BY <1>1, <1>9, <1>10, <1>11 DEF StreamInv, t

-----------------------------------------------------------------------------
(* The invariant.                                                          *)

\* Byte j of a packet.
P(j) == <<"packet", j>>

\* What was read, what is queued and what is held back, in this order.
KeyStream == bios.byte \o kq \o (IF delay.on THEN <<delay.byte>> ELSE <<>>)

\* What the guest ought to take for down.
HeldIds == {KbdId(k) : k \in held \ {"sysrq"}}

\* Every byte of a packet stands in its place.
Aligned(s) == \A i \in 1 .. Len(s) :
    /\ s[i] = P(0) => i + 2 <= Len(s) /\ s[i + 1] = P(1) /\ s[i + 2] = P(2)
    /\ s[i] = P(1) => i > 1 /\ s[i - 1] = P(0)
    /\ s[i] = P(2) => i > 1 /\ s[i - 1] = P(1)

\* The keyboard: no make in the reserve, none held back that could get there.
KeyTypes ==
    /\ kq \in Seq(KBytes) /\ Len(kq) <= QueueSize
    /\ delay = NoDelay \/ delay \in [on : {TRUE}, critical : BOOLEAN, byte : KBytes \ {E0}]
    /\ delay.on /\ delay.byte[1] = "make" => ~delay.critical
    /\ held \subseteq Key \cup {"sysrq"}
    /\ ReserveKept

\* The handlers.
BiosTypes ==
    /\ bios \in [byte : Seq(KBytes), e0 : BOOLEAN, down : SUBSET Ids, packet : Seq(MBytes)]
    /\ Len(bios.byte) <= 1 /\ Len(bios.packet) < 3

\* The mouse.
MouseTypes ==
    /\ mq \in Seq(MBytes) /\ Len(mq) <= QueueSize
    /\ mouse \in [reports : {"off", "stream", "remote"}, owed : Nat]

\* The rest of the state.
OtherTypes ==
    /\ irr \subseteq {1, 12} /\ mode \subseteq {"kbd_int", "mouse_int", "disable_kbd"}
    /\ lost \subseteq {"KBD", "AUX"} /\ eaten \subseteq {"KBD", "AUX"}
    /\ torn \in BOOLEAN /\ mangled \in BOOLEAN /\ events \in 0 .. MaxEvents

\* Pending and lines follow from the queues, and requests from the lines.
LinesTrue ==
    /\ pending = (IF kq = <<>> THEN {} ELSE {"KBD"}) \cup (IF mq = <<>> THEN {} ELSE {"AUX"})
    /\ level = Levels(pending, mode)
    /\ level \subseteq irr

\* The stream releases what is not held, unless something was refused, torn or
\* read by a call to the mouse.
KeysInv ==
    "KBD" \notin lost \cup eaten /\ ~torn => StreamInv(KeyStream, bios.e0, bios.down, HeldIds)

\* Packets are whole and begin where the handler expects it, unless half of one
\* was refused or a call has cut one.
MouseInv ==
    "AUX" \notin lost \cup eaten =>
        /\ ~mangled
        /\ bios.packet = <<>> \/ bios.packet[1] = P(0)
        /\ Aligned(Cat(bios.packet, mq))

\* The inductive invariant.
KbdInv == KeyTypes /\ BiosTypes /\ MouseTypes /\ OtherTypes /\ LinesTrue /\ KeysInv /\ MouseInv

-----------------------------------------------------------------------------
(* What is read from the stream, and what is added to it.                  *)

\* The first byte of the stream is taken; it may press or release its key.
LEMMA StreamRead ==
    ASSUME NEW s \in Seq(KBytes), s # <<>>, NEW e0 \in BOOLEAN,
           NEW down \in SUBSET Ids, NEW after \in SUBSET Ids, NEW heldIds,
           StreamInv(s, e0, down, heldIds),
           \A x \in after : x \in down \/ Makes(s, e0, 1, x),
           \A x \in Ids : Breaks(s, e0, 1, x) => x \notin after
    PROVE  StreamInv(Tail(s), s[1] = E0, after, heldIds)
<1> DEFINE t == Tail(s)
           m == Len(t)
           z == (s[1] = E0)
<1>1. /\ t \in Seq(KBytes) /\ m \in Nat /\ Len(s) = m + 1
      /\ \A i \in 1 .. m : t[i] = s[i + 1]
  <2>1. t \in Seq(KBytes) /\ Len(t) = Len(s) - 1 /\ \A i \in 1 .. Len(t) : t[i] = s[i + 1]
    BY HeadTailProperties
  <2>2. Len(s) \in Nat /\ Len(t) \in Nat
    BY <2>1, LenProperties
  <2> QED
    BY <2>1, <2>2
<1>2. z \in BOOLEAN
  OBVIOUS
<1> HIDE DEF t, z
<1>3. ASSUME NEW i \in 1 .. m PROVE Prefix(t, z, i) = Prefix(s, e0, i + 1)
  <2>1. CASE i = 1
    <3>1. i + 1 # 1 /\ i + 1 - 1 = i
      BY <1>1
    <3>2. Prefix(t, z, i) = z
      BY <2>1 DEF Prefix
    <3>3. Prefix(s, e0, i + 1) = (s[i] = E0)
      BY <3>1 DEF Prefix
    <3>4. z = (s[i] = E0)
      BY <2>1 DEF z
    <3> QED
      BY <3>2, <3>3, <3>4
  <2>2. CASE i # 1
    <3>1. i + 1 # 1 /\ i + 1 - 1 = i /\ i - 1 \in 1 .. m /\ i - 1 + 1 = i
      BY <1>1, <2>2
    <3>2. Prefix(t, z, i) = (t[i - 1] = E0)
      BY <2>2 DEF Prefix
    <3>3. Prefix(s, e0, i + 1) = (s[i] = E0)
      BY <3>1 DEF Prefix
    <3>4. t[i - 1] = s[i]
      BY <1>1, <3>1
    <3> QED
      BY <3>2, <3>3, <3>4
  <2> QED
    BY <2>1, <2>2
<1>4. ASSUME NEW x, NEW i \in 1 .. m
      PROVE  /\ Makes(t, z, i, x) <=> Makes(s, e0, i + 1, x)
             /\ Breaks(t, z, i, x) <=> Breaks(s, e0, i + 1, x)
  BY <1>1, <1>3 DEF Makes, Breaks, Means
<1>5. ASSUME NEW x, NEW i \in 1 .. m + 1, NEW j \in i + 1 .. m + 1, Breaks(s, e0, j, x)
      PROVE  j - 1 \in i .. m /\ Breaks(t, z, j - 1, x)
  <2>1. j - 1 \in i .. m /\ j - 1 \in 1 .. m /\ j - 1 + 1 = j
    BY <1>1
  <2> QED
    BY <1>4, <1>5, <2>1
<1>6. ~Open(t, z)
  <2>1. CASE m = 0
    <3>1. t = <<>> /\ Len(s) = 1
      BY <1>1, <2>1, EmptySeq
    <3>2. s[1] # E0
      BY <3>1 DEF StreamInv, Open
    <3> QED
      BY <3>1, <3>2 DEF Open, z
  <2>2. CASE m # 0
    <3>1. m \in 1 .. m /\ t # <<>>
      BY <1>1, <2>2, EmptySeq
    <3>2. s[m + 1] # E0
      BY <1>1 DEF StreamInv, Open
    <3> QED
      BY <1>1, <3>1, <3>2 DEF Open
  <2> QED
    BY <2>1, <2>2
<1>7. ASSUME NEW x \in after \ heldIds PROVE \E j \in 1 .. m : Breaks(t, z, j, x)
  <2>1. \E j \in 1 + 1 .. m + 1 : Breaks(s, e0, j, x)
    <3>1. CASE x \in down
      <4>1. PICK j \in 1 .. m + 1 : Breaks(s, e0, j, x)
        BY <1>1, <3>1 DEF StreamInv
      <4>2. j # 1
        BY <4>1
      <4>3. j \in 1 + 1 .. m + 1
        BY <1>1, <4>1, <4>2
      <4> QED
        BY <4>1, <4>3
    <3>2. CASE x \notin down
      <4>1. x \in Ids \ heldIds /\ Makes(s, e0, 1, x) /\ 1 \in 1 .. Len(s)
        BY <1>1, <3>2
      <4> QED
        BY <1>1, <4>1 DEF StreamInv
    <3> QED
      BY <3>1, <3>2
  <2>2. PICK j \in 1 + 1 .. m + 1 : Breaks(s, e0, j, x)
    BY <2>1
  <2>3. 1 \in 1 .. m + 1
    BY <1>1
  <2> QED
    BY <1>5, <2>2, <2>3
<1>8. ASSUME NEW x \in Ids \ heldIds, NEW i \in 1 .. m, Makes(t, z, i, x)
      PROVE  \E j \in i + 1 .. m : Breaks(t, z, j, x)
  <2>1. i + 1 \in 1 .. m + 1 /\ Makes(s, e0, i + 1, x)
    BY <1>1, <1>4, <1>8
  <2>2. PICK j \in i + 1 + 1 .. m + 1 : Breaks(s, e0, j, x)
    BY <1>1, <2>1 DEF StreamInv
  <2> QED
    BY <1>5, <2>1, <2>2
<1>9. StreamInv(t, z, after, heldIds)
  BY <1>6, <1>7, <1>8 DEF StreamInv
<1> QED
  BY <1>9 DEF t, z

\* What the handler makes of a byte is what the stream says of its first.
LEMMA DecodedIs ==
    ASSUME BiosTypes, NEW b \in KBytes, NEW s, s[1] = b
    PROVE  LET after == Decoded(b).down
           IN  /\ Decoded(b) \in [byte : Seq(KBytes), e0 : BOOLEAN, down : SUBSET Ids,
                                  packet : Seq(MBytes)]
               /\ Decoded(b).byte = <<>> /\ Decoded(b).packet = bios.packet
               /\ Decoded(b).e0 = (b = E0)
               /\ \A x \in after : x \in bios.down \/ Makes(s, bios.e0, 1, x)
               /\ \A x \in Ids : Breaks(s, bios.e0, 1, x) => x \notin after
<1> DEFINE id == <<bios.e0, b[2]>>
           known == bios.e0 => b[2] \notin {FakeShift, SysRq}
           after == CASE b[1] = "make"  /\ known -> bios.down \cup {id}
                      [] b[1] = "break" /\ known -> bios.down \ {id}
                      [] OTHER -> bios.down
<1>1. /\ bios.e0 \in BOOLEAN /\ bios.down \subseteq Ids
      /\ bios \in [byte : Seq(KBytes), e0 : BOOLEAN, down : SUBSET Ids, packet : Seq(MBytes)]
  BY DEF BiosTypes
<1>2. /\ b[1] = "make" => b[2] \in Codes /\ b = Make(b[2])
      /\ b[1] = "break" => b[2] \in Codes /\ b = Break(b[2])
  BY DEF KBytes, E0, Reply, Make, Break
<1>3. b[1] \in {"make", "break"} /\ known => id \in Ids
  BY <1>1, <1>2 DEF Ids
<1>3a. Decoded(b) = [bios EXCEPT !.byte = <<>>, !.e0 = (b = E0), !.down = after]
  BY DEF Decoded
<1> HIDE DEF after
<1>3b. /\ Decoded(b).byte = <<>> /\ Decoded(b).packet = bios.packet
       /\ Decoded(b).e0 = (b = E0) /\ Decoded(b).down = after
       /\ after \subseteq Ids => Decoded(b) \in [byte : Seq(KBytes), e0 : BOOLEAN,
                                               down : SUBSET Ids, packet : Seq(MBytes)]
  <2> DEFINE z == (b = E0)
             d == Decoded(b)
  <2>1. z \in BOOLEAN /\ d = [bios EXCEPT !.byte = <<>>, !.e0 = z, !.down = after]
    BY <1>3a
  <2>2. <<>> \in Seq(KBytes)
    OBVIOUS
  <2> HIDE DEF z, d
  <2>3. /\ d.byte = <<>> /\ d.packet = bios.packet /\ d.e0 = z /\ d.down = after
        /\ after \subseteq Ids => d \in [byte : Seq(KBytes), e0 : BOOLEAN, down : SUBSET Ids,
                                       packet : Seq(MBytes)]
    BY <1>1, <2>1, <2>2
  <2> QED
    BY <2>3 DEF z, d
<1>4. CASE b[1] = "make" /\ known
  <2>1. after = bios.down \cup {id}
    BY <1>4 DEF after
  <2>2. Makes(s, bios.e0, 1, id)
    BY <1>2, <1>4 DEF Makes, Means, Prefix
  <2>3. ASSUME NEW x PROVE ~Breaks(s, bios.e0, 1, x)
    BY <1>4 DEF Breaks, Break
  <2>4. after \subseteq Ids /\ \A x \in after : x \in bios.down \/ Makes(s, bios.e0, 1, x)
    BY <1>1, <1>3, <1>4, <2>1, <2>2
  <2> QED
    BY <1>3b, <2>3, <2>4
<1>5. CASE b[1] = "break" /\ known
  <2>1. after = bios.down \ {id}
    BY <1>5 DEF after
  <2>2. ASSUME NEW x \in Ids, Breaks(s, bios.e0, 1, x) PROVE x = id
    BY <1>2, <2>2 DEF Breaks, Break, Means, Prefix, Ids
  <2>3. after \subseteq bios.down /\ \A x \in Ids : Breaks(s, bios.e0, 1, x) => x \notin after
    BY <1>1, <2>1, <2>2
  <2> QED
    BY <1>1, <1>3b, <2>3
<1>6. CASE ~(b[1] = "make" /\ known) /\ ~(b[1] = "break" /\ known)
  <2>1. after = bios.down
    BY <1>6 DEF after
  <2>2. ASSUME NEW x \in Ids PROVE ~Breaks(s, bios.e0, 1, x)
    <3>1. CASE b[1] # "break"
      BY <3>1 DEF Breaks, Break
    <3>2. CASE ~known
      BY <3>2, <1>1 DEF Breaks, Break, Means, Prefix, Ids
    <3> QED
      BY <1>6, <3>1, <3>2
  <2> QED
    BY <1>1, <1>3b, <2>1, <2>2
<1> QED
  BY <1>4, <1>5, <1>6

-----------------------------------------------------------------------------
(* What the events add.                                                    *)

\* A key that is pressed needs no release.
LEMMA MoreHeld ==
    ASSUME NEW s, NEW e0, NEW down, NEW before, NEW after, before \subseteq after,
           StreamInv(s, e0, down, before)
    PROVE  StreamInv(s, e0, down, after)
  BY DEF StreamInv

\* The bytes of a key.
KeyCode(k, down) ==
    IF k \in Extended THEN <<E0, KeyByte(k, down)>> ELSE <<KeyByte(k, down)>>

\* They mean this key and no other.
LEMMA KeyCodeIs ==
    ASSUME NEW k \in Key, NEW down \in BOOLEAN
    PROVE  LET bs == KeyCode(k, down)
           IN  /\ bs \in Seq(KBytes) /\ ~Open(bs, FALSE) /\ KbdId(k) \in BOOLEAN \X Codes
               /\ ~down /\ KbdId(k) \in Ids =>
                     \E j \in 1 .. Len(bs) : Breaks(bs, FALSE, j, KbdId(k))
               /\ \A x \in Ids, i \in 1 .. Len(bs) :
                     Makes(bs, FALSE, i, x) => down /\ x = KbdId(k)
<1> DEFINE b == KeyByte(k, down)
           c == Scan[k]
<1>1. /\ c \in Codes /\ b \in KBytes /\ b # E0 /\ E0 \in KBytes
      /\ b = (IF down THEN Make(c) ELSE Break(c))
  BY KeyBytes, ByteFacts DEF KeyByte
<1>2. /\ \A v, w \in Codes : Make(v) # Break(w) /\ (Make(v) = Make(w) => v = w)
      /\ \A v \in Codes : Make(v) # E0
  BY ByteFacts
<1> DEFINE id == KbdId(k)
<1>3. /\ id \in BOOLEAN \X Codes /\ id[2] = c
      /\ k \in Extended => id[1] = TRUE
      /\ k \notin Extended => id[1] = FALSE
  <2> DEFINE z == (k \in Extended)
  <2>1. id = <<z, c>> /\ z \in BOOLEAN
    BY DEF KbdId
  <2>2. (k \in Extended => z = TRUE) /\ (k \notin Extended => z = FALSE)
    OBVIOUS
  <2> HIDE DEF z, id
  <2> QED
    BY <1>1, <2>1, <2>2
<1>3a. \A x, y \in BOOLEAN \X Codes : x[1] = y[1] /\ x[2] = y[2] => x = y
  OBVIOUS
<1> HIDE DEF b, c, id
<1>4. CASE k \in Extended
  <2> DEFINE bs == <<E0, b>>
  <2>1. KeyCode(k, down) = bs
    BY <1>4 DEF KeyCode, b
  <2>2. bs \in Seq(KBytes) /\ Len(bs) = 2 /\ bs[1] = E0 /\ bs[2] = b /\ bs # <<>>
    BY <1>1
  <2> HIDE DEF bs
  <2>3. Prefix(bs, FALSE, 2) = TRUE
    BY <2>2 DEF Prefix
  <2>4. ~Open(bs, FALSE)
    BY <1>1, <2>2 DEF Open
  <2>5. id[1] = TRUE /\ id[2] = c
    BY <1>3, <1>4
  <2>6. ASSUME ~down PROVE \E j \in 1 .. Len(bs) : Breaks(bs, FALSE, j, id)
    <3>1. bs[2] = Break(id[2]) /\ 2 \in 1 .. Len(bs)
      BY <1>1, <2>2, <2>5, <2>6
    <3>2. id[1] = Prefix(bs, FALSE, 2)
      BY <2>3, <2>5
    <3>3. Breaks(bs, FALSE, 2, id)
      BY <3>1, <3>2 DEF Breaks, Means
    <3> QED
      BY <3>1, <3>3
  <2>7. ASSUME NEW x \in Ids, NEW i \in 1 .. 2, Makes(bs, FALSE, i, x)
        PROVE  down /\ x = id
    <3>1. x[2] \in Codes /\ x \in BOOLEAN \X Codes /\ bs[i] = Make(x[2])
      BY <2>7 DEF Ids, Makes
    <3>2. i = 2
      BY <1>2, <2>2, <3>1
    <3>3. b = Make(x[2])
      BY <2>2, <3>1, <3>2
    <3>4. down /\ x[2] = c
      BY <1>1, <1>2, <3>1, <3>3
    <3>5. x[1] = TRUE
      BY <2>3, <2>7, <3>2 DEF Makes, Means
    <3> QED
      BY <1>3, <1>3a, <2>5, <3>1, <3>4, <3>5
  <2>8. /\ bs \in Seq(KBytes) /\ ~Open(bs, FALSE) /\ id \in BOOLEAN \X Codes
        /\ ~down /\ id \in Ids => \E j \in 1 .. Len(bs) : Breaks(bs, FALSE, j, id)
        /\ \A x \in Ids, i \in 1 .. Len(bs) : Makes(bs, FALSE, i, x) => down /\ x = id
    <3>1. \A x \in Ids, i \in 1 .. Len(bs) : Makes(bs, FALSE, i, x) => down /\ x = id
      BY <2>2, <2>7
    <3> QED
      BY <1>3, <2>2, <2>4, <2>6, <3>1
  <2> QED
    BY <2>1, <2>8 DEF id
<1>5. CASE k \notin Extended
  <2> DEFINE bs == <<b>>
  <2>1. KeyCode(k, down) = bs
    BY <1>5 DEF KeyCode, b
  <2>2. bs \in Seq(KBytes) /\ Len(bs) = 1 /\ bs[1] = b /\ bs # <<>>
    BY <1>1
  <2> HIDE DEF bs
  <2>3. Prefix(bs, FALSE, 1) = FALSE
    BY DEF Prefix
  <2>4. ~Open(bs, FALSE)
    BY <1>1, <2>2 DEF Open
  <2>5. id[1] = FALSE /\ id[2] = c
    BY <1>3, <1>5
  <2>6. ASSUME ~down PROVE \E j \in 1 .. Len(bs) : Breaks(bs, FALSE, j, id)
    <3>1. bs[1] = Break(id[2]) /\ 1 \in 1 .. Len(bs)
      BY <1>1, <2>2, <2>5, <2>6
    <3>2. id[1] = Prefix(bs, FALSE, 1)
      BY <2>3, <2>5
    <3>3. Breaks(bs, FALSE, 1, id)
      BY <3>1, <3>2 DEF Breaks, Means
    <3> QED
      BY <3>1, <3>3
  <2>7. ASSUME NEW x \in Ids, NEW i \in 1 .. 1, Makes(bs, FALSE, i, x)
        PROVE  down /\ x = id
    <3>1. /\ x[2] \in Codes /\ x \in BOOLEAN \X Codes /\ bs[i] = Make(x[2])
          /\ i = 1
      BY <2>7 DEF Ids, Makes
    <3>2. b = Make(x[2])
      BY <2>2, <3>1
    <3>3. down /\ x[2] = c
      BY <1>1, <1>2, <3>1, <3>2
    <3>4. x[1] = FALSE
      BY <2>3, <2>7, <3>1 DEF Makes, Means
    <3> QED
      BY <1>3, <1>3a, <2>5, <3>1, <3>3, <3>4
  <2>8. /\ bs \in Seq(KBytes) /\ ~Open(bs, FALSE) /\ id \in BOOLEAN \X Codes
        /\ ~down /\ id \in Ids => \E j \in 1 .. Len(bs) : Breaks(bs, FALSE, j, id)
        /\ \A x \in Ids, i \in 1 .. Len(bs) : Makes(bs, FALSE, i, x) => down /\ x = id
    <3>1. \A x \in Ids, i \in 1 .. Len(bs) : Makes(bs, FALSE, i, x) => down /\ x = id
      BY <2>2, <2>7
    <3> QED
      BY <1>3, <2>2, <2>4, <2>6, <3>1
  <2> QED
    BY <2>1, <2>8 DEF id
<1> QED
  BY <1>4, <1>5

\* A key with a code of its own.
LEMMA KeyOnStream ==
    ASSUME NEW s \in Seq(KBytes), NEW e0 \in BOOLEAN, NEW ids \in SUBSET Ids,
           NEW before, NEW after, NEW k \in Key, NEW down \in BOOLEAN,
           StreamInv(s, e0, ids, before),
           before \subseteq after \cup {KbdId(k)}, down => KbdId(k) \in after
    PROVE  StreamInv(Cat(s, KeyCode(k, down)), e0, ids, after)
<1> DEFINE bs == KeyCode(k, down)
<1>1. bs \in Seq(KBytes) /\ ~Open(bs, FALSE)
  BY KeyCodeIs
<1>2. ASSUME NEW x \in Ids \ after, x \in before
      PROVE  \E j \in 1 .. Len(bs) : Breaks(bs, FALSE, j, x)
  <2>1. x = KbdId(k) /\ ~down
    BY <1>2
  <2> QED
    BY <2>1, <1>2, KeyCodeIs
<1>3. ASSUME NEW x \in Ids \ after, NEW i \in 1 .. Len(bs)
      PROVE  ~Makes(bs, FALSE, i, x)
  BY <1>3, KeyCodeIs
<1> HIDE DEF bs
<1>4. StreamInv(Cat(s, bs), e0, ids, after)
  BY <1>1, <1>2, <1>3, StreamGrows DEF Cat
<1> QED
  BY <1>4 DEF bs

\* Bytes that are no keys.
LEMMA NoKeyOnStream ==
    ASSUME NEW s \in Seq(KBytes), NEW e0 \in BOOLEAN, NEW ids \in SUBSET Ids,
           NEW before, NEW after, NEW bs \in Seq(KBytes),
           StreamInv(s, e0, ids, before), before \subseteq after, ~Open(bs, FALSE),
           \A x \in Ids, i \in 1 .. Len(bs) : ~Makes(bs, FALSE, i, x)
    PROVE  StreamInv(Cat(s, bs), e0, ids, after)
<1>1. \A x \in Ids \ after : x \in before => \E j \in 1 .. Len(bs) : Breaks(bs, FALSE, j, x)
  OBVIOUS
<1> QED
  BY <1>1, StreamGrows DEF Cat

\* The bytes of PrintScreen.
PrintScreen(down) == IF down THEN <<E0, Make(FakeShift), E0, Make(SysRq)>>
                             ELSE <<E0, Break(SysRq), E0, Break(FakeShift)>>

\* They press no key.
LEMMA PrintScreenIs ==
    ASSUME NEW down \in BOOLEAN
    PROVE  LET bs == PrintScreen(down)
           IN  /\ bs \in Seq(KBytes) /\ ~Open(bs, FALSE) /\ Len(bs) = 4
               /\ \A x \in Ids, i \in 1 .. Len(bs) : ~Makes(bs, FALSE, i, x)
<1> DEFINE bs == PrintScreen(down)
<1>1. /\ FakeShift \in Codes /\ SysRq \in Codes
      /\ \A v \in Codes : Make(v) \in KBytes /\ Break(v) \in KBytes /\ Make(v) # E0 /\ Break(v) # E0
      /\ \A v, w \in Codes : Make(v) # Break(w) /\ (Make(v) = Make(w) => v = w)
      /\ E0 \in KBytes
  BY ByteFacts DEF Codes
<1>2. /\ bs \in Seq(KBytes) /\ Len(bs) = 4 /\ bs # <<>>
      /\ bs[1] = E0 /\ bs[3] = E0 /\ bs[4] # E0
      /\ bs[2] = (IF down THEN Make(FakeShift) ELSE Break(SysRq))
      /\ bs[4] = (IF down THEN Make(SysRq) ELSE Break(FakeShift))
  BY <1>1 DEF PrintScreen
<1> HIDE DEF bs
<1>3. ~Open(bs, FALSE)
  BY <1>2 DEF Open
<1>4. ASSUME NEW x \in Ids, NEW i \in 1 .. 4, Makes(bs, FALSE, i, x) PROVE FALSE
  <2>1. /\ x[2] \in Codes /\ x[1] \in BOOLEAN /\ bs[i] = Make(x[2])
        /\ x[1] => x[2] \notin {FakeShift, SysRq}
    BY <1>4 DEF Ids, Makes
  <2>2. i \in {2, 4}
    BY <1>1, <1>2, <2>1
  <2>3. x[2] \in {FakeShift, SysRq}
    BY <1>1, <1>2, <2>1, <2>2
  <2>4. i # 1 /\ i - 1 \in {1, 3}
    BY <2>2
  <2>5. Prefix(bs, FALSE, i) = TRUE
    BY <1>2, <2>4 DEF Prefix
  <2>6. x[1]
    BY <2>5, <1>4 DEF Makes, Means
  <2> QED
    BY <2>1, <2>3, <2>6
<1>5. /\ bs \in Seq(KBytes) /\ ~Open(bs, FALSE) /\ Len(bs) = 4
      /\ \A x \in Ids, i \in 1 .. Len(bs) : ~Makes(bs, FALSE, i, x)
  BY <1>2, <1>3, <1>4
<1> QED
  BY <1>5 DEF bs

\* The bytes of n answers.
Replies(n) == [i \in 1 .. n |-> Reply]

\* They press no key.
LEMMA RepliesAre ==
    ASSUME NEW n \in Nat
    PROVE  LET bs == Replies(n)
           IN  /\ bs \in Seq(KBytes) /\ ~Open(bs, FALSE) /\ Len(bs) = n
               /\ \A i \in 1 .. n : bs[i] = Reply
               /\ \A x \in Ids, i \in 1 .. Len(bs) : ~Makes(bs, FALSE, i, x)
<1> DEFINE bs == Replies(n)
<1>1. bs \in Seq(KBytes) /\ Len(bs) = n /\ \A i \in 1 .. n : bs[i] = Reply
  BY ByteFacts DEF Replies
<1> HIDE DEF bs
<1>2. ~Open(bs, FALSE)
  <2>1. CASE n = 0
    <3>1. bs = <<>>
      BY <1>1, <2>1, EmptySeq
    <3> QED
      BY <3>1 DEF Open
  <2>2. CASE n # 0
    <3>1. n \in 1 .. n /\ bs # <<>>
      BY <1>1, <2>2, EmptySeq
    <3> QED
      BY <1>1, <3>1, ByteFacts DEF Open
  <2> QED
    BY <2>1, <2>2
<1>3. ASSUME NEW x \in Ids, NEW i \in 1 .. n PROVE ~Makes(bs, FALSE, i, x)
  BY <1>1, ByteFacts DEF Makes, Ids
<1>4. /\ bs \in Seq(KBytes) /\ ~Open(bs, FALSE) /\ Len(bs) = n
      /\ \A i \in 1 .. n : bs[i] = Reply
      /\ \A x \in Ids, i \in 1 .. Len(bs) : ~Makes(bs, FALSE, i, x)
  BY <1>1, <1>2, <1>3
<1> QED
  BY <1>4 DEF bs

-----------------------------------------------------------------------------
(* Packets.                                                                *)

\* Whole packets after whole packets.
LEMMA AlignedGrows ==
    ASSUME NEW s \in Seq(MBytes), NEW bs \in Seq(MBytes), Aligned(s), Aligned(bs)
    PROVE  Aligned(s \o bs)
<1> DEFINE t == s \o bs
           m == Len(s)
           n == Len(bs)
<1>1. /\ Len(t) = m + n /\ m \in Nat /\ n \in Nat
      /\ \A i \in 1 .. m + n : t[i] = IF i <= m THEN s[i] ELSE bs[i - m]
  BY ConcatProperties, LenProperties
<1>2. \A i \in 1 .. m : t[i] = s[i]
  BY <1>1
<1>3. \A i \in 1 .. n : t[m + i] = bs[i]
  <2>1. \A i \in 1 .. n : m + i \in 1 .. m + n /\ ~(m + i <= m) /\ m + i - m = i
    BY <1>1
  <2> QED
    BY <1>1, <2>1
<1> HIDE DEF t
<1>4. ASSUME NEW i \in 1 .. m + n
      PROVE  /\ t[i] = P(0) => i + 2 <= Len(t) /\ t[i + 1] = P(1) /\ t[i + 2] = P(2)
             /\ t[i] = P(1) => i > 1 /\ t[i - 1] = P(0)
             /\ t[i] = P(2) => i > 1 /\ t[i - 1] = P(1)
  <2>1. CASE i <= m
    <3>1. i \in 1 .. m
      BY <1>1, <2>1
    <3>2. /\ s[i] = P(0) => i + 2 <= m /\ s[i + 1] = P(1) /\ s[i + 2] = P(2)
          /\ s[i] = P(1) => i > 1 /\ s[i - 1] = P(0)
          /\ s[i] = P(2) => i > 1 /\ s[i - 1] = P(1)
      BY <3>1 DEF Aligned
    <3>3. i + 2 <= m => i + 1 \in 1 .. m /\ i + 2 \in 1 .. m /\ i + 2 <= m + n
      BY <1>1
    <3>4. i > 1 => i - 1 \in 1 .. m
      BY <1>1, <3>1
    <3> QED
      BY <1>1, <1>2, <3>1, <3>2, <3>3, <3>4
  <2>2. CASE ~(i <= m)
    <3> DEFINE k == i - m
    <3>1. k \in 1 .. n /\ i = m + k
      BY <1>1, <2>2
    <3> HIDE DEF k
    <3>2. /\ bs[k] = P(0) => k + 2 <= n /\ bs[k + 1] = P(1) /\ bs[k + 2] = P(2)
          /\ bs[k] = P(1) => k > 1 /\ bs[k - 1] = P(0)
          /\ bs[k] = P(2) => k > 1 /\ bs[k - 1] = P(1)
      BY <3>1 DEF Aligned
    <3>3. k + 2 <= n => /\ k + 1 \in 1 .. n /\ k + 2 \in 1 .. n /\ i + 2 <= m + n
                        /\ i + 1 = m + (k + 1) /\ i + 2 = m + (k + 2)
      BY <1>1, <3>1
    <3>4. k > 1 => k - 1 \in 1 .. n /\ i - 1 = m + (k - 1) /\ i > 1
      BY <1>1, <3>1
    <3>5. t[i] = bs[k]
      BY <1>3, <3>1
    <3> QED
      BY <1>1, <1>3, <3>2, <3>3, <3>4, <3>5
  <2> QED
    BY <2>1, <2>2
<1>5. Aligned(t)
  BY <1>1, <1>4 DEF Aligned
<1> QED
  BY <1>5 DEF t

\* Bytes are taken from the front, unless the next one belongs to them.
LEMMA AlignedRead ==
    ASSUME NEW s \in Seq(MBytes), NEW t \in Seq(MBytes), NEW k \in Nat,
           Len(s) = k + Len(t), \A i \in 1 .. Len(t) : t[i] = s[k + i],
           Aligned(s), k > 0 => s[k] \notin {P(0), P(1)}
    PROVE  Aligned(t)
<1> DEFINE n == Len(t)
<1>1. n \in Nat
  BY LenProperties
<1> HIDE DEF n
<1>2. ASSUME NEW i \in 1 .. n
      PROVE  /\ t[i] = P(0) => i + 2 <= n /\ t[i + 1] = P(1) /\ t[i + 2] = P(2)
             /\ t[i] = P(1) => i > 1 /\ t[i - 1] = P(0)
             /\ t[i] = P(2) => i > 1 /\ t[i - 1] = P(1)
  <2> DEFINE m == k + i
  <2>1. m \in 1 .. Len(s) /\ i <= n
    BY <1>1 DEF n
  <2>2. t[i] = s[m]
    BY DEF n
  <2>3. /\ s[m] = P(0) => m + 2 <= Len(s) /\ s[m + 1] = P(1) /\ s[m + 2] = P(2)
        /\ s[m] = P(1) => m > 1 /\ s[m - 1] = P(0)
        /\ s[m] = P(2) => m > 1 /\ s[m - 1] = P(1)
    BY <2>1 DEF Aligned
  <2>4. m + 2 <= Len(s) => /\ i + 2 <= n /\ i + 1 \in 1 .. n /\ i + 2 \in 1 .. n
                           /\ m + 1 = k + (i + 1) /\ m + 2 = k + (i + 2)
    BY <1>1 DEF n
  <2>5. i > 1 => i - 1 \in 1 .. n /\ m - 1 = k + (i - 1)
    BY <1>1
  <2>6. ~(i > 1) => m - 1 = k /\ (m > 1 => k > 0)
    BY <1>1
  <2> HIDE DEF m
  <2>7. i > 1 => s[m - 1] = t[i - 1]
    BY <2>5 DEF n
  <2>8. i + 2 <= n => t[i + 1] = s[m + 1] /\ t[i + 2] = s[m + 2]
    <3>1. i + 2 <= n => i + 1 \in 1 .. n /\ i + 2 \in 1 .. n /\ m + 1 = k + (i + 1) /\ m + 2 = k + (i + 2)
      BY <1>1 DEF m
    <3> QED
      BY <3>1 DEF n
  <2>9. t[i] \in {P(1), P(2)} => i > 1
    BY <2>2, <2>3, <2>6
  <2> QED
    BY <2>2, <2>3, <2>4, <2>7, <2>8, <2>9
<1>3. Aligned(t)
  BY <1>2 DEF Aligned, n
<1> QED
  BY <1>3

\* What the mouse sends is whole packets.
LEMMA PacketsAre ==
    ASSUME NEW n \in Nat
    PROVE  Packets(n) \in Seq(MBytes) /\ Len(Packets(n)) = 3 * n /\ Aligned(Packets(n))
<1> DEFINE bs == Packets(n)
           r(i) == (i - 1) % 3
<1>1. \A i \in 1 .. 3 * n : r(i) \in 0 .. 2
  OBVIOUS
<1>2. bs = [i \in 1 .. 3 * n |-> P(r(i))]
  BY DEF Packets, P
<1>3. \A j \in 0 .. 2 : P(j) \in MBytes
  BY DEF P, MBytes
<1>4. \A j, l \in 0 .. 2 : P(j) = P(l) => j = l
  BY DEF P
<1>5. 3 * n \in Nat
  OBVIOUS
<1> HIDE DEF bs, r
<1>6. bs \in Seq(MBytes) /\ Len(bs) = 3 * n /\ \A i \in 1 .. 3 * n : bs[i] = P(r(i))
  BY <1>1, <1>2, <1>3, <1>5
<1>7. \A i \in 1 .. 3 * n :
        /\ r(i) = 0 => i + 2 <= 3 * n /\ r(i + 1) = 1 /\ r(i + 2) = 2
        /\ r(i) = 1 => i > 1 /\ r(i - 1) = 0
        /\ r(i) = 2 => i > 1 /\ r(i - 1) = 1
  BY DEF r
<1>8. ASSUME NEW i \in 1 .. 3 * n
      PROVE  /\ bs[i] = P(0) => i + 2 <= 3 * n /\ bs[i + 1] = P(1) /\ bs[i + 2] = P(2)
             /\ bs[i] = P(1) => i > 1 /\ bs[i - 1] = P(0)
             /\ bs[i] = P(2) => i > 1 /\ bs[i - 1] = P(1)
  <2>1. \A j \in 0 .. 2 : bs[i] = P(j) => r(i) = j
    BY <1>1, <1>4, <1>6
  <2>2. i + 2 <= 3 * n => i + 1 \in 1 .. 3 * n /\ i + 2 \in 1 .. 3 * n
    BY <1>5
  <2>3. i > 1 => i - 1 \in 1 .. 3 * n
    BY <1>5
  <2> QED
    BY <1>6, <1>7, <2>1, <2>2, <2>3
<1>9. Aligned(bs)
  BY <1>6, <1>8 DEF Aligned
<1> QED
  BY <1>6, <1>9 DEF bs

-----------------------------------------------------------------------------
(* The keyboard's queue.                                                   *)

\* No make stands in the reserve.
ReserveOf(q) == \A i \in QueueSize - Reserve + 1 .. Len(q) : q[i][1] # "make"

\* A queue the keyboard may have, and one it may become by an event.
KeyQueue(q) == q \in Seq(KBytes) /\ Len(q) <= QueueSize /\ ReserveOf(q)
Longer(q, r) == Len(q) <= Len(r) /\ (Len(r) <= Len(q) => r = q)

\* What becomes of the keyboard's queue; a release or an answer may use the reserve.
LEMMA KeyQueued ==
    ASSUME NEW q, KeyQueue(q), NEW bs \in Seq(KBytes), NEW critical \in BOOLEAN,
           critical => \A i \in 1 .. Len(bs) : bs[i][1] # "make"
    PROVE  LET r == Queued(q, bs, critical)
               n == Fits(q, Len(bs), critical)
           IN  /\ KeyQueue(r) /\ Longer(q, r) /\ n \in 0 .. Len(bs)
               /\ n = 0 => r = q
               /\ n = Len(bs) => r = Cat(q, bs)
<1> DEFINE r == Queued(q, bs, critical)
           n == Fits(q, Len(bs), critical)
<1> DEFINE m == Len(q)
<1>1. /\ q \in Seq(KBytes) /\ m <= QueueSize /\ m \in Nat /\ Len(bs) \in Nat
      /\ QueueSize - Reserve + 1 \in Int
  BY KbdAssumption DEF KeyQueue
<1>2. /\ n \in 0 .. Len(bs) /\ r \in Seq(KBytes) /\ Len(r) = m + n /\ Len(r) <= QueueSize
      /\ \A i \in 1 .. Len(r) : r[i] = IF i <= m THEN q[i] ELSE bs[i - m]
      /\ n = 0 => r = q
      /\ n = Len(bs) => r = Cat(q, bs)
      /\ ~critical /\ n > 0 => Len(r) <= QueueSize - Reserve
  <2> HIDE DEF m
  <2>1. /\ n \in 0 .. Len(bs) /\ r \in Seq(KBytes) /\ Len(r) <= QueueSize
    BY <1>1, QueuedIs DEF m
  <2>2. Len(r) = Len(q) + n
    BY <1>1, QueuedIs DEF m
  <2>3. \A i \in 1 .. Len(r) : r[i] = IF i <= Len(q) THEN q[i] ELSE bs[i - Len(q)]
    BY <1>1, QueuedIs DEF m
  <2>4. n = 0 => r = q
    BY <1>1, QueuedIs DEF m
  <2>5. n = Len(bs) => r = Cat(q, bs)
    BY <1>1, QueuedIs DEF m
  <2>6.  ~critical /\ n > 0 => Len(r) <= QueueSize - Reserve
    BY <1>1, QueuedIs DEF m
  <2> QED
    BY <2>1, <2>2, <2>3, <2>4, <2>5, <2>6 DEF m
<1> HIDE DEF r, n
<1>3. ReserveOf(r)
  <2>1. CASE n = 0
    BY <1>2, <2>1 DEF KeyQueue
  <2>2. CASE n > 0 /\ ~critical
    <3>1. ASSUME NEW i \in QueueSize - Reserve + 1 .. Len(r) PROVE FALSE
      BY <1>1, <1>2, <2>2, KbdAssumption
    <3> QED
      BY <3>1 DEF ReserveOf
  <2>3. CASE critical
    <3>1. ASSUME NEW i \in QueueSize - Reserve + 1 .. Len(r) PROVE r[i][1] # "make"
      <4>1. i \in 1 .. Len(r)
        BY <1>1, <1>2, KbdAssumption
      <4>2. CASE i <= m
        <5>1. i \in QueueSize - Reserve + 1 .. m
          BY <1>1, <4>2
        <5> QED
          BY <1>2, <4>1, <4>2, <5>1 DEF KeyQueue, ReserveOf
      <4>3. CASE ~(i <= m)
        <5>1. i - m \in 1 .. Len(bs)
          BY <1>1, <1>2, <4>1, <4>3
        <5> QED
          BY <1>2, <2>3, <4>1, <4>3, <5>1
      <4> QED
        BY <4>2, <4>3
    <3> QED
      BY <3>1 DEF ReserveOf
  <2> QED
    BY <1>2, <2>1, <2>2, <2>3
<1>4. Longer(q, r)
  BY <1>1, <1>2 DEF Longer
<1>5. KeyQueue(r) /\ Longer(q, r) /\ n \in 0 .. Len(bs) /\ (n = 0 => r = q)
      /\ (n = Len(bs) => r = Cat(q, bs))
  BY <1>2, <1>3, <1>4 DEF KeyQueue
<1> QED
  BY <1>5 DEF r, n

\* What is held back.
Delayed == IF delay.on THEN <<delay.byte>> ELSE <<>>

\* The keyboard's queue is one.
LEMMA KeyTypesAre ==
    ASSUME KeyTypes
    PROVE  KeyQueue(kq) /\ Delayed \in Seq(KBytes) /\ delay.on \in BOOLEAN /\ ReserveKept
<1>1. KeyQueue(kq) /\ ReserveKept
  BY DEF KeyTypes, KeyQueue, ReserveKept, ReserveOf
<1>2. CASE delay = NoDelay
  BY <1>1, <1>2 DEF Delayed, NoDelay
<1>3. CASE delay \in [on : {TRUE}, critical : BOOLEAN, byte : KBytes \ {E0}]
  <2>1. delay.on = TRUE /\ delay.byte \in KBytes
    BY <1>3
  <2>2. <<delay.byte>> \in Seq(KBytes)
    BY <2>1
  <2>3. Delayed = <<delay.byte>>
    BY <2>1 DEF Delayed
  <2> QED
    BY <1>1, <2>1, <2>2, <2>3
<1> QED
  BY <1>2, <1>3 DEF KeyTypes

\* The byte that was held back is in the queue, unless it was refused.
LEMMA FlushedIs ==
    ASSUME KeyTypes
    PROVE  /\ KeyQueue(Flushed) /\ Longer(kq, Flushed)
           /\ ~FlushRefused => Flushed = Cat(kq, Delayed)
<1>1. KeyQueue(kq) /\ kq \in Seq(KBytes) /\ Len(kq) \in Nat
  <2>1. KeyQueue(kq)
    BY KeyTypesAre
  <2>2. kq \in Seq(KBytes)
    BY DEF KeyTypes
  <2> QED
    BY <2>1, <2>2, LenProperties
<1>2. CASE delay = NoDelay
  <2>1. Flushed = kq /\ Delayed = <<>>
    BY <1>2 DEF Flushed, Delayed, NoDelay
  <2> QED
    BY <1>1, <2>1, CatEmpty DEF Longer
<1>3. CASE delay \in [on : {TRUE}, critical : BOOLEAN, byte : KBytes \ {E0}]
  <2> DEFINE bs == <<delay.byte>>
  <2>1. bs \in Seq(KBytes) /\ Len(bs) = 1 /\ bs[1] = delay.byte /\ delay.critical \in BOOLEAN
    BY <1>3
  <2>2. /\ Flushed = Queued(kq, bs, delay.critical) /\ Delayed = bs
        /\ FlushRefused <=> Fits(kq, 1, delay.critical) = 0
    BY <1>3 DEF Flushed, Delayed, FlushRefused
  <2>3. delay.critical => \A i \in 1 .. Len(bs) : bs[i][1] # "make"
    <3>1. delay.critical => delay.byte[1] # "make"
      BY <1>3 DEF KeyTypes
    <3> HIDE DEF bs
    <3>2. \A i \in 1 .. Len(bs) : bs[i] = delay.byte
      BY <2>1
    <3> QED
      BY <3>1, <3>2
  <2> HIDE DEF bs
  <2>4. /\ KeyQueue(Queued(kq, bs, delay.critical)) /\ Longer(kq, Queued(kq, bs, delay.critical))
        /\ Fits(kq, 1, delay.critical) \in 0 .. 1
        /\ Fits(kq, 1, delay.critical) = 1 => Queued(kq, bs, delay.critical) = Cat(kq, bs)
    BY <1>1, <2>1, <2>3, KeyQueued
  <2> QED
    BY <2>2, <2>4
<1> QED
  BY <1>2, <1>3 DEF KeyTypes

\* A queue that grows twice has grown.
LEMMA LongerTransitive ==
    ASSUME NEW T, NEW q \in Seq(T), NEW r \in Seq(T), NEW s \in Seq(T), Longer(q, r), Longer(r, s)
    PROVE  Longer(q, s)
<1>1. Len(q) \in Nat /\ Len(r) \in Nat /\ Len(s) \in Nat
  OBVIOUS
<1> QED
  BY <1>1 DEF Longer

-----------------------------------------------------------------------------
(* The lines.                                                              *)

\* The devices with data, when the queues are k and m.
PendingOf(k, m) == (IF k = <<>> THEN {} ELSE {"KBD"}) \cup (IF m = <<>> THEN {} ELSE {"AUX"})

\* UpdateIrq makes the lines true.
LEMMA LinesFollow ==
    ASSUME KbdInv, NEW m, UpdateIrq(PendingOf(kq', mq'), m)
    PROVE  LinesTrue' /\ irr' \subseteq {1, 12} /\ mode' = m
<1>1. irr \subseteq {1, 12} /\ level \subseteq irr /\ Levels(PendingOf(kq', mq'), m) \subseteq {1, 12}
  BY DEF KbdInv, OtherTypes, LinesTrue, Levels
<1> QED
  BY <1>1 DEF UpdateIrq, LinesTrue, PendingOf

\* So does the announcement of what an event has put into the queues.
LEMMA Announced ==
    ASSUME KbdInv, kq' \in Seq(KBytes), mq' \in Seq(MBytes), Longer(kq, kq'), Longer(mq, mq'),
           Announce(kq', mq')
    PROVE  LinesTrue' /\ irr' \subseteq {1, 12} /\ mode' = mode
<1>1. /\ kq \in Seq(KBytes) /\ mq \in Seq(MBytes) /\ pending = PendingOf(kq, mq) /\ OtherTypes
  BY DEF KbdInv, KeyTypes, MouseTypes, LinesTrue, PendingOf
<1>2. /\ Len(kq) \in Nat /\ Len(kq') \in Nat /\ (kq = <<>> <=> Len(kq) = 0)
      /\ (kq' = <<>> <=> Len(kq') = 0)
  BY <1>1, EmptySeq
<1>3. /\ Len(mq) \in Nat /\ Len(mq') \in Nat /\ (mq = <<>> <=> Len(mq) = 0)
      /\ (mq' = <<>> <=> Len(mq') = 0)
  BY <1>1, EmptySeq
<1>4. /\ kq' # <<>> <=> (kq # <<>> \/ Len(kq') > Len(kq))
      /\ mq' # <<>> <=> (mq # <<>> \/ Len(mq') > Len(mq))
  BY <1>2, <1>3 DEF Longer
<1>5. pending \cup (IF Len(kq') > Len(kq) THEN {"KBD"} ELSE {})
              \cup (IF Len(mq') > Len(mq) THEN {"AUX"} ELSE {}) = PendingOf(kq', mq')
  BY <1>1, <1>4 DEF PendingOf
<1>6. UpdateIrq(PendingOf(kq', mq'), mode)
  BY <1>5 DEF Announce
<1> QED
  BY <1>1, <1>6, LinesFollow

-----------------------------------------------------------------------------
(* Steps.                                                                  *)

\* With the reserve kept, a refusal that matters is recorded.
LEMMA KeyLost ==
    ASSUME ReserveKept, OtherTypes, NEW matters \in BOOLEAN, LoseKey(matters)
    PROVE  /\ lost' \subseteq {"KBD", "AUX"}
           /\ "KBD" \notin lost' => "KBD" \notin lost /\ ~matters
           /\ "AUX" \notin lost' => "AUX" \notin lost
  BY DEF LoseKey, Lose, OtherTypes

\* The keyboard leaves the mouse's packets alone.
LEMMA MouseAside ==
    ASSUME KbdInv, UNCHANGED <<mq, eaten, mangled>>, bios'.packet = bios.packet,
           "AUX" \notin lost' => "AUX" \notin lost
    PROVE  MouseInv'
  BY DEF KbdInv, MouseInv, Aligned, P, Cat

\* The mouse leaves the stream alone.
LEMMA KeysAside ==
    ASSUME KbdInv, UNCHANGED <<kq, delay, held, torn, eaten>>,
           bios'.byte = bios.byte, bios'.e0 = bios.e0, bios'.down = bios.down,
           "KBD" \notin lost' => "KBD" \notin lost
    PROVE  KeysInv'
<1>1. KeyStream' = KeyStream
  BY DEF KeyStream
<1>2. HeldIds' = HeldIds
  BY DEF HeldIds, KbdId
<1> QED
  BY <1>1, <1>2 DEF KbdInv, KeysInv

\* A key's code goes to the queue, or to the queue and what is held back.
LEMMA PutKeyStep ==
    ASSUME KbdInv, NEW k \in Key, NEW down \in BOOLEAN, k # "sysrq", PutKey(k, down),
           held' = IF down THEN held \cup {k} ELSE held \ {k}, bios' = bios, eaten' = eaten
    PROVE  KeyTypes' /\ KeysInv' /\ Longer(kq, kq')
<1> DEFINE b == KeyByte(k, down)
           first == IF k \in Extended THEN E0 ELSE b
           bs == <<first>>
           c == ~down
           taken == Fits(Flushed, 1, c) = 1
<1>1. /\ KeyTypes /\ BiosTypes /\ OtherTypes /\ KeyQueue(kq) /\ Delayed \in Seq(KBytes)
      /\ ReserveKept /\ bios.byte \in Seq(KBytes) /\ bios.e0 \in BOOLEAN /\ bios.down \in SUBSET Ids
  BY KeyTypesAre DEF KbdInv, BiosTypes
<1>2. KeyQueue(Flushed) /\ Longer(kq, Flushed) /\ (~FlushRefused => Flushed = Cat(kq, Delayed))
  BY <1>1, FlushedIs
<1>3. /\ b \in KBytes /\ b # E0 /\ bs \in Seq(KBytes) /\ Len(bs) = 1 /\ bs[1] = first
      /\ c \in BOOLEAN
      /\ c => b[1] # "make" /\ first[1] # "make"
      /\ b[1] = "make" => down
  BY KeyBytes, ByteFacts DEF KeyByte
<1>4. c => \A i \in 1 .. Len(bs) : bs[i][1] # "make"
  BY <1>3
<1>5. /\ kq' = Queued(Flushed, bs, c)
      /\ delay' = IF k \in Extended /\ (taken \/ c)
                  THEN [on |-> TRUE, critical |-> c, byte |-> b] ELSE NoDelay
      /\ LoseKey(FlushRefused \/ (c /\ ~taken)) /\ torn' = torn
  BY DEF PutKey
<1> HIDE DEF bs, first, b
<1>6. /\ KeyQueue(kq') /\ Longer(Flushed, kq')
      /\ Fits(Flushed, 1, c) \in 0 .. 1
      /\ Fits(Flushed, 1, c) = 0 => kq' = Flushed
      /\ Fits(Flushed, 1, c) = 1 => kq' = Cat(Flushed, bs)
  BY <1>2, <1>3, <1>4, <1>5, KeyQueued
<1>7. (taken => kq' = Cat(Flushed, bs)) /\ (~taken => kq' = Flushed) /\ taken \in BOOLEAN
  BY <1>6
<1> HIDE DEF taken
<1>8. Longer(kq, kq')
  BY <1>1, <1>2, <1>6, LongerTransitive DEF KeyQueue
<1>9. KeyTypes'
  <2>1. held' \subseteq Key \cup {"sysrq"}
    BY <1>1 DEF KeyTypes
  <2>2. kq' \in Seq(KBytes) /\ Len(kq') <= QueueSize /\ ReserveKept'
    BY <1>6 DEF KeyQueue, ReserveOf, ReserveKept
  <2>3. /\ delay' = NoDelay \/ delay' \in [on : {TRUE}, critical : BOOLEAN, byte : KBytes \ {E0}]
        /\ delay'.on /\ delay'.byte[1] = "make" => ~delay'.critical
    <3>1. CASE k \in Extended /\ (taken \/ c)
      BY <1>3, <1>5, <3>1
    <3>2. CASE ~(k \in Extended /\ (taken \/ c))
      BY <1>5, <3>2 DEF NoDelay
    <3> QED
      BY <3>1, <3>2
  <2> QED
    BY <2>1, <2>2, <2>3 DEF KeyTypes
<1>10. KeysInv'
  <2> SUFFICES ASSUME "KBD" \notin lost' \cup eaten', ~torn'
               PROVE  StreamInv(KeyStream', bios.e0, bios.down, HeldIds')
    BY DEF KeysInv
  <2>1. "KBD" \notin lost \cup eaten /\ ~FlushRefused /\ (c => taken)
    <3>1. (FlushRefused \/ (c /\ ~taken)) \in BOOLEAN
      OBVIOUS
    <3> QED
      BY <1>1, <1>5, <3>1, KeyLost
  <2>2. StreamInv(KeyStream, bios.e0, bios.down, HeldIds)
    BY <1>5, <2>1 DEF KbdInv, KeysInv
  <2> DEFINE B == bios.byte
  <2>3. KeyStream = Cat(Cat(B, kq), Delayed) /\ KeyStream' = Cat(Cat(B, kq'), Delayed')
    BY DEF KeyStream, Delayed, Cat
  <2>4. Flushed = Cat(kq, Delayed) /\ kq \in Seq(KBytes) /\ kq' \in Seq(KBytes) /\ B \in Seq(KBytes)
    BY <1>1, <1>2, <1>6, <2>1 DEF KeyQueue
  <2> HIDE DEF B
  <2>5. Cat(B, kq) \in Seq(KBytes) /\ Cat(kq, Delayed) \in Seq(KBytes) /\ KeyStream \in Seq(KBytes)
    BY <1>1, <2>3, <2>4, CatIs
  <2>6. Cat(B, Cat(kq, Delayed)) = KeyStream
    BY <1>1, <2>3, <2>4, CatIs
  <2>7. HeldIds \subseteq HeldIds' \cup {KbdId(k)} /\ (down => KbdId(k) \in HeldIds')
        /\ (down => HeldIds \subseteq HeldIds')
    BY DEF HeldIds
  <2>8. CASE taken
    <3>1. Cat(bs, Delayed') = KeyCode(k, down) /\ Delayed' \in Seq(KBytes)
      <4>1. CASE k \in Extended
        <5>1. delay'.on = TRUE /\ delay'.byte = b
          BY <1>5, <2>8, <4>1
        <5>2. Delayed' = <<b>> /\ bs = <<E0>> /\ KeyCode(k, down) = <<E0, b>>
          BY <4>1, <5>1 DEF Delayed, bs, first, KeyCode, b
        <5>3. <<b>> \in Seq(KBytes) /\ Cat(<<E0>>, <<b>>) = <<E0, b>>
          BY <1>3, ByteFacts, CatOfTwo
        <5> QED
          BY <5>2, <5>3
      <4>2. CASE k \notin Extended
        <5>1. Delayed' = <<>> /\ bs = <<b>> /\ KeyCode(k, down) = <<b>>
          BY <1>5, <4>2 DEF Delayed, bs, first, KeyCode, b, NoDelay
        <5>2. <<>> \in Seq(KBytes)
          OBVIOUS
        <5> QED
          BY <1>3, <5>1, <5>2, CatEmpty
      <4> QED
        BY <4>1, <4>2
    <3>2. KeyStream' = Cat(KeyStream, KeyCode(k, down))
      <4>1. kq' = Cat(Cat(kq, Delayed), bs)
        BY <1>7, <2>4, <2>8
      <4>2. Cat(B, kq') = Cat(KeyStream, bs)
        BY <1>3, <2>4, <2>5, <2>6, <4>1, CatIs
      <4> QED
        BY <1>3, <2>3, <2>5, <3>1, <4>2, CatIs
    <3> QED
      BY <1>1, <2>2, <2>5, <2>7, <3>2, KeyOnStream
  <2>9. CASE ~taken
    <3>1. Delayed' = <<>>
      BY <1>5, <2>1, <2>9 DEF Delayed, NoDelay
    <3>2. KeyStream' = KeyStream
      BY <1>7, <2>3, <2>4, <2>5, <2>6, <2>9, <3>1, CatEmpty
    <3>3. HeldIds \subseteq HeldIds'
      BY <2>1, <2>7, <2>9
    <3> QED
      BY <2>2, <3>2, <3>3, MoreHeld
  <2> QED
    BY <2>8, <2>9
<1> QED
  BY <1>8, <1>9, <1>10

\* Bytes that are no keys go to the queue, all of them or none, unless some are lost
\* or there is a byte held back.
LEMMA PutOtherStep ==
    ASSUME KbdInv, NEW bs \in Seq(KBytes), NEW c \in BOOLEAN,
           c => \A i \in 1 .. Len(bs) : bs[i][1] # "make",
           kq' = Queued(kq, bs, c), delay' = delay, bios' = bios, eaten' = eaten,
           torn' = (torn \/ delay.on), held' \subseteq Key \cup {"sysrq"}, HeldIds \subseteq HeldIds',
           "KBD" \notin lost' => "KBD" \notin lost /\
              LET r == SubSeq(bs, 1, Fits(kq, Len(bs), c))
              IN  ~Open(r, FALSE) /\ \A x \in Ids, i \in 1 .. Len(r) : ~Makes(r, FALSE, i, x)
    PROVE  KeyTypes' /\ KeysInv' /\ Longer(kq, kq')
<1> DEFINE r == SubSeq(bs, 1, Fits(kq, Len(bs), c))
<1>1. /\ KeyTypes /\ KeyQueue(kq) /\ delay.on \in BOOLEAN /\ bios.byte \in Seq(KBytes)
      /\ bios.e0 \in BOOLEAN /\ bios.down \in SUBSET Ids /\ torn \in BOOLEAN /\ kq \in Seq(KBytes)
  BY KeyTypesAre DEF KbdInv, BiosTypes, OtherTypes, KeyQueue
<1>2. KeyQueue(kq') /\ Longer(kq, kq') /\ Fits(kq, Len(bs), c) \in 0 .. Len(bs)
  BY <1>1, KeyQueued
<1>3. KeyTypes'
  <2>1. kq' \in Seq(KBytes) /\ Len(kq') <= QueueSize /\ ReserveKept'
    BY <1>2 DEF KeyQueue, ReserveOf, ReserveKept
  <2> QED
    BY <1>1, <2>1 DEF KeyTypes
<1>4. r \in Seq(KBytes)
  BY <1>2, SubSeqProperties, ElementOfSeq
<1>5. kq' = Cat(kq, r)
  BY DEF Queued, Cat
<1> HIDE DEF r
<1>6. KeysInv'
  <2> SUFFICES ASSUME "KBD" \notin lost' \cup eaten', ~torn'
               PROVE  StreamInv(KeyStream', bios.e0, bios.down, HeldIds')
    BY DEF KeysInv
  <2>1. ~delay.on /\ ~torn /\ "KBD" \notin lost \cup eaten
    BY <1>1
  <2>2. StreamInv(KeyStream, bios.e0, bios.down, HeldIds)
    BY <2>1 DEF KbdInv, KeysInv
  <2>3. KeyStream = Cat(Cat(bios.byte, kq), <<>>) /\ KeyStream' = Cat(Cat(bios.byte, kq'), <<>>)
    BY <2>1 DEF KeyStream, Cat
  <2> DEFINE B == bios.byte
  <2>4. B \in Seq(KBytes) /\ Cat(B, kq) \in Seq(KBytes) /\ Cat(B, kq') \in Seq(KBytes) /\ kq' \in Seq(KBytes)
    <3>1. B \in Seq(KBytes) /\ kq' \in Seq(KBytes)
      BY <1>1, <1>2 DEF KeyQueue
    <3> HIDE DEF B
    <3> QED
      BY <1>1, <3>1, CatIs
  <2> HIDE DEF B
  <2>5. KeyStream = Cat(B, kq) /\ KeyStream' = Cat(B, kq')
    BY <2>3, <2>4, CatEmpty DEF B
  <2>6. KeyStream' = Cat(KeyStream, r)
    BY <1>1, <1>4, <1>5, <2>4, <2>5, CatIs
  <2>7. ~Open(r, FALSE) /\ \A x \in Ids, i \in 1 .. Len(r) : ~Makes(r, FALSE, i, x)
    BY DEF r
  <2> QED
    <3> DEFINE S == KeyStream
    <3>1. S \in Seq(KBytes)
      BY <2>4, <2>5
    <3>2. KeyStream' = Cat(S, r) /\ StreamInv(S, bios.e0, bios.down, HeldIds)
      BY <2>2, <2>6
    <3> HIDE DEF S
    <3>3. StreamInv(Cat(S, r), bios.e0, bios.down, HeldIds')
      BY <1>1, <1>4, <2>7, <3>1, <3>2, NoKeyOnStream
    <3> QED
      BY <3>2, <3>3
<1> QED
  BY <1>2, <1>3, <1>6

\* Nothing was added.
LEMMA NoRoomNoCode ==
    /\ ~Open(<<>>, FALSE)
    /\ \A x \in Ids, i \in 1 .. Len(<<>>) : ~Makes(<<>>, FALSE, i, x)
  BY DEF Open

\* An event is counted.
LEMMA Counted ==
    ASSUME OtherTypes, Count
    PROVE  events' \in 0 .. MaxEvents
  BY KbdAssumption DEF OtherTypes, Count

\* ps2_put_keycode.
LEMMA KeyEventStep ==
    ASSUME KbdInv, NEW k \in Key \cup {"sysrq"}, NEW down \in BOOLEAN, KeyEvent(k, down)
    PROVE  KbdInv'
<1>1. /\ KeyTypes /\ BiosTypes /\ MouseTypes /\ OtherTypes /\ ReserveKept
      /\ kq \in Seq(KBytes) /\ Len(kq) <= QueueSize
  BY DEF KbdInv, KeyTypes
<1>2. /\ held' = (IF down THEN held \cup {k} ELSE held \ {k}) /\ bios' = bios /\ mq' = mq
      /\ mouse' = mouse /\ eaten' = eaten /\ mangled' = mangled /\ events' \in 0 .. MaxEvents
      /\ Announce(kq', mq')
  BY <1>1, Counted DEF KeyEvent
<1>3. /\ KeyTypes' /\ KeysInv' /\ Longer(kq, kq')
      /\ lost' \subseteq {"KBD", "AUX"} /\ ("AUX" \notin lost' => "AUX" \notin lost)
      /\ torn' \in BOOLEAN
  <2>1. CASE k # "sysrq"
    <3>1. k \in Key /\ PutKey(k, down)
      BY <2>1 DEF KeyEvent
    <3>2. KeyTypes' /\ KeysInv' /\ Longer(kq, kq')
      BY <1>2, <2>1, <3>1, PutKeyStep
    <3>3. PICK matters \in BOOLEAN : LoseKey(matters)
      <4> DEFINE m == FlushRefused \/ (~down /\ ~(Fits(Flushed, 1, ~down) = 1))
      <4>1. m \in BOOLEAN /\ LoseKey(m)
        BY <3>1 DEF PutKey
      <4> QED
        BY <4>1
    <3>4. torn' = torn
      BY <3>1 DEF PutKey
    <3> QED
      BY <1>1, <3>2, <3>3, <3>4, KeyLost DEF OtherTypes
  <2>2. CASE k = "sysrq"
    <3> DEFINE bs == PrintScreen(down)
               c  == ~down
               n  == Fits(kq, 4, c)
               m  == n < 4 /\ (c \/ n > 0)
    <3>1. PutSysRq(down)
      BY <2>2 DEF KeyEvent
    <3>2. /\ kq' = Queued(kq, bs, c) /\ LoseKey(m) /\ torn' = (torn \/ delay.on) /\ delay' = delay
      BY <3>1 DEF PutSysRq, PrintScreen
    <3>3. /\ bs \in Seq(KBytes) /\ ~Open(bs, FALSE) /\ Len(bs) = 4
          /\ \A x \in Ids, i \in 1 .. Len(bs) : ~Makes(bs, FALSE, i, x)
      BY PrintScreenIs
    <3>4. c => \A i \in 1 .. Len(bs) : bs[i][1] # "make"
      <4>1. c => /\ bs[1] = E0 /\ bs[2] = Break(SysRq) /\ bs[3] = E0 /\ bs[4] = Break(FakeShift)
        BY DEF PrintScreen
      <4>2. E0[1] # "make" /\ Break(SysRq)[1] # "make" /\ Break(FakeShift)[1] # "make"
        BY DEF E0, Break
      <4> HIDE DEF bs
      <4> QED
        BY <3>3, <4>1, <4>2
    <3>5. held' \subseteq Key \cup {"sysrq"} /\ HeldIds \subseteq HeldIds'
      <4>1. held' \ {"sysrq"} = held \ {"sysrq"} /\ held' \subseteq Key \cup {"sysrq"}
        BY <1>1, <1>2, <2>2 DEF KeyTypes
      <4> QED
        BY <4>1 DEF HeldIds, KbdId
    <3>6. c \in BOOLEAN /\ m \in BOOLEAN
      OBVIOUS
    <3>7. /\ lost' \subseteq {"KBD", "AUX"} /\ ("AUX" \notin lost' => "AUX" \notin lost)
          /\ "KBD" \notin lost' => "KBD" \notin lost /\ ~m
      BY <1>1, <3>2, <3>6, KeyLost
    <3>8. n \in 0 .. 4
      <4>1. Len(kq) \in 0 .. QueueSize /\ 4 \in Nat
        BY <1>1, LenProperties
      <4> QED
        BY <3>6, <4>1, FitsIs
    <3>9. ASSUME "KBD" \notin lost'
          PROVE  LET r == SubSeq(bs, 1, Fits(kq, Len(bs), c))
                 IN  ~Open(r, FALSE) /\ \A x \in Ids, i \in 1 .. Len(r) : ~Makes(r, FALSE, i, x)
      <4>1. n = 4 \/ n = 0
        BY <3>7, <3>8, <3>9
      <4> HIDE DEF bs
      <4>2. Fits(kq, Len(bs), c) = n
        BY <3>3
      <4> HIDE DEF n
      <4>3. CASE n = 4
        <5>1. SubSeq(bs, 1, Fits(kq, Len(bs), c)) = bs
          BY <3>3, <4>2, <4>3, SubSeqFull
        <5> QED
          BY <3>3, <5>1
      <4>4. CASE n = 0
        <5>1. SubSeq(bs, 1, Fits(kq, Len(bs), c)) = <<>>
          BY <3>3, <4>2, <4>4, SubSeqEmpty
        <5> QED
          BY <5>1, NoRoomNoCode
      <4> QED
        BY <4>1, <4>3, <4>4
    <3> HIDE DEF bs, c, n, m
    <3>10. KeyTypes' /\ KeysInv' /\ Longer(kq, kq')
      BY <1>2, <3>2, <3>3, <3>4, <3>5, <3>6, <3>7, <3>9, PutOtherStep
    <3>11. torn' \in BOOLEAN
      <4>1. torn \in BOOLEAN /\ delay.on \in BOOLEAN
        BY <1>1, KeyTypesAre DEF OtherTypes
      <4> QED
        BY <3>2, <4>1
    <3> QED
      BY <3>7, <3>10, <3>11
  <2> QED
    BY <2>1, <2>2
<1>4. kq' \in Seq(KBytes) /\ mq' \in Seq(MBytes) /\ Longer(mq, mq')
  BY <1>1, <1>2, <1>3 DEF KeyTypes, MouseTypes, Longer
<1>5. LinesTrue' /\ irr' \subseteq {1, 12} /\ mode' = mode
  BY <1>2, <1>3, <1>4, Announced
<1>6. BiosTypes' /\ MouseTypes'
  BY <1>1, <1>2 DEF BiosTypes, MouseTypes
<1>7. OtherTypes'
  BY <1>1, <1>2, <1>3, <1>5 DEF OtherTypes
<1>8. MouseInv'
  BY <1>2, <1>3, MouseAside
<1> QED
  BY <1>3, <1>5, <1>6, <1>7, <1>8 DEF KbdInv

\* Answers of the keyboard and the controller.
LEMMA KbdRepliesStep ==
    ASSUME KbdInv, NEW n \in 1 .. 2, KbdReplies(n)
    PROVE  KbdInv'
<1> DEFINE bs == Replies(n)
           z == TRUE
<1>1. /\ KeyTypes /\ BiosTypes /\ MouseTypes /\ OtherTypes
      /\ kq \in Seq(KBytes) /\ Len(kq) <= QueueSize
  BY DEF KbdInv, KeyTypes
<1>2. /\ held' = held /\ bios' = bios /\ mq' = mq /\ delay' = delay /\ lost' = lost
      /\ mouse' = mouse /\ eaten' = eaten /\ mangled' = mangled /\ events' \in 0 .. MaxEvents
      /\ Announce(kq', mq') /\ torn' = (torn \/ delay.on)
      /\ kq' = Queued(kq, bs, z)
  BY <1>1, Counted DEF KbdReplies, Replies
<1>3. /\ bs \in Seq(KBytes) /\ Len(bs) = n /\ \A i \in 1 .. n : bs[i] = Reply
  <2>1. n \in Nat
    OBVIOUS
  <2> QED
    BY <2>1, RepliesAre
<1>4. z => \A i \in 1 .. Len(bs) : bs[i][1] # "make"
  BY <1>3 DEF Reply
<1>5. LET r == SubSeq(bs, 1, Fits(kq, Len(bs), z))
      IN  ~Open(r, FALSE) /\ \A x \in Ids, i \in 1 .. Len(r) : ~Makes(r, FALSE, i, x)
  <2> DEFINE f == Fits(kq, Len(bs), z)
  <2>1. f \in 0 .. n /\ f \in Nat
    <3>1. Len(kq) \in 0 .. QueueSize /\ n \in Nat
      BY <1>1, LenProperties
    <3>2. f \in 0 .. n
      BY <1>3, <3>1, FitsIs
    <3> HIDE DEF f
    <3> QED
      BY <3>2
  <2>2. SubSeq(bs, 1, f) = Replies(f)
    <3> HIDE DEF f
    <3>1. SubSeq(bs, 1, f) = [i \in 1 .. f |-> bs[i]]
      BY <1>3, <2>1
    <3>2. \A i \in 1 .. f : bs[i] = Reply
      BY <1>3, <2>1
    <3> QED
      BY <3>1, <3>2 DEF Replies
  <2> HIDE DEF f
  <2>3. /\ ~Open(Replies(f), FALSE)
        /\ \A x \in Ids, i \in 1 .. Len(Replies(f)) : ~Makes(Replies(f), FALSE, i, x)
    BY <2>1, RepliesAre
  <2> QED
    BY <2>2, <2>3 DEF f
<1>6. held' \subseteq Key \cup {"sysrq"} /\ HeldIds \subseteq HeldIds' /\ z \in BOOLEAN
  BY <1>1, <1>2 DEF KeyTypes, HeldIds, KbdId
<1> HIDE DEF bs, z
<1>7. KeyTypes' /\ KeysInv' /\ Longer(kq, kq')
  BY <1>2, <1>3, <1>4, <1>5, <1>6, PutOtherStep
<1>8. torn' \in BOOLEAN
  <2>1. torn \in BOOLEAN /\ delay.on \in BOOLEAN
    BY <1>1, KeyTypesAre DEF OtherTypes
  <2> QED
    BY <1>2, <2>1
<1>9. kq' \in Seq(KBytes) /\ mq' \in Seq(MBytes) /\ Longer(mq, mq')
  BY <1>1, <1>2, <1>7 DEF KeyTypes, MouseTypes, Longer
<1>10. LinesTrue' /\ irr' \subseteq {1, 12} /\ mode' = mode
  BY <1>2, <1>7, <1>9, Announced
<1>11. BiosTypes' /\ MouseTypes'
  BY <1>1, <1>2 DEF BiosTypes, MouseTypes
<1>12. OtherTypes'
  BY <1>1, <1>2, <1>8, <1>10 DEF OtherTypes
<1>13. MouseInv'
  BY <1>2, MouseAside
<1> QED
  BY <1>7, <1>10, <1>11, <1>12, <1>13 DEF KbdInv

\* kbd_step.
LEMMA KbdStepStep ==
    ASSUME KbdInv, NEW due \in BOOLEAN, KbdStep(due)
    PROVE  KbdInv'
<1>1. /\ KeyTypes /\ BiosTypes /\ MouseTypes /\ OtherTypes /\ ReserveKept
      /\ kq \in Seq(KBytes) /\ mq \in Seq(MBytes) /\ delay.on \in BOOLEAN
      /\ pending = PendingOf(kq, mq) /\ Delayed \in Seq(KBytes) /\ KeyQueue(kq)
  BY KeyTypesAre DEF KbdInv, KeyTypes, MouseTypes, LinesTrue, PendingOf
<1>2. /\ held' = held /\ bios' = bios /\ mq' = mq /\ mouse' = mouse /\ mangled' = mangled
      /\ eaten' = eaten /\ events' = events /\ torn' = torn
      /\ kq' = (IF due THEN Flushed ELSE kq) /\ delay' = (IF due THEN NoDelay ELSE delay)
      /\ LoseKey(due /\ FlushRefused)
      /\ UpdateIrq(pending \cup (IF kq' # <<>> THEN {"KBD"} ELSE {})
                           \cup (IF mq' # <<>> THEN {"AUX"} ELSE {}), mode)
  BY DEF KbdStep
<1>3. KeyQueue(Flushed) /\ Longer(kq, Flushed) /\ (~FlushRefused => Flushed = Cat(kq, Delayed))
  BY <1>1, FlushedIs
<1>4. KeyQueue(kq') /\ Longer(kq, kq')
  BY <1>1, <1>2, <1>3 DEF Longer, KeyQueue
<1>5. KeyTypes'
  <2>1. kq' \in Seq(KBytes) /\ Len(kq') <= QueueSize /\ ReserveKept'
    BY <1>4 DEF KeyQueue, ReserveOf, ReserveKept
  <2>2. CASE due
    BY <1>1, <1>2, <2>1, <2>2 DEF KeyTypes, NoDelay
  <2>3. CASE ~due
    BY <1>1, <1>2, <2>1, <2>3 DEF KeyTypes
  <2> QED
    BY <2>2, <2>3
<1>6. pending \cup (IF kq' # <<>> THEN {"KBD"} ELSE {})
              \cup (IF mq' # <<>> THEN {"AUX"} ELSE {}) = PendingOf(kq', mq')
  <2>1. kq # <<>> => kq' # <<>>
    <3>1. /\ Len(kq) \in Nat /\ Len(kq') \in Nat /\ (kq = <<>> <=> Len(kq) = 0)
          /\ (kq' = <<>> <=> Len(kq') = 0)
      BY <1>1, <1>4, EmptySeq DEF KeyQueue
    <3> QED
      BY <1>4, <3>1 DEF Longer
  <2> QED
    BY <1>1, <1>2, <2>1 DEF PendingOf
<1>7. LinesTrue' /\ irr' \subseteq {1, 12} /\ mode' = mode
  BY <1>1, <1>2, <1>6, LinesFollow
<1>8. (due /\ FlushRefused) \in BOOLEAN
  OBVIOUS
<1>9. /\ lost' \subseteq {"KBD", "AUX"} /\ ("AUX" \notin lost' => "AUX" \notin lost)
      /\ "KBD" \notin lost' => "KBD" \notin lost /\ ~(due /\ FlushRefused)
  BY <1>1, <1>2, <1>8, KeyLost
<1>10. BiosTypes' /\ MouseTypes' /\ OtherTypes'
  BY <1>1, <1>2, <1>7, <1>9 DEF BiosTypes, MouseTypes, OtherTypes
<1>11. MouseInv'
  BY <1>2, <1>9, MouseAside
<1>12. KeysInv'
  <2>1. HeldIds' = HeldIds
    BY <1>2 DEF HeldIds, KbdId
  <2>2. ASSUME "KBD" \notin lost' PROVE KeyStream' = KeyStream
    <3>1. CASE due
      <4> DEFINE B == bios.byte
      <4>1. /\ KeyStream = Cat(Cat(B, kq), Delayed) /\ KeyStream' = Cat(Cat(B, kq'), <<>>)
            /\ B \in Seq(KBytes)
        BY <1>1, <1>2, <3>1 DEF KeyStream, Delayed, Cat, NoDelay, BiosTypes
      <4> HIDE DEF B
      <4>2. kq' = Cat(kq, Delayed) /\ kq' \in Seq(KBytes)
        BY <1>2, <1>3, <1>4, <1>9, <2>2, <3>1 DEF KeyQueue
      <4>3. Cat(B, kq') \in Seq(KBytes) /\ Cat(Cat(B, kq), Delayed) = Cat(B, Cat(kq, Delayed))
        <5>1. Cat(B, kq') \in Seq(KBytes)
          BY <4>1, <4>2, CatIs
        <5>2. Cat(Cat(B, kq), Delayed) = Cat(B, Cat(kq, Delayed))
          BY <1>1, <4>1, CatIs
        <5> QED
          BY <5>1, <5>2
      <4>4. KeyStream' = Cat(B, kq')
        BY <4>1, <4>3, CatEmpty
      <4> QED
        BY <4>1, <4>2, <4>3, <4>4
    <3>2. CASE ~due
      BY <1>2, <3>2 DEF KeyStream
    <3> QED
      BY <3>1, <3>2
  <2> QED
    BY <1>2, <1>9, <2>1, <2>2 DEF KbdInv, KeysInv
<1> QED
  BY <1>5, <1>7, <1>10, <1>11, <1>12 DEF KbdInv

\* The mode is written.
LEMMA WriteModeStep ==
    ASSUME KbdInv, NEW m \in SUBSET {"kbd_int", "mouse_int", "disable_kbd"}, WriteMode(m)
    PROVE  KbdInv'
<1>1. /\ KeyTypes /\ BiosTypes /\ MouseTypes /\ OtherTypes
  BY DEF KbdInv
<1>2. /\ UNCHANGED <<kq, mq, delay, mouse, held, bios, lost, torn, eaten, mangled>>
      /\ events' \in 0 .. MaxEvents /\ UpdateIrq(pending, m)
  BY <1>1, Counted DEF WriteMode
<1>3. pending = PendingOf(kq', mq')
  BY <1>2 DEF KbdInv, LinesTrue, PendingOf
<1>4. LinesTrue' /\ irr' \subseteq {1, 12} /\ mode' = m
  BY <1>1, <1>2, <1>3, LinesFollow
<1>5. KeyTypes' /\ BiosTypes' /\ MouseTypes' /\ OtherTypes'
  BY <1>1, <1>2, <1>4 DEF KeyTypes, BiosTypes, MouseTypes, OtherTypes, ReserveKept
<1>6. KeysInv' /\ MouseInv'
  BY <1>2, KeysAside, MouseAside
<1> QED
  BY <1>4, <1>5, <1>6 DEF KbdInv

\* The mouse's queue takes whole packets, or something is lost.
LEMMA MouseQueued ==
    ASSUME KbdInv, NEW bs \in Seq(MBytes), Aligned(bs)
    PROVE  LET r == Queued(mq, bs, TRUE)
               n == Fits(mq, Len(bs), TRUE)
           IN  /\ r \in Seq(MBytes) /\ Len(r) <= QueueSize /\ Longer(mq, r) /\ n \in 0 .. Len(bs)
               /\ n = 0 => r = mq
               /\ Len(mq) + Len(bs) <= QueueSize => n = Len(bs)
               /\ n = Len(bs) /\ Aligned(Cat(bios.packet, mq)) => Aligned(Cat(bios.packet, r))
<1> DEFINE z == TRUE
           r == Queued(mq, bs, z)
           n == Fits(mq, Len(bs), z)
<1>1. /\ mq \in Seq(MBytes) /\ Len(mq) <= QueueSize /\ bios.packet \in Seq(MBytes) /\ z \in BOOLEAN
      /\ Len(mq) \in 0 .. QueueSize /\ Len(bs) \in Nat
  <2>1. mq \in Seq(MBytes) /\ Len(mq) <= QueueSize /\ bios.packet \in Seq(MBytes)
    BY DEF KbdInv, MouseTypes, BiosTypes
  <2>2. Len(mq) \in Nat /\ Len(bs) \in Nat /\ QueueSize \in Nat
    BY <2>1, LenProperties, KbdAssumption
  <2> QED
    BY <2>1, <2>2
<1>2. n \in 0 .. Len(bs) /\ (Len(mq) + Len(bs) <= QueueSize => n = Len(bs))
  BY <1>1, FitsIs
<1>3. /\ r \in Seq(MBytes) /\ Len(r) = Len(mq) + n /\ Len(r) <= QueueSize
      /\ n = 0 => r = mq
      /\ n = Len(bs) => r = Cat(mq, bs)
  <2> HIDE DEF z
  <2> QED
    BY <1>1, QueuedIs
<1> HIDE DEF r, n
<1>4. Longer(mq, r)
  BY <1>1, <1>2, <1>3 DEF Longer
<1>5. ASSUME n = Len(bs), Aligned(Cat(bios.packet, mq)) PROVE Aligned(Cat(bios.packet, r))
  <2> DEFINE s == Cat(bios.packet, mq)
  <2>1. s \in Seq(MBytes) /\ Aligned(s)
    BY <1>1, <1>5, CatIs
  <2>2. Cat(bios.packet, r) = Cat(s, bs)
    BY <1>1, <1>3, <1>5, CatIs
  <2> HIDE DEF s
  <2> QED
    BY <2>1, <2>2, AlignedGrows DEF Cat
<1>6. /\ r \in Seq(MBytes) /\ Len(r) <= QueueSize /\ Longer(mq, r) /\ n \in 0 .. Len(bs)
      /\ n = 0 => r = mq
      /\ Len(mq) + Len(bs) <= QueueSize => n = Len(bs)
      /\ n = Len(bs) /\ Aligned(Cat(bios.packet, mq)) => Aligned(Cat(bios.packet, r))
  BY <1>2, <1>3, <1>4, <1>5
<1> QED
  BY <1>6 DEF r, n, z

\* The rest of the invariant, when only the mouse has said something.
LEMMA MouseSaid ==
    ASSUME KbdInv, UNCHANGED <<kq, delay, held, bios, torn, eaten, mangled>>, Count,
           mq' \in Seq(MBytes), Len(mq') <= QueueSize, Longer(mq, mq'),
           mouse' \in [reports : {"off", "stream", "remote"}, owed : Nat],
           Announce(kq', mq'), NEW matters \in BOOLEAN, Lose("AUX", matters),
           ~matters /\ Aligned(Cat(bios.packet, mq)) => Aligned(Cat(bios.packet, mq'))
    PROVE  KbdInv'
<1>1. KeyTypes /\ BiosTypes /\ MouseTypes /\ OtherTypes /\ kq' \in Seq(KBytes) /\ Longer(kq, kq')
  <2>1. KeyTypes /\ BiosTypes /\ MouseTypes /\ OtherTypes /\ kq \in Seq(KBytes) /\ kq' = kq
    BY DEF KbdInv, KeyTypes
  <2>2. Len(kq) \in Nat
    BY <2>1, LenProperties
  <2> QED
    BY <2>1, <2>2 DEF Longer
<1>2. LinesTrue' /\ irr' \subseteq {1, 12} /\ mode' = mode
  BY <1>1, Announced
<1>3. /\ lost' \subseteq {"KBD", "AUX"} /\ ("KBD" \notin lost' => "KBD" \notin lost)
      /\ "AUX" \notin lost' => "AUX" \notin lost /\ ~matters
  BY <1>1 DEF Lose, OtherTypes
<1>4. KeyTypes' /\ BiosTypes' /\ MouseTypes' /\ OtherTypes'
  BY <1>1, <1>2, <1>3, Counted DEF KeyTypes, BiosTypes, MouseTypes, OtherTypes, ReserveKept
<1>5. KeysInv'
  BY <1>3, KeysAside
<1>6. MouseInv'
  <2>1. bios' = bios /\ mangled' = mangled
    OBVIOUS
  <2>2. SUFFICES ASSUME "AUX" \notin lost' \cup eaten'
                 PROVE  /\ ~mangled /\ (bios.packet = <<>> \/ bios.packet[1] = P(0))
                        /\ Aligned(Cat(bios.packet, mq'))
    BY <2>1 DEF MouseInv
  <2>3. /\ ~mangled /\ (bios.packet = <<>> \/ bios.packet[1] = P(0))
        /\ Aligned(Cat(bios.packet, mq))
    BY <1>3, <2>2 DEF KbdInv, MouseInv
  <2> QED
    BY <1>3, <2>2, <2>3
<1> QED
  BY <1>2, <1>4, <1>5, <1>6 DEF KbdInv

\* ps2_mouse_event: with the margin free, packets that fit it are sent whole.
LEMMA MouseEventStep ==
    ASSUME KbdInv, NEW n \in Nat \ {0}, MouseEvent(n)
    PROVE  KbdInv'
<1> DEFINE owed == mouse.owed + n
           q == IF mouse.reports = "stream" THEN Moved(mq, owed) ELSE mq
           matters == q # mq /\ 3 * owed > MouseMargin
           bs == Packets(owed)
           r == Queued(mq, bs, TRUE)
<1>1. /\ mouse \in [reports : {"off", "stream", "remote"}, owed : Nat]
      /\ mq \in Seq(MBytes) /\ Len(mq) <= QueueSize /\ Len(mq) \in Nat
  <2>1. /\ mouse \in [reports : {"off", "stream", "remote"}, owed : Nat]
        /\ mq \in Seq(MBytes) /\ Len(mq) <= QueueSize
    BY DEF KbdInv, MouseTypes
  <2> QED
    BY <2>1, LenProperties
<1>2. owed \in Nat
  BY <1>1
<1>3. /\ UNCHANGED <<kq, delay, held, bios, torn, eaten, mangled>> /\ Count /\ mq' = q
      /\ mouse' = [mouse EXCEPT !.owed = IF q # mq THEN 0 ELSE owed]
      /\ Lose("AUX", matters) /\ Announce(kq, q)
  BY DEF MouseEvent
<1> HIDE DEF owed
<1>4. bs \in Seq(MBytes) /\ Len(bs) = 3 * owed /\ Aligned(bs)
  BY <1>2, PacketsAre
<1> HIDE DEF bs
<1>5. /\ r \in Seq(MBytes) /\ Len(r) <= QueueSize /\ Longer(mq, r)
      /\ Fits(mq, Len(bs), TRUE) = Len(bs) /\ Aligned(Cat(bios.packet, mq))
            => Aligned(Cat(bios.packet, r))
      /\ Len(mq) + Len(bs) <= QueueSize => Fits(mq, Len(bs), TRUE) = Len(bs)
  BY <1>4, MouseQueued
<1> HIDE DEF r
<1>6. q = mq \/ (q = r /\ Len(mq) < QueueSize - MouseMargin)
  BY DEF Moved, r, bs
<1>7. ASSUME ~matters, Aligned(Cat(bios.packet, mq)) PROVE Aligned(Cat(bios.packet, q))
  <2>1. CASE q = mq
    BY <1>7, <2>1
  <2>2. CASE q # mq
    <3>1. q = r /\ Len(mq) + Len(bs) <= QueueSize
      BY <1>1, <1>2, <1>4, <1>6, <1>7, <2>2, KbdAssumption
    <3> QED
      BY <1>5, <1>7, <3>1
  <2> QED
    BY <2>1, <2>2
<1>8. q \in Seq(MBytes) /\ Len(q) <= QueueSize /\ Longer(mq, q)
  BY <1>1, <1>5, <1>6 DEF Longer
<1>9. matters \in BOOLEAN /\ mouse' \in [reports : {"off", "stream", "remote"}, owed : Nat]
  BY <1>1, <1>2, <1>3
<1> HIDE DEF q, matters
<1>10. Announce(kq', mq')
  BY <1>3
<1> QED
  BY <1>3, <1>7, <1>8, <1>9, <1>10, MouseSaid

\* Answers of the mouse, and a packet it was asked for.
LEMMA MouseRepliesStep ==
    ASSUME KbdInv, NEW reports \in {"off", "stream", "remote"}, NEW poll \in BOOLEAN,
           MouseReplies(reports, poll)
    PROVE  KbdInv'
<1> DEFINE one == <<Reply>>
           bs == IF poll THEN Cat(one, Packets(1)) ELSE one
           r == Queued(mq, bs, TRUE)
           matters == poll /\ Fits(mq, 4, TRUE) < 4
<1>1. mouse \in [reports : {"off", "stream", "remote"}, owed : Nat]
  BY DEF KbdInv, MouseTypes
<1>2. /\ UNCHANGED <<kq, delay, held, bios, torn, eaten, mangled>> /\ Count /\ mq' = r
      /\ mouse' = [reports |-> reports,
                   owed |-> IF poll /\ mouse.owed > 0 THEN mouse.owed - 1 ELSE mouse.owed]
      /\ Lose("AUX", matters) /\ Announce(kq, mq')
  BY DEF MouseReplies, Cat
<1>3. one \in Seq(MBytes) /\ Len(one) = 1 /\ Aligned(one)
  <2>1. one \in Seq(MBytes) /\ Len(one) = 1 /\ one[1] = Reply
    BY ByteFacts
  <2>2. \A j \in {0, 1, 2} : Reply # P(j)
    BY DEF Reply, P
  <2> HIDE DEF one
  <2>3. \A i \in 1 .. Len(one) : one[i] = Reply
    BY <2>1
  <2> QED
    BY <2>1, <2>2, <2>3 DEF Aligned
<1>4. Packets(1) \in Seq(MBytes) /\ Len(Packets(1)) = 3 /\ Aligned(Packets(1))
  <2> DEFINE n == 1
  <2>1. n \in Nat /\ 3 * n = 3
    OBVIOUS
  <2> HIDE DEF n
  <2>2. Packets(n) \in Seq(MBytes) /\ Len(Packets(n)) = 3 /\ Aligned(Packets(n))
    BY <2>1, PacketsAre
  <2> QED
    BY <2>2 DEF n
<1> HIDE DEF one
<1>5. Cat(one, Packets(1)) \in Seq(MBytes) /\ Len(Cat(one, Packets(1))) = 4 /\ Aligned(Cat(one, Packets(1)))
  <2> DEFINE p == Packets(1)
  <2>1. p \in Seq(MBytes) /\ Len(p) = 3 /\ Aligned(p)
    BY <1>4
  <2> HIDE DEF p
  <2>2. Aligned(Cat(one, p))
    BY <1>3, <2>1, AlignedGrows DEF Cat
  <2>3. Cat(one, p) \in Seq(MBytes) /\ Len(Cat(one, p)) = Len(one) + Len(p)
    BY <1>3, <2>1, ConcatProperties DEF Cat
  <2>4. Len(Cat(one, p)) = 4
    BY <1>3, <2>1, <2>3
  <2> QED
    BY <2>2, <2>3, <2>4 DEF p
<1>6. bs \in Seq(MBytes) /\ Aligned(bs) /\ Len(bs) = IF poll THEN 4 ELSE 1
  BY <1>3, <1>5
<1> HIDE DEF bs
<1>7. /\ r \in Seq(MBytes) /\ Len(r) <= QueueSize /\ Longer(mq, r)
      /\ Fits(mq, Len(bs), TRUE) \in 0 .. Len(bs)
      /\ Fits(mq, Len(bs), TRUE) = 0 => r = mq
      /\ Fits(mq, Len(bs), TRUE) = Len(bs) /\ Aligned(Cat(bios.packet, mq))
            => Aligned(Cat(bios.packet, r))
  BY <1>6, MouseQueued
<1> HIDE DEF r
<1>8. ASSUME ~matters, Aligned(Cat(bios.packet, mq)) PROVE Aligned(Cat(bios.packet, r))
  <2>1. CASE poll
    <3> DEFINE f == Fits(mq, 4, TRUE)
    <3>1. Len(bs) = 4 /\ f \in 0 .. 4 /\ ~(f < 4) /\ Fits(mq, Len(bs), TRUE) = f
      BY <1>6, <1>7, <1>8, <2>1
    <3> HIDE DEF f
    <3>1a. f = 4
      BY <3>1
    <3>2. Fits(mq, Len(bs), TRUE) = Len(bs)
      BY <3>1, <3>1a
    <3> QED
      BY <1>7, <1>8, <3>2
  <2>2. CASE ~poll
    <3> DEFINE f == Fits(mq, Len(bs), TRUE)
    <3>1. Len(bs) = 1 /\ f \in 0 .. Len(bs)
      BY <1>6, <1>7, <2>2
    <3> HIDE DEF f
    <3>1a. f = 0 \/ f = Len(bs)
      BY <3>1
    <3>2. Fits(mq, Len(bs), TRUE) = 0 \/ Fits(mq, Len(bs), TRUE) = Len(bs)
      BY <3>1a DEF f
    <3> QED
      BY <1>7, <1>8, <3>2
  <2> QED
    BY <2>1, <2>2
<1>9. matters \in BOOLEAN /\ mouse' \in [reports : {"off", "stream", "remote"}, owed : Nat]
  BY <1>1, <1>2
<1> HIDE DEF matters
<1>10. Announce(kq', mq')
  BY <1>2
<1> QED
  BY <1>2, <1>7, <1>8, <1>9, <1>10, MouseSaid

-----------------------------------------------------------------------------
(* The handlers.                                                           *)

\* A sequence is its head and its tail.
LEMMA HeadFirst ==
    ASSUME NEW T, NEW s \in Seq(T), s # <<>>
    PROVE  Cat(<<Head(s)>>, Tail(s)) = s /\ Head(s) = s[1] /\ Head(s) \in T /\ Tail(s) \in Seq(T)
           /\ Len(s) = 1 + Len(Tail(s)) /\ \A i \in 1 .. Len(Tail(s)) : Tail(s)[i] = s[1 + i]
<1> DEFINE h == <<Head(s)>>
           t == Tail(s)
           d == h \o t
<1>1. /\ Head(s) \in T /\ t \in Seq(T) /\ Len(t) = Len(s) - 1 /\ Len(s) \in Nat /\ Len(t) \in Nat
      /\ \A i \in 1 .. Len(t) : t[i] = s[i + 1]
  BY HeadTailProperties, LenProperties
<1>2. Head(s) = s[1] /\ h \in Seq(T) /\ Len(h) = 1 /\ h[1] = Head(s)
  BY <1>1
<1> HIDE DEF t, h
<1>3. /\ d \in Seq(T) /\ Len(d) = 1 + Len(t)
      /\ \A i \in 1 .. 1 + Len(t) : d[i] = IF i <= 1 THEN h[i] ELSE t[i - 1]
  <2>1. /\ d \in Seq(T) /\ Len(d) = Len(h) + Len(t)
        /\ \A i \in 1 .. Len(h) + Len(t) : d[i] = IF i <= Len(h) THEN h[i] ELSE t[i - Len(h)]
    <3>1. h \in Seq(T) /\ t \in Seq(T)
      BY <1>1, <1>2
    <3> QED
      BY <3>1, ConcatProperties
  <2> HIDE DEF d
  <2> QED
    BY <1>2, <2>1
<1> HIDE DEF d
<1>4. Len(d) = Len(s)
  BY <1>1, <1>3
<1>5. ASSUME NEW i \in 1 .. Len(d) PROVE d[i] = s[i]
  <2>1. CASE i = 1
    BY <1>1, <1>2, <1>3, <2>1
  <2>2. CASE i # 1
    <3>1. i - 1 \in 1 .. Len(t) /\ ~(i <= 1) /\ i - 1 + 1 = i
      BY <1>1, <1>3, <2>2
    <3>2. t[i - 1] = s[i]
      BY <1>1, <3>1
    <3> QED
      BY <1>3, <3>1, <3>2
  <2> QED
    BY <2>1, <2>2
<1>6. d = s
  BY <1>3, <1>4, <1>5, SeqEqual
<1>7. Len(s) = 1 + Len(t) /\ \A i \in 1 .. Len(t) : t[i] = s[1 + i]
  <2>1. \A i \in 1 .. Len(t) : i + 1 = 1 + i
    OBVIOUS
  <2> QED
    BY <1>1, <2>1
<1> QED
  BY <1>1, <1>2, <1>6, <1>7 DEF Cat, d, h, t

\* A byte in front of a sequence is its head.
LEMMA TailOfCat ==
    ASSUME NEW T, NEW x \in T, NEW s \in Seq(T)
    PROVE  Cat(<<x>>, s) # <<>> /\ Cat(<<x>>, s)[1] = x /\ Tail(Cat(<<x>>, s)) = s
<1> DEFINE h == <<x>>
           d == h \o s
<1>1. h \in Seq(T) /\ Len(h) = 1 /\ h[1] = x /\ Len(s) \in Nat
  BY LenProperties
<1> HIDE DEF h
<1>2. /\ d \in Seq(T) /\ Len(d) = 1 + Len(s)
      /\ \A i \in 1 .. 1 + Len(s) : d[i] = IF i <= 1 THEN h[i] ELSE s[i - 1]
  <2>1. /\ d \in Seq(T) /\ Len(d) = Len(h) + Len(s)
        /\ \A i \in 1 .. Len(h) + Len(s) : d[i] = IF i <= Len(h) THEN h[i] ELSE s[i - Len(h)]
    BY <1>1, ConcatProperties
  <2> HIDE DEF d
  <2> QED
    BY <1>1, <2>1
<1> HIDE DEF d
<1>3. d # <<>> /\ d[1] = x
  BY <1>1, <1>2, EmptySeq
<1>4. /\ Tail(d) \in Seq(T) /\ Len(Tail(d)) = Len(d) - 1
      /\ \A i \in 1 .. Len(Tail(d)) : Tail(d)[i] = d[i + 1]
  BY <1>2, <1>3, HeadTailProperties
<1>5. Len(Tail(d)) = Len(s)
  BY <1>1, <1>2, <1>4
<1>6. ASSUME NEW i \in 1 .. Len(s) PROVE Tail(d)[i] = s[i]
  <2>1. i + 1 \in 1 .. 1 + Len(s) /\ ~(i + 1 <= 1) /\ i + 1 - 1 = i
    BY <1>1
  <2>2. d[i + 1] = s[i]
    BY <1>2, <2>1
  <2> QED
    BY <1>4, <1>5, <2>2
<1>7. Tail(d) = s
  BY <1>4, <1>5, <1>6, SeqEqual
<1> QED
  BY <1>3, <1>7 DEF Cat, d, h

\* A byte leaves a queue: the lines follow.
LEMMA LinesRead ==
    ASSUME LinesTrue, OtherTypes, NEW line \in {1, 12}, NEW dev \in {"KBD", "AUX"}, dev \in pending,
           line = 1 <=> dev = "KBD",
           NEW q, q = (IF dev = "KBD" THEN kq ELSE mq),
           ReadData(line, dev, q), mode' = mode,
           kq' = (IF dev = "KBD" THEN Tail(kq) ELSE kq), mq' = (IF dev = "AUX" THEN Tail(mq) ELSE mq)
    PROVE  LinesTrue' /\ irr' \subseteq {1, 12}
<1>1. pending' = PendingOf(kq', mq')
  BY DEF LinesTrue, ReadData, PendingOf
<1>2. level' = Levels(pending', mode')
  BY DEF ReadData
<1>3. irr' \subseteq {1, 12}
  BY DEF ReadData, OtherTypes, Levels
<1>4. line \notin Levels(pending \ {dev}, mode)
  <2>1. CASE dev = "KBD"
    <3>1. line = 1 /\ (pending \ {dev} = {} \/ pending \ {dev} = {"AUX"})
      BY <2>1 DEF LinesTrue
    <3>2. Levels({}, mode) = {} /\ Levels({"AUX"}, mode) \subseteq {12}
      BY DEF Levels
    <3> QED
      BY <3>1, <3>2, 1 \notin {12}
  <2>2. CASE dev = "AUX"
    <3>1. line = 12 /\ pending \ {dev} # {"AUX"}
      BY <2>2
    <3>2. 12 \notin Levels(pending \ {dev}, mode)
      BY <3>1 DEF Levels
    <3> QED
      BY <3>1, <3>2
  <2> QED
    BY <2>1, <2>2
<1>5. level' \subseteq irr'
  BY <1>4 DEF ReadData, LinesTrue
<1> QED
  BY <1>1, <1>2, <1>3, <1>5 DEF LinesTrue, PendingOf

\* What is left of a queue keeps the reserve.
LEMMA ReserveRead ==
    ASSUME NEW q, KeyQueue(q), q # <<>>
    PROVE  KeyQueue(Tail(q))
<1>1. /\ q \in Seq(KBytes) /\ Tail(q) \in Seq(KBytes) /\ Len(q) = 1 + Len(Tail(q))
      /\ \A i \in 1 .. Len(Tail(q)) : Tail(q)[i] = q[1 + i]
      /\ Len(q) <= QueueSize
  BY HeadFirst DEF KeyQueue
<1>2. Len(Tail(q)) \in Nat /\ Len(q) \in Nat
  BY <1>1, LenProperties
<1> DEFINE t == Tail(q)
<1> HIDE DEF t
<1>3. ASSUME NEW i \in QueueSize - Reserve + 1 .. Len(t) PROVE t[i][1] # "make"
  <2>1. 1 + i \in QueueSize - Reserve + 1 .. Len(q) /\ i \in 1 .. Len(t)
    BY <1>1, <1>2, KbdAssumption DEF t
  <2>2. t[i] = q[1 + i]
    BY <1>1, <2>1 DEF t
  <2> QED
    BY <2>1, <2>2 DEF KeyQueue, ReserveOf
<1>4. t \in Seq(KBytes) /\ Len(t) <= QueueSize
  BY <1>1, <1>2, KbdAssumption DEF t
<1>5. KeyQueue(t)
  BY <1>3, <1>4 DEF KeyQueue, ReserveOf
<1> QED
  BY <1>5 DEF t

\* An interrupt without data changes nothing else.
LEMMA NothingToRead ==
    ASSUME KbdInv, NEW line, line \notin level, Ignored(line), UNCHANGED <<delay, mode, mouse, held, lost, torn, eaten, events>>
    PROVE  KbdInv'
<1>1. /\ UNCHANGED <<kq, mq, pending, level, bios, mangled>> /\ irr' = irr \ {line}
      /\ KeyTypes /\ BiosTypes /\ MouseTypes /\ OtherTypes /\ LinesTrue
  BY DEF Ignored, KbdInv
<1>2. KeyTypes' /\ BiosTypes' /\ MouseTypes' /\ OtherTypes' /\ LinesTrue'
  BY <1>1 DEF KeyTypes, BiosTypes, MouseTypes, OtherTypes, ReserveKept, LinesTrue
<1>3. KeysInv' /\ MouseInv'
  BY <1>1, KeysAside, MouseAside
<1> QED
  BY <1>2, <1>3 DEF KbdInv

\* bios_09h takes a byte.
LEMMA Int09Step ==
    ASSUME KbdInv, Int09
    PROVE  KbdInv'
<1>1. /\ KeyTypes /\ BiosTypes /\ MouseTypes /\ OtherTypes /\ LinesTrue
      /\ KeyQueue(kq) /\ Delayed \in Seq(KBytes)
      /\ UNCHANGED <<delay, mode, mouse, held, lost, torn, eaten, events>> /\ bios.byte = <<>>
  BY KeyTypesAre DEF KbdInv, Int09
<1>2. CASE "KBD" \in pending
  <2>1. /\ ReadData(1, "KBD", kq) /\ kq' = Tail(kq) /\ UNCHANGED <<mq, mangled>>
        /\ bios' = [bios EXCEPT !.byte = <<Head(kq)>>]
    BY <1>2 DEF Int09
  <2>2. kq # <<>> /\ kq \in Seq(KBytes)
    BY <1>1, <1>2 DEF LinesTrue, KeyQueue
  <2> DEFINE h == <<Head(kq)>>
             t == Tail(kq)
  <2>3. Cat(h, t) = kq /\ h \in Seq(KBytes) /\ Len(h) = 1 /\ t \in Seq(KBytes)
    BY <2>2, HeadFirst
  <2>4. LinesTrue' /\ irr' \subseteq {1, 12}
    BY <1>1, <1>2, <2>1, LinesRead
  <2>5. KeyQueue(kq')
    BY <1>1, <2>1, <2>2, ReserveRead
  <2>6. KeyTypes'
    BY <1>1, <2>5 DEF KeyTypes, KeyQueue, ReserveOf, ReserveKept
  <2>7. /\ bios' \in [byte : Seq(KBytes), e0 : BOOLEAN, down : SUBSET Ids, packet : Seq(MBytes)]
        /\ bios'.byte = h /\ bios'.e0 = bios.e0 /\ bios'.down = bios.down
        /\ bios'.packet = bios.packet
    BY <1>1, <2>1, <2>3 DEF BiosTypes
  <2> HIDE DEF h, t
  <2>8. BiosTypes' /\ MouseTypes' /\ OtherTypes'
    <3>1. Len(bios'.byte) <= 1 /\ Len(bios'.packet) < 3
      <4>1. Len(h) = 1 /\ Len(bios.packet) < 3
        BY <1>1, <2>3 DEF BiosTypes
      <4>2. Len(bios'.byte) = Len(h) /\ Len(bios'.packet) = Len(bios.packet)
        BY <2>7
      <4> QED
        BY <4>1, <4>2
    <3>2. BiosTypes'
      BY <2>7, <3>1 DEF BiosTypes
    <3>3. MouseTypes' /\ OtherTypes'
      BY <1>1, <2>1, <2>4 DEF MouseTypes, OtherTypes
    <3> QED
      BY <3>2, <3>3
  <2>9. MouseInv'
    BY <1>1, <2>1, <2>7, MouseAside
  <2>10. KeyStream' = KeyStream /\ HeldIds' = HeldIds
    <3>1. Delayed' = Delayed /\ kq' = t
      BY <1>1, <2>1 DEF Delayed, t
    <3>2. KeyStream = Cat(Cat(<<>>, kq), Delayed) /\ KeyStream' = Cat(Cat(h, t), Delayed)
      BY <1>1, <2>7, <3>1 DEF KeyStream, Cat, Delayed
    <3>3. Cat(<<>>, kq) = kq
      BY <2>2, CatEmpty
    <3> QED
      BY <1>1, <2>3, <3>2, <3>3 DEF HeldIds, KbdId
  <2>11. KeysInv'
    BY <1>1, <2>7, <2>10 DEF KbdInv, KeysInv
  <2> QED
    BY <2>4, <2>6, <2>8, <2>9, <2>11 DEF KbdInv
<1>3. CASE "KBD" \notin pending
  <2>1. 1 \notin level
    BY <1>1, <1>3 DEF LinesTrue, Levels
  <2> QED
    BY <1>1, <1>3, <2>1, NothingToRead DEF Int09
<1> QED
  BY <1>2, <1>3

\* bios_09h_phase2 handles it.
LEMMA Int09Phase2Step ==
    ASSUME KbdInv, Int09Phase2
    PROVE  KbdInv'
<1>1. /\ KeyTypes /\ BiosTypes /\ MouseTypes /\ OtherTypes /\ LinesTrue
      /\ KeyQueue(kq) /\ Delayed \in Seq(KBytes) /\ kq \in Seq(KBytes)
  BY KeyTypesAre DEF KbdInv, KeyTypes
<1>2. /\ UNCHANGED <<kq, mq, delay, mouse, held, lost, torn, eaten, mangled, events>>
      /\ bios.byte # <<>> /\ bios' = Decoded(Head(bios.byte))
      /\ UpdateIrq(pending, mode \ {"disable_kbd"})
  BY DEF Int09Phase2
<1> DEFINE B == bios.byte
           b == Head(B)
           s == Cat(kq, Delayed)
<1>3. B \in Seq(KBytes) /\ Len(B) <= 1 /\ B # <<>> /\ s \in Seq(KBytes)
  BY <1>1, <1>2, CatIs DEF BiosTypes
<1>4. b \in KBytes /\ Cat(<<b>>, Tail(B)) = B /\ Tail(B) = <<>>
  <2> HIDE DEF B
  <2>1. b \in KBytes /\ Cat(<<b>>, Tail(B)) = B /\ Tail(B) \in Seq(KBytes) /\ Len(B) = 1 + Len(Tail(B))
    BY <1>3, HeadFirst
  <2>2. Len(Tail(B)) \in Nat
    BY <2>1, LenProperties
  <2>3. Len(Tail(B)) = 0
    BY <1>3, <2>1, <2>2
  <2> QED
    BY <2>1, <2>3, EmptySeq
<1>5. B = <<b>>
  <2>1. <<b>> \in Seq(KBytes)
    BY <1>4
  <2> QED
    BY <1>4, <2>1, CatEmpty
<1>6. pending = PendingOf(kq', mq')
  BY <1>1, <1>2 DEF LinesTrue, PendingOf
<1>7. LinesTrue' /\ irr' \subseteq {1, 12} /\ mode' = mode \ {"disable_kbd"}
  BY <1>1, <1>2, <1>6, LinesFollow
<1> DEFINE z == Cat(<<b>>, s)
           d == bios'.down
<1> HIDE DEF b, B, s
<1>8. z # <<>> /\ z[1] = b /\ Tail(z) = s /\ z \in Seq(KBytes)
  <2>1. <<b>> \in Seq(KBytes)
    BY <1>4
  <2> QED
    BY <1>3, <1>4, <2>1, TailOfCat, CatIs
<1> HIDE DEF z
<1>9. /\ bios' \in [byte : Seq(KBytes), e0 : BOOLEAN, down : SUBSET Ids, packet : Seq(MBytes)]
      /\ bios'.byte = <<>> /\ bios'.packet = bios.packet /\ bios'.e0 = (b = E0)
      /\ \A x \in d : x \in bios.down \/ Makes(z, bios.e0, 1, x)
      /\ \A x \in Ids : Breaks(z, bios.e0, 1, x) => x \notin d
  <2>1. bios' = Decoded(b)
    BY <1>2 DEF b, B
  <2> QED
    BY <1>1, <1>4, <1>8, <2>1, DecodedIs
<1>10. KeyTypes' /\ BiosTypes' /\ MouseTypes' /\ OtherTypes'
  <2>1. Len(bios'.byte) <= 1 /\ Len(bios'.packet) < 3
    BY <1>1, <1>9 DEF BiosTypes
  <2>2. BiosTypes'
    BY <1>9, <2>1 DEF BiosTypes
  <2> QED
    BY <1>1, <1>2, <1>7, <2>2 DEF KeyTypes, MouseTypes, OtherTypes, ReserveKept
<1>11. MouseInv'
  BY <1>2, <1>9, MouseAside
<1>12. KeysInv'
  <2>1. KeyStream = z
    <3>1. KeyStream = Cat(Cat(<<b>>, kq), Delayed)
      BY <1>5 DEF KeyStream, Cat, Delayed, B
    <3> DEFINE w == <<b>>
    <3>2. w \in Seq(KBytes)
      BY <1>4
    <3> HIDE DEF w
    <3>3. Cat(Cat(w, kq), Delayed) = Cat(w, Cat(kq, Delayed))
      BY <1>1, <3>2, CatIs
    <3> QED
      BY <3>1, <3>3 DEF z, s, w
  <2>2. KeyStream' = s
    <3>1. KeyStream' = Cat(Cat(<<>>, kq), Delayed)
      BY <1>2, <1>9 DEF KeyStream, Cat, Delayed
    <3>2. Cat(<<>>, kq) = kq
      BY <1>1, CatEmpty
    <3> QED
      BY <3>1, <3>2 DEF s
  <2>3. HeldIds' = HeldIds
    BY <1>2 DEF HeldIds, KbdId
  <2>4. SUFFICES ASSUME "KBD" \notin lost \cup eaten, ~torn
                 PROVE  StreamInv(s, bios'.e0, d, HeldIds)
    BY <1>2, <2>2, <2>3 DEF KeysInv
  <2>5. StreamInv(z, bios.e0, bios.down, HeldIds)
    BY <2>1, <2>4 DEF KbdInv, KeysInv
  <2>6. bios.e0 \in BOOLEAN /\ bios.down \in SUBSET Ids /\ d \in SUBSET Ids
    BY <1>1, <1>9 DEF BiosTypes
  <2>7. StreamInv(Tail(z), z[1] = E0, d, HeldIds)
    <3> HIDE DEF d
    <3> QED
      BY <1>8, <1>9, <2>5, <2>6, StreamRead
  <2> QED
    BY <1>8, <1>9, <2>7
<1> QED
  BY <1>7, <1>10, <1>11, <1>12 DEF KbdInv

\* The next byte of the mouse is the one the handler waits for.
LEMMA PacketBegins ==
    ASSUME BiosTypes, MouseTypes, MouseInv, "AUX" \notin lost \cup eaten, mq # <<>>
    PROVE  LET n == Len(bios.packet) IN
           /\ n = 0 => Head(mq) \in {Reply, P(0)}
           /\ n = 1 => Head(mq) = P(1) /\ bios.packet[1] = P(0)
           /\ n = 2 => Head(mq) = P(2) /\ bios.packet[1] = P(0) /\ bios.packet[2] = P(1)
<1> DEFINE p == bios.packet
           s == Cat(p, mq)
           n == Len(p)
<1>1. /\ p \in Seq(MBytes) /\ mq \in Seq(MBytes) /\ n \in Nat /\ Len(mq) \in Nat \ {0}
      /\ (p = <<>> \/ p[1] = P(0)) /\ Aligned(s) /\ Head(mq) \in MBytes /\ Head(mq) = mq[1]
  <2>1. p \in Seq(MBytes) /\ mq \in Seq(MBytes)
    BY DEF BiosTypes, MouseTypes
  <2>2. n \in Nat /\ Len(mq) \in Nat /\ Len(mq) # 0
    BY <2>1, LenProperties, EmptySeq
  <2>3. (p = <<>> \/ p[1] = P(0)) /\ Aligned(s)
    BY DEF MouseInv
  <2> QED
    BY <2>1, <2>2, <2>3, HeadFirst
<1> HIDE DEF p
<1>2. /\ s \in Seq(MBytes) /\ Len(s) = n + Len(mq)
      /\ \A i \in 1 .. n + Len(mq) : s[i] = IF i <= n THEN p[i] ELSE mq[i - n]
  BY <1>1, ConcatProperties DEF Cat
<1> HIDE DEF s
<1>3. \A i \in 1 .. Len(s) :
        /\ s[i] = P(0) => i + 2 <= Len(s) /\ s[i + 1] = P(1) /\ s[i + 2] = P(2)
        /\ s[i] = P(1) => i > 1 /\ s[i - 1] = P(0)
        /\ s[i] = P(2) => i > 1 /\ s[i - 1] = P(1)
  BY <1>1 DEF Aligned
<1>4. s[n + 1] = mq[1]
  <2>1. n + 1 \in 1 .. n + Len(mq) /\ ~(n + 1 <= n) /\ n + 1 - n = 1
    BY <1>1
  <2> QED
    BY <1>2, <2>1
<1> HIDE DEF n
<1>5. CASE n = 0
  <2>1. s[1] = mq[1] /\ 1 \in 1 .. Len(s)
    BY <1>1, <1>2, <1>4, <1>5
  <2>2. mq[1] # P(1) /\ mq[1] # P(2)
    BY <1>3, <2>1
  <2>3. \A b \in MBytes : b \in {Reply, P(0), P(1), P(2)}
    BY DEF MBytes, P
  <2> QED
    BY <1>1, <1>5, <2>2, <2>3 DEF n, p
<1>6. CASE n = 1
  <2>1. p # <<>>
    BY <1>6 DEF n
  <2>2. s[1] = p[1] /\ 1 \in 1 .. Len(s) /\ s[2] = mq[1]
    BY <1>1, <1>2, <1>4, <1>6
  <2>3. s[2] = P(1)
    BY <1>1, <1>3, <2>1, <2>2
  <2> QED
    BY <1>1, <1>6, <2>1, <2>2, <2>3 DEF n, p
<1>7. CASE n = 2
  <2>1. p # <<>>
    BY <1>7 DEF n
  <2>2. s[1] = p[1] /\ 1 \in 1 .. Len(s) /\ s[3] = mq[1] /\ s[2] = p[2]
    BY <1>1, <1>2, <1>4, <1>7
  <2>3. s[2] = P(1) /\ s[3] = P(2)
    BY <1>1, <1>3, <2>1, <2>2
  <2> QED
    BY <1>1, <1>7, <2>1, <2>2, <2>3 DEF n, p
<1>8. ASSUME n # 0, n # 1, n # 2
      PROVE  LET m == Len(bios.packet) IN m # 0 /\ m # 1 /\ m # 2
  BY <1>8 DEF n, p
<1> QED
  BY <1>5, <1>6, <1>7, <1>8

\* The bytes of a packet, one by one.
LEMMA PacketIs ==
    /\ Packets(1) = <<P(0), P(1), P(2)>>
    /\ Reply # P(0) /\ Reply # P(1) /\ Reply # P(2)
    /\ P(0) # P(1) /\ P(0) # P(2) /\ P(1) # P(2)
    /\ P(0) = <<"packet", 0>>
  BY DEF Packets, P, Reply

\* bios_74h takes a byte of the mouse.
LEMMA Int74Step ==
    ASSUME KbdInv, Int74
    PROVE  KbdInv'
<1>1. /\ KeyTypes /\ BiosTypes /\ MouseTypes /\ OtherTypes /\ LinesTrue
      /\ UNCHANGED <<delay, mode, mouse, held, lost, torn, eaten, events>> /\ mq \in Seq(MBytes)
  BY DEF KbdInv, Int74, MouseTypes
<1>2. CASE pending = {"AUX"}
  <2> DEFINE b == Head(mq)
             next == Append(bios.packet, b)
             p == bios.packet
             t == Tail(mq)
  <2>1. /\ ReadData(12, "AUX", mq) /\ mq' = t /\ UNCHANGED kq
        /\ \/ p = <<>> /\ b # P(0) /\ UNCHANGED <<bios, mangled>>
           \/ /\ p = <<>> => b # Reply
              /\ bios' = [bios EXCEPT !.packet = IF Len(next) = 3 THEN <<>> ELSE next]
              /\ mangled' = (mangled \/ (Len(next) = 3 /\ next # Packets(1)))
    BY <1>2 DEF Int74, P
  <2>2. mq # <<>>
    BY <1>1, <1>2 DEF LinesTrue
  <2>3. /\ Cat(<<b>>, t) = mq /\ b \in MBytes /\ t \in Seq(MBytes)
        /\ Len(mq) = 1 + Len(t) /\ \A i \in 1 .. Len(t) : t[i] = mq[1 + i]
    BY <1>1, <2>2, HeadFirst
  <2>4. LinesTrue' /\ irr' \subseteq {1, 12}
    BY <1>1, <1>2, <2>1, LinesRead
  <2>5. /\ p \in Seq(MBytes) /\ Len(p) < 3 /\ Len(p) \in Nat
    <3>1. p \in Seq(MBytes) /\ Len(p) < 3
      BY <1>1 DEF BiosTypes
    <3> QED
      BY <3>1, LenProperties
  <2>6. next \in Seq(MBytes) /\ Len(next) = Len(p) + 1 /\ next[Len(p) + 1] = b
        /\ \A i \in 1 .. Len(p) : next[i] = p[i]
    BY <2>3, <2>5, AppendProperties
  <2>6a. Len(p) # 2 => (Len(p) = 0 \/ Len(p) = 1) /\ Len(next) # 3
    <3> DEFINE l == Len(bios.packet)
               m == Len(next)
    <3>1. l \in Nat /\ l < 3 /\ m = l + 1
      BY <2>5, <2>6
    <3> HIDE DEF l, m
    <3>2. l # 2 => (l = 0 \/ l = 1) /\ m # 3
      BY <3>1
    <3> QED
      BY <3>2 DEF l, m
  <2>7. Len(t) \in Nat /\ Len(mq) \in Nat
    BY <1>1, <2>3, LenProperties
  <2> DEFINE q == IF Len(next) = 3 THEN <<>> ELSE next
  <2>8. bios' = bios \/ bios' = [bios EXCEPT !.packet = q]
    BY <2>1
  <2>9. q \in Seq(MBytes) /\ Len(q) < 3
    BY <2>5, <2>6
  <2> HIDE DEF b, next, t, q
  <2>10. /\ bios'.byte = bios.byte /\ bios'.e0 = bios.e0 /\ bios'.down = bios.down
         /\ BiosTypes'
    <3>1. CASE bios' = bios
      BY <1>1, <3>1 DEF BiosTypes
    <3>2. CASE bios' = [bios EXCEPT !.packet = q]
      <4>1. /\ bios'.byte = bios.byte /\ bios'.e0 = bios.e0 /\ bios'.down = bios.down
            /\ bios'.packet = q
            /\ bios' \in [byte : Seq(KBytes), e0 : BOOLEAN, down : SUBSET Ids, packet : Seq(MBytes)]
        BY <1>1, <2>9, <3>2 DEF BiosTypes
      <4>2. Len(bios'.byte) <= 1 /\ Len(bios'.packet) < 3
        BY <1>1, <2>9, <4>1 DEF BiosTypes
      <4> QED
        BY <4>1, <4>2 DEF BiosTypes
    <3> QED
      BY <2>8, <3>1, <3>2
  <2>11. mangled' \in BOOLEAN
    BY <1>1, <2>1 DEF OtherTypes
  <2>12. KeyTypes' /\ MouseTypes' /\ OtherTypes'
    <3>1. mq' \in Seq(MBytes) /\ Len(mq') <= QueueSize
      BY <1>1, <2>1, <2>3, <2>7, KbdAssumption DEF MouseTypes
    <3> QED
      BY <1>1, <2>1, <2>4, <2>11, <3>1 DEF KeyTypes, MouseTypes, OtherTypes, ReserveKept
  <2>13. KeysInv'
    BY <1>1, <2>1, <2>10, KeysAside
  <2>14. MouseInv'
    <3> SUFFICES ASSUME "AUX" \notin lost \cup eaten
                 PROVE  /\ ~mangled'
                        /\ bios'.packet = <<>> \/ bios'.packet[1] = P(0)
                        /\ Aligned(Cat(bios'.packet, t))
      BY <1>1, <2>1 DEF MouseInv
    <3>1. ~mangled /\ Aligned(Cat(p, mq))
      BY DEF KbdInv, MouseInv
    <3>2. /\ Len(p) = 0 => b \in {Reply, P(0)}
          /\ Len(p) = 1 => b = P(1) /\ p[1] = P(0)
          /\ Len(p) = 2 => b = P(2) /\ p[1] = P(0) /\ p[2] = P(1)
      BY <1>1, <2>2, PacketBegins DEF KbdInv, b
    <3>3. p = <<>> <=> Len(p) = 0
      BY <2>5, EmptySeq
    <3> HIDE DEF p
    <3>4. CASE p = <<>> /\ b = Reply
      <4>1. bios' = bios /\ mangled' = mangled
        BY <2>1, <3>4
      <4>2. Aligned(mq)
        BY <1>1, <3>1, <3>4, CatEmpty
      <4>3. Aligned(t)
        <5> DEFINE k == 1
        <5>1. k \in Nat /\ k = 1
          OBVIOUS
        <5> HIDE DEF k
        <5>2. Len(mq) = k + Len(t) /\ \A i \in 1 .. Len(t) : t[i] = mq[k + i]
          BY <2>3, <5>1
        <5>3. mq[k] \notin {P(0), P(1)}
          BY <1>1, <2>2, <3>4, <5>1, HeadFirst, PacketIs DEF b
        <5> QED
          BY <1>1, <2>3, <4>2, <5>1, <5>2, <5>3, AlignedRead
      <4>4. bios'.packet = <<>> /\ Cat(<<>>, t) = t
        BY <2>3, <3>4, <4>1, CatEmpty DEF p
      <4> QED
        BY <3>1, <4>1, <4>3, <4>4
    <3>5. CASE ~(p = <<>> /\ b = Reply) /\ Len(p) # 2
      <4>1. (Len(p) = 0 \/ Len(p) = 1) /\ Len(next) # 3
        BY <2>6a, <3>5
      <4>2. p = <<>> => b = P(0)
        BY <3>2, <3>3, <3>5
      <4>3. Len(next) # 3 /\ ~mangled' /\ bios'.packet = next
        <5>1. Len(next) # 3
          BY <4>1
        <5>2. bios' = [bios EXCEPT !.packet = q] /\ q = next
          BY <2>1, <4>2, <5>1 DEF q, p
        <5>3. mangled' = (mangled \/ (Len(next) = 3 /\ next # Packets(1)))
          BY <2>1, <4>2 DEF p
        <5>4. bios'.packet = next
          BY <1>1, <5>2 DEF BiosTypes
        <5> QED
          BY <3>1, <5>1, <5>3, <5>4
      <4>4. next[1] = P(0)
        <5>1. CASE Len(p) = 0
          BY <2>6, <3>3, <4>2, <5>1
        <5>2. CASE Len(p) = 1
          BY <2>6, <3>2, <5>2
        <5> QED
          BY <4>1, <5>1, <5>2
      <4>5. Cat(next, t) = Cat(p, mq)
        <5> DEFINE w == <<b>>
        <5>1. w \in Seq(MBytes)
          BY <2>3
        <5>2. next = Cat(p, w)
          BY <2>3, <2>5, AppendIsConcat DEF next, p, Cat
        <5>3. Cat(w, t) = mq
          BY <2>3
        <5> HIDE DEF w
        <5>4. Cat(Cat(p, w), t) = Cat(p, Cat(w, t))
          BY <2>3, <2>5, <5>1, CatIs
        <5> QED
          BY <5>2, <5>3, <5>4
      <4> QED
        BY <3>1, <4>3, <4>4, <4>5
    <3>6. CASE Len(p) = 2
      <4>1. b = P(2) /\ p[1] = P(0) /\ p[2] = P(1) /\ Len(next) = 3 /\ p # <<>>
        BY <2>6, <3>2, <3>3, <3>6
      <4>2. next = Packets(1)
        <5>1. next[1] = P(0) /\ next[2] = P(1) /\ next[3] = P(2)
          BY <2>6, <3>6, <4>1
        <5>2. next \in Seq(MBytes) /\ Len(next) = 3
          BY <2>6, <4>1
        <5> DEFINE u == <<P(0), P(1), P(2)>>
        <5>3. u \in Seq(MBytes) /\ Len(u) = 3 /\ u[1] = P(0) /\ u[2] = P(1) /\ u[3] = P(2)
          BY DEF MBytes, P
        <5> HIDE DEF u
        <5>4. \A i \in 1 .. 3 : next[i] = u[i]
          BY <5>1, <5>3
        <5>5. next = u
          BY <5>2, <5>3, <5>4, SeqEqual
        <5> QED
          BY <5>5, PacketIs DEF u
      <4>3. bios' = [bios EXCEPT !.packet = <<>>] /\ ~mangled'
        BY <2>1, <3>1, <4>1, <4>2 DEF p
      <4>4. bios'.packet = <<>>
        BY <1>1, <4>3 DEF BiosTypes
      <4>5. Aligned(t)
        <5> DEFINE k == 3
                   s == Cat(p, mq)
        <5>1. k \in Nat /\ k = 3
          OBVIOUS
        <5> HIDE DEF k
        <5>2. /\ s \in Seq(MBytes) /\ Len(s) = Len(p) + Len(mq)
              /\ \A i \in 1 .. Len(p) + Len(mq) : s[i] = IF i <= Len(p) THEN p[i] ELSE mq[i - Len(p)]
          BY <1>1, <2>5, ConcatProperties DEF Cat
        <5> HIDE DEF s
        <5>3. Len(s) = k + Len(t)
          BY <2>3, <2>7, <3>6, <5>1, <5>2
        <5>4. ASSUME NEW i \in 1 .. Len(t) PROVE t[i] = s[k + i]
          <6> DEFINE j == k + i
          <6>1. j \in 1 .. Len(p) + Len(mq) /\ ~(j <= Len(p)) /\ j - Len(p) = 1 + i
            BY <2>3, <2>7, <3>6, <5>1
          <6> HIDE DEF j
          <6>1a. s[j] = mq[j - Len(p)]
            BY <5>2, <6>1
          <6>2. s[k + i] = mq[1 + i]
            BY <6>1, <6>1a DEF j
          <6> QED
            BY <2>3, <6>2
        <5>5. s[k] = mq[1]
          <6>1. k \in 1 .. Len(p) + Len(mq) /\ ~(k <= Len(p)) /\ k - Len(p) = 1
            BY <2>3, <2>7, <3>6, <5>1
          <6> QED
            BY <5>2, <6>1
        <5>6. mq[1] = P(2)
          BY <1>1, <2>2, <4>1, HeadFirst DEF b
        <5>7. s[k] \notin {P(0), P(1)}
          BY <5>5, <5>6, PacketIs
        <5>8. Aligned(s)
          BY <3>1 DEF s
        <5> QED
          BY <2>3, <5>1, <5>2, <5>3, <5>4, <5>7, <5>8, AlignedRead
      <4>6. Cat(<<>>, t) = t
        BY <2>3, CatEmpty
      <4> QED
        BY <4>3, <4>4, <4>5, <4>6
    <3> QED
      BY <3>4, <3>5, <3>6
  <2> QED
    BY <2>4, <2>10, <2>12, <2>13, <2>14 DEF KbdInv
<1>3. CASE pending # {"AUX"}
  <2>1. 12 \notin level
    BY <1>1, <1>3 DEF LinesTrue, Levels
  <2> QED
    BY <1>1, <1>3, <2>1, NothingToRead DEF Int74
<1> QED
  BY <1>2, <1>3

-----------------------------------------------------------------------------
(* The calls of the BIOS: what holds of the controller between any two of  *)
(* their accesses, and what they may do to the packets in the queue.       *)

Modes == {"kbd_int", "mouse_int", "disable_kbd"}
ModeSets == SUBSET Modes
DeviceSets == SUBSET {"KBD", "AUX"}
Ports == [kq : Seq(KBytes), mq : Seq(MBytes), pending : DeviceSets, mode : ModeSets,
          level : SUBSET {1, 12}, irr : SUBSET {1, 12}]

PortInv(s) ==
    /\ s \in Ports /\ KeyQueue(s.kq) /\ Len(s.mq) <= QueueSize
    /\ s.pending = PendingOf(s.kq, s.mq) /\ s.level = Levels(s.pending, s.mode)
    /\ s.level \subseteq s.irr

\* Every byte of a packet stands in its place, but that the first byte of the
\* queue may be in the middle of one.
Cut(q) == \A i \in 1 .. Len(q) :
    /\ q[i] = P(0) => i + 2 <= Len(q) /\ q[i + 1] = P(1) /\ q[i + 2] = P(2)
    /\ q[i] = P(1) /\ i > 1 => q[i - 1] = P(0)
    /\ q[i] = P(2) /\ i > 1 => q[i - 1] = P(1)

\* Behind the bytes of a packet that were taken there is such a queue,
LEMMA CutBehind ==
    ASSUME NEW p \in Seq(MBytes), NEW q \in Seq(MBytes), Aligned(Cat(p, q))
    PROVE  Cut(q)
<1> DEFINE s == Cat(p, q)
           k == Len(p)
           n == Len(q)
<1>1. k \in Nat /\ n \in Nat /\ Len(s) = k + n
      /\ \A i \in 1 .. k + n : s[i] = IF i <= k THEN p[i] ELSE q[i - k]
  BY ConcatProperties, LenProperties DEF Cat
<1>2. \A i \in 1 .. Len(s) :
        /\ s[i] = P(0) => i + 2 <= Len(s) /\ s[i + 1] = P(1) /\ s[i + 2] = P(2)
        /\ s[i] = P(1) => i > 1 /\ s[i - 1] = P(0)
        /\ s[i] = P(2) => i > 1 /\ s[i - 1] = P(1)
  BY DEF Aligned
<1> HIDE DEF s, k
<1>3. ASSUME NEW i \in 1 .. n PROVE k + i \in 1 .. k + n /\ s[k + i] = q[i]
  <2>1. k + i \in 1 .. k + n /\ ~(k + i <= k) /\ k + i - k = i
    BY <1>1
  <2> QED
    BY <1>1, <2>1
<1>4. ASSUME NEW i \in 1 .. n
      PROVE  /\ q[i] = P(0) => i + 2 <= n /\ q[i + 1] = P(1) /\ q[i + 2] = P(2)
             /\ q[i] = P(1) /\ i > 1 => q[i - 1] = P(0)
             /\ q[i] = P(2) /\ i > 1 => q[i - 1] = P(1)
  <2> DEFINE j == k + i
  <2>1. j \in 1 .. Len(s) /\ s[j] = q[i]
    BY <1>1, <1>3
  <2>2. j + 2 <= Len(s) => /\ i + 2 <= n /\ i + 1 \in 1 .. n /\ i + 2 \in 1 .. n
                           /\ j + 1 = k + (i + 1) /\ j + 2 = k + (i + 2)
    BY <1>1
  <2>3. i > 1 => i - 1 \in 1 .. n /\ j - 1 = k + (i - 1)
    BY <1>1
  <2> HIDE DEF j
  <2>4. j + 2 <= Len(s) => s[j + 1] = q[i + 1] /\ s[j + 2] = q[i + 2]
    BY <1>3, <2>2
  <2>5. i > 1 => s[j - 1] = q[i - 1]
    BY <1>3, <2>3
  <2> QED
    BY <1>2, <2>1, <2>2, <2>4, <2>5
<1> QED
  BY <1>4 DEF Cut

\* it is one still when a byte is read,
LEMMA CutRead ==
    ASSUME NEW q \in Seq(MBytes), q # <<>>, Cut(q)
    PROVE  Cut(Tail(q))
<1> DEFINE t == Tail(q)
           n == Len(t)
<1>1. t \in Seq(MBytes) /\ Len(q) = 1 + n /\ n \in Nat /\ \A i \in 1 .. n : t[i] = q[1 + i]
  <2>1. t \in Seq(MBytes) /\ Len(q) = 1 + n /\ \A i \in 1 .. n : t[i] = q[1 + i]
    BY HeadFirst
  <2> QED
    BY <2>1, LenProperties
<1> HIDE DEF t, n
<1>2. ASSUME NEW i \in 1 .. n
      PROVE  /\ t[i] = P(0) => i + 2 <= n /\ t[i + 1] = P(1) /\ t[i + 2] = P(2)
             /\ t[i] = P(1) /\ i > 1 => t[i - 1] = P(0)
             /\ t[i] = P(2) /\ i > 1 => t[i - 1] = P(1)
  <2> DEFINE j == 1 + i
  <2>1. j \in 1 .. Len(q) /\ j > 1 /\ t[i] = q[j] /\ j - 1 = i
    BY <1>1
  <2>2. j + 2 <= Len(q) => /\ i + 2 <= n /\ i + 1 \in 1 .. n /\ i + 2 \in 1 .. n
                           /\ j + 1 = 1 + (i + 1) /\ j + 2 = 1 + (i + 2)
    BY <1>1
  <2>3. i > 1 => i - 1 \in 1 .. n /\ 1 + (i - 1) = i
    BY <1>1
  <2> HIDE DEF j
  <2>4. j + 2 <= Len(q) => t[i + 1] = q[j + 1] /\ t[i + 2] = q[j + 2]
    BY <1>1, <2>2
  <2>5. i > 1 => t[i - 1] = q[j - 1]
    BY <1>1, <2>1, <2>3
  <2>6. /\ q[j] = P(0) => j + 2 <= Len(q) /\ q[j + 1] = P(1) /\ q[j + 2] = P(2)
        /\ q[j] = P(1) => q[j - 1] = P(0)
        /\ q[j] = P(2) => q[j - 1] = P(1)
    BY <2>1 DEF Cut
  <2> QED
    BY <2>1, <2>2, <2>4, <2>5, <2>6
<1>3. Cut(t) /\ n = Len(t)
  BY <1>2 DEF Cut, n
<1> QED
  BY <1>3 DEF t

\* or other bytes follow.
LEMMA CutGrows ==
    ASSUME NEW q \in Seq(MBytes), NEW bs \in Seq(MBytes), Cut(q),
           \A i \in 1 .. Len(bs) : bs[i] = Reply
    PROVE  Cut(Cat(q, bs))
<1> DEFINE t == Cat(q, bs)
           m == Len(q)
           n == Len(bs)
<1>1. /\ Len(t) = m + n /\ m \in Nat /\ n \in Nat
      /\ \A i \in 1 .. m + n : t[i] = IF i <= m THEN q[i] ELSE bs[i - m]
  BY ConcatProperties, LenProperties DEF Cat
<1> HIDE DEF t, m
<1>2. ASSUME NEW i \in 1 .. m + n
      PROVE  /\ t[i] = P(0) => i + 2 <= m + n /\ t[i + 1] = P(1) /\ t[i + 2] = P(2)
             /\ t[i] = P(1) /\ i > 1 => t[i - 1] = P(0)
             /\ t[i] = P(2) /\ i > 1 => t[i - 1] = P(1)
  <2>1. CASE i <= m
    <3>1. i \in 1 .. m /\ t[i] = q[i]
      BY <1>1, <2>1
    <3>2. /\ q[i] = P(0) => i + 2 <= m /\ q[i + 1] = P(1) /\ q[i + 2] = P(2)
          /\ q[i] = P(1) /\ i > 1 => q[i - 1] = P(0)
          /\ q[i] = P(2) /\ i > 1 => q[i - 1] = P(1)
      BY <3>1 DEF Cut, m
    <3>3. i + 2 <= m => i + 2 <= m + n /\ t[i + 1] = q[i + 1] /\ t[i + 2] = q[i + 2]
      BY <1>1
    <3>4. i > 1 => t[i - 1] = q[i - 1]
      BY <1>1, <2>1
    <3> QED
      BY <3>1, <3>2, <3>3, <3>4
  <2>2. CASE ~(i <= m)
    <3>1. i - m \in 1 .. n
      BY <1>1, <2>2
    <3>2. t[i] = Reply
      BY <1>1, <2>2, <3>1
    <3> QED
      BY <3>2, PacketIs
  <2> QED
    BY <2>1, <2>2
<1>3. Cut(t)
  BY <1>1, <1>2 DEF Cut
<1> QED
  BY <1>3 DEF t

\* If it does not begin in the middle of a packet, the handler may begin.
LEMMA CutAligned ==
    ASSUME NEW q \in Seq(MBytes), Cut(q), ~MidPacket(q)
    PROVE  Aligned(q)
<1>1. ASSUME NEW i \in 1 .. Len(q)
      PROVE  i = 1 => q[i] # P(1) /\ q[i] # P(2)
  <2>1. q # <<>>
    OBVIOUS
  <2>2. Head(q) = q[1]
    BY <2>1, HeadFirst
  <2> QED
    BY <2>1, <2>2 DEF MidPacket, P
<1>2. ASSUME NEW i \in 1 .. Len(q)
      PROVE  i = 1 \/ i > 1
  OBVIOUS
<1> QED
  BY <1>1, <1>2 DEF Cut, Aligned

\* Answers of the mouse, as many as there is room for.
LEMMA MouseAnswers ==
    ASSUME NEW q \in Seq(MBytes), Len(q) <= QueueSize, NEW n \in Nat \ {0}
    PROVE  LET r == Queued(q, Replies(n), TRUE)
           IN  /\ r \in Seq(MBytes) /\ Len(r) <= QueueSize
               /\ Len(q) # QueueSize => r # <<>>
               /\ Cut(q) => Cut(r)
               /\ \A p \in Seq(MBytes) : Aligned(Cat(p, q)) => Aligned(Cat(p, r))
<1> DEFINE z == TRUE
           bs == Replies(n)
           f == Fits(q, Len(bs), z)
           a == SubSeq(bs, 1, f)
           r == Queued(q, bs, z)
<1>1. Len(bs) = n /\ \A i \in 1 .. n : bs[i] = Reply
  BY RepliesAre
<1>2. bs \in Seq(MBytes) /\ z \in BOOLEAN /\ Len(q) \in Nat /\ QueueSize \in Nat
  BY ByteFacts, LenProperties, KbdAssumption DEF Replies
<1> HIDE DEF bs
<1>3. /\ f \in 0 .. Len(bs) /\ r \in Seq(MBytes) /\ Len(r) = Len(q) + f /\ Len(r) <= QueueSize
      /\ f < Len(bs) => Len(r) = QueueSize
  <2> HIDE DEF z
  <2>1. /\ f \in 0 .. Len(bs) /\ r \in Seq(MBytes) /\ Len(r) = Len(q) + f /\ Len(r) <= QueueSize
        /\ z /\ f < Len(bs) => Len(r) = QueueSize
    BY <1>2, QueuedIs
  <2> QED
    BY <2>1 DEF z
<1>4. r = Cat(q, a)
  BY DEF Queued, Cat
<1> HIDE DEF f, r
<1>5. a \in Seq(MBytes) /\ Len(a) = f /\ \A i \in 1 .. f : a[i] = Reply
  <2>1. f \in Nat /\ f <= n /\ a = [i \in 1 .. f |-> bs[i]]
    BY <1>1, <1>3
  <2>2. \A i \in 1 .. f : bs[i] = Reply
    BY <1>1, <2>1
  <2> QED
    BY <2>1, <2>2, ByteFacts
<1> HIDE DEF a
<1>6. Len(q) # QueueSize => r # <<>>
  <2>1. Len(q) # QueueSize => Len(r) # 0
    BY <1>1, <1>2, <1>3
  <2> QED
    BY <2>1
<1>7. Cut(q) => Cut(r)
  BY <1>4, <1>5, CutGrows
<1>8. Aligned(a)
  BY <1>5, PacketIs DEF Aligned
<1>9. ASSUME NEW p \in Seq(MBytes), Aligned(Cat(p, q)) PROVE Aligned(Cat(p, r))
  <2>1. Cat(p, q) \in Seq(MBytes) /\ Cat(p, r) = Cat(Cat(p, q), a)
    BY <1>4, <1>5, CatIs
  <2> DEFINE s == Cat(p, q)
  <2> HIDE DEF s
  <2>2. s \in Seq(MBytes) /\ Aligned(s)
    BY <1>9, <2>1 DEF s
  <2>3. Aligned(Cat(s, a))
    BY <1>5, <1>8, <2>2, AlignedGrows DEF Cat
  <2> QED
    BY <2>1, <2>3 DEF s
<1> QED
  BY <1>3, <1>6, <1>7, <1>9 DEF r, bs, z

\* The lines follow.
IsUpdated(u, s, p, m) ==
    /\ u \in Ports /\ u.kq = s.kq /\ u.mq = s.mq /\ u.pending = p /\ u.mode = m
    /\ u.level = Levels(p, m) /\ (s.level \subseteq s.irr => u.level \subseteq u.irr)

LEMMA UpdatedIs ==
    ASSUME NEW s \in Ports, NEW p \in DeviceSets, NEW m \in ModeSets,
           NEW u, u = Updated(s, p, m)
    PROVE  IsUpdated(u, s, p, m)
<1>1. Levels(p, m) \in SUBSET {1, 12}
  BY DEF Levels
<1> DEFINE l == Levels(p, m)
<1>2. u = [s EXCEPT !.pending = p, !.mode = m, !.level = l, !.irr = @ \cup (l \ s.level)]
  BY DEF Updated
<1> HIDE DEF l
<1>3. /\ u \in Ports /\ u.kq = s.kq /\ u.mq = s.mq /\ u.pending = p /\ u.mode = m
      /\ u.level = l /\ u.irr = s.irr \cup (l \ s.level)
  BY <1>1, <1>2 DEF Ports, l
<1>4. s.level \subseteq s.irr => u.level \subseteq u.irr
  BY <1>3
<1> QED
  BY <1>3, <1>4 DEF l, IsUpdated

\* Another mode.
LEMMA ModeKept ==
    ASSUME NEW s, PortInv(s), NEW m \in ModeSets
    PROVE  PortInv(Updated(s, s.pending, m)) /\ Updated(s, s.pending, m).kq = s.kq
           /\ Updated(s, s.pending, m).mq = s.mq
<1> DEFINE p == s.pending
           u == Updated(s, p, m)
<1>1. s \in Ports /\ p \in DeviceSets
  BY DEF PortInv, Ports
<1>1a. u = Updated(s, p, m)
  OBVIOUS
<1> HIDE DEF p, u
<1>2. IsUpdated(u, s, p, m)
  BY <1>1, <1>1a, UpdatedIs
<1>3. PortInv(u) /\ u.kq = s.kq /\ u.mq = s.mq
  BY <1>1, <1>2 DEF IsUpdated, PortInv, p
<1> QED
  BY <1>3 DEF u, p

\* The queues are other ones, and what is pending and the lines follow.
LEMMA PortUpdated ==
    ASSUME NEW s \in Ports, s.level \subseteq s.irr, NEW p, p = PendingOf(s.kq, s.mq),
           KeyQueue(s.kq), Len(s.mq) <= QueueSize
    PROVE  LET u == Updated(s, p, s.mode)
           IN  PortInv(u) /\ u.kq = s.kq /\ u.mq = s.mq
<1> DEFINE m == s.mode
           u == Updated(s, p, m)
<1>1. p \in DeviceSets /\ m \in ModeSets
  BY DEF PendingOf, Ports, DeviceSets
<1>1a. u = Updated(s, p, m)
  OBVIOUS
<1> HIDE DEF m, u
<1>2. IsUpdated(u, s, p, m)
  BY <1>1, <1>1a, UpdatedIs
<1>3. PortInv(u) /\ u.kq = s.kq /\ u.mq = s.mq
  BY <1>1, <1>2 DEF IsUpdated, PortInv, m
<1> QED
  BY <1>3 DEF u, m

\* The keyboard's interface answers.
LEMMA KbdAnswersKeep ==
    ASSUME NEW s, PortInv(s)
    PROVE  LET t == KbdAnswers(s)
           IN  PortInv(t) /\ t.mq = s.mq /\ t.kq # <<>> /\ (s.kq = <<>> => t.kq = <<Reply>>)
<1> DEFINE q == Append(s.kq, Reply)
           w == [s EXCEPT !.kq = q]
           p == s.pending \cup {"KBD"}
<1>1. /\ s \in Ports /\ s.kq \in Seq(KBytes) /\ Len(s.kq) \in Nat /\ QueueSize \in Nat \ {0}
      /\ Reserve \in Nat
  <2>1. s \in Ports /\ s.kq \in Seq(KBytes)
    BY DEF PortInv, Ports
  <2> QED
    BY <2>1, LenProperties, KbdAssumption
<1>2. CASE Len(s.kq) = QueueSize
  <2>1. KbdAnswers(s) = s /\ s.kq # <<>>
    BY <1>1, <1>2 DEF KbdAnswers
  <2> QED
    BY <2>1
<1>3. CASE Len(s.kq) # QueueSize
  <2>1. /\ q \in Seq(KBytes) /\ Len(q) = Len(s.kq) + 1 /\ q[Len(s.kq) + 1] = Reply
        /\ \A i \in 1 .. Len(s.kq) : q[i] = s.kq[i]
    BY <1>1, ByteFacts, AppendProperties
  <2>2. s.kq = <<>> => q = <<Reply>>
    OBVIOUS
  <2> HIDE DEF q
  <2>3. q # <<>> /\ Len(q) <= QueueSize
    <3>1. Len(q) # 0 /\ Len(q) <= QueueSize
      BY <1>1, <1>3, <2>1 DEF PortInv, KeyQueue
    <3> QED
      BY <3>1
  <2>4. ReserveOf(q)
    <3>1. ASSUME NEW i \in QueueSize - Reserve + 1 .. Len(q) PROVE q[i][1] # "make"
      <4>1. CASE i <= Len(s.kq)
        <5>1. i \in QueueSize - Reserve + 1 .. Len(s.kq) /\ i \in 1 .. Len(s.kq)
          BY <1>1, <4>1, KbdAssumption
        <5> QED
          BY <2>1, <5>1 DEF PortInv, KeyQueue, ReserveOf
      <4>2. CASE ~(i <= Len(s.kq))
        <5>1. i = Len(s.kq) + 1
          BY <1>1, <2>1, <4>2
        <5> QED
          BY <2>1, <5>1 DEF Reply
      <4> QED
        BY <4>1, <4>2
    <3> QED
      BY <3>1 DEF ReserveOf
  <2>5. /\ w \in Ports /\ w.kq = q /\ w.mq = s.mq /\ w.level = s.level /\ w.irr = s.irr
        /\ w.mode = s.mode
    BY <1>1, <2>1 DEF Ports
  <2>6. KbdAnswers(s) = Updated(w, p, s.mode)
    BY <1>3 DEF KbdAnswers, q
  <2> HIDE DEF w
  <2>7. p = PendingOf(w.kq, w.mq)
    BY <2>3, <2>5 DEF PortInv, PendingOf
  <2>8. KeyQueue(w.kq) /\ Len(w.mq) <= QueueSize /\ w.level \subseteq w.irr
    BY <2>1, <2>3, <2>4, <2>5 DEF KeyQueue, PortInv
  <2> HIDE DEF p
  <2>9. LET u == Updated(w, p, w.mode) IN PortInv(u) /\ u.kq = w.kq /\ u.mq = w.mq
    BY <2>5, <2>7, <2>8, PortUpdated
  <2> QED
    BY <2>2, <2>3, <2>5, <2>6, <2>9
<1> QED
  BY <1>2, <1>3

\* The mouse answers.
LEMMA AuxAnswersKeep ==
    ASSUME NEW s, PortInv(s), NEW n \in Nat \ {0}
    PROVE  LET t == AuxAnswers(s, n)
           IN  /\ PortInv(t) /\ t.kq = s.kq
               /\ Cut(s.mq) => Cut(t.mq)
               /\ \A p \in Seq(MBytes) : Aligned(Cat(p, s.mq)) => Aligned(Cat(p, t.mq))
<1> DEFINE q == Queued(s.mq, Replies(n), TRUE)
           w == [s EXCEPT !.mq = q]
           p == s.pending \cup {"AUX"}
<1>1. s \in Ports /\ s.mq \in Seq(MBytes) /\ Len(s.mq) <= QueueSize
  BY DEF PortInv, Ports
<1>2. CASE Len(s.mq) = QueueSize
  <2>1. AuxAnswers(s, n) = s
    BY <1>2 DEF AuxAnswers
  <2> QED
    BY <2>1
<1>3. CASE Len(s.mq) # QueueSize
  <2>1. /\ q \in Seq(MBytes) /\ Len(q) <= QueueSize /\ q # <<>> /\ (Cut(s.mq) => Cut(q))
        /\ \A a \in Seq(MBytes) : Aligned(Cat(a, s.mq)) => Aligned(Cat(a, q))
    BY <1>1, <1>3, MouseAnswers
  <2>2. AuxAnswers(s, n) = Updated(w, p, s.mode)
    BY <1>3 DEF AuxAnswers, Replies
  <2> HIDE DEF q
  <2>3. /\ w \in Ports /\ w.kq = s.kq /\ w.mq = q /\ w.level = s.level /\ w.irr = s.irr
        /\ w.mode = s.mode
    BY <1>1, <2>1 DEF Ports
  <2> HIDE DEF w
  <2>4. p = PendingOf(w.kq, w.mq)
    BY <2>1, <2>3 DEF PortInv, PendingOf
  <2>5. KeyQueue(w.kq) /\ Len(w.mq) <= QueueSize /\ w.level \subseteq w.irr
    BY <2>1, <2>3 DEF PortInv
  <2> HIDE DEF p
  <2>6. LET u == Updated(w, p, w.mode) IN PortInv(u) /\ u.kq = w.kq /\ u.mq = w.mq
    BY <2>3, <2>4, <2>5, PortUpdated
  <2> QED
    BY <2>1, <2>2, <2>3, <2>6
<1> QED
  BY <1>2, <1>3

\* What a read may leave: fewer bytes of the mouse, or the same.
Reads(s, t) ==
    /\ PortInv(t) /\ Longer(t.mq, s.mq)
    /\ Cut(s.mq) => Cut(t.mq)
    /\ s.kq = <<>> => t.kq = <<>>

\* It depends on what is pending,
LEMMA ReadIs ==
    ASSUME NEW s
    PROVE  /\ s.pending = {} => Read(s) = s
           /\ s.pending = {"AUX"} => Read(s) = More(AuxRead(s), AuxRead(s).mq, s.pending)
           /\ "KBD" \in s.pending => Read(s) = More(KbdRead(s), KbdRead(s).kq, s.pending)
<1> DEFINE p == s.pending
           a == More(AuxRead(s), AuxRead(s).mq, p)
           k == More(KbdRead(s), KbdRead(s).kq, p)
<1>1. Read(s) = CASE p = {} -> s [] p = {"AUX"} -> a [] "KBD" \in p -> k
  BY DEF Read
<1> HIDE DEF a, k, p
<1>2. {"AUX"} # {} /\ "KBD" \notin {"AUX"}
  OBVIOUS
<1>3. CASE p = {}
  BY <1>1, <1>2, <1>3 DEF p
<1>4. CASE p = {"AUX"}
  BY <1>1, <1>2, <1>4 DEF p, a
<1>5. CASE "KBD" \in p
  <2>1. p # {} /\ p # {"AUX"}
    BY <1>2, <1>5
  <2>2. Read(s) = k
    BY <1>1, <1>5, <2>1
  <2> QED
    BY <2>1, <2>2 DEF p, k
<1>6. CASE p # {} /\ p # {"AUX"} /\ "KBD" \notin p
  BY <1>6 DEF p
<1> QED
  BY <1>3, <1>4, <1>5, <1>6

\* and what is pending on the queues.
LEMMA PendingIs ==
    ASSUME NEW k, NEW m
    PROVE  /\ PendingOf(k, m) = {} => k = <<>> /\ m = <<>>
           /\ PendingOf(k, m) = {"AUX"} => k = <<>> /\ m # <<>>
           /\ PendingOf(k, m) # {} /\ PendingOf(k, m) # {"AUX"} => k # <<>>
           /\ "KBD" \in PendingOf(k, m) <=> k # <<>>
<1>1. CASE k = <<>> /\ m = <<>>
  BY <1>1 DEF PendingOf
<1>2. CASE k = <<>> /\ m # <<>>
  BY <1>2 DEF PendingOf
<1>3. CASE k # <<>>
  BY <1>3 DEF PendingOf
<1> QED
  BY <1>1, <1>2, <1>3

\* A byte is taken; the line goes down.
LEMMA TakenIs ==
    ASSUME NEW s, PortInv(s), NEW w \in Ports, w.level = s.level, w.irr = s.irr,
           KeyQueue(w.kq), Len(w.mq) <= QueueSize,
           NEW p \in DeviceSets, NEW o \in DeviceSets,
           NEW m \in ModeSets, NEW u, u = Updated(w, p, m),
           NEW q, q # <<>> => o = PendingOf(w.kq, w.mq),
           q = <<>> => p = PendingOf(w.kq, w.mq),
           NEW t, t = More(u, q, o)
    PROVE  PortInv(t) /\ t.kq = w.kq /\ t.mq = w.mq
<1>1. w.level \subseteq w.irr
  BY DEF PortInv
<1>2. IsUpdated(u, w, p, m) /\ u \in Ports /\ u.mode = m
  <2>1. IsUpdated(u, w, p, m)
    BY UpdatedIs
  <2> QED
    BY <2>1 DEF IsUpdated
<1> DEFINE v == Updated(u, o, m)
<1>3. v = Updated(u, o, m)
  OBVIOUS
<1>4. t = IF q # <<>> THEN v ELSE u
  BY <1>2 DEF More
<1> HIDE DEF v
<1>5. IsUpdated(v, u, o, m)
  BY <1>2, <1>3, UpdatedIs
<1>6. CASE q # <<>>
  <2>1. PortInv(v)
    BY <1>1, <1>2, <1>5, <1>6 DEF IsUpdated, PortInv
  <2> QED
    BY <1>2, <1>4, <1>5, <1>6, <2>1 DEF IsUpdated
<1>7. CASE q = <<>>
  <2>1. PortInv(u)
    BY <1>1, <1>2, <1>7 DEF IsUpdated, PortInv
  <2> QED
    BY <1>2, <1>4, <1>7, <2>1 DEF IsUpdated
<1> QED
  BY <1>6, <1>7

LEMMA ReadKeeps ==
    ASSUME NEW s, PortInv(s)
    PROVE  /\ Reads(s, Read(s))
           /\ s.pending = {"AUX"} => Read(s).kq = s.kq
           /\ \A b : s.kq = <<b>> => Read(s).kq = <<>>
<1>1. /\ s \in Ports /\ s.kq \in Seq(KBytes) /\ s.mq \in Seq(MBytes) /\ Len(s.mq) \in Nat
      /\ s.pending = PendingOf(s.kq, s.mq) /\ QueueSize \in Nat
      /\ s.pending \in DeviceSets
  <2>1. /\ s \in Ports /\ s.kq \in Seq(KBytes) /\ s.mq \in Seq(MBytes)
        /\ s.pending = PendingOf(s.kq, s.mq) /\ s.pending \in DeviceSets
    BY DEF PortInv, Ports
  <2> QED
    BY <2>1, LenProperties, KbdAssumption
<1>2. Longer(s.mq, s.mq)
  BY <1>1 DEF Longer
<1>3. CASE s.pending = {}
  <2>1. Read(s) = s /\ s.kq = <<>> /\ s.pending # {"AUX"}
    BY <1>1, <1>3, ReadIs, PendingIs
  <2> QED
    BY <1>2, <2>1 DEF Reads
<1>4. CASE s.pending = {"AUX"}
  <2> DEFINE q == Tail(s.mq)
             w == [s EXCEPT !.mq = q]
             p == s.pending \ {"AUX"}
             u == AuxRead(s)
             t == More(u, u.mq, s.pending)
  <2>1. s.kq = <<>> /\ s.mq # <<>>
    BY <1>1, <1>4, PendingIs
  <2>2. q \in Seq(MBytes) /\ Len(s.mq) = 1 + Len(q) /\ (Cut(s.mq) => Cut(q))
    BY <1>1, <2>1, HeadFirst, CutRead
  <2>3. Len(q) \in Nat /\ Len(q) <= QueueSize /\ Longer(q, s.mq)
    <3>1. Len(q) \in Nat
      BY <2>2, LenProperties
    <3> DEFINE l == Len(q)
               m == Len(s.mq)
    <3>2. l \in Nat /\ m \in Nat /\ m = 1 + l /\ m <= QueueSize
      BY <1>1, <2>2, <3>1 DEF PortInv
    <3> HIDE DEF l, m
    <3>3. l <= QueueSize /\ l <= m /\ ~(m <= l)
      BY <1>1, <3>2
    <3> QED
      BY <3>1, <3>3 DEF l, m, Longer
  <2>4. Read(s) = t
    BY <1>4, ReadIs
  <2>5. u = Updated(w, p, s.mode)
    BY DEF AuxRead
  <2> HIDE DEF q
  <2>6. /\ w \in Ports /\ w.kq = s.kq /\ w.mq = q /\ w.level = s.level /\ w.irr = s.irr
        /\ w.mode = s.mode
    BY <1>1, <2>2 DEF Ports
  <2> HIDE DEF w
  <2>7. p = {}
    BY <1>1, <1>4
  <2>7c. p \in DeviceSets
    BY <2>7 DEF DeviceSets
  <2> HIDE DEF p
  <2> DEFINE m == s.mode
             o == s.pending
  <2>7a. /\ m \in ModeSets /\ o \in DeviceSets /\ u = Updated(w, p, m)
         /\ t = More(u, u.mq, o)
    BY <1>1, <2>5 DEF Ports
  <2>7b. o = s.pending
    OBVIOUS
  <2> HIDE DEF u, m, o, t
  <2>8. u.mq = q
    <3>1. IsUpdated(u, w, p, m)
      BY <2>6, <2>7a, <2>7c, UpdatedIs
    <3> QED
      BY <2>6, <3>1 DEF IsUpdated
  <2>9. /\ q # <<>> => o = PendingOf(w.kq, w.mq)
        /\ q = <<>> => p = PendingOf(w.kq, w.mq)
    BY <1>4, <2>1, <2>6, <2>7, <2>7b DEF PendingOf
  <2>10. KeyQueue(w.kq) /\ Len(w.mq) <= QueueSize
    BY <2>3, <2>6 DEF PortInv
  <2>11. PortInv(t) /\ t.kq = w.kq /\ t.mq = w.mq
    <3>1. t = More(u, q, o)
      BY <2>7a, <2>8
    <3> QED
      BY <2>6, <2>7a, <2>7c, <2>9, <2>10, <3>1, TakenIs
  <2> QED
    BY <2>1, <2>2, <2>3, <2>4, <2>6, <2>11 DEF Reads
<1>5. CASE s.pending # {} /\ s.pending # {"AUX"}
  <2> DEFINE q == Tail(s.kq)
             w == [s EXCEPT !.kq = q]
             p == s.pending \ {"KBD"}
             u == KbdRead(s)
             t == More(u, u.kq, s.pending)
  <2>1. s.kq # <<>> /\ "KBD" \in s.pending
    BY <1>1, <1>5, PendingIs
  <2>2. KeyQueue(q) /\ q \in Seq(KBytes)
    <3>1. KeyQueue(q)
      BY <2>1, ReserveRead DEF PortInv
    <3> QED
      BY <3>1 DEF KeyQueue
  <2>3. ASSUME NEW b, s.kq = <<b>> PROVE q = <<>>
    BY <2>3
  <2>4. Read(s) = t
    BY <2>1, ReadIs
  <2>5. u = Updated(w, p, s.mode)
    BY DEF KbdRead
  <2> HIDE DEF q
  <2>6. /\ w \in Ports /\ w.kq = q /\ w.mq = s.mq /\ w.level = s.level /\ w.irr = s.irr
        /\ w.mode = s.mode
    BY <1>1, <2>2 DEF Ports
  <2> HIDE DEF w
  <2>7. p \in DeviceSets /\ "KBD" \notin p
        /\ p = IF s.mq = <<>> THEN {} ELSE {"AUX"}
    BY <1>1, <2>1 DEF PendingOf, DeviceSets
  <2> HIDE DEF p
  <2> DEFINE m == s.mode
             o == s.pending
  <2>7a. /\ m \in ModeSets /\ o \in DeviceSets /\ u = Updated(w, p, m)
         /\ t = More(u, u.kq, o)
    BY <1>1, <2>5 DEF Ports
  <2>7b. o = s.pending
    OBVIOUS
  <2> HIDE DEF u, m, o, t
  <2>8. u.kq = q
    <3>1. IsUpdated(u, w, p, m)
      BY <2>6, <2>7, <2>7a, UpdatedIs
    <3> QED
      BY <2>6, <3>1 DEF IsUpdated
  <2>9. /\ q # <<>> => o = PendingOf(w.kq, w.mq)
        /\ q = <<>> => p = PendingOf(w.kq, w.mq)
    BY <1>1, <2>1, <2>6, <2>7, <2>7b DEF PendingOf
  <2>10. KeyQueue(w.kq) /\ Len(w.mq) <= QueueSize
    BY <2>2, <2>6 DEF PortInv
  <2>11. PortInv(t) /\ t.kq = w.kq /\ t.mq = w.mq
    <3>1. t = More(u, q, o)
      BY <2>7a, <2>8
    <3> QED
      BY <2>6, <2>7, <2>7a, <2>9, <2>10, <3>1, TakenIs
  <2> QED
    BY <1>2, <1>5, <2>1, <2>3, <2>4, <2>6, <2>11 DEF Reads
<1> QED
  BY <1>3, <1>4, <1>5

\* One more.
LEMMA ReadsOn ==
    ASSUME NEW s, PortInv(s), NEW t, Reads(s, t)
    PROVE  Reads(s, Read(t))
<1> DEFINE u == Read(t)
<1>1. Reads(t, u)
  BY ReadKeeps DEF Reads
<1> HIDE DEF u
<1>2. PortInv(u) /\ s.mq \in Seq(MBytes) /\ t.mq \in Seq(MBytes) /\ u.mq \in Seq(MBytes)
  BY <1>1 DEF Reads, PortInv, Ports
<1>3. Longer(u.mq, s.mq)
  BY <1>1, <1>2, LongerTransitive DEF Reads
<1>4. Reads(s, u)
  BY <1>1, <1>2, <1>3 DEF Reads
<1> QED
  BY <1>4 DEF u

\* A command is sent to the mouse.
LEMMA SentKeeps ==
    ASSUME NEW s, PortInv(s)
    PROVE  PortInv(Sent(s)) /\ Sent(s).kq = s.kq /\ (Cut(s.mq) => Cut(Sent(s).mq))
<1> DEFINE n == 1
           t == AuxAnswers(s, n)
<1>1. n \in Nat \ {0}
  OBVIOUS
<1>2. Sent(s) = IF t.pending = {"AUX"} THEN Read(t) ELSE t
  BY DEF Sent
<1> HIDE DEF n
<1>3. PortInv(t) /\ t.kq = s.kq /\ (Cut(s.mq) => Cut(t.mq))
  BY <1>1, AuxAnswersKeep
<1> HIDE DEF t
<1>4. Reads(t, Read(t)) /\ (t.pending = {"AUX"} => Read(t).kq = t.kq)
  BY <1>3, ReadKeeps
<1> QED
  BY <1>2, <1>3, <1>4 DEF Reads

\* What a call finds.
LEMMA PortFound ==
    ASSUME KbdInv
    PROVE  /\ PortInv(Port) /\ Port.kq = kq /\ Port.mq = mq
           /\ "AUX" \notin lost \cup eaten => Cut(mq)
<1>1. /\ KeyTypes /\ BiosTypes /\ MouseTypes /\ OtherTypes /\ KeyQueue(kq) /\ kq \in Seq(KBytes)
      /\ mq \in Seq(MBytes) /\ Len(mq) <= QueueSize /\ bios.packet \in Seq(MBytes)
      /\ mode \in ModeSets /\ irr \in SUBSET {1, 12}
      /\ pending = PendingOf(kq, mq) /\ level = Levels(pending, mode) /\ level \subseteq irr
  BY KeyTypesAre DEF KbdInv, KeyTypes, MouseTypes, BiosTypes, OtherTypes, LinesTrue, PendingOf,
                     Modes, ModeSets
<1>2. pending \in DeviceSets /\ level \in SUBSET {1, 12}
  BY <1>1 DEF PendingOf, DeviceSets
<1>3. Port \in Ports /\ Port.kq = kq /\ Port.mq = mq /\ Port.pending = pending
      /\ Port.mode = mode /\ Port.level = level /\ Port.irr = irr
  BY <1>1, <1>2 DEF Port, Ports
<1>4. PortInv(Port)
  BY <1>1, <1>3 DEF PortInv
<1>5. "AUX" \notin lost \cup eaten => Cut(mq)
  BY <1>1, CutBehind DEF KbdInv, MouseInv
<1> QED
  BY <1>3, <1>4, <1>5

\* What a call leaves, if it records the packets it cuts and the keys it reads.
LEMMA CallStep ==
    ASSUME KbdInv, Count, NEW t, PortInv(t), Leaves(t), UNCHANGED <<delay, held, lost, torn, mangled>>,
           mouse' \in [reports : {"off", "stream", "remote"}, owed : Nat], BiosTypes',
           bios'.byte = bios.byte, bios'.e0 = bios.e0, bios'.down = bios.down,
           eaten' \subseteq {"KBD", "AUX"}, eaten \subseteq eaten',
           "KBD" \notin eaten' => kq = <<>> /\ kq' = <<>>,
           "AUX" \notin lost \cup eaten' =>
               /\ bios'.packet = <<>> \/ bios'.packet[1] = P(0)
               /\ Aligned(Cat(bios'.packet, mq'))
    PROVE  KbdInv'
<1>1. KeyTypes /\ OtherTypes
  BY DEF KbdInv
<1>2. /\ kq' = t.kq /\ mq' = t.mq /\ pending' = t.pending /\ mode' = t.mode
      /\ level' = t.level /\ irr' = t.irr
  BY DEF Leaves
<1>3. /\ kq' \in Seq(KBytes) /\ Len(kq') <= QueueSize /\ ReserveOf(kq') /\ mq' \in Seq(MBytes)
      /\ Len(mq') <= QueueSize /\ mode' \subseteq {"kbd_int", "mouse_int", "disable_kbd"}
      /\ irr' \subseteq {1, 12} /\ pending' = PendingOf(kq', mq')
      /\ level' = Levels(pending', mode') /\ level' \subseteq irr'
  BY <1>2 DEF PortInv, Ports, KeyQueue, Modes, ModeSets
<1>4. KeyTypes'
  BY <1>1, <1>3 DEF KeyTypes, ReserveKept, ReserveOf
<1>5. LinesTrue'
  BY <1>3 DEF LinesTrue, PendingOf
<1>6. MouseTypes' /\ OtherTypes'
  BY <1>1, <1>3, Counted DEF MouseTypes, OtherTypes
<1>7. KeysInv'
  <2> SUFFICES ASSUME "KBD" \notin lost' \cup eaten', ~torn'
               PROVE  StreamInv(KeyStream', bios'.e0, bios'.down, HeldIds')
    BY DEF KeysInv
  <2>1. kq' = kq /\ "KBD" \notin lost \cup eaten /\ ~torn
    OBVIOUS
  <2>2. KeyStream' = KeyStream /\ HeldIds' = HeldIds
    BY <2>1 DEF KeyStream, HeldIds, KbdId
  <2> QED
    BY <2>1, <2>2 DEF KbdInv, KeysInv
<1>8. MouseInv'
  <2> SUFFICES ASSUME "AUX" \notin lost' \cup eaten'
               PROVE  /\ ~mangled' /\ (bios'.packet = <<>> \/ bios'.packet[1] = P(0))
                      /\ Aligned(Cat(bios'.packet, mq'))
    BY DEF MouseInv, Cat, Aligned, P
  <2>1. "AUX" \notin lost \cup eaten /\ "AUX" \notin lost \cup eaten'
    OBVIOUS
  <2>2. ~mangled'
    BY <2>1 DEF KbdInv, MouseInv
  <2> QED
    BY <2>1, <2>2
<1> QED
  BY <1>4, <1>5, <1>6, <1>7, <1>8 DEF KbdInv

\* INT 33h resets the mouse.
LEMMA MouseResetStep ==
    ASSUME KbdInv, MouseReset
    PROVE  KbdInv'
<1> DEFINE w == KbdAnswers(Port)
           asked == Read(w)
           M(off) == {"kbd_int", "mouse_int"} \cup (IF off THEN {"disable_kbd"} ELSE {})
           set(off) == Updated(asked, asked.pending, M(off))
<1>1. /\ BiosTypes /\ MouseTypes /\ OtherTypes
      /\ PortInv(Port) /\ Port.kq = kq /\ Port.mq = mq
      /\ "AUX" \notin lost \cup eaten => Cut(mq)
  BY PortFound DEF KbdInv
<1>2. /\ Count /\ mouse' = [mouse EXCEPT !.reports = "stream"]
      /\ bios' = [bios EXCEPT !.packet = <<>>]
      /\ eaten' = eaten \cup (IF kq # <<>> THEN {"KBD"} ELSE {})
                        \cup (IF MidPacket(mq') THEN {"AUX"} ELSE {})
      /\ UNCHANGED <<delay, held, lost, torn, mangled>>
  BY DEF MouseReset
<1>3. PICK off : Leaves(Sent(Sent(set(off))))
  BY DEF MouseReset
<1>4. PortInv(w) /\ w.mq = mq /\ (kq = <<>> => w.kq = <<Reply>>)
  BY <1>1, KbdAnswersKeep
<1> HIDE DEF w
<1>5. Reads(w, asked) /\ \A b : w.kq = <<b>> => asked.kq = <<>>
  BY <1>4, ReadKeeps
<1> HIDE DEF asked
<1>6. PortInv(asked) /\ (Cut(mq) => Cut(asked.mq)) /\ (kq = <<>> => asked.kq = <<>>)
  BY <1>4, <1>5 DEF Reads
<1> DEFINE m == M(off)
           s1 == set(off)
<1>7. m \in ModeSets
  BY DEF Modes, ModeSets
<1> HIDE DEF m
<1>8. PortInv(s1) /\ s1.kq = asked.kq /\ s1.mq = asked.mq
  BY <1>6, <1>7, ModeKept DEF m
<1> HIDE DEF s1, set
<1> DEFINE s2 == Sent(s1)
           s3 == Sent(s2)
<1>9. PortInv(s2) /\ s2.kq = s1.kq /\ (Cut(s1.mq) => Cut(s2.mq))
  BY <1>8, SentKeeps
<1> HIDE DEF s2
<1>10. PortInv(s3) /\ s3.kq = s2.kq /\ (Cut(s2.mq) => Cut(s3.mq))
  BY <1>9, SentKeeps
<1> HIDE DEF s3
<1>11. Leaves(s3)
  BY <1>3 DEF s3, s2, s1
<1>12. kq' = s3.kq /\ mq' = s3.mq /\ mq' \in Seq(MBytes)
  BY <1>10, <1>11 DEF Leaves, PortInv, Ports
<1>13. "KBD" \notin eaten' => kq = <<>> /\ kq' = <<>>
  BY <1>2, <1>6, <1>8, <1>9, <1>10, <1>12
<1>14. /\ BiosTypes' /\ bios'.byte = bios.byte /\ bios'.e0 = bios.e0 /\ bios'.down = bios.down
       /\ bios'.packet = <<>>
  <2> DEFINE nil == <<>>
  <2>1. nil \in Seq(MBytes) /\ Len(nil) = 0
    OBVIOUS
  <2>2. bios' = [bios EXCEPT !.packet = nil]
    BY <1>2
  <2> HIDE DEF nil
  <2>3. /\ bios' \in [byte : Seq(KBytes), e0 : BOOLEAN, down : SUBSET Ids, packet : Seq(MBytes)]
        /\ bios'.byte = bios.byte /\ bios'.e0 = bios.e0 /\ bios'.down = bios.down
        /\ bios'.packet = nil
    BY <1>1, <2>1, <2>2 DEF BiosTypes
  <2>4. Len(bios'.byte) <= 1 /\ Len(bios'.packet) < 3
    BY <1>1, <2>1, <2>3 DEF BiosTypes
  <2> QED
    BY <2>3, <2>4 DEF BiosTypes, nil
<1>15. ASSUME "AUX" \notin lost \cup eaten' PROVE Aligned(Cat(bios'.packet, mq'))
  <2>1. "AUX" \notin lost \cup eaten /\ ~MidPacket(mq')
    BY <1>2, <1>15
  <2>2. Cut(mq')
    BY <1>1, <1>6, <1>8, <1>9, <1>10, <1>12, <2>1
  <2>3. Aligned(mq')
    BY <1>12, <2>1, <2>2, CutAligned
  <2>4. Cat(<<>>, mq') = mq'
    BY <1>12, CatEmpty
  <2> QED
    BY <1>14, <2>3, <2>4
<1>16. /\ mouse' \in [reports : {"off", "stream", "remote"}, owed : Nat]
       /\ eaten' \subseteq {"KBD", "AUX"} /\ eaten \subseteq eaten'
  BY <1>1, <1>2 DEF MouseTypes, OtherTypes
<1> QED
  BY <1>2, <1>10, <1>11, <1>13, <1>14, <1>15, <1>16, CallStep

\* INT 15h asks the mouse.
LEMMA MouseCallStep ==
    ASSUME KbdInv, NEW reports \in {"off", "stream", "remote"}, NEW n \in 1 .. 4, MouseCall(reports, n)
    PROVE  KbdInv'
<1> DEFINE s == AuxAnswers(Port, n)
           t1 == Read(s)
           t2 == Read(t1)
           t3 == Read(t2)
           t4 == Read(t3)
<1>1. /\ BiosTypes /\ MouseTypes /\ OtherTypes /\ bios.packet \in Seq(MBytes)
      /\ PortInv(Port) /\ Port.kq = kq /\ Port.mq = mq
      /\ "AUX" \notin lost \cup eaten => Cut(mq)
  BY PortFound DEF KbdInv, BiosTypes
<1>2. n \in Nat \ {0}
  OBVIOUS
<1>3. /\ Count /\ mouse' = [mouse EXCEPT !.reports = reports]
      /\ eaten' = eaten \cup (IF kq # <<>> THEN {"KBD"} ELSE {})
             \cup (IF Len(mq') < Len(s.mq) /\ (bios.packet # <<>> \/ MidPacket(mq'))
                   THEN {"AUX"} ELSE {})
      /\ UNCHANGED <<delay, held, bios, lost, torn, mangled>>
  BY DEF MouseCall
<1>4. Leaves(t1) \/ Leaves(t2) \/ Leaves(t3) \/ Leaves(t4)
  <2> DEFINE done == CASE n = 1 -> t1 [] n = 2 -> t2 [] n = 3 -> t3 [] n = 4 -> t4
  <2>1. Leaves(t1) \/ Leaves(done)
    BY DEF MouseCall
  <2> HIDE DEF t1, t2, t3, t4
  <2>2. done \in {t1, t2, t3, t4}
    BY <1>2
  <2> QED
    BY <2>1, <2>2
<1>5. /\ PortInv(s) /\ s.kq = kq /\ (Cut(mq) => Cut(s.mq))
      /\ \A p \in Seq(MBytes) : Aligned(Cat(p, mq)) => Aligned(Cat(p, s.mq))
  BY <1>1, <1>2, AuxAnswersKeep
<1> HIDE DEF s
<1>6. Reads(s, t1)
  BY <1>5, ReadKeeps
<1> HIDE DEF t1
<1>7. Reads(s, t2)
  BY <1>5, <1>6, ReadsOn
<1> HIDE DEF t2
<1>8. Reads(s, t3)
  BY <1>5, <1>7, ReadsOn
<1> HIDE DEF t3
<1>9. Reads(s, t4)
  BY <1>5, <1>8, ReadsOn
<1> HIDE DEF t4
<1>10. PICK t : Reads(s, t) /\ Leaves(t)
  BY <1>4, <1>6, <1>7, <1>8, <1>9
<1>11. PortInv(t) /\ kq' = t.kq /\ mq' = t.mq /\ mq' \in Seq(MBytes) /\ s.mq \in Seq(MBytes)
  BY <1>5, <1>10 DEF Reads, Leaves, PortInv, Ports
<1>12. "KBD" \notin eaten' => kq = <<>> /\ kq' = <<>>
  BY <1>3, <1>5, <1>10, <1>11 DEF Reads
<1>13. ASSUME "AUX" \notin lost \cup eaten'
       PROVE  /\ bios'.packet = <<>> \/ bios'.packet[1] = P(0)
              /\ Aligned(Cat(bios'.packet, mq'))
  <2>1. /\ "AUX" \notin lost \cup eaten
        /\ Len(mq') < Len(s.mq) => bios.packet = <<>> /\ ~MidPacket(mq')
    BY <1>3, <1>13
  <2>2. (bios.packet = <<>> \/ bios.packet[1] = P(0)) /\ Aligned(Cat(bios.packet, mq))
    BY <2>1 DEF KbdInv, MouseInv
  <2>3. CASE Len(mq') < Len(s.mq)
    <3>1. Aligned(mq')
      BY <1>1, <1>5, <1>10, <1>11, <2>1, <2>3, CutAligned DEF Reads
    <3>2. Cat(<<>>, mq') = mq'
      BY <1>11, CatEmpty
    <3> QED
      BY <1>3, <2>1, <2>3, <3>1, <3>2
  <2>4. CASE ~(Len(mq') < Len(s.mq))
    <3>1. Len(mq') \in Nat /\ Len(s.mq) \in Nat
      BY <1>11, LenProperties
    <3>2. Len(s.mq) <= Len(mq')
      <4> DEFINE a == Len(mq')
                 b == Len(s.mq)
      <4>1. a \in Nat /\ b \in Nat /\ ~(a < b)
        BY <2>4, <3>1
      <4> HIDE DEF a, b
      <4>2. b <= a
        BY <4>1
      <4> QED
        BY <4>2 DEF a, b
    <3>3. s.mq = mq'
      BY <1>10, <1>11, <3>2 DEF Reads, Longer
    <3>4. Aligned(Cat(bios.packet, s.mq))
      BY <1>1, <1>5, <2>2
    <3> QED
      BY <1>3, <2>2, <3>3, <3>4
  <2> QED
    BY <2>3, <2>4
<1>14. /\ mouse' \in [reports : {"off", "stream", "remote"}, owed : Nat]
       /\ eaten' \subseteq {"KBD", "AUX"} /\ eaten \subseteq eaten'
  BY <1>1, <1>3 DEF MouseTypes, OtherTypes
<1>15. BiosTypes' /\ bios'.byte = bios.byte /\ bios'.e0 = bios.e0 /\ bios'.down = bios.down
  BY <1>1, <1>3 DEF BiosTypes
<1> QED
  BY <1>3, <1>10, <1>11, <1>12, <1>13, <1>14, <1>15, CallStep

-----------------------------------------------------------------------------
(* The theorems.                                                           *)

\* The invariant holds at first,
LEMMA KbdStarts == KbdInit => KbdInv
<1> SUFFICES ASSUME KbdInit PROVE KbdInv
  OBVIOUS
<1> DEFINE nil == <<>>
<1>1. nil \in Seq(KBytes) /\ nil \in Seq(MBytes) /\ Len(nil) = 0
  OBVIOUS
<1>2. /\ kq = nil /\ mq = nil /\ delay = NoDelay /\ ~delay.on
      /\ pending = {} /\ mode = {"kbd_int"} /\ level = {} /\ irr = {}
      /\ mouse = [reports |-> "off", owed |-> 0] /\ held = {}
      /\ bios = [byte |-> nil, e0 |-> FALSE, down |-> {}, packet |-> nil]
      /\ lost = {} /\ torn = FALSE /\ eaten = {} /\ mangled = FALSE /\ events = 0
  BY DEF KbdInit, NoDelay
<1>3. KeyTypes
  <2>1. \A i \in QueueSize - Reserve + 1 .. 0 : FALSE
    BY KbdAssumption
  <2>2. ReserveKept
    BY <1>1, <1>2, <2>1 DEF ReserveKept
  <2> HIDE DEF nil
  <2> QED
    BY <1>1, <1>2, <2>2, KbdAssumption DEF KeyTypes
<1>4. LinesTrue
  BY <1>2 DEF LinesTrue, Levels
<1>5. KeysInv
  <2>1. KeyStream = nil
    <3>1. KeyStream = Cat(Cat(nil, nil), nil)
      BY <1>2 DEF KeyStream, Cat
    <3> HIDE DEF nil
    <3>2. Cat(nil, <<>>) = nil
      BY <1>1, CatEmpty
    <3> QED
      BY <3>1, <3>2 DEF nil
  <2>2. bios.e0 = FALSE /\ bios.down = {}
    BY <1>2
  <2>3. StreamInv(<<>>, FALSE, {}, HeldIds)
    BY DEF StreamInv, Open
  <2> QED
    BY <2>1, <2>2, <2>3 DEF KeysInv
<1>6. MouseInv
  <2>1. Cat(nil, nil) = nil
    <3> HIDE DEF nil
    <3>1. Cat(nil, <<>>) = nil
      BY <1>1, CatEmpty
    <3> QED
      BY <3>1 DEF nil
  <2>2. bios.packet = <<>>
    BY <1>2
  <2>3. Aligned(<<>>)
    BY DEF Aligned
  <2> QED
    BY <1>2, <2>1, <2>2, <2>3 DEF MouseInv
<1>7. BiosTypes
  <2> HIDE DEF nil
  <2> QED
    BY <1>1, <1>2 DEF BiosTypes
<1>8. MouseTypes /\ OtherTypes
  <2> HIDE DEF nil
  <2>1. mq = nil /\ mouse = [reports |-> "off", owed |-> 0] /\ QueueSize \in Nat /\ MaxEvents \in Nat
    BY <1>2, KbdAssumption
  <2>2. mq \in Seq(MBytes) /\ Len(mq) <= QueueSize
    BY <1>1, <2>1
  <2>3. MouseTypes
    BY <2>1, <2>2 DEF MouseTypes
  <2>4. OtherTypes
    <3>1. torn \in BOOLEAN /\ mangled \in BOOLEAN
      BY <1>2
    <3>2. /\ irr \subseteq {1, 12} /\ mode \subseteq {"kbd_int", "mouse_int", "disable_kbd"}
          /\ lost \subseteq {"KBD", "AUX"} /\ eaten \subseteq {"KBD", "AUX"}
      BY <1>2
    <3>3. events \in 0 .. MaxEvents
      <4>1. events = 0
        BY <1>2
      <4> QED
        BY <2>1, <4>1
    <3> QED
      BY <3>1, <3>2, <3>3 DEF OtherTypes
  <2> QED
    BY <2>3, <2>4
<1> QED
  BY <1>3, <1>4, <1>5, <1>6, <1>7, <1>8 DEF KbdInv

\* and every step keeps it.
LEMMA KbdSteps == KbdInv /\ [KbdNext]_kbdvars => KbdInv'
<1> SUFFICES ASSUME KbdInv, [KbdNext]_kbdvars PROVE KbdInv'
  OBVIOUS
<1>1. CASE KbdNext
  <2>1. CASE \E k \in Key \cup {"sysrq"}, down \in BOOLEAN : KeyEvent(k, down)
    BY <2>1, KeyEventStep
  <2>2. CASE \E n \in 1 .. MaxMoves : MouseEvent(n)
    <3>1. PICK n \in 1 .. MaxMoves : MouseEvent(n)
      BY <2>2
    <3>2. n \in Nat \ {0}
      OBVIOUS
    <3> QED
      BY <3>1, <3>2, MouseEventStep
  <2>3. CASE \E due \in BOOLEAN : KbdStep(due)
    BY <2>3, KbdStepStep
  <2>4. CASE GuestSetsUp
    <3>1. CASE \E n \in 1 .. 2 : KbdReplies(n)
      BY <3>1, KbdRepliesStep
    <3>2. CASE \E reports \in {"off", "stream", "remote"} : MouseReplies(reports, FALSE)
      BY <3>2, MouseRepliesStep
    <3>3. CASE MouseReplies(mouse.reports, TRUE)
      <4>1. mouse.reports \in {"off", "stream", "remote"}
        BY DEF KbdInv, MouseTypes
      <4> QED
        BY <3>3, <4>1, MouseRepliesStep
    <3>4. CASE WriteMode({"kbd_int", "mouse_int"})
      BY <3>4, WriteModeStep
    <3>5. CASE \E m \in {mode \cup {"disable_kbd"}, mode \ {"disable_kbd"}} : WriteMode(m)
      <4>1. mode \subseteq {"kbd_int", "mouse_int", "disable_kbd"}
        BY DEF KbdInv, OtherTypes
      <4>2. PICK m \in {mode \cup {"disable_kbd"}, mode \ {"disable_kbd"}} : WriteMode(m)
        BY <3>5
      <4>3. m \in SUBSET {"kbd_int", "mouse_int", "disable_kbd"}
        BY <4>1
      <4> QED
        BY <4>2, <4>3, WriteModeStep
    <3> QED
      BY <2>4, <3>1, <3>2, <3>3, <3>4, <3>5 DEF GuestSetsUp
  <2>5. CASE Int09
    BY <2>5, Int09Step
  <2>6. CASE Int09Phase2
    BY <2>6, Int09Phase2Step
  <2>7. CASE Int74
    BY <2>7, Int74Step
  <2>8. CASE MouseReset
    BY <2>8, MouseResetStep
  <2>9. CASE Int15C2
    <3>1. mouse.reports \in {"off", "stream", "remote"}
      BY DEF KbdInv, MouseTypes
    <3>2. PICK reports \in {"off", "stream", "remote"}, n \in 1 .. 4 : MouseCall(reports, n)
      BY <2>9, <3>1 DEF Int15C2
    <3> QED
      BY <3>2, MouseCallStep
  <2> QED
    BY <1>1, <2>1, <2>2, <2>3, <2>4, <2>5, <2>6, <2>7, <2>8, <2>9 DEF KbdNext, InputWorks, BiosCall
<1>2. CASE UNCHANGED kbdvars
  <2>1. UNCHANGED kbdvars
    BY <1>2
  <2>2. /\ KeyTypes' /\ BiosTypes' /\ MouseTypes' /\ OtherTypes' /\ LinesTrue'
    BY <2>1 DEF kbdvars, KbdInv, KeyTypes, BiosTypes, MouseTypes, OtherTypes, ReserveKept, LinesTrue
  <2>3. KeysInv' /\ MouseInv'
    BY <2>1, KeysAside, MouseAside DEF kbdvars
  <2> QED
    BY <2>2, <2>3 DEF KbdInv
<1> QED
  BY <1>1, <1>2

\* In every state that can be reached, the keyboard's bytes not yet handled release
\* whatever key they press that is not held (ps2_put_keycode and the two queues'
\* handlers), packets stand whole in the mouse's queue, and the lines are true;
\* until a queue has refused bytes or a call that sets the mouse up (mouse_hw_init,
\* ps2_mouse_cmd) has read bytes that were the handlers'.
THEOREM KbdInvariance == KbdSpec => []KbdInv
<1>1. KbdSpec => KbdInit /\ [][KbdNext]_kbdvars
  BY DEF KbdSpec
<1> QED
  BY <1>1, KbdStarts, KbdSteps, PTL

\* It implies the properties.
LEMMA KbdInvMeans == KbdInv => StatusTrue /\ NoKeyStuck /\ PacketsWhole
<1> SUFFICES ASSUME KbdInv PROVE StatusTrue /\ NoKeyStuck /\ PacketsWhole
  OBVIOUS
<1>1. KeyTypes /\ BiosTypes /\ MouseTypes /\ OtherTypes /\ LinesTrue
  BY DEF KbdInv
<1>2. StatusTrue
  <2>1. KBytes \subseteq Bytes /\ MBytes \subseteq Bytes
    BY ByteFacts
  <2>2. kq \in Seq(KBytes) /\ mq \in Seq(MBytes)
    BY <1>1 DEF KeyTypes, MouseTypes
  <2>3. Range(kq) \subseteq Bytes /\ Range(mq) \subseteq Bytes
    <3>1. ASSUME NEW T, NEW q \in Seq(T) PROVE Range(q) \subseteq T
      BY DEF Range
    <3> QED
      BY <2>1, <2>2, <3>1
  <2>4. delay = NoDelay \/ delay \in [on : {TRUE}, critical : BOOLEAN, byte : Bytes]
    BY <1>1, <2>1 DEF KeyTypes
  <2>5. pending \subseteq {"KBD", "AUX"} /\ level \subseteq {1, 12}
    BY <1>1 DEF LinesTrue, Levels
  <2>6. KbdTypeOK
    BY <1>1, <2>3, <2>4, <2>5 DEF KbdTypeOK, KeyTypes, BiosTypes, MouseTypes, OtherTypes
  <2> QED
    BY <1>1, <2>6 DEF StatusTrue, LinesTrue
<1>3. NoKeyStuck
  <2> SUFFICES ASSUME kq = <<>>, ~delay.on, bios.byte = <<>>, "KBD" \notin lost \cup eaten,
                      ~torn
               PROVE  bios.down \subseteq HeldIds
    BY DEF NoKeyStuck, HeldIds
  <2> DEFINE nil == <<>>
  <2>1. KeyStream = Cat(Cat(nil, nil), nil) /\ nil \in Seq(KBytes)
    BY DEF KeyStream, Cat
  <2>2. Cat(nil, <<>>) = nil
    <3> HIDE DEF nil
    <3> QED
      BY <2>1, CatEmpty
  <2>3. KeyStream = <<>>
    BY <2>1, <2>2
  <2>4. \A j \in 1 .. Len(<<>>) : FALSE
    OBVIOUS
  <2>5. StreamInv(<<>>, bios.e0, bios.down, HeldIds)
    BY <2>3 DEF KbdInv, KeysInv
  <2>6. \A x \in bios.down \ HeldIds : FALSE
    BY <2>4, <2>5 DEF StreamInv
  <2> QED
    BY <2>6
<1>4. PacketsWhole
  BY DEF KbdInv, MouseInv, PacketsWhole
<1> QED
  BY <1>2, <1>3, <1>4

-----------------------------------------------------------------------------
(* The handlers come to an end.                                            *)

\* What is left to do for the bytes there are: to read each, to handle the one
\* that was read, to queue the one that is held back, to take the requests.
Requests == (IF 1 \in irr THEN 1 ELSE 0) + (IF 12 \in irr THEN 1 ELSE 0)
Waiting  == Len(kq) + Len(mq)
Taken    == Len(bios.byte)
Behind   == IF delay.on THEN 8 ELSE 0
Work     == 5 * Waiting + 3 * Taken + Behind + Requests

\* It is a number.
LEMMA WorkIs ==
    ASSUME KbdInv
    PROVE  /\ Work \in Nat /\ Waiting \in Nat /\ Taken \in 0 .. 1 /\ Behind \in {0, 8}
           /\ Requests \in 0 .. 2
           /\ Len(kq) \in Nat /\ Len(mq) \in Nat /\ kq \in Seq(KBytes) /\ mq \in Seq(MBytes)
<1>1. /\ kq \in Seq(KBytes) /\ mq \in Seq(MBytes) /\ bios.byte \in Seq(KBytes) /\ Len(bios.byte) <= 1
  BY DEF KbdInv, KeyTypes, MouseTypes, BiosTypes
<1>2. Len(kq) \in Nat /\ Len(mq) \in Nat /\ Len(bios.byte) \in Nat
  BY <1>1, LenProperties
<1>3. Waiting \in Nat /\ Taken \in 0 .. 1
  <2> DEFINE a == Len(kq)
             b == Len(mq)
             c == Len(bios.byte)
  <2>1. a \in Nat /\ b \in Nat /\ c \in Nat /\ c <= 1 /\ Waiting = a + b /\ Taken = c
    BY <1>1, <1>2 DEF Waiting, Taken
  <2> HIDE DEF a, b, c
  <2> QED
    BY <2>1
<1>4. Behind \in {0, 8} /\ Requests \in 0 .. 2
  BY DEF Behind, Requests
<1>5. Work \in Nat
  BY <1>3, <1>4 DEF Work
<1> QED
  BY <1>1, <1>2, <1>3, <1>4, <1>5

\* A byte that is read, or queued at last, leaves less to do.
LEMMA Lighter ==
    ASSUME NEW w \in Int, NEW r \in Int, NEW b \in Int, NEW q \in Int,
           NEW v \in Int, NEW s \in Int, NEW c \in Int, NEW p \in Int,
           \/ v = w - 1 /\ s <= r + 1 /\ c = b /\ p <= q + 1
           \/ v <= w + 1 /\ s = r /\ c = b - 8 /\ p <= q + 2
    PROVE  5 * v + 3 * s + c + p < 5 * w + 3 * r + b + q
OBVIOUS

\* The same of the work itself.
LEMMA WorkLighter ==
    ASSUME KbdInv, Waiting' \in Int, Taken' \in Int, Behind' \in Int, Requests' \in Int,
           \/ /\ Waiting' = Waiting - 1 /\ Taken' <= Taken + 1
              /\ Behind' = Behind /\ Requests' <= Requests + 1
           \/ /\ Waiting' <= Waiting + 1 /\ Taken' = Taken
              /\ Behind' = Behind - 8 /\ Requests' <= Requests + 2
    PROVE  Work' < Work
<1> DEFINE w == Waiting
           r == Taken
           b == Behind
           q == Requests
           v == Waiting'
           s == Taken'
           c == Behind'
           p == Requests'
<1>1. w \in Int /\ r \in Int /\ b \in Int /\ q \in Int
  BY WorkIs
<1>2. v \in Int /\ s \in Int /\ c \in Int /\ p \in Int
  OBVIOUS
<1>3. \/ v = w - 1 /\ s <= r + 1 /\ c = b /\ p <= q + 1
      \/ v <= w + 1 /\ s = r /\ c = b - 8 /\ p <= q + 2
  OBVIOUS
<1>4. Work = 5 * w + 3 * r + b + q /\ Work' = 5 * v + 3 * s + c + p
  BY DEF Work
<1> HIDE DEF w, r, b, q, v, s, c, p
<1>5. 5 * v + 3 * s + c + p < 5 * w + 3 * r + b + q
  BY <1>1, <1>2, <1>3, Lighter
<1> QED
  BY <1>4, <1>5

\* A byte that is taken from a queue.
LEMMA LessWaiting ==
    ASSUME KbdInv, \/ kq # <<>> /\ kq' = Tail(kq) /\ mq' = mq
                   \/ mq # <<>> /\ mq' = Tail(mq) /\ kq' = kq
    PROVE  Waiting' = Waiting - 1
<1>1. kq # <<>> => Len(Tail(kq)) = Len(kq) - 1
  BY WorkIs, HeadFirst
<1>2. mq # <<>> => Len(Tail(mq)) = Len(mq) - 1
  BY WorkIs, HeadFirst
<1>3. Waiting' = Len(kq') + Len(mq')
  BY DEF Waiting
<1> DEFINE a == Len(kq)
           b == Len(mq)
           c == Len(kq')
           d == Len(mq')
<1>4. a \in Nat /\ b \in Nat /\ Waiting = a + b /\ Waiting' = c + d
  BY <1>3, WorkIs DEF Waiting
<1>5. (c = a - 1 /\ d = b) \/ (c = a /\ d = b - 1)
  BY <1>1, <1>2
<1> HIDE DEF a, b, c, d
<1> QED
  BY <1>4, <1>5

\* A byte that is read makes the request again at most once more.
LEMMA ReadWorks ==
    ASSUME NEW line \in {1, 12}, NEW dev \in {"KBD", "AUX"}, NEW q, ReadData(line, dev, q), line \in irr,
           dev = "AUX" => pending = {"AUX"}
    PROVE  Requests' <= Requests + 1
BY DEF Requests

LEMMA Int09Works ==
    ASSUME KbdInv, Int09
    PROVE  Work' < Work
<1>1. 1 \in irr /\ bios.byte = <<>> /\ Behind' = Behind /\ Requests' \in 0 .. 2
  BY DEF Int09, Behind, Requests
<1>2. CASE "KBD" \in pending
  <2>1. /\ ReadData(1, "KBD", kq) /\ kq' = Tail(kq) /\ mq' = mq
        /\ bios' = [bios EXCEPT !.byte = <<Head(kq)>>]
    BY <1>2 DEF Int09
  <2>2. kq # <<>>
    BY <1>2 DEF KbdInv, LinesTrue
  <2>3. Waiting' = Waiting - 1
    BY <2>1, <2>2, LessWaiting
  <2>4. Taken = 0 /\ Taken' = 1
    <3>1. bios \in [byte : Seq(KBytes), e0 : BOOLEAN, down : SUBSET Ids, packet : Seq(MBytes)]
      BY DEF KbdInv, BiosTypes
    <3>2. bios'.byte = <<Head(kq)>>
      BY <2>1, <3>1
    <3> QED
      BY <1>1, <3>2 DEF Taken
  <2>5. Requests' <= Requests + 1
    BY <1>1, <2>1, ReadWorks
  <2>6. Waiting' \in Int /\ Taken' \in Int /\ Behind' \in Int /\ Requests' \in Int /\ Taken' <= Taken + 1
    BY <1>1, <2>3, <2>4, WorkIs
  <2> QED
    BY <1>1, <2>3, <2>5, <2>6, WorkLighter
<1>3. CASE "KBD" \notin pending
  <2>1. irr' = irr \ {1} /\ UNCHANGED <<kq, mq, bios>>
    BY <1>3 DEF Int09, Ignored
  <2>2. Requests' = Requests - 1 /\ Waiting' = Waiting /\ Taken' = Taken
    BY <1>1, <2>1 DEF Requests, Waiting, Taken
  <2> QED
    BY <1>1, <2>2, WorkIs DEF Work
<1> QED
  BY <1>2, <1>3

LEMMA Int09Phase2Works ==
    ASSUME KbdInv, Int09Phase2
    PROVE  Work' < Work
<1>1. bios.byte # <<>> /\ bios' = Decoded(Head(bios.byte)) /\ UNCHANGED <<kq, mq, delay>>
  BY DEF Int09Phase2
<1>2. bios \in [byte : Seq(KBytes), e0 : BOOLEAN, down : SUBSET Ids, packet : Seq(MBytes)]
  BY DEF KbdInv, BiosTypes
<1>3. Taken = 1
  <2>1. Taken # 0
    BY <1>1, <1>2, EmptySeq DEF Taken
  <2> QED
    BY <2>1, WorkIs
<1>4. bios'.byte = <<>>
  BY <1>1, <1>2 DEF Decoded
<1>5. Taken' = 0 /\ Waiting' = Waiting /\ Behind' = Behind /\ Requests' \in 0 .. 2
  BY <1>1, <1>4 DEF Taken, Waiting, Behind, Requests
<1> QED
  BY <1>3, <1>5, WorkIs DEF Work

LEMMA Int74Works ==
    ASSUME KbdInv, Int74
    PROVE  Work' < Work
<1>1. 12 \in irr /\ bios.byte = <<>> /\ Behind' = Behind /\ Requests' \in 0 .. 2
  BY DEF Int74, Behind, Requests
<1>2. bios \in [byte : Seq(KBytes), e0 : BOOLEAN, down : SUBSET Ids, packet : Seq(MBytes)]
  BY DEF KbdInv, BiosTypes
<1>3. CASE pending = {"AUX"}
  <2>1. ReadData(12, "AUX", mq) /\ mq' = Tail(mq) /\ kq' = kq
    BY <1>3 DEF Int74
  <2>2. mq # <<>>
    BY <1>3 DEF KbdInv, LinesTrue
  <2>3. Waiting' = Waiting - 1
    BY <2>1, <2>2, LessWaiting
  <2>4. bios'.byte = bios.byte
    BY <1>2, <1>3 DEF Int74
  <2>5. Taken' = Taken
    BY <2>4 DEF Taken
  <2>6. Requests' <= Requests + 1
    BY <1>1, <1>3, <2>1, ReadWorks
  <2>7. Waiting' \in Int /\ Taken' \in Int /\ Behind' \in Int /\ Requests' \in Int /\ Taken' <= Taken + 1
    BY <1>1, <2>3, <2>5, WorkIs
  <2> QED
    BY <1>1, <2>3, <2>6, <2>7, WorkLighter
<1>4. CASE pending # {"AUX"}
  <2>1. irr' = irr \ {12} /\ UNCHANGED <<kq, mq, bios>>
    BY <1>4 DEF Int74, Ignored
  <2>2. Requests' = Requests - 1 /\ Waiting' = Waiting /\ Taken' = Taken
    BY <1>1, <2>1 DEF Requests, Waiting, Taken
  <2> QED
    BY <1>1, <2>2, WorkIs DEF Work
<1> QED
  BY <1>3, <1>4

\* A queue that is offered some bytes.
LEMMA QueuedSome ==
    ASSUME NEW T, NEW q \in Seq(T), NEW bs \in Seq(T), Len(q) <= QueueSize, NEW critical \in BOOLEAN
    PROVE  /\ Len(q) \in Nat /\ Len(bs) \in Nat /\ Len(Queued(q, bs, critical)) \in Nat
           /\ Len(q) <= Len(Queued(q, bs, critical))
           /\ Len(Queued(q, bs, critical)) <= Len(q) + Len(bs)
<1> DEFINE n == Fits(q, Len(bs), critical)
           r == Queued(q, bs, critical)
           l == Len(q)
           k == Len(bs)
           d == Len(r)
<1>1. n \in 0 .. Len(bs)
  BY QueuedIs
<1>2. Len(r) = Len(q) + n
  BY QueuedIs
<1>3. n \in 0 .. k /\ l \in Nat /\ k \in Nat /\ d = l + n
  BY <1>1, <1>2, LenProperties
<1> HIDE DEF n, l, k, d
<1>4. d \in Nat /\ l <= d /\ d <= l + k
  BY <1>3
<1> QED
  BY <1>3, <1>4 DEF l, k, d

\* A queue that is offered a byte.
LEMMA QueuedOne ==
    ASSUME NEW T, NEW q \in Seq(T), NEW bs \in Seq(T), Len(q) <= QueueSize,
           Len(bs) = 1, NEW critical \in BOOLEAN
    PROVE  Len(Queued(q, bs, critical)) \in Len(q) .. Len(q) + 1
<1> DEFINE l == Len(q)
           k == Len(bs)
           d == Len(Queued(q, bs, critical))
<1>1. l \in Nat /\ k = 1 /\ d \in Nat /\ l <= d /\ d <= l + k
  BY QueuedSome
<1> HIDE DEF k, l, d
<1>2. d \in l .. l + 1
  BY <1>1
<1> QED
  BY <1>2 DEF l, d

\* A poll that has no byte to add does nothing.
LEMMA KbdStepWorks ==
    ASSUME KbdInv, NEW due \in BOOLEAN, KbdStep(due), KbdInv'
    PROVE  UNCHANGED kbdvars \/ Work' < Work
<1>1. /\ UNCHANGED <<mq, mouse, held, bios, torn, eaten, mangled, events>>
      /\ kq' = IF due THEN Flushed ELSE kq
      /\ delay' = IF due THEN NoDelay ELSE delay
      /\ due => delay.on
  BY DEF KbdStep
<1>2. CASE due
  <2>1. kq' = Flushed /\ delay.on /\ Behind' = 0 /\ Behind = 8 /\ Taken' = Taken
    BY <1>1, <1>2 DEF NoDelay, Behind, Taken
  <2>2. KeyTypes /\ KeyQueue(Flushed)
    BY FlushedIs DEF KbdInv
  <2>3. Waiting' \in Nat /\ Waiting' <= Waiting + 1
    <3> DEFINE bs == <<delay.byte>>
               c  == delay.critical
    <3>1. delay \in [on : {TRUE}, critical : BOOLEAN, byte : KBytes \ {E0}]
      <4>1. delay # NoDelay
        BY <2>1 DEF NoDelay
      <4> QED
        BY <2>2, <4>1 DEF KeyTypes
    <3>2. bs \in Seq(KBytes) /\ Len(bs) = 1 /\ c \in BOOLEAN
      BY <3>1
    <3>3. kq' = Queued(kq, bs, c)
      BY <2>1 DEF Flushed
    <3> HIDE DEF bs, c
    <3>4. kq \in Seq(KBytes) /\ Len(kq) <= QueueSize
      BY <2>2 DEF KeyTypes
    <3>5. Len(Queued(kq, bs, c)) \in Len(kq) .. Len(kq) + 1
      BY <3>2, <3>4, QueuedOne
    <3> DEFINE a == Len(kq)
               b == Len(mq)
               d == Len(kq')
    <3>6. a \in Nat /\ b \in Nat /\ d \in a .. a + 1
      BY <3>3, <3>5, WorkIs
    <3>7. Waiting = a + b /\ Waiting' = d + b
      BY <1>1 DEF Waiting
    <3> HIDE DEF a, b, d
    <3> QED
      BY <3>6, <3>7
  <2>4. Requests' \in 0 .. 2
    BY DEF Requests
  <2>5. Requests' <= Requests + 2 /\ Behind' = Behind - 8
    BY <2>1, <2>4, WorkIs
  <2>6. Waiting' \in Int /\ Taken' \in Int /\ Behind' \in Int /\ Requests' \in Int
    BY <2>1, <2>3, <2>4, WorkIs
  <2> QED
    BY <2>1, <2>3, <2>5, <2>6, WorkLighter
<1>3. CASE ~due
  <2>1. kq' = kq /\ delay' = delay /\ mode' = mode
    BY <1>1, <1>3 DEF KbdStep, UpdateIrq
  <2>2. pending' = pending /\ level' = level
    BY <1>1, <2>1 DEF KbdInv, LinesTrue
  <2>3. irr' = irr
    BY <1>3, <2>2 DEF KbdStep, UpdateIrq
  <2>4. lost' = lost
    BY <1>3 DEF KbdStep, LoseKey, Lose
  <2> QED
    BY <1>1, <2>1, <2>2, <2>3, <2>4 DEF kbdvars
<1> QED
  BY <1>2, <1>3

LEMMA StepWorks ==
    ASSUME KbdInv, [KbdNext]_kbdvars, events' = events
    PROVE  UNCHANGED kbdvars \/ Work' < Work
<1>1. KbdInv'
  BY KbdSteps
<1>2. ASSUME KbdNext PROVE UNCHANGED kbdvars \/ Work' < Work
  <2>1. events \in Nat
    BY DEF KbdInv, OtherTypes
  <2>2. ~Count
    BY <2>1 DEF Count
  <2> QED
    BY <1>1, <1>2, <2>2, Int09Works, Int09Phase2Works, Int74Works, KbdStepWorks
    DEF KbdNext, InputWorks, BiosCall, MouseReset, Int15C2, MouseCall, GuestSetsUp, KeyEvent, MouseEvent, KbdReplies, MouseReplies, WriteMode
<1> QED
  BY <1>2

-----------------------------------------------------------------------------
(* The theorems, continued.                                               *)

\* A byte is announced exactly while there is one, on the line of the device whose
\* byte the next read returns, and no edge of a line is lost (kbd_update_irq and
\* ps2_read_data).
THEOREM StatusTrueHolds == KbdSpec => []StatusTrue
  BY KbdInvariance, KbdInvMeans, PTL

\* No key stays down in the guest that was released, unless its release was refused
\* for lack of room or torn apart (PS2_KBD_BREAK_RESERVE of ps2_kbd_queue), or a call
\* that sets the mouse up was made with bytes of the keyboard waiting (mouse_hw_init
\* of INT 33h, ps2_mouse_cmd of INT 15h).  Such calls at other times cost no key.
THEOREM NoKeyStuckHolds == KbdSpec => []NoKeyStuck
  BY KbdInvariance, KbdInvMeans, PTL

\* Bytes of two packets are never taken for one (ps2_mouse_event and bios_74h),
\* unless half a packet was refused or a call that sets the mouse up has cut one
\* (aux_send and the reset of pkt_idx in INT 33h, ps2_mouse_cmd of INT 15h).  A call
\* that leaves the queue at the start of a packet cuts none.
THEOREM PacketsWholeHolds == KbdSpec => []PacketsWhole
  BY KbdInvariance, KbdInvMeans, PTL

\* Without further events the controller and its handlers come to rest: every
\* byte read, byte handled, byte announced late or request without a byte
\* leaves less to do, so that no edge brings the handlers back for ever
\* (ps2_read_data, kbd_update_irq, bios_09h and bios_74h).
THEOREM WorkEnds == KbdSpec => [][events' = events => Work \in Nat /\ Work' < Work]_kbdvars
<1>1. KbdInv /\ [KbdNext]_kbdvars => [events' = events => Work \in Nat /\ Work' < Work]_kbdvars
  BY StepWorks, WorkIs
<1> QED
  BY <1>1, KbdInvariance, PTL DEF KbdSpec

\* While the guest has both interrupts on and bytes wait, one of the handlers
\* has one to take or is called by a request (kbd_update_irq).
THEOREM NothingStalls ==
    KbdSpec => [](/\ kq # <<>> \/ mq # <<>>
                  /\ mode = {"kbd_int", "mouse_int"}
                  => bios.byte # <<>> \/ irr # {})
<1>1. KbdInv => (/\ kq # <<>> \/ mq # <<>>
                 /\ mode = {"kbd_int", "mouse_int"}
                 => bios.byte # <<>> \/ irr # {})
  BY DEF KbdInv, LinesTrue, Levels
<1> QED
  BY <1>1, KbdInvariance, PTL

=============================================================================
