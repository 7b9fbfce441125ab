-------------------------- MODULE DiskCacheProofs --------------------------
(***************************************************************************)
(* A read that the second chip's cache serves returns what the card holds, *)
(* for any number of sectors and slots, any sector size, FIFO depth and    *)
(* length of a request, whatever bursts were given up or lost words on the *)
(* way back before.                                                        *)
(*                                                                         *)
(* Words carry no address: what a word means follows from its place in the *)
(* stream. The invariant therefore gives every word under way to the       *)
(* second chip its burst and its place in it (the operation, the slot, the *)
(* contents the burst carries, and -2 for the request, -1 for the count or *)
(* the index of a data word). The word last taken is number 0, the one     *)
(* last put is number Words(there); each follows its predecessor, the      *)
(* second chip stands where word 0 left it, the first chip where the last  *)
(* one did. A tag is true of the last burst to its slot that is under way, *)
(* or of the slot itself when there is none. On the way back, the words    *)
(* received and in flight are as many as the second chip has sent, fewer   *)
(* once one was lost: such an answer is never complete, so its call only   *)
(* ends by the time-out that turns the cache off.                          *)
(***************************************************************************)
EXTENDS DiskCache, TLAPS

\* The slots of the cache.
Index == 0 .. Slots - 1

\* A sequence, of whatever words.
IsSeq(s) == \E S : s \in Seq(S)

\* The two FIFOs of a direction.
Strands(t) == IsSeq(t.sent) /\ IsSeq(t.rcvd)

\* Words under way to the second chip, and the one at p, oldest first.
Words(t) == Len(t.rcvd) + Len(t.sent)

At(t, p) == IF p <= Len(t.rcvd) THEN t.rcvd[p] ELSE t.sent[p - Len(t.rcvd)]

\* The word is the last the first chip sends of its burst.
Ends(x) == x.at = SecWords - 1 \/ (x.op = "read" /\ x.at = -1)

\* The word y is the one that comes after x.
Follows(x, y) ==
    IF Ends(x) THEN y.at = -2
    ELSE y.op = x.op /\ y.slot = x.slot /\ y.of = x.of /\ y.at = x.at + 1

\* The word on the wire is what its burst and place make it.
Fits(w, x) ==
    /\ x.at = -2 => w = [op |-> x.op, slot |-> x.slot]
    /\ x.at = -1 => w = [n |-> SecWords]
    /\ x.at >= 0 => w = Word(x.of, x.at)

\* A place in a burst.
Place(x) == x.op \in {"read", "write"} /\ x.slot \in Index /\ x.at \in -2 .. SecWords - 1

\* The places g of the words under way: each fits, and follows the one before.
Bursts(g, t) ==
    /\ \A p \in 0 .. Words(t) : Place(g[p])
    /\ \A p \in 0 .. Words(t) - 1 : Follows(g[p], g[p + 1])
    /\ \A p \in 1 .. Words(t) : Fits(At(t, p), g[p])

\* The places after a word was put, and after one was taken.
Extended(g, n, x) == [p \in 0 .. n + 1 |-> IF p <= n THEN g[p] ELSE x]
Shifted(g, n) == [p \in 0 .. n - 1 |-> g[p + 1]]

\* The words under way that are part of a write to slot k.
Fills(g, n, k) == {p \in 0 .. n : g[p].op = "write" /\ g[p].slot = k}

\* The last write to slot k brings the contents c, or slot k has them already.
Holds(g, n, k, sv, c) ==
    /\ Fills(g, n, k) = {} => \A j \in 0 .. SecWords - 1 : sv[k][j] = Word(c, j)
    /\ \A p \in Fills(g, n, k) : (\A q \in Fills(g, n, k) : q <= p) => g[p].of = c

\* What the second chip has taken of the burst it is in.
Partial(z, sv) == z.op = "write" => \A j \in 0 .. z.at : sv[z.slot][j] = Word(z.of, j)

-----------------------------------------------------------------------------

\* Append, element by element.
LEMMA AppendIs ==
    ASSUME NEW s, IsSeq(s), NEW w
    PROVE  /\ IsSeq(Append(s, w)) /\ Len(s) \in Nat /\ Len(Append(s, w)) = Len(s) + 1
           /\ Append(s, w)[Len(s) + 1] = w
           /\ \A p \in 1 .. Len(s) : Append(s, w)[p] = s[p]
<1>1. PICK S : s \in Seq(S)
  BY DEF IsSeq
<1>2. s \in Seq(S \cup {w}) /\ w \in S \cup {w}
  BY <1>1
<1>3. Append(s, w) \in Seq(S \cup {w})
  BY <1>2
<1>. QED BY <1>2, <1>3 DEF IsSeq

\* Tail, element by element.
LEMMA TailIs ==
    ASSUME NEW s, IsSeq(s), s # <<>>
    PROVE  /\ IsSeq(Tail(s)) /\ Len(s) \in Nat /\ Len(s) >= 1 /\ Len(Tail(s)) = Len(s) - 1
           /\ Head(s) = s[1]
           /\ \A p \in 1 .. Len(s) - 1 : Tail(s)[p] = s[p + 1]
<1>1. PICK S : s \in Seq(S)
  BY DEF IsSeq
<1>2. Tail(s) \in Seq(S)
  BY <1>1
<1>3. Len(s) # 0 /\ Len(s) \in Nat
  BY <1>1
<1>. QED BY <1>1, <1>2, <1>3 DEF IsSeq

\* The empty sequence.
LEMMA EmptyIs ==
    /\ IsSeq(<<>>) /\ Len(<<>>) = 0
    /\ \A s : IsSeq(s) => Len(s) \in Nat /\ (Len(s) = 0 <=> s = <<>>)
<1>1. IsSeq(<<>>) /\ Len(<<>>) = 0
  BY DEF IsSeq
<1>2. ASSUME NEW s, IsSeq(s) PROVE Len(s) \in Nat /\ (Len(s) = 0 <=> s = <<>>)
  <2>1. PICK S : s \in Seq(S)
    BY <1>2 DEF IsSeq
  <2>. QED BY <2>1
<1>. QED BY <1>1, <1>2

\* The word at p of two parts of which the first has a words.
Joined(r, s, a, p) == IF p <= a THEN r[p] ELSE s[p - a]

\* The three things that happen to a word on its way.
MovesWord(t, u) == t.sent # <<>> /\ u.sent = Tail(t.sent) /\ u.rcvd = Append(t.rcvd, Head(t.sent))
PutsWord(t, u, w) == u.sent = Append(t.sent, w) /\ u.rcvd = t.rcvd
TakesWord(t, u) == t.rcvd # <<>> /\ u.sent = t.sent /\ u.rcvd = Tail(t.rcvd)

\* The same element by element, for parts of a and b words.
JMoved(r, s, r2, s2, a, b) ==
    /\ r2[a + 1] = s[1] /\ \A p \in 1 .. a : r2[p] = r[p]
    /\ \A p \in 1 .. b - 1 : s2[p] = s[p + 1]
JPut(s, s2, w, b) == s2[b + 1] = w /\ \A p \in 1 .. b : s2[p] = s[p]
JTaken(r, r2, a) == \A p \in 1 .. a - 1 : r2[p] = r[p + 1]

\* Two pairs of parts make the same whole, or the second one word ahead.
Alike(r2, s2, a2, r, s, a, n) == \A p \in 1 .. n : Joined(r2, s2, a2, p) = Joined(r, s, a, p)
Ahead(r2, a2, r, a, s, n) == \A p \in 1 .. n : Joined(r2, s, a2, p) = Joined(r, s, a, p + 1)

\* Moving a word between the parts leaves the whole as it was.
LEMMA JoinedMoved ==
    ASSUME NEW r, NEW s, NEW r2, NEW s2, NEW a \in Nat, NEW b \in Nat \ {0},
           JMoved(r, s, r2, s2, a, b)
    PROVE  Alike(r2, s2, a + 1, r, s, a, a + b)
<1> USE DEF Alike
<1>. SUFFICES ASSUME NEW p \in 1 .. a + b
              PROVE  Joined(r2, s2, a + 1, p) = Joined(r, s, a, p)
  OBVIOUS
<1>1. CASE p <= a
  BY <1>1 DEF Joined, JMoved
<1>2. CASE p = a + 1
  BY <1>2 DEF Joined, JMoved
<1>3. CASE p > a + 1
  <2>1. p - (a + 1) \in 1 .. b - 1 /\ p - (a + 1) + 1 = p - a /\ ~(p <= a) /\ ~(p <= a + 1)
    BY <1>3
  <2>. QED BY <2>1 DEF Joined, JMoved
<1>. QED BY <1>1, <1>2, <1>3

\* A word that is put comes after all the others.
LEMMA JoinedPut ==
    ASSUME NEW r, NEW s, NEW s2, NEW w, NEW a \in Nat, NEW b \in Nat,
           JPut(s, s2, w, b)
    PROVE  /\ Alike(r, s2, a, r, s, a, a + b)
           /\ Joined(r, s2, a, a + b + 1) = w
<1> USE DEF Alike
<1>1. ASSUME NEW p \in 1 .. a + b PROVE Joined(r, s2, a, p) = Joined(r, s, a, p)
  <2>1. CASE p <= a
    BY <2>1 DEF Joined, JPut
  <2>2. CASE p > a
    <3>1. p - a \in 1 .. b /\ ~(p <= a)
      BY <2>2
    <3>. QED BY <3>1 DEF Joined, JPut
  <2>. QED BY <2>1, <2>2
<1>2. ~(a + b + 1 <= a) /\ a + b + 1 - a = b + 1
  OBVIOUS
<1>3. Joined(r, s2, a, a + b + 1) = w
  BY <1>2 DEF Joined, JPut
<1>. QED BY <1>1, <1>3

\* Taking the first word moves all others up.
LEMMA JoinedTaken ==
    ASSUME NEW r, NEW s, NEW r2, NEW a \in Nat \ {0}, NEW b \in Nat,
           JTaken(r, r2, a)
    PROVE  Ahead(r2, a - 1, r, a, s, a + b - 1) /\ Joined(r, s, a, 1) = r[1]
<1> USE DEF Ahead
<1>1. ASSUME NEW p \in 1 .. a + b - 1 PROVE Joined(r2, s, a - 1, p) = Joined(r, s, a, p + 1)
  <2>1. CASE p <= a - 1
    BY <2>1 DEF Joined, JTaken
  <2>2. CASE p > a - 1
    <3>1. p - (a - 1) = p + 1 - a /\ ~(p <= a - 1) /\ ~(p + 1 <= a)
      BY <2>2
    <3>. QED BY <3>1 DEF Joined, JTaken
  <2>. QED BY <2>1, <2>2
<1>. QED BY <1>1 DEF Joined, JTaken

\* WireThere leaves the words under way as they are.
LEMMA MoveWord ==
    ASSUME NEW t, Strands(t), NEW u, MovesWord(t, u)
    PROVE  /\ Strands(u) /\ Words(u) = Words(t) /\ Words(t) \in Nat
           /\ \A p \in 1 .. Words(t) : At(u, p) = At(t, p)
<1>1. PICK a \in Nat, b \in Nat : Len(t.rcvd) = a /\ Len(t.sent) = b
  BY EmptyIs DEF Strands
<1>2. /\ IsSeq(u.sent) /\ b # 0 /\ Len(u.sent) = b - 1 /\ Head(t.sent) = t.sent[1]
      /\ \A p \in 1 .. b - 1 : u.sent[p] = t.sent[p + 1]
  BY <1>1, TailIs DEF Strands, MovesWord
<1>3. /\ IsSeq(u.rcvd) /\ Len(u.rcvd) = a + 1 /\ u.rcvd[a + 1] = t.sent[1]
      /\ \A p \in 1 .. a : u.rcvd[p] = t.rcvd[p]
  BY <1>1, <1>2, AppendIs DEF Strands, MovesWord
<1>4. \A p \in 1 .. a + b : Joined(u.rcvd, u.sent, a + 1, p) = Joined(t.rcvd, t.sent, a, p)
  <2>1. b \in Nat \ {0}
    BY <1>2
  <2>2. JMoved(t.rcvd, t.sent, u.rcvd, u.sent, a, b)
    BY <1>2, <1>3 DEF JMoved
  <2>3. Alike(u.rcvd, u.sent, a + 1, t.rcvd, t.sent, a, a + b)
    BY <2>1, <2>2, JoinedMoved
  <2>. QED BY <2>3 DEF Alike
<1>5. Words(t) = a + b /\ Words(u) = a + 1 + (b - 1) /\ a + 1 + (b - 1) = a + b
  BY <1>1, <1>2, <1>3 DEF Words
<1>6. \A p : At(u, p) = Joined(u.rcvd, u.sent, a + 1, p) /\ At(t, p) = Joined(t.rcvd, t.sent, a, p)
  BY <1>1, <1>3, Zenon DEF At, Joined
<1>7. ASSUME NEW p \in 1 .. Words(t) PROVE At(u, p) = At(t, p)
  <2>1. p \in 1 .. a + b
    BY <1>5
  <2>. QED BY <2>1, <1>4, <1>6
<1>. QED BY <1>2, <1>3, <1>5, <1>7 DEF Strands

\* lf_put adds a word behind the others.
LEMMA PutWordIn ==
    ASSUME NEW t, Strands(t), NEW w, NEW u, PutsWord(t, u, w)
    PROVE  /\ Strands(u) /\ Words(t) \in Nat /\ Words(u) = Words(t) + 1
           /\ \A p \in 1 .. Words(t) : At(u, p) = At(t, p)
           /\ At(u, Words(t) + 1) = w
<1>1. PICK a \in Nat, b \in Nat : Len(t.rcvd) = a /\ Len(t.sent) = b
  BY EmptyIs DEF Strands
<1>2. /\ IsSeq(u.sent) /\ Len(u.sent) = b + 1 /\ u.sent[b + 1] = w
      /\ \A p \in 1 .. b : u.sent[p] = t.sent[p]
  BY <1>1, AppendIs DEF Strands, PutsWord
<1>3. u.rcvd = t.rcvd
  BY DEF PutsWord
<1>4. /\ \A p \in 1 .. a + b : Joined(t.rcvd, u.sent, a, p) = Joined(t.rcvd, t.sent, a, p)
      /\ Joined(t.rcvd, u.sent, a, a + b + 1) = w
  <2>1. u.sent[b + 1] = w /\ \A p \in 1 .. b : u.sent[p] = t.sent[p]
    BY <1>2
  <2>2. JPut(t.sent, u.sent, w, b)
    BY <2>1 DEF JPut
  <2>3. Alike(t.rcvd, u.sent, a, t.rcvd, t.sent, a, a + b)
    BY <2>2, JoinedPut
  <2>4. ~(a + b + 1 <= a) /\ a + b + 1 - a = b + 1
    OBVIOUS
  <2>5. Joined(t.rcvd, u.sent, a, a + b + 1) = w
    BY <2>2, <2>4 DEF Joined, JPut
  <2>. QED BY <2>3, <2>5 DEF Alike
<1>5. Words(t) = a + b /\ Words(u) = a + (b + 1) /\ a + (b + 1) = a + b + 1
  BY <1>3, <1>1, <1>2 DEF Words
<1>6. \A p : At(u, p) = Joined(t.rcvd, u.sent, a, p) /\ At(t, p) = Joined(t.rcvd, t.sent, a, p)
  BY <1>3, <1>1, Zenon DEF At, Joined
<1>. QED BY <1>3, <1>2, <1>4, <1>5, <1>6 DEF Strands

\* linkf_serve takes the oldest word.
LEMMA TakeWord ==
    ASSUME NEW t, Strands(t), NEW u, TakesWord(t, u)
    PROVE  /\ Strands(u) /\ Words(t) \in Nat \ {0} /\ Words(u) = Words(t) - 1
           /\ \A p \in 1 .. Words(t) - 1 : At(u, p) = At(t, p + 1)
           /\ Head(t.rcvd) = At(t, 1)
<1>1. PICK a \in Nat, b \in Nat : Len(t.rcvd) = a /\ Len(t.sent) = b
  BY EmptyIs DEF Strands
<1>2. /\ IsSeq(u.rcvd) /\ a # 0 /\ Len(u.rcvd) = a - 1 /\ Head(t.rcvd) = t.rcvd[1]
      /\ \A p \in 1 .. a - 1 : u.rcvd[p] = t.rcvd[p + 1]
  BY <1>1, TailIs DEF Strands, TakesWord
<1>3. u.sent = t.sent
  BY DEF TakesWord
<1>4. /\ \A p \in 1 .. a + b - 1 : Joined(u.rcvd, t.sent, a - 1, p) = Joined(t.rcvd, t.sent, a, p + 1)
      /\ Joined(t.rcvd, t.sent, a, 1) = t.rcvd[1]
  <2>1. a \in Nat \ {0}
    BY <1>2
  <2>2. JTaken(t.rcvd, u.rcvd, a)
    BY <1>2 DEF JTaken
  <2>3. Ahead(u.rcvd, a - 1, t.rcvd, a, t.sent, a + b - 1) /\ Joined(t.rcvd, t.sent, a, 1) = t.rcvd[1]
    BY <2>1, <2>2, JoinedTaken
  <2>. QED BY <2>3 DEF Ahead
<1>5. Words(t) = a + b /\ a + b # 0 /\ Words(u) = (a - 1) + b /\ (a - 1) + b = a + b - 1
  BY <1>3, <1>1, <1>2 DEF Words
<1>6. \A p : At(u, p) = Joined(u.rcvd, t.sent, a - 1, p) /\ At(t, p) = Joined(t.rcvd, t.sent, a, p)
  BY <1>3, <1>1, <1>2, Zenon DEF At, Joined
<1>. QED BY <1>3, <1>2, <1>4, <1>5, <1>6 DEF Strands

-----------------------------------------------------------------------------

\* Places do not change when a word only moves along the wire.
LEMMA BurstsMoved ==
    ASSUME NEW g, NEW t, NEW u, Bursts(g, t), Words(u) = Words(t), Words(t) \in Nat,
           \A p \in 1 .. Words(t) : At(u, p) = At(t, p)
    PROVE  Bursts(g, u)
BY DEF Bursts

\* A word that follows the last one extends the places.
LEMMA BurstsExtended ==
    ASSUME NEW g, NEW t, NEW u, NEW w, NEW x, Bursts(g, t), Words(t) \in Nat, Words(u) = Words(t) + 1,
           \A p \in 1 .. Words(t) : At(u, p) = At(t, p), At(u, Words(t) + 1) = w,
           Place(x), Follows(g[Words(t)], x), Fits(w, x)
    PROVE  Bursts(Extended(g, Words(t), x), u)
<1> DEFINE n == Words(t)
           h == Extended(g, n, x)
<1>1. n \in Nat /\ \A p \in 0 .. n : h[p] = g[p]
  BY DEF Extended
<1>2. h[n + 1] = x
  BY <1>1 DEF Extended
<1> HIDE DEF h
<1>3. \A p \in 0 .. n + 1 : Place(h[p])
  BY <1>1, <1>2 DEF Bursts
<1>4. ASSUME NEW p \in 0 .. n PROVE Follows(h[p], h[p + 1])
  <2>1. CASE p < n
    <3>1. h[p] = g[p] /\ h[p + 1] = g[p + 1] /\ p \in 0 .. n - 1
      BY <2>1, <1>1
    <3>. QED BY <3>1 DEF Bursts
  <2>2. CASE p = n
    BY <2>2, <1>1, <1>2
  <2>. QED BY <2>1, <2>2, <1>1
<1>5. ASSUME NEW p \in 1 .. n + 1 PROVE Fits(At(u, p), h[p])
  BY <1>1, <1>2 DEF Bursts
<1>6. n + 1 - 1 = n
  BY <1>1
<1>. QED BY <1>3, <1>4, <1>5, <1>6 DEF Bursts, h

\* When the oldest word is taken the places move up.
LEMMA BurstsShifted ==
    ASSUME NEW g, NEW t, NEW u, Bursts(g, t), Words(t) \in Nat \ {0}, Words(u) = Words(t) - 1,
           \A p \in 1 .. Words(t) - 1 : At(u, p) = At(t, p + 1)
    PROVE  /\ Bursts(Shifted(g, Words(t)), u)
           /\ Shifted(g, Words(t))[0] = g[1]
           /\ Shifted(g, Words(t))[Words(u)] = g[Words(t)]
<1> DEFINE n == Words(t)
           h == Shifted(g, n)
<1>1. n \in Nat \ {0} /\ \A p \in 0 .. n - 1 : h[p] = g[p + 1]
  BY DEF Shifted
<1> HIDE DEF h
<1>2. \A p \in 0 .. n - 1 : Place(h[p])
  BY <1>1 DEF Bursts
<1>3. ASSUME NEW p \in 0 .. n - 1 - 1 PROVE Follows(h[p], h[p + 1])
  <2>1. h[p] = g[p + 1] /\ h[p + 1] = g[p + 1 + 1] /\ p + 1 \in 0 .. n - 1
    BY <1>1
  <2>. QED BY <2>1 DEF Bursts
<1>4. ASSUME NEW p \in 1 .. n - 1 PROVE Fits(At(u, p), h[p])
  BY <1>1 DEF Bursts
<1>5. h[0] = g[1] /\ h[n - 1] = g[n]
  BY <1>1
<1>. QED BY <1>2, <1>3, <1>4, <1>5 DEF Bursts, h

\* What a slot will hold, after a word was put.
LEMMA HoldsExtended ==
    ASSUME NEW g, NEW n \in Nat, NEW x, NEW k, NEW sv, NEW c,
           \/ Holds(g, n, k, sv, c) /\ ~(x.op = "write" /\ x.slot = k)
           \/ x.op = "write" /\ x.slot = k /\ x.of = c
    PROVE  Holds(Extended(g, n, x), n + 1, k, sv, c)
<1> DEFINE h == Extended(g, n, x)
<1>1. (\A p \in 0 .. n : h[p] = g[p]) /\ h[n + 1] = x
  BY DEF Extended
<1> HIDE DEF h
<1>2. CASE Holds(g, n, k, sv, c) /\ ~(x.op = "write" /\ x.slot = k)
  <2>1. Fills(h, n + 1, k) = Fills(g, n, k)
    BY <1>1, <1>2 DEF Fills
  <2>2. \A p \in Fills(g, n, k) : h[p].of = g[p].of
    BY <1>1 DEF Fills
  <2>. QED BY <2>1, <2>2, <1>2 DEF Holds, h
<1>3. CASE x.op = "write" /\ x.slot = k /\ x.of = c
  <2>1. n + 1 \in Fills(h, n + 1, k) /\ \A p \in Fills(h, n + 1, k) : p \in 0 .. n + 1
    BY <1>1, <1>3 DEF Fills
  <2>2. \A p \in Fills(h, n + 1, k) : (\A q \in Fills(h, n + 1, k) : q <= p) => p = n + 1
    BY <2>1
  <2>3. h[n + 1].of = c
    BY <1>1, <1>3
  <2>. QED BY <2>1, <2>2, <2>3 DEF Holds, h
<1>. QED BY <1>2, <1>3

\* What a slot will hold, after a word was taken.
LEMMA HoldsShifted ==
    ASSUME NEW g, NEW n \in Nat \ {0}, NEW k, NEW sv, NEW sv2, NEW c,
           Holds(g, n, k, sv, c), Partial(g[0], sv), Follows(g[0], g[1]), Place(g[0]),
           sv2[k] = sv[k] \/ (g[1].op = "write" /\ g[1].slot = k)
    PROVE  Holds(Shifted(g, n), n - 1, k, sv2, c)
<1> DEFINE h == Shifted(g, n)
           F == Fills(g, n, k)
           H == Fills(h, n - 1, k)
<1>1. \A p \in 0 .. n - 1 : h[p] = g[p + 1]
  BY DEF Shifted
<1> HIDE DEF h
<1>2. \A p \in 0 .. n - 1 : p \in H <=> p + 1 \in F
  BY <1>1 DEF Fills
<1>3. \A p \in F : p \in 0 .. n
  BY DEF Fills
<1>4. \A p \in H : p \in 0 .. n - 1
  BY DEF Fills
<1>5. ASSUME H = {} PROVE \A j \in 0 .. SecWords - 1 : sv2[k][j] = Word(c, j)
  <2>1. \A p \in F : p = 0
    <3>1. ASSUME NEW p \in F, p # 0 PROVE FALSE
      <4>1. p - 1 \in 0 .. n - 1 /\ p - 1 + 1 = p
        BY <3>1, <1>3
      <4>. QED BY <4>1, <1>2, <1>5
    <3>. QED BY <3>1
  <2>2. ~(g[1].op = "write" /\ g[1].slot = k)
    BY <1>5, <1>1 DEF Fills
  <2>3. CASE F = {}
    BY <2>3, <2>2 DEF Holds
  <2>4. CASE F # {}
    <3>1. 0 \in F /\ \A q \in F : q <= 0
      BY <2>4, <2>1
    <3>2. g[0].of = c /\ g[0].op = "write" /\ g[0].slot = k
      BY <3>1 DEF Holds, Fills
    <3>3. g[0].at = SecWords - 1
      BY <3>2, <2>2 DEF Follows, Ends
    <3>. QED BY <3>2, <3>3, <2>2 DEF Partial
  <2>. QED BY <2>3, <2>4
<1>6. ASSUME NEW p \in H, \A q \in H : q <= p PROVE h[p].of = c
  <2>1. p \in 0 .. n - 1 /\ p + 1 \in F /\ h[p] = g[p + 1]
    BY <1>1, <1>2, <1>4
  <2>2. ASSUME NEW q \in F PROVE q <= p + 1
    <3>1. CASE q = 0
      BY <3>1, <2>1
    <3>2. CASE q # 0
      <4>1. q - 1 \in 0 .. n - 1 /\ q - 1 + 1 = q
        BY <3>2, <1>3
      <4>2. q - 1 <= p
        BY <4>1, <1>2, <1>6
      <4>. QED BY <4>1, <4>2, <2>1
    <3>. QED BY <3>1, <3>2
  <2>. QED BY <2>1, <2>2 DEF Holds
<1>. QED BY <1>5, <1>6 DEF Holds, h

\* The sector a call is at.
CurOf(c) == c.first + c.i

\* The burst of the call at this moment.
Sends(c, cd, z) == z.slot = Slot(CurOf(c)) /\ z.op = c.op /\ (c.op = "write" => z.of = cd[CurOf(c)])

\* Where the word last put leaves the first chip.
Writer(c, cd, z) ==
    /\ c.pc = "count" => Sends(c, cd, z) /\ z.at = -2
    /\ c.pc = "send" => Sends(c, cd, z) /\ z.at = c.j - 1
    /\ c.pc = "receive" => Sends(c, cd, z) /\ z.at = -1
    /\ c.pc \in {"idle", "request", "done"} => Ends(z)

\* Where the word last taken leaves the second chip, n words being under way.
Reader(s, z, n) ==
    /\ s.pc \in {"request", "count", "write", "read"}
    /\ s.pc = "request" => Ends(z)
    /\ s.pc = "count" => z.at = -2 /\ z.op = s.op /\ z.slot = s.slot /\ s.i = 0
    /\ s.pc = "write" => z.op = "write" /\ z.slot = s.slot /\ s.n = SecWords /\ z.at = s.i - 1 /\ s.i < SecWords
    /\ s.pc = "read" => z.op = "read" /\ z.slot = s.slot /\ s.n = SecWords /\ z.at = -1 /\ s.i < SecWords /\ n = 0

\* The request to read that waits for an answer is the last thing sent.
Reads(g, n, c) == \A p \in 1 .. n : g[p].op = "read" /\ g[p].at = -1 => p = n /\ c.pc = "receive"

\* The call is filling slot k: its tag is not yet about what is under way.
Writing(c, k) == c.op = "write" /\ c.pc \in {"count", "send"} /\ Slot(CurOf(c)) = k

\* A tag is true of what its slot holds when all that is under way has arrived.
TagHolds(g, n, tg, bh, c, cd, sv, k) ==
    tg[k] # DC_EMPTY =>
        /\ tg[k] \in Sector /\ Slot(tg[k]) = k
        /\ tg[k] \notin bh /\ ~Writing(c, k) => Holds(g, n, k, sv, cd[tg[k]])

\* So is every tag.
Tagged(g, n, tg, bh, c, cd, sv) == \A k \in Index : TagHolds(g, n, tg, bh, c, cd, sv, k)

\* The places g of the words under way account for both ends and the tags.
Stream(g, t, s, c, cd, tg, bh, sv) ==
    /\ Bursts(g, t)
    /\ Reader(s, g[0], Words(t))
    /\ Writer(c, cd, g[Words(t)])
    /\ Reads(g, Words(t), c)
    /\ Partial(g[0], sv)
    /\ Tagged(g, Words(t), tg, bh, c, cd, sv)

\* Words the second chip has sent of the answer.
Returned(s, n) == IF s.pc = "read" THEN s.i ELSE IF s.pc = "request" /\ n = 0 THEN SecWords ELSE 0

\* The word w is the one at j of the current sector.
WordRight(w, c, cd, bh, j) == CurOf(c) \notin bh => w = Word(cd[CurOf(c)], j)

\* The call has got the word at j of its sector number i.
GotRight(c, bh, cd, i, j) == c.first + i \notin bh => c.got[i * SecWords + j + 1] = Word(cd[c.first + i], j)

\* The words under way to the first chip.
Answer(c, s, n, b, cd, bh) ==
    /\ c.pc = "receive" /\ b.framed =>
         /\ c.j + Len(b.rcvd) + Len(b.sent) = Returned(s, n)
         /\ \A j \in 0 .. c.j - 1 : GotRight(c, bh, cd, c.i, j)
         /\ \A p \in 1 .. Len(b.rcvd) : WordRight(b.rcvd[p], c, cd, bh, c.j + p - 1)
         /\ \A p \in 1 .. Len(b.sent) : WordRight(b.sent[p], c, cd, bh, c.j + Len(b.rcvd) + p - 1)
    /\ c.pc = "receive" /\ ~b.framed => c.j + Len(b.rcvd) + Len(b.sent) < Returned(s, n)
    /\ c.pc # "receive" => b.sent = <<>> /\ b.rcvd = <<>> /\ b.framed /\ s.pc # "read"

\* What a read has got so far is right.
Gotten(c, tg, bh, cd) ==
    c.op = "read" =>
        /\ \A s \in Range(c.first, c.count) : tg[Slot(s)] = s
        /\ c.pc = "done" => c.i = c.count - 1 /\ Len(c.got) = c.count * SecWords
        /\ c.pc # "done" => Len(c.got) = c.i * SecWords + c.j
        /\ \A i \in 0 .. c.i, j \in 0 .. SecWords - 1 :
             i < c.i \/ c.pc = "done" => GotRight(c, bh, cd, i, j)

\* The variables of a call in progress.
Steps(c) ==
    /\ c.op \in {"read", "write"} /\ Range(c.first, c.count) \subseteq Sector
    /\ c.i \in 0 .. c.count - 1 /\ c.j \in 0 .. SecWords - 1
    /\ c.pc \in {"request", "count"} => c.j = 0
    /\ c.pc = "send" => c.op = "write"
    /\ c.pc \in {"receive", "done"} => c.op = "read"

\* The call in progress.
Calling(c, tg, bh, cd) ==
    /\ c.pc \in {"idle", "request", "count", "send", "receive", "done"}
    /\ c.pc = "idle" => c = NoCall
    /\ c.pc # "idle" => Steps(c) /\ Gotten(c, tg, bh, cd)

\* Types of the call.
CallType(c) ==
    /\ c \in [pc : {"idle", "request", "count", "send", "receive", "done"},
              op : {"none", "read", "write"},
              first : Int, count : Nat, i : Nat, j : Nat, got : {c.got}]
    /\ IsSeq(c.got)

\* Types of the second chip.
SlaveType ==
    [pc : {"request", "count", "write", "read"}, op : {"none", "read", "write"},
     slot : Int, n : Nat, i : Nat]

\* The types of all variables.
LinkTypes ==
    /\ card \in [Sector -> Content] /\ tag \in [Index -> Sector \cup {DC_EMPTY}]
    /\ CallType(call)
    /\ there = [sent |-> there.sent, rcvd |-> there.rcvd] /\ Strands(there)
    /\ back = [sent |-> back.sent, rcvd |-> back.rcvd, framed |-> back.framed] /\ Strands(back)
    /\ back.framed \in BOOLEAN
    /\ slave \in SlaveType
    /\ \E X : served \in [Index -> [0 .. SecWords - 1 -> X]]

\* The invariant while the cache is on.
LinkWorks ==
    /\ LinkTypes
    /\ Calling(call, tag, behind, card)
    /\ Answer(call, slave, Words(there), back, card, behind)
    /\ \E g : Stream(g, there, slave, call, card, tag, behind, served)

\* Once the cache is off it stays off: no call uses it again.
LinkInv == IF on THEN LinkWorks ELSE call = NoCall

-----------------------------------------------------------------------------

\* What the constants give.
LEMMA Sizes ==
    /\ Slots \in Nat \ {0} /\ SecWords \in Nat \ {0} /\ Sector \subseteq Nat
    /\ \A x \in Int : Slot(x) \in Index
    /\ DC_EMPTY \notin Sector
BY DiskCacheAssumption DEF Slot, Index, DC_EMPTY

\* Numbers of words are numbers.
LEMMA WordsIsNat ==
    ASSUME NEW t, Strands(t)
    PROVE  Words(t) \in Nat /\ Len(t.rcvd) \in Nat /\ Len(t.sent) \in Nat
<1>1. IsSeq(t.rcvd) /\ IsSeq(t.sent)
  BY DEF Strands
<1>2. Len(t.rcvd) \in Nat /\ Len(t.sent) \in Nat
  BY <1>1, EmptyIs
<1>3. PICK a \in Nat, b \in Nat : Len(t.rcvd) = a /\ Len(t.sent) = b
  BY <1>2
<1>4. Words(t) = a + b
  BY <1>3 DEF Words
<1>. QED BY <1>2, <1>4

\* The fields of NoCall.
LEMMA NoCallType ==
    /\ NoCall.pc = "idle" /\ CallType(NoCall) /\ NoCall.op = "none"
    /\ NoCall.first = 0 /\ NoCall.count = 0 /\ NoCall.i = 0 /\ NoCall.j = 0 /\ NoCall.got = <<>>
<1>1. IsSeq(<<>>)
  BY EmptyIs
<1>. QED BY <1>1 DEF CallType, NoCall

\* The fields of Resting.
LEMMA RestingType ==
    /\ Resting \in SlaveType
    /\ Resting.pc = "request"
BY DEF Resting, SlaveType

\* dc_init establishes the invariant.
LEMMA InitWorks == ASSUME DcInit PROVE LinkInv
<1>1. LinkTypes
  <2>1. served \in [Index -> [0 .. SecWords - 1 -> {Noise}]]
    BY DEF DcInit, Index
  <2>2. tag \in [Index -> Sector \cup {DC_EMPTY}] /\ card \in [Sector -> Content]
    BY DEF DcInit, Index
  <2>3. CallType(call) /\ slave \in SlaveType
    BY NoCallType, RestingType DEF DcInit
  <2>4. /\ there = [sent |-> there.sent, rcvd |-> there.rcvd] /\ Strands(there)
        /\ back = [sent |-> back.sent, rcvd |-> back.rcvd, framed |-> back.framed] /\ Strands(back)
        /\ back.framed \in BOOLEAN
    BY EmptyIs DEF DcInit, Strands
  <2>. QED BY <2>1, <2>2, <2>3, <2>4 DEF LinkTypes
<1>2. Words(there) = 0
  BY EmptyIs DEF DcInit, Words
<1>3. Calling(call, tag, behind, card)
  BY NoCallType DEF DcInit, Calling
<1>4. Answer(call, slave, Words(there), back, card, behind)
  BY NoCallType, RestingType DEF DcInit, Answer
<1>5. \E g : Stream(g, there, slave, call, card, tag, behind, served)
  <2> DEFINE z == [op |-> "read", slot |-> 0, at |-> -1, of |-> Noise]
             g == [p \in 0 .. 0 |-> z]
  <2>1. g[0] = z /\ z.op = "read" /\ z.slot = 0 /\ z.at = -1
    OBVIOUS
  <2> HIDE DEF g, z
  <2>2. Bursts(g, there)
    BY <2>1, <1>2, Sizes DEF Bursts, Place, Index
  <2>3. Reader(slave, g[0], 0) /\ Writer(call, card, g[0]) /\ Reads(g, 0, call) /\ Partial(g[0], served)
    BY <2>1, NoCallType, RestingType DEF DcInit, Reader, Writer, Ends, Reads, Partial
  <2>4. Tagged(g, 0, tag, behind, call, card, served)
    BY DEF DcInit, Tagged, TagHolds, Index
  <2>. QED BY <2>2, <2>3, <2>4, <1>2 DEF Stream
<1>6. on = TRUE
  BY DEF DcInit
<1>. QED BY <1>1, <1>3, <1>4, <1>5, <1>6 DEF LinkInv, LinkWorks

\* A step of the first chip that sends nothing.
LEMMA StreamStays ==
    ASSUME NEW g, NEW t, NEW s, NEW c, NEW cd, NEW tg, NEW bh, NEW sv, Stream(g, t, s, c, cd, tg, bh, sv),
           NEW d, NEW cd2, NEW tg2, NEW bh2,
           Writer(d, cd2, g[Words(t)]),
           Reads(g, Words(t), d),
           \A k \in Index : TagHolds(g, Words(t), tg, bh, c, cd, sv, k)
                              => TagHolds(g, Words(t), tg2, bh2, d, cd2, sv, k)
    PROVE  Stream(g, t, s, d, cd2, tg2, bh2, sv)
BY DEF Stream, Tagged

\* While no call is in progress no request to read is under way.
LEMMA ReadsIdle ==
    ASSUME NEW g, NEW n, NEW c, NEW d, Reads(g, n, c), c.pc # "receive"
    PROVE  Reads(g, n, d)
BY DEF Reads

\* DiskRead preserves the invariant.
LEMMA DiskReadWorks ==
    ASSUME LinkInv, NEW s \in Sector, NEW n \in 1 .. MaxCount, DiskRead(s, n)
    PROVE  LinkInv'
<1> USE DEF LinkInv, LinkWorks
<1>1. on /\ on' /\ call = NoCall /\ LinkWorks /\ Range(s, n) \subseteq Sector
  BY DEF DiskRead, BetweenReads
<1>2. /\ UNCHANGED <<card, tag, there, back, slave, served, behind>>
      /\ call' = [NoCall EXCEPT !.pc = "request", !.first = s, !.count = n, !.op = call'.op]
      /\ call'.op \in {"read", "write"}
      /\ call'.op = "read" => \A x \in Range(s, n) : tag[Slot(x)] = x
  BY DEF DiskRead, linkvars, NoCall
<1>3. n \in Nat \ {0} /\ s \in Int
  BY Sizes, DiskCacheAssumption
<1>4. /\ CallType(call') /\ call'.pc = "request" /\ call'.first = s /\ call'.count = n
      /\ call'.i = 0 /\ call'.j = 0 /\ call'.got = <<>>
  BY <1>2, <1>3, EmptyIs DEF NoCall, CallType
<1>5. LinkTypes'
  BY <1>1, <1>2, <1>4 DEF LinkTypes
<1>6. Calling(call, tag, behind, card)'
  <2>1. 0 \in 0 .. n - 1 /\ 0 \in 0 .. SecWords - 1
    BY <1>3, Sizes
  <2>2. Steps(call')
    BY <1>1, <1>2, <1>3, <1>4, <2>1 DEF Steps
  <2>3. 0 * SecWords + 0 = 0 /\ Len(<<>>) = 0
    BY Sizes
  <2>4. Gotten(call', tag, behind, card)
    BY <1>2, <1>4, <2>3 DEF Gotten
  <2>. QED BY <2>2, <2>4, <1>2, <1>4 DEF Calling
<1>7. Answer(call, slave, Words(there), back, card, behind)'
  BY <1>1, <1>2, <1>4, NoCallType DEF Answer
<1>8. PICK g : Stream(g, there, slave, call, card, tag, behind, served)
  BY <1>1
<1>9. Stream(g, there, slave, call', card, tag, behind, served)
  <2>1. Writer(call', card, g[Words(there)])
    BY <1>8, <1>1, <1>4, NoCallType DEF Stream, Writer
  <2>2. Reads(g, Words(there), call')
    BY <1>8, <1>1, NoCallType, ReadsIdle DEF Stream
  <2>3. ASSUME NEW k \in Index, TagHolds(g, Words(there), tag, behind, call, card, served, k)
        PROVE  TagHolds(g, Words(there), tag, behind, call', card, served, k)
    BY <2>3, <1>1, NoCallType, <1>4 DEF TagHolds, Writing
  <2>. QED BY <1>8, <2>1, <2>2, <2>3, StreamStays
<1>. QED BY <1>1, <1>5, <1>6, <1>7, <1>9, <1>2

\* DiskWrite preserves the invariant.
LEMMA DiskWriteWorks ==
    ASSUME LinkInv, NEW s \in Sector, NEW n \in 1 .. MaxCount, DiskWrite(s, n)
    PROVE  LinkInv'
<1> USE DEF LinkInv, LinkWorks
<1>1. on /\ on' /\ call = NoCall /\ LinkWorks
  BY DEF DiskWrite, BetweenReads
<1>2. /\ UNCHANGED <<call, there, back, slave, served>>
      /\ behind' = behind \ Range(s, n)
      /\ tag' = DropTags(s, n)
  BY DEF DiskWrite, linkvars
<1>3. /\ card' \in [Sector -> Content]
      /\ \A x \in Sector : x \notin Range(s, n) => card'[x] = card[x]
  <2>1. PICK new \in [Range(s, n) -> Content] :
            card' = [x \in Sector |-> IF x \in Range(s, n) THEN new[x] ELSE card[x]]
    BY DEF DiskWrite
  <2>. QED BY <2>1, <1>1 DEF LinkTypes
<1>4. /\ tag' \in [Index -> Sector \cup {DC_EMPTY}]
      /\ \A k \in Index : tag'[k] # DC_EMPTY => tag'[k] = tag[k] /\ tag[k] \notin Range(s, n)
  BY <1>1, <1>2 DEF LinkTypes, DropTags
<1>5. LinkTypes'
  BY <1>1, <1>2, <1>3, <1>4 DEF LinkTypes
<1>6. Calling(call, tag, behind, card)'
  BY <1>1, <1>2, NoCallType DEF Calling
<1>7. Answer(call, slave, Words(there), back, card, behind)'
  BY <1>1, <1>2, NoCallType DEF Answer
<1>8. PICK g : Stream(g, there, slave, call, card, tag, behind, served)
  BY <1>1
<1>9. Stream(g, there, slave, call, card', tag', behind', served)
  <2>1. Writer(call, card', g[Words(there)])
    BY <1>8, <1>1, NoCallType DEF Stream, Writer
  <2>2. Reads(g, Words(there), call)
    BY <1>8 DEF Stream
  <2>3. ASSUME NEW k \in Index, TagHolds(g, Words(there), tag, behind, call, card, served, k)
        PROVE  TagHolds(g, Words(there), tag', behind', call, card', served, k)
    BY <2>3, <1>1, <1>2, <1>3, <1>4 DEF TagHolds
  <2>. QED BY <1>8, <2>1, <2>2, <2>3, StreamStays
<1>. QED BY <1>1, <1>5, <1>6, <1>7, <1>9, <1>2

\* CardChanges preserves the invariant.
LEMMA CardChangesWorks ==
    ASSUME LinkInv, CardChanges
    PROVE  LinkInv'
<1> USE DEF LinkInv, LinkWorks
<1>1. on /\ on' /\ call = NoCall /\ LinkWorks
  BY DEF CardChanges, BetweenReads
<1>2. /\ UNCHANGED <<call, there, back, slave, served, tag>>
      /\ card' \in [Sector -> Content]
      /\ behind' = behind \cup {x \in Sector : tag[Slot(x)] = x /\ card'[x] # card[x]}
  BY DEF CardChanges, linkvars
<1>3. LinkTypes'
  BY <1>1, <1>2 DEF LinkTypes
<1>4. Calling(call, tag, behind, card)'
  BY <1>1, <1>2, NoCallType DEF Calling
<1>5. Answer(call, slave, Words(there), back, card, behind)'
  BY <1>1, <1>2, NoCallType DEF Answer
<1>6. PICK g : Stream(g, there, slave, call, card, tag, behind, served)
  BY <1>1
<1>7. Stream(g, there, slave, call, card', tag, behind', served)
  <2>1. Writer(call, card', g[Words(there)])
    BY <1>6, <1>1, NoCallType DEF Stream, Writer
  <2>2. Reads(g, Words(there), call)
    BY <1>6 DEF Stream
  <2>3. ASSUME NEW k \in Index, TagHolds(g, Words(there), tag, behind, call, card, served, k)
        PROVE  TagHolds(g, Words(there), tag, behind', call, card', served, k)
    <3>1. tag[k] # DC_EMPTY => tag[k] \in Sector /\ Slot(tag[k]) = k
      BY <2>3 DEF TagHolds
    <3>2. tag[k] # DC_EMPTY /\ tag[k] \notin behind' => card'[tag[k]] = card[tag[k]] /\ tag[k] \notin behind
      BY <1>2, <3>1
    <3>. QED BY <2>3, <3>1, <3>2 DEF TagHolds
  <2>. QED BY <1>6, <2>1, <2>2, <2>3, StreamStays
<1>. QED BY <1>1, <1>3, <1>4, <1>5, <1>7, <1>2

\* Return preserves the invariant.
LEMMA ReturnWorks ==
    ASSUME LinkInv, Return
    PROVE  LinkInv'
<1> USE DEF LinkInv, LinkWorks
<1>1. call.pc = "done" /\ call' = NoCall /\ UNCHANGED <<card, tag, on, there, back, slave, served, behind>>
  BY DEF Return, linkvars
<1>2. on /\ LinkWorks
  BY <1>1, NoCallType
<1>3. LinkTypes'
  BY <1>1, <1>2, NoCallType DEF LinkTypes
<1>4. Calling(call, tag, behind, card)'
  BY <1>1, <1>2, NoCallType DEF Calling
<1>5. Answer(call, slave, Words(there), back, card, behind)'
  BY <1>1, <1>2, NoCallType DEF Answer
<1>6. PICK g : Stream(g, there, slave, call, card, tag, behind, served)
  BY <1>2
<1>7. Stream(g, there, slave, call', card, tag, behind, served)
  <2>1. Writer(call', card, g[Words(there)])
    BY <1>6, <1>1, NoCallType DEF Stream, Writer
  <2>2. Reads(g, Words(there), call')
    BY <1>6, <1>1, ReadsIdle DEF Stream
  <2>3. ASSUME NEW k \in Index, TagHolds(g, Words(there), tag, behind, call, card, served, k)
        PROVE  TagHolds(g, Words(there), tag, behind, call', card, served, k)
    BY <2>3, <1>1, NoCallType DEF TagHolds, Writing
  <2>. QED BY <1>6, <2>1, <2>2, <2>3, StreamStays
<1>. QED BY <1>1, <1>2, <1>3, <1>4, <1>5, <1>7

\* TimeOut preserves the invariant.
LEMMA TimeOutWorks ==
    ASSUME TimeOut
    PROVE  LinkInv'
BY DEF LinkInv, TimeOut

\* WireThere preserves the invariant.
LEMMA WireThereWorks ==
    ASSUME LinkInv, WireThere
    PROVE  LinkInv'
<1> USE DEF LinkInv, LinkWorks
<1>1. /\ UNCHANGED <<card, tag, on, call, back, slave, served, behind>>
      /\ \/ there' = there
         \/ there.sent # <<>> /\ there' = [sent |-> Tail(there.sent), rcvd |-> Append(there.rcvd, Head(there.sent))]
  BY DEF WireThere
<1>2. CASE ~on
  BY <1>1, <1>2
<1>3. CASE on /\ there' = there
  <2>1. LinkWorks
    BY <1>3
  <2>2. LinkTypes'
    BY <2>1, <1>1, <1>3 DEF LinkTypes
  <2>. QED BY <2>1, <2>2, <1>1, <1>3
<1>4. CASE on /\ there.sent # <<>> /\ there' = [sent |-> Tail(there.sent), rcvd |-> Append(there.rcvd, Head(there.sent))]
  <2>1. LinkWorks /\ on'
    BY <1>4, <1>1
  <2>2. MovesWord(there, there') /\ there' = [sent |-> there'.sent, rcvd |-> there'.rcvd]
    BY <1>4 DEF MovesWord
  <2>3. /\ Strands(there') /\ Words(there') = Words(there) /\ Words(there) \in Nat
        /\ \A p \in 1 .. Words(there) : At(there', p) = At(there, p)
    BY <2>1, <2>2, MoveWord DEF LinkTypes
  <2>4. LinkTypes'
    BY <2>1, <1>1, <2>2, <2>3 DEF LinkTypes
  <2>5. PICK g : Stream(g, there, slave, call, card, tag, behind, served)
    BY <2>1
  <2>6. Bursts(g, there')
    BY <2>5, <2>3, BurstsMoved DEF Stream
  <2>7. Stream(g, there', slave, call, card, tag, behind, served)
    BY <2>5, <2>6, <2>3 DEF Stream
  <2>. QED BY <2>1, <2>3, <2>4, <2>7, <1>1
<1>. QED BY <1>1, <1>2, <1>3, <1>4

\* A step of the first chip that sends a word.
LEMMA StreamPut ==
    ASSUME NEW g, NEW t, NEW s, NEW c, NEW cd, NEW tg, NEW bh, NEW sv, Stream(g, t, s, c, cd, tg, bh, sv),
           NEW u, NEW w, NEW x, NEW d, NEW tg2, NEW bh2,
           Strands(t), PutsWord(t, u, w), Place(x), Follows(g[Words(t)], x), Fits(w, x), Writer(d, cd, x),
           s.pc # "read", c.pc # "receive", x.op = "read" /\ x.at = -1 => d.pc = "receive",
           \A k \in Index : TagHolds(g, Words(t), tg, bh, c, cd, sv, k)
              => TagHolds(Extended(g, Words(t), x), Words(t) + 1, tg2, bh2, d, cd, sv, k)
    PROVE  \E h : Stream(h, u, s, d, cd, tg2, bh2, sv)
<1> DEFINE n == Words(t)
           h == Extended(g, n, x)
<1>1. /\ n \in Nat /\ Words(u) = n + 1
      /\ \A p \in 1 .. n : At(u, p) = At(t, p)
      /\ At(u, n + 1) = w
  BY PutWordIn
<1>2. Bursts(g, t)
  BY DEF Stream
<1>3. Bursts(h, u)
  BY <1>1, <1>2, BurstsExtended
<1>4. (\A p \in 0 .. n : h[p] = g[p]) /\ h[n + 1] = x
  BY <1>1 DEF Extended
<1>5. Tagged(h, n + 1, tg2, bh2, d, cd, sv)
  BY DEF Stream, Tagged
<1> HIDE DEF h
<1>6. Reads(h, n + 1, d)
  <2>1. Reads(g, n, c)
    BY DEF Stream
  <2>2. ASSUME NEW p \in 1 .. n + 1, h[p].op = "read" /\ h[p].at = -1 PROVE p = n + 1 /\ d.pc = "receive"
    <3>1. CASE p = n + 1
      BY <3>1, <2>2, <1>4
    <3>2. CASE p # n + 1
      <4>1. p \in 1 .. n /\ h[p] = g[p]
        BY <3>2, <1>1, <1>4
      <4>. QED BY <4>1, <2>1, <2>2 DEF Reads
    <3>. QED BY <3>1, <3>2
  <2>. QED BY <2>2 DEF Reads
<1>7. h[0] = g[0]
  BY <1>1, <1>4
<1>8. Reader(s, h[0], n + 1) /\ Partial(h[0], sv)
  BY <1>7 DEF Stream, Reader
<1>9. Writer(d, cd, h[n + 1])
  BY <1>4
<1> HIDE DEF n
<1>10. Stream(h, u, s, d, cd, tg2, bh2, sv)
  BY <1>1, <1>3, <1>5, <1>6, <1>8, <1>9 DEF Stream
<1>. QED BY <1>10

\* A call in progress is at a sector of the card, and its slot is one of the cache.
LEMMA CurrentIsSector ==
    ASSUME NEW c, CallType(c), Steps(c)
    PROVE  CurOf(c) \in Sector /\ Slot(CurOf(c)) \in Index /\ CurOf(c) \in Range(c.first, c.count)
<1>1. c.first \in Int /\ c.count \in Nat /\ c.i \in 0 .. c.count - 1 /\ Range(c.first, c.count) \subseteq Sector
  BY DEF CallType, Steps
<1>2. CurOf(c) \in Range(c.first, c.count)
  BY <1>1 DEF CurOf, Range
<1>3. CurOf(c) \in Sector
  BY <1>1, <1>2
<1>4. CurOf(c) \in Int
  BY <1>1 DEF CurOf
<1>. QED BY <1>2, <1>4, <1>3, Sizes

\* PutRequest preserves the invariant.
LEMMA PutRequestWorks ==
    ASSUME LinkInv, PutRequest
    PROVE  LinkInv'
<1> USE DEF LinkInv, LinkWorks
<1>1. /\ call.pc = "request" /\ UNCHANGED <<card, tag, on, back, slave, served, behind>>
      /\ there' = [there EXCEPT !.sent = Append(@, [op |-> call.op, slot |-> Slot(Current)])]
      /\ call' = [call EXCEPT !.pc = "count"]
  BY DEF PutRequest, Put
<1>2. on /\ LinkWorks
  BY <1>1, NoCallType
<1>3. /\ CallType(call') /\ call'.pc = "count" /\ call'.op = call.op /\ call'.first = call.first
      /\ call'.count = call.count /\ call'.i = call.i /\ call'.j = call.j /\ call'.got = call.got
  BY <1>1, <1>2 DEF CallType, LinkTypes
<1>4. Steps(call) /\ Gotten(call, tag, behind, card) /\ CallType(call)
  BY <1>1, <1>2 DEF Calling, LinkTypes
<1> DEFINE w == [op |-> call.op, slot |-> Slot(Current)]
           s == Current
           x == [op |-> call.op, slot |-> Slot(s), of |-> card[s], at |-> -2]
<1>5. s = CurOf(call) /\ s = CurOf(call') /\ s \in Sector /\ Slot(s) \in Index
  <2>1. Current = CurOf(call)
    BY DEF Current, CurOf
  <2>2. CurOf(call') = CurOf(call)
    BY <1>3 DEF CurOf
  <2>. QED BY <2>1, <2>2, <1>4, CurrentIsSector
<1>6. PutsWord(there, there', w) /\ there' = [sent |-> there'.sent, rcvd |-> there'.rcvd] /\ Strands(there)
  BY <1>1, <1>2 DEF PutsWord, LinkTypes
<1> HIDE DEF w
<1>7. Strands(there')
  BY <1>6, PutWordIn
<1>8. LinkTypes'
  BY <1>1, <1>2, <1>3, <1>6, <1>7 DEF LinkTypes
<1>9. Calling(call, tag, behind, card)'
  <2>1. Steps(call')
    BY <1>1, <1>3, <1>4 DEF Steps
  <2>2. Gotten(call', tag, behind, card)
    BY <1>1, <1>3, <1>4 DEF Gotten, GotRight
  <2>. QED BY <2>1, <2>2, <1>1, <1>3 DEF Calling
<1>10. Answer(call, slave, Words(there), back, card, behind)'
  BY <1>1, <1>2, <1>3 DEF Answer
<1>11. PICK g : Stream(g, there, slave, call, card, tag, behind, served)
  BY <1>2
<1>12. x.op = call.op /\ x.slot = Slot(s) /\ x.of = card[s] /\ x.at = -2
  OBVIOUS
<1>13. w = [op |-> x.op, slot |-> x.slot]
  BY <1>12 DEF w
<1> HIDE DEF x
<1> HIDE DEF s
<1>14. Place(x) /\ Follows(g[Words(there)], x) /\ Fits(w, x) /\ Writer(call', card, x)
  <2>1. Place(x)
    BY <1>12, <1>5, <1>4, Sizes DEF Place, Steps
  <2>2. Follows(g[Words(there)], x)
    BY <1>11, <1>1, <1>12 DEF Stream, Writer, Follows
  <2>3. Fits(w, x)
    BY <1>12, <1>13 DEF Fits
  <2>4. Writer(call', card, x)
    BY <1>12, <1>3, <1>5 DEF Writer, Sends
  <2>. QED BY <2>1, <2>2, <2>3, <2>4
<1>15. slave.pc # "read" /\ call.pc # "receive" /\ ~(x.op = "read" /\ x.at = -1)
  BY <1>1, <1>2, <1>12 DEF Answer
<1>16. Words(there) \in Nat
  BY <1>6, WordsIsNat
<1>17. ASSUME NEW k \in Index, TagHolds(g, Words(there), tag, behind, call, card, served, k)
      PROVE  TagHolds(Extended(g, Words(there), x), Words(there) + 1, tag, behind, call', card, served, k)
  <2>1. ~Writing(call, k)
    BY <1>1 DEF Writing
  <2>2. CASE Writing(call', k)
    BY <2>2, <1>17 DEF TagHolds
  <2>3. CASE ~Writing(call', k)
    <3>1. ~(x.op = "write" /\ x.slot = k)
      BY <2>3, <1>3, <1>5, <1>12 DEF Writing
    <3>2. ASSUME NEW cc, Holds(g, Words(there), k, served, cc)
          PROVE  Holds(Extended(g, Words(there), x), Words(there) + 1, k, served, cc)
      BY <3>1, <3>2, <1>16, HoldsExtended
    <3>. QED BY <3>2, <2>1, <1>17 DEF TagHolds
  <2>. QED BY <2>2, <2>3
<1>18. \E h : Stream(h, there', slave, call', card, tag, behind, served)
  BY <1>6, <1>11, <1>14, <1>15, <1>17, StreamPut
<1>. QED BY <1>1, <1>2, <1>8, <1>9, <1>10, <1>18

\* PutCount preserves the invariant.
LEMMA PutCountWorks ==
    ASSUME LinkInv, PutCount
    PROVE  LinkInv'
<1> USE DEF LinkInv, LinkWorks
<1>1. /\ call.pc = "count" /\ UNCHANGED <<card, tag, on, back, slave, served, behind>>
      /\ there' = [there EXCEPT !.sent = Append(@, [n |-> SecWords])]
      /\ call' = [call EXCEPT !.pc = IF call.op = "read" THEN "receive" ELSE "send"]
  BY DEF PutCount, Put
<1>2. on /\ LinkWorks
  BY <1>1, NoCallType
<1>3. /\ CallType(call') /\ call'.op = call.op /\ call'.first = call.first
      /\ call'.count = call.count /\ call'.i = call.i /\ call'.j = call.j /\ call'.got = call.got
      /\ call'.pc = IF call.op = "read" THEN "receive" ELSE "send"
  BY <1>1, <1>2 DEF CallType, LinkTypes
<1>4. Steps(call) /\ Gotten(call, tag, behind, card) /\ CallType(call)
  BY <1>1, <1>2 DEF Calling, LinkTypes
<1>5. PICK g : Stream(g, there, slave, call, card, tag, behind, served)
  BY <1>2
<1> DEFINE w == [n |-> SecWords]
           N == Words(there)
           s == Slot(CurOf(call))
           x == [op |-> call.op, slot |-> s, of |-> g[N].of, at |-> -1]
<1>6. /\ CurOf(call) = CurOf(call') /\ CurOf(call) \in Sector /\ s \in Index
      /\ x.op = call.op /\ x.slot = s /\ x.of = g[N].of /\ x.at = -1
      /\ w = [n |-> SecWords]
  <2>1. CurOf(call') = CurOf(call)
    BY <1>3 DEF CurOf
  <2>. QED BY <2>1, <1>4, CurrentIsSector
<1>7. PutsWord(there, there', w) /\ there' = [sent |-> there'.sent, rcvd |-> there'.rcvd] /\ Strands(there)
  BY <1>1, <1>2 DEF PutsWord, LinkTypes
<1> HIDE DEF w, x, s, N
<1>8. Strands(there') /\ N \in Nat /\ Words(there') = N + 1
  BY <1>7, PutWordIn DEF N
<1>9. LinkTypes'
  BY <1>1, <1>2, <1>3, <1>7, <1>8 DEF LinkTypes
<1>10. Calling(call, tag, behind, card)'
  <2>1. Steps(call')
    BY <1>1, <1>3, <1>4 DEF Steps
  <2>2. Gotten(call', tag, behind, card)
    BY <1>1, <1>3, <1>4 DEF Gotten, GotRight
  <2>. QED BY <2>1, <2>2, <1>1, <1>3 DEF Calling
<1>11. Answer(call, slave, Words(there), back, card, behind)'
  <2>1. slave.pc # "read" /\ back.sent = <<>> /\ back.rcvd = <<>> /\ back.framed
    BY <1>1, <1>2 DEF Answer
  <2>2. call'.j = 0
    BY <1>1, <1>3, <1>4 DEF Steps
  <2>3. Returned(slave, N + 1) = 0
    BY <2>1, <1>8 DEF Returned
  <2>4. Len(<<>>) = 0
    OBVIOUS
  <2>5. Answer(call', slave, N + 1, back, card, behind)
    BY <2>1, <2>2, <2>3, <2>4 DEF Answer
  <2>. QED BY <2>5, <1>1, <1>8
<1>12. Sends(call, card, g[N]) /\ g[N].at = -2
  BY <1>5, <1>1 DEF Stream, Writer, N
<1>13. Place(x) /\ Follows(g[N], x) /\ Fits(w, x) /\ Writer(call', card, x)
  <2>1. Place(x)
    BY <1>6, <1>4, Sizes DEF Place, Steps
  <2>2. Follows(g[N], x)
    BY <1>12, <1>6, Sizes DEF Follows, Ends, Sends, s
  <2>3. Fits(w, x)
    BY <1>6 DEF Fits
  <2>4. Writer(call', card, x)
    <3>1. x.slot = Slot(CurOf(call')) /\ x.op = call'.op /\ (call'.op = "write" => x.of = card[CurOf(call')])
      BY <1>6, <1>12, <1>3 DEF Sends, s
    <3>2. call'.pc \in {"receive", "send"} /\ (call'.pc = "send" => call'.j = 0)
      BY <1>1, <1>3, <1>4 DEF Steps
    <3>. QED BY <3>1, <3>2, <1>6 DEF Writer, Sends
  <2>. QED BY <2>1, <2>2, <2>3, <2>4
<1>14. slave.pc # "read" /\ call.pc # "receive" /\ (x.op = "read" /\ x.at = -1 => call'.pc = "receive")
  BY <1>1, <1>2, <1>3, <1>6 DEF Answer
<1>15. ASSUME NEW k \in Index, TagHolds(g, N, tag, behind, call, card, served, k)
      PROVE  TagHolds(Extended(g, N, x), N + 1, tag, behind, call', card, served, k)
  <2>1. Writing(call, k) <=> Writing(call', k)
    BY <1>1, <1>3, <1>6 DEF Writing
  <2>2. CASE Writing(call', k)
    BY <2>2, <1>15 DEF TagHolds
  <2>3. CASE ~Writing(call', k)
    <3>1. ~(x.op = "write" /\ x.slot = k)
      BY <2>3, <1>3, <1>6 DEF Writing, s
    <3>2. ASSUME NEW cc, Holds(g, N, k, served, cc)
          PROVE  Holds(Extended(g, N, x), N + 1, k, served, cc)
      BY <3>1, <3>2, <1>8, HoldsExtended
    <3>. QED BY <3>2, <2>1, <1>15 DEF TagHolds
  <2>. QED BY <2>2, <2>3
<1>16. \E h : Stream(h, there', slave, call', card, tag, behind, served)
  BY <1>7, <1>5, <1>13, <1>14, <1>15, StreamPut DEF N
<1>. QED BY <1>1, <1>2, <1>9, <1>10, <1>11, <1>16

\* PutWord preserves the invariant.
LEMMA PutWordWorks ==
    ASSUME LinkInv, PutWord
    PROVE  LinkInv'
<1> USE DEF LinkInv, LinkWorks
<1> DEFINE last == ~(call.j + 1 < SecWords)
<1>1. /\ call.pc = "send" /\ UNCHANGED <<card, on, back, slave, served>>
      /\ there' = [there EXCEPT !.sent = Append(@, Word(card[Current], call.j))]
      /\ ~last => call' = [call EXCEPT !.j = @ + 1] /\ UNCHANGED <<tag, behind>>
      /\ last => /\ tag' = [tag EXCEPT ![Slot(Current)] = Current]
                 /\ behind' = behind \ {Current}
                 /\ call' = NextSector(call, NoCall)
  BY DEF PutWord, Put
<1>2. on /\ LinkWorks
  BY <1>1, NoCallType
<1>3. Steps(call) /\ Gotten(call, tag, behind, card) /\ CallType(call) /\ call.op = "write"
  BY <1>1, <1>2 DEF Calling, LinkTypes, Steps
<1>4. /\ call.j \in Nat /\ call.i \in Nat /\ call.count \in Nat /\ call.i + 1 <= call.count
      /\ call.j <= SecWords - 1 /\ SecWords \in Nat \ {0}
  BY <1>3, Sizes DEF CallType, Steps
<1>5. Current = CurOf(call)
  BY DEF Current, CurOf
<1>6. ASSUME ~last
      PROVE  /\ CallType(call') /\ call'.op = "write" /\ call'.first = call.first
             /\ call'.count = call.count /\ call'.i = call.i /\ call'.j = call.j + 1 /\ call'.pc = "send"
  <2>1. call' = [call EXCEPT !.j = call.j + 1] /\ call.j + 1 \in Nat
    BY <1>6, <1>1, <1>4
  <2>2. /\ call'.op = "write" /\ call'.first = call.first /\ call'.got = call.got
        /\ call'.count = call.count /\ call'.i = call.i /\ call'.j = call.j + 1 /\ call'.pc = "send"
    BY <2>1, <1>1, <1>3 DEF CallType
  <2>. QED BY <2>1, <2>2, <1>3 DEF CallType
<1>7. ASSUME last
      PROVE  \/ /\ CallType(call') /\ call'.op = "write" /\ call'.first = call.first
                /\ call'.count = call.count /\ call'.i = call.i + 1 /\ call'.j = 0 /\ call'.pc = "request"
                /\ call.i + 1 < call.count
             \/ call' = NoCall
  <2>1. CASE call.i + 1 < call.count
    <3>1. call' = [call EXCEPT !.pc = "request", !.i = @ + 1, !.j = 0]
      BY <2>1, <1>7, <1>1 DEF NextSector
    <3>2. /\ call'.op = "write" /\ call'.first = call.first
          /\ call'.count = call.count /\ call'.i = call.i + 1 /\ call'.j = 0 /\ call'.pc = "request"
          /\ call'.got = call.got
      BY <3>1, <1>3 DEF CallType
    <3>3. call.i + 1 \in Nat
      BY <1>4
    <3>4. CallType(call')
      BY <3>1, <3>2, <3>3, <1>3 DEF CallType
    <3>. QED BY <2>1, <3>2, <3>4
  <2>2. CASE ~(call.i + 1 < call.count)
    BY <2>2, <1>7, <1>1 DEF NextSector
  <2>. QED BY <2>1, <2>2
<1>8. CallType(call') /\ (call'.pc = "request" \/ call'.pc = "idle" \/ call'.pc = "send")
  BY <1>6, <1>7, NoCallType
<1> HIDE DEF last
<1>9. PICK g : Stream(g, there, slave, call, card, tag, behind, served)
  BY <1>2
<1> DEFINE w == Word(card[Current], call.j)
           N == Words(there)
           s == Slot(CurOf(call))
           x == [op |-> "write", slot |-> s, of |-> card[Current], at |-> call.j]
<1>10. /\ CurOf(call) \in Sector /\ s \in Index
       /\ x.op = "write" /\ x.slot = s /\ x.of = card[CurOf(call)] /\ x.at = call.j
       /\ w = Word(x.of, x.at)
  BY <1>3, <1>5, CurrentIsSector
<1>11. PutsWord(there, there', w) /\ there' = [sent |-> there'.sent, rcvd |-> there'.rcvd] /\ Strands(there)
  BY <1>1, <1>2 DEF PutsWord, LinkTypes
<1> HIDE DEF w, x, s, N
<1>12. Strands(there') /\ N \in Nat /\ Words(there') = N + 1
  BY <1>11, PutWordIn DEF N
<1>13. /\ tag' \in [Index -> Sector \cup {DC_EMPTY}]
       /\ last => tag'[s] = CurOf(call) /\ \A k \in Index : k # s => tag'[k] = tag[k]
  BY <1>1, <1>2, <1>10, <1>5 DEF LinkTypes, s
<1>14. LinkTypes'
  BY <1>1, <1>2, <1>8, <1>13, <1>11, <1>12 DEF LinkTypes
<1>15. Calling(call, tag, behind, card)'
  <2>1. CASE ~last
    <3>1. Steps(call')
      BY <2>1, <1>6, <1>3, <1>4, <1>1 DEF Steps, last
    <3>. QED BY <2>1, <3>1, <1>6 DEF Calling, Gotten
  <2>2. CASE last /\ call' = NoCall
    BY <2>2, NoCallType DEF Calling
  <2>3. CASE last /\ call' # NoCall
    <3>1. Steps(call')
      BY <2>3, <1>7, <1>3, <1>4 DEF Steps
    <3>. QED BY <2>3, <3>1, <1>7 DEF Calling, Gotten
  <2>. QED BY <2>1, <2>2, <2>3
<1>16. Answer(call, slave, Words(there), back, card, behind)'
  BY <1>1, <1>2, <1>8 DEF Answer
<1>17. Sends(call, card, g[N]) /\ g[N].at = call.j - 1
  BY <1>9, <1>1 DEF Stream, Writer, N
<1>18. last => x.at = SecWords - 1
  BY <1>10, <1>4 DEF last
<1>19. Place(x) /\ Follows(g[N], x) /\ Fits(w, x) /\ Writer(call', card, x)
  <2>1. Place(x)
    BY <1>10, <1>4 DEF Place
  <2>2. Follows(g[N], x)
    <3>1. g[N].op = "write" /\ g[N].slot = s /\ g[N].of = card[CurOf(call)] /\ g[N].at = call.j - 1
      BY <1>17, <1>3 DEF Sends, s
    <3>2. ~Ends(g[N]) /\ x.at = g[N].at + 1
      BY <3>1, <1>10, <1>4 DEF Ends
    <3>. QED BY <3>1, <3>2, <1>10 DEF Follows
  <2>3. Fits(w, x)
    BY <1>10, <1>4 DEF Fits
  <2>4. Writer(call', card, x)
    <3>1. CASE last
      BY <3>1, <1>18, <1>7, NoCallType DEF Writer, Ends
    <3>2. CASE ~last
      <4>1. CurOf(call') = CurOf(call)
        BY <3>2, <1>6 DEF CurOf
      <4>2. x.slot = Slot(CurOf(call')) /\ x.op = call'.op /\ x.of = card[CurOf(call')]
        BY <4>1, <3>2, <1>10, <1>6 DEF s
      <4>3. x.at = call'.j - 1 /\ call'.pc = "send"
        BY <3>2, <1>4, <1>10, <1>6
      <4>. QED BY <4>2, <4>3 DEF Writer, Sends
    <3>. QED BY <3>1, <3>2
  <2>. QED BY <2>1, <2>2, <2>3, <2>4
<1>20. slave.pc # "read" /\ call.pc # "receive" /\ ~(x.op = "read" /\ x.at = -1)
  BY <1>1, <1>2, <1>10 DEF Answer
<1>21. ASSUME NEW k \in Index, TagHolds(g, N, tag, behind, call, card, served, k)
      PROVE  TagHolds(Extended(g, N, x), N + 1, tag', behind', call', card, served, k)
  <2>1. CASE k = s
    <3>1. Holds(Extended(g, N, x), N + 1, k, served, card[CurOf(call)])
      BY <2>1, <1>10, <1>12, HoldsExtended
    <3>2. CASE last
      BY <3>1, <3>2, <2>1, <1>13, <1>10 DEF TagHolds, s
    <3>3. CASE ~last
      <4>1. Writing(call', k)
        <5>1. CurOf(call') = CurOf(call)
          BY <3>3, <1>6 DEF CurOf
        <5>. QED BY <3>3, <5>1, <2>1, <1>6 DEF Writing, s
      <4>. QED BY <4>1, <3>3, <1>21, <1>1 DEF TagHolds
    <3>. QED BY <3>2, <3>3
  <2>2. CASE k # s
    <3>1. ~Writing(call, k)
      BY <2>2 DEF Writing, s
    <3>2. ~(x.op = "write" /\ x.slot = k)
      BY <2>2, <1>10
    <3>3. ASSUME NEW cc, Holds(g, N, k, served, cc)
          PROVE  Holds(Extended(g, N, x), N + 1, k, served, cc)
      BY <3>2, <3>3, <1>12, HoldsExtended
    <3>4. tag'[k] = tag[k]
      BY <2>2, <1>13, <1>1
    <3>5. tag[k] # DC_EMPTY /\ tag[k] \notin behind' => tag[k] \notin behind
      BY <1>21, <2>2, <1>1, <1>5 DEF TagHolds, s
    <3>. QED BY <3>1, <3>3, <3>4, <3>5, <1>21 DEF TagHolds
  <2>. QED BY <2>1, <2>2
<1>22. \E h : Stream(h, there', slave, call', card, tag', behind', served)
  BY <1>11, <1>9, <1>19, <1>20, <1>21, StreamPut DEF N
<1>. QED BY <1>1, <1>2, <1>14, <1>15, <1>16, <1>22

\* Sectors in a buffer do not overlap.
LEMMA Apart ==
    ASSUME NEW i \in Nat, NEW k \in Nat, NEW j \in 0 .. SecWords - 1, i < k
    PROVE  /\ i * SecWords + j + 1 \in 1 .. k * SecWords
           /\ i * SecWords \in Nat /\ k * SecWords \in Nat
<1>1. SecWords \in Nat \ {0}
  BY Sizes
<1>2. PICK d \in Nat : k = i + 1 + d
  <2>1. k - i - 1 \in Nat /\ k = i + 1 + (k - i - 1)
    OBVIOUS
  <2>. QED BY <2>1
<1>3. k * SecWords = i * SecWords + SecWords + d * SecWords
  BY <1>1, <1>2
<1>4. i * SecWords \in Nat /\ k * SecWords \in Nat /\ d * SecWords \in Nat
  BY <1>1
<1>. QED BY <1>1, <1>3, <1>4

\* GetWord preserves the invariant.
LEMMA GetWordWorks ==
    ASSUME LinkInv, GetWord
    PROVE  LinkInv'
<1> USE DEF LinkInv, LinkWorks
<1> DEFINE last == ~(call.j + 1 < SecWords)
           w == Head(back.rcvd)
           got == Append(call.got, w)
<1>1. /\ call.pc = "receive" /\ UNCHANGED <<card, tag, on, there, slave, served, behind>>
      /\ back.rcvd # <<>> /\ back' = [back EXCEPT !.rcvd = Tail(@)]
      /\ ~last => call' = [call EXCEPT !.got = got, !.j = call.j + 1]
      /\ last => call' = NextSector([call EXCEPT !.got = got], [call EXCEPT !.got = got, !.pc = "done"])
  <2>1. call.pc = "receive" /\ UNCHANGED <<card, tag, on, there, slave, served, behind>>
        /\ back.rcvd # <<>> /\ back' = [back EXCEPT !.rcvd = Tail(@)]
    BY DEF GetWord
  <2>2. ~last => call' = [[call EXCEPT !.got = got] EXCEPT !.j = @ + 1]
    BY DEF GetWord
  <2>3. last => call' = NextSector([call EXCEPT !.got = got], [[call EXCEPT !.got = got] EXCEPT !.pc = "done"])
    BY DEF GetWord
  <2>. QED BY <2>1, <2>2, <2>3
<1>2. on /\ LinkWorks
  BY <1>1, NoCallType
<1>3. Steps(call) /\ Gotten(call, tag, behind, card) /\ CallType(call) /\ call.op = "read"
  BY <1>1, <1>2 DEF Calling, LinkTypes, Steps
<1>4. /\ call.j \in Nat /\ call.i \in Nat /\ call.count \in Nat /\ call.i + 1 <= call.count
      /\ call.j <= SecWords - 1 /\ SecWords \in Nat \ {0}
  BY <1>3, Sizes DEF CallType, Steps
<1>5. /\ IsSeq(got) /\ Len(call.got) \in Nat /\ Len(got) = Len(call.got) + 1 /\ got[Len(call.got) + 1] = w
      /\ \A p \in 1 .. Len(call.got) : got[p] = call.got[p]
  BY <1>3, AppendIs DEF CallType
<1>6. /\ IsSeq(back.rcvd) /\ IsSeq(back.sent)
      /\ IsSeq(Tail(back.rcvd)) /\ Len(back.rcvd) \in Nat /\ Len(back.rcvd) >= 1
      /\ Len(Tail(back.rcvd)) = Len(back.rcvd) - 1 /\ w = back.rcvd[1] /\ Len(back.sent) \in Nat
      /\ \A p \in 1 .. Len(back.rcvd) - 1 : Tail(back.rcvd)[p] = back.rcvd[p + 1]
  BY <1>1, <1>2, TailIs, EmptyIs DEF LinkTypes, Strands
<1>7. /\ back'.rcvd = Tail(back.rcvd) /\ back'.sent = back.sent /\ back'.framed = back.framed
      /\ back' = [sent |-> back'.sent, rcvd |-> back'.rcvd, framed |-> back'.framed]
  BY <1>1, <1>2 DEF LinkTypes
<1> HIDE DEF got, w
<1>8. ASSUME ~last
      PROVE  /\ call'.op = "read" /\ call'.first = call.first /\ call'.got = got
             /\ call'.count = call.count /\ call'.i = call.i /\ call'.j = call.j + 1 /\ call'.pc = "receive"
             /\ CallType(call')
  <2>1. call' = [call EXCEPT !.got = got, !.j = call.j + 1]
    BY <1>8, <1>1
  <2>2. /\ call'.op = "read" /\ call'.first = call.first /\ call'.got = got
        /\ call'.count = call.count /\ call'.i = call.i /\ call'.j = call.j + 1 /\ call'.pc = "receive"
    BY <2>1, <1>1, <1>3 DEF CallType
  <2>3. call.j + 1 \in Nat
    BY <1>4
  <2>. QED BY <2>1, <2>2, <2>3, <1>3, <1>5 DEF CallType
<1>9. ASSUME last
      PROVE  /\ call'.op = "read" /\ call'.first = call.first /\ call'.got = got /\ call'.count = call.count
             /\ CallType(call')
             /\ \/ call'.i = call.i + 1 /\ call'.j = 0 /\ call'.pc = "request" /\ call.i + 1 < call.count
                \/ call'.i = call.i /\ call'.j = call.j /\ call'.pc = "done" /\ call.i = call.count - 1
  <2>1. [call EXCEPT !.got = got].i = call.i /\ [call EXCEPT !.got = got].count = call.count
    BY <1>3 DEF CallType
  <2>2. CASE call.i + 1 < call.count
    <3>1. call' = [[call EXCEPT !.got = got] EXCEPT !.pc = "request", !.i = @ + 1, !.j = 0]
      BY <2>1, <2>2, <1>9, <1>1 DEF NextSector
    <3>2. call' = [call EXCEPT !.got = got, !.pc = "request", !.i = call.i + 1, !.j = 0]
      BY <3>1, <2>1
    <3>3. /\ call'.op = "read" /\ call'.first = call.first /\ call'.got = got /\ call'.count = call.count
          /\ call'.i = call.i + 1 /\ call'.j = 0 /\ call'.pc = "request"
      BY <3>2, <1>3 DEF CallType
    <3>4. call.i + 1 \in Nat
      BY <1>4
    <3>. QED BY <2>2, <3>2, <3>3, <3>4, <1>3, <1>5 DEF CallType
  <2>3. CASE ~(call.i + 1 < call.count)
    <3>1. call' = [call EXCEPT !.got = got, !.pc = "done"]
      BY <2>1, <2>3, <1>9, <1>1 DEF NextSector
    <3>2. /\ call'.op = "read" /\ call'.first = call.first /\ call'.got = got /\ call'.count = call.count
          /\ call'.i = call.i /\ call'.j = call.j /\ call'.pc = "done"
      BY <3>1, <1>3 DEF CallType
    <3>3. call.i = call.count - 1
      BY <2>3, <1>4
    <3>. QED BY <3>1, <3>2, <3>3, <1>3, <1>5 DEF CallType
  <2>. QED BY <2>2, <2>3
<1>10. CallType(call')
  BY <1>8, <1>9
<1>11. LinkTypes'
  BY <1>1, <1>2, <1>10, <1>7, <1>6 DEF LinkTypes, Strands
<1> DEFINE N == Words(there)
           R == Len(back.rcvd)
           T == Len(back.sent)
<1>12. N \in Nat /\ R \in Nat /\ R >= 1 /\ T \in Nat
  BY <1>2, <1>6, WordsIsNat DEF LinkTypes
<1>13. PICK g : Stream(g, there, slave, call, card, tag, behind, served)
  BY <1>2
<1>14. slave.pc = "read" => slave.i < SecWords /\ slave.i \in Nat
  BY <1>13, <1>2 DEF Stream, Reader, LinkTypes, SlaveType
<1>15. /\ Returned(slave, N) \in Nat /\ Returned(slave, N) <= SecWords
       /\ Returned(slave, N) = SecWords => slave.pc = "request" /\ N = 0
  BY <1>14, <1>4 DEF Returned
<1>16. /\ back.framed =>
            /\ call.j + R + T = Returned(slave, N)
            /\ \A j \in 0 .. call.j - 1 : GotRight(call, behind, card, call.i, j)
            /\ \A p \in 1 .. R : WordRight(back.rcvd[p], call, card, behind, call.j + p - 1)
            /\ \A p \in 1 .. T : WordRight(back.sent[p], call, card, behind, call.j + R + p - 1)
       /\ ~back.framed => call.j + R + T < Returned(slave, N)
  BY <1>1, <1>2 DEF Answer
<1>17. last => back.framed /\ R = 1 /\ T = 0 /\ slave.pc = "request" /\ N = 0 /\ call.j = SecWords - 1
  <2>1. PICK a \in Nat, r \in Nat, s \in Nat, v \in Nat : call.j = a /\ R = r /\ T = s /\ Returned(slave, N) = v
    BY <1>4, <1>12, <1>15
  <2>2. r >= 1 /\ v <= SecWords /\ (back.framed => a + r + s = v) /\ (~back.framed => a + r + s < v)
    BY <2>1, <1>12, <1>15, <1>16
  <2>3. last => a >= SecWords - 1
    BY <2>1, <1>4
  <2> HIDE DEF last, N, R, T
  <2>4. last => back.framed /\ r = 1 /\ s = 0 /\ v = SecWords /\ a = SecWords - 1
    BY <2>2, <2>3, <1>4
  <2>. QED BY <2>1, <2>4, <1>15
<1>18. Len(call.got) = call.i * SecWords + call.j /\ call.i * SecWords \in Nat
  BY <1>1, <1>3, <1>4 DEF Gotten
<1>19. ASSUME NEW i \in 0 .. call.i, NEW j \in 0 .. SecWords - 1, i < call.i \/ j < call.j
       PROVE  got[i * SecWords + j + 1] = call.got[i * SecWords + j + 1]
  <2>1. CASE i < call.i
    <3>1. i * SecWords + j + 1 \in 1 .. call.i * SecWords
      BY <2>1, <1>4, Apart
    <3>2. PICK a \in Nat, b \in Nat : call.i * SecWords = a /\ call.j = b
      BY <1>18, <1>4
    <3>3. i * SecWords + j + 1 \in 1 .. a /\ Len(call.got) = a + b
      BY <3>1, <3>2, <1>18
    <3>4. i * SecWords + j + 1 \in 1 .. Len(call.got)
      BY <3>3
    <3>. QED BY <3>4, <1>5
  <2>2. CASE i = call.i
    <3>1. i * SecWords + j + 1 \in 1 .. Len(call.got)
      <4>1. PICK a \in Nat, b \in Nat : call.i * SecWords = a /\ call.j = b
        BY <1>18, <1>4
      <4>2. i * SecWords = a /\ Len(call.got) = a + b /\ j < b
        BY <2>2, <4>1, <1>18, <1>19, <1>4
      <4>. QED BY <4>2
    <3>. QED BY <3>1, <1>5
  <2>. QED BY <2>1, <2>2, <1>19, <1>4
<1>20. back.framed => (CurOf(call) \notin behind => got[call.i * SecWords + call.j + 1] = Word(card[CurOf(call)], call.j))
  <2>1. 1 \in 1 .. R /\ call.j + 1 - 1 = call.j
    BY <1>12, <1>4
  <2>2. back.framed => WordRight(back.rcvd[1], call, card, behind, call.j)
    BY <2>1, <1>16
  <2>. QED BY <2>2, <1>6, <1>5, <1>18 DEF WordRight
<1>21. CurOf(call) = call.first + call.i
  BY DEF CurOf
<1>22. Calling(call, tag, behind, card)'
  <2>1. Steps(call')
    <3>1. CASE ~last
      BY <3>1, <1>8, <1>3, <1>4 DEF Steps
    <3>2. CASE last
      BY <3>2, <1>9, <1>3, <1>4 DEF Steps
    <3>. QED BY <3>1, <3>2
  <2>2. Gotten(call', tag, behind, card)
    <3>1. \A s \in Range(call'.first, call'.count) : tag[Slot(s)] = s
      BY <1>3, <1>8, <1>9 DEF Gotten
    <3>2. ASSUME NEW i \in 0 .. call.i, NEW j \in 0 .. SecWords - 1, i < call.i
          PROVE  GotRight(call', behind, card, i, j)
      <4>1. GotRight(call, behind, card, i, j)
        BY <1>3, <3>2 DEF Gotten
      <4>2. call'.first = call.first /\ call'.got = got
        BY <1>8, <1>9
      <4>. QED BY <4>1, <4>2, <1>19, <3>2 DEF GotRight
    <3>3. CASE ~last
      <4>1. Len(got) = call.i * SecWords + (call.j + 1)
        BY <1>18, <1>5, <1>4
      <4>. QED BY <3>1, <3>2, <3>3, <4>1, <1>8 DEF Gotten
    <3>4. CASE last
      <4>1. ASSUME NEW j \in 0 .. SecWords - 1 PROVE GotRight(call', behind, card, call.i, j)
        <5>1. call'.first = call.first /\ call'.got = got
          BY <3>4, <1>9
        <5>2. CASE j = call.j
          BY <5>1, <5>2, <1>20, <1>17, <3>4, <1>21 DEF GotRight
        <5>3. CASE j # call.j
          <6>1. j \in 0 .. call.j - 1 /\ j < call.j
            BY <5>3, <1>17, <3>4, <1>4
          <6>2. GotRight(call, behind, card, call.i, j)
            <7>1. back.framed
              BY <1>17, <3>4
            <7>. QED BY <6>1, <7>1, <1>16
          <6>3. got[call.i * SecWords + j + 1] = call.got[call.i * SecWords + j + 1]
            BY <6>1, <1>19, <1>4
          <6>. QED BY <5>1, <6>2, <6>3 DEF GotRight
        <5>. QED BY <5>2, <5>3
      <4>2. \A i \in 0 .. call.i, j \in 0 .. SecWords - 1 : GotRight(call', behind, card, i, j)
        BY <4>1, <3>2, <1>4
      <4>3. Len(got) = (call.i + 1) * SecWords
        BY <1>18, <1>5, <1>4, <1>17, <3>4
      <4>4. CASE call'.pc = "request"
        <5>1. call'.i = call.i + 1 /\ call'.j = 0 /\ call'.got = got
          BY <3>4, <4>4, <1>9
        <5>2. (call.i + 1) * SecWords = (call.i + 1) * SecWords + 0
          BY <1>4
        <5>3. \A i \in 0 .. call.i + 1 : i < call.i + 1 => i \in 0 .. call.i
          BY <1>4
        <5>. QED BY <5>1, <5>2, <5>3, <4>2, <4>3, <4>4, <3>1 DEF Gotten
      <4>5. CASE call'.pc = "done"
        <5>1. call'.i = call.i /\ call'.got = got /\ call'.count = call.count /\ call.i = call.count - 1
          BY <3>4, <4>5, <1>9
        <5>2. call.i + 1 = call.count
          BY <5>1, <1>4
        <5>. QED BY <5>1, <5>2, <4>2, <4>3, <4>5, <3>1 DEF Gotten
      <4>. QED BY <4>4, <4>5, <3>4, <1>9
    <3>. QED BY <3>3, <3>4
  <2>3. call'.pc \in {"request", "receive", "done"} /\ UNCHANGED <<tag, behind, card>>
    BY <1>1, <1>8, <1>9
  <2>. QED BY <2>1, <2>2, <2>3 DEF Calling
<1>23. Answer(call, slave, Words(there), back, card, behind)'
  <2>1. CASE ~last
    <3>1. call'.pc = "receive" /\ CurOf(call') = CurOf(call) /\ call'.j = call.j + 1 /\ call'.i = call.i
          /\ call'.got = got /\ call'.first = call.first
      BY <2>1, <1>8 DEF CurOf
    <3>2. call.j + 1 + Len(back'.rcvd) + Len(back'.sent) = call.j + R + T
      BY <1>7, <1>6, <1>12, <1>4
    <3>3. ASSUME back.framed, NEW j \in 0 .. call.j PROVE GotRight(call', behind, card, call.i, j)
      <4>1. CASE j = call.j
        BY <4>1, <3>1, <3>3, <1>20, <1>21 DEF GotRight
      <4>2. CASE j # call.j
        <5>1. j \in 0 .. call.j - 1 /\ j < call.j /\ j \in 0 .. SecWords - 1 /\ call.i \in 0 .. call.i
          BY <4>2, <1>4
        <5>2. GotRight(call, behind, card, call.i, j)
          BY <5>1, <1>16, <3>3
        <5>3. got[call.i * SecWords + j + 1] = call.got[call.i * SecWords + j + 1]
          BY <5>1, <1>19
        <5>. QED BY <3>1, <5>2, <5>3 DEF GotRight
      <4>. QED BY <4>1, <4>2
    <3>4. ASSUME back.framed, NEW p \in 1 .. R - 1 PROVE WordRight(back'.rcvd[p], call', card, behind, call.j + 1 + p - 1)
      <4>1. p + 1 \in 1 .. R /\ call.j + 1 + p - 1 = call.j + (p + 1) - 1
        BY <1>12, <1>4
      <4>2. WordRight(back.rcvd[p + 1], call, card, behind, call.j + (p + 1) - 1)
        BY <4>1, <1>16, <3>4
      <4>3. back'.rcvd[p] = back.rcvd[p + 1]
        BY <1>7, <1>6
      <4>4. WordRight(back'.rcvd[p], call, card, behind, call.j + 1 + p - 1)
        BY <4>1, <4>2, <4>3
      <4>. QED BY <4>4, <3>1 DEF WordRight
    <3>5. ASSUME back.framed, NEW p \in 1 .. T PROVE WordRight(back'.sent[p], call', card, behind, call.j + 1 + (R - 1) + p - 1)
      <4> HIDE DEF N, R, T
      <4>1. call.j + 1 + (R - 1) + p - 1 = call.j + R + p - 1
        BY <1>12, <1>4
      <4>2. WordRight(back.sent[p], call, card, behind, call.j + R + p - 1)
        BY <1>16, <3>5
      <4>3. WordRight(back'.sent[p], call, card, behind, call.j + 1 + (R - 1) + p - 1)
        BY <4>1, <4>2, <1>7
      <4>. QED BY <4>3, <3>1 DEF WordRight
    <3>6. Len(back'.rcvd) = R - 1 /\ Len(back'.sent) = T
      BY <1>7, <1>6
    <3>7. call'.j - 1 = call.j
      BY <3>1, <1>4
    <3> HIDE DEF N, R, T
    <3>8. Answer(call', slave, N, back', card, behind)
      BY <3>1, <3>2, <3>3, <3>4, <3>5, <3>6, <3>7, <1>16, <1>7 DEF Answer
    <3>. QED BY <3>8, <1>1 DEF N
  <2>2. CASE last
    <3>1. call'.pc # "receive" /\ back.framed /\ slave.pc # "read"
      BY <2>2, <1>9, <1>17
    <3>2. back'.rcvd = <<>> /\ back'.sent = <<>> /\ back'.framed
      BY <2>2, <1>7, <1>6, <1>17, EmptyIs
    <3>. QED BY <3>1, <3>2, <1>1 DEF Answer
  <2>. QED BY <2>1, <2>2
<1>24. Stream(g, there, slave, call', card, tag, behind, served)
  <2>1. Writer(call', card, g[Words(there)])
    <3>1. Sends(call, card, g[Words(there)]) /\ g[Words(there)].at = -1
      BY <1>13, <1>1 DEF Stream, Writer
    <3>2. CASE ~last
      <4>1. CurOf(call') = CurOf(call)
        BY <3>2, <1>8 DEF CurOf
      <4>. QED BY <3>1, <3>2, <4>1, <1>8, <1>3 DEF Writer, Sends
    <3>3. CASE last
      BY <3>1, <3>3, <1>9, <1>3 DEF Writer, Sends, Ends
    <3>. QED BY <3>2, <3>3
  <2>2. Reads(g, Words(there), call')
    <3>1. CASE ~last
      BY <3>1, <1>13, <1>8 DEF Stream, Reads
    <3>2. CASE last
      BY <3>2, <1>17 DEF Reads
    <3>. QED BY <3>1, <3>2
  <2>3. ASSUME NEW k \in Index, TagHolds(g, Words(there), tag, behind, call, card, served, k)
        PROVE  TagHolds(g, Words(there), tag, behind, call', card, served, k)
    BY <2>3, <1>3, <1>8, <1>9 DEF TagHolds, Writing
  <2>. QED BY <1>13, <2>1, <2>2, <2>3, StreamStays
<1>. QED BY <1>1, <1>2, <1>11, <1>22, <1>23, <1>24

\* WireBack preserves the invariant.
LEMMA WireBackWorks ==
    ASSUME LinkInv, WireBack
    PROVE  LinkInv'
<1> USE DEF LinkInv, LinkWorks
<1> DEFINE full == Len(back.rcvd) >= Depth
           w == IF back.framed THEN Head(back.sent) ELSE Noise
<1>1. /\ UNCHANGED <<card, tag, on, call, there, slave, served, behind>> /\ back.sent # <<>>
      /\ back' = [sent |-> Tail(back.sent),
                  rcvd |-> IF full THEN back.rcvd ELSE Append(back.rcvd, w),
                  framed |-> back.framed /\ ~full]
  BY DEF WireBack
<1>2. CASE ~on
  BY <1>1, <1>2
<1>3. CASE on
  <2>1. LinkWorks
    BY <1>3
  <2>2. /\ IsSeq(back.rcvd) /\ IsSeq(back.sent) /\ back.framed \in BOOLEAN
    BY <2>1 DEF LinkTypes, Strands
  <2>3. PICK r \in Nat, s \in Nat : Len(back.rcvd) = r /\ Len(back.sent) = s
    BY <2>2, EmptyIs
  <2>4. /\ IsSeq(Tail(back.sent)) /\ s >= 1 /\ Len(Tail(back.sent)) = s - 1 /\ Head(back.sent) = back.sent[1]
        /\ \A p \in 1 .. s - 1 : Tail(back.sent)[p] = back.sent[p + 1]
    BY <2>2, <2>3, <1>1, TailIs
  <2>5. /\ IsSeq(Append(back.rcvd, w)) /\ Len(Append(back.rcvd, w)) = r + 1 /\ Append(back.rcvd, w)[r + 1] = w
        /\ \A p \in 1 .. r : Append(back.rcvd, w)[p] = back.rcvd[p]
    BY <2>2, <2>3, AppendIs
  <2>6. /\ back'.sent = Tail(back.sent) /\ back'.framed = (back.framed /\ ~full)
        /\ full => back'.rcvd = back.rcvd
        /\ ~full => back'.rcvd = Append(back.rcvd, w)
        /\ back' = [sent |-> back'.sent, rcvd |-> back'.rcvd, framed |-> back'.framed]
    BY <1>1
  <2>7. back.framed => w = Head(back.sent)
    OBVIOUS
  <2> HIDE DEF w, full
  <2>8. IsSeq(back'.sent) /\ IsSeq(back'.rcvd) /\ back'.framed \in BOOLEAN
    BY <2>2, <2>4, <2>5, <2>6
  <2>9. LinkTypes'
    BY <2>1, <1>1, <2>6, <2>8 DEF LinkTypes, Strands
  <2>10. call.pc = "receive"
    BY <2>1, <1>1 DEF Answer
  <2>11. PICK j \in Nat : call.j = j
    BY <2>1 DEF LinkTypes, CallType
  <2> DEFINE v == Returned(slave, Words(there))
  <2>12. v \in Int
    BY <2>1, Sizes DEF Returned, LinkTypes, SlaveType
  <2>13. /\ back.framed =>
             /\ j + r + s = v
             /\ \A k \in 0 .. j - 1 : GotRight(call, behind, card, call.i, k)
             /\ \A p \in 1 .. r : WordRight(back.rcvd[p], call, card, behind, j + p - 1)
             /\ \A p \in 1 .. s : WordRight(back.sent[p], call, card, behind, j + r + p - 1)
         /\ ~back.framed => j + r + s < v
    BY <2>1, <2>3, <2>10, <2>11 DEF Answer
  <2> HIDE DEF v
  <2>14. CASE full
    <3>1. ~back'.framed /\ Len(back'.rcvd) = r /\ Len(back'.sent) = s - 1
      BY <2>14, <2>3, <2>4, <2>6
    <3>2. j + r + (s - 1) < v
      BY <2>12, <2>13, <2>2
    <3>3. Answer(call, slave, Words(there), back', card, behind)
      BY <3>1, <3>2, <2>10, <2>11 DEF Answer, v
    <3>. QED BY <3>3, <2>1, <2>9, <1>1
  <2>15. CASE ~full /\ ~back.framed
    <3>1. ~back'.framed /\ Len(back'.rcvd) = r + 1 /\ Len(back'.sent) = s - 1
      BY <2>15, <2>4, <2>5, <2>6
    <3>2. j + (r + 1) + (s - 1) < v
      BY <2>12, <2>13, <2>15
    <3>3. Answer(call, slave, Words(there), back', card, behind)
      BY <3>1, <3>2, <2>10, <2>11 DEF Answer, v
    <3>. QED BY <3>3, <2>1, <2>9, <1>1
  <2>16. CASE ~full /\ back.framed
    <3>1. back'.framed /\ Len(back'.rcvd) = r + 1 /\ Len(back'.sent) = s - 1
      BY <2>16, <2>4, <2>5, <2>6
    <3>2. j + (r + 1) + (s - 1) = v
      BY <2>12, <2>13, <2>16
    <3>3. ASSUME NEW p \in 1 .. r + 1 PROVE WordRight(back'.rcvd[p], call, card, behind, j + p - 1)
      <4>1. CASE p = r + 1
        <5>1. WordRight(back.sent[1], call, card, behind, j + r + 1 - 1)
          BY <2>13, <2>16, <2>4
        <5>2. back'.rcvd[r + 1] = back.sent[1]
          BY <2>16, <2>4, <2>5, <2>6, <2>7
        <5>3. j + p - 1 = j + r + 1 - 1
          BY <4>1
        <5>. QED BY <4>1, <5>1, <5>2, <5>3
      <4>2. CASE p # r + 1
        <5>1. p \in 1 .. r
          BY <4>2
        <5>. QED BY <5>1, <2>5, <2>6, <2>13, <2>16
      <4>. QED BY <4>1, <4>2
    <3>4. ASSUME NEW p \in 1 .. s - 1 PROVE WordRight(back'.sent[p], call, card, behind, j + (r + 1) + p - 1)
      <4>1. p + 1 \in 1 .. s /\ j + (r + 1) + p - 1 = j + r + (p + 1) - 1
        OBVIOUS
      <4>2. WordRight(back.sent[p + 1], call, card, behind, j + r + (p + 1) - 1)
        BY <4>1, <2>13, <2>16
      <4>. QED BY <4>1, <4>2, <2>4, <2>6
    <3>5. \A k \in 0 .. j - 1 : GotRight(call, behind, card, call.i, k)
      BY <2>13, <2>16
    <3>6. Answer(call, slave, Words(there), back', card, behind)
      BY <3>1, <3>2, <3>3, <3>4, <3>5, <2>10, <2>11 DEF Answer, v
    <3>. QED BY <3>6, <2>1, <2>9, <1>1
  <2>. QED BY <2>14, <2>15, <2>16
<1>. QED BY <1>2, <1>3

\* A step of the second chip that takes a word.
LEMMA StreamTake ==
    ASSUME NEW g, NEW t, NEW s, NEW c, NEW cd, NEW tg, NEW bh, NEW sv, Stream(g, t, s, c, cd, tg, bh, sv),
           NEW u, NEW s2, NEW sv2,
           Strands(t), TakesWord(t, u), Reader(s2, g[1], Words(t) - 1), Partial(g[1], sv2),
           \A k \in Index : sv2[k] = sv[k] \/ (g[1].op = "write" /\ g[1].slot = k)
    PROVE  \E h : Stream(h, u, s2, c, cd, tg, bh, sv2)
<1> DEFINE n == Words(t)
           h == Shifted(g, n)
<1>1. /\ n \in Nat \ {0} /\ Words(u) = n - 1
      /\ \A p \in 1 .. n - 1 : At(u, p) = At(t, p + 1)
  BY TakeWord
<1>2. Bursts(g, t) /\ Partial(g[0], sv) /\ Reads(g, n, c) /\ Writer(c, cd, g[n])
  BY DEF Stream
<1>3. Bursts(h, u) /\ h[0] = g[1] /\ h[n - 1] = g[n]
  BY <1>1, <1>2, BurstsShifted
<1>4. \A p \in 0 .. n - 1 : h[p] = g[p + 1]
  BY <1>1 DEF Shifted
<1>5. Follows(g[0], g[1]) /\ Place(g[0])
  <2>1. 0 \in 0 .. n - 1 /\ 0 \in 0 .. n /\ 0 + 1 = 1
    BY <1>1
  <2>. QED BY <1>2, <2>1 DEF Bursts
<1>6. ASSUME NEW k \in Index PROVE TagHolds(h, n - 1, tg, bh, c, cd, sv2, k)
  <2>1. TagHolds(g, n, tg, bh, c, cd, sv, k)
    BY DEF Stream, Tagged
  <2>2. sv2[k] = sv[k] \/ (g[1].op = "write" /\ g[1].slot = k)
    OBVIOUS
  <2> HIDE DEF n
  <2>3. ASSUME NEW cc, Holds(g, n, k, sv, cc) PROVE Holds(h, n - 1, k, sv2, cc)
    BY <2>2, <2>3, <1>1, <1>2, <1>5, HoldsShifted
  <2> HIDE DEF h
  <2>. QED BY <2>1, <2>3 DEF TagHolds
<1> HIDE DEF h
<1>7. Reads(h, n - 1, c)
  <2>1. ASSUME NEW p \in 1 .. n - 1, h[p].op = "read" /\ h[p].at = -1 PROVE p = n - 1 /\ c.pc = "receive"
    <3>1. p + 1 \in 1 .. n /\ h[p] = g[p + 1]
      BY <1>1, <1>4
    <3>2. p + 1 = n /\ c.pc = "receive"
      BY <3>1, <2>1, <1>2 DEF Reads
    <3>. QED BY <3>2, <1>1
  <2>. QED BY <2>1 DEF Reads
<1>8. Stream(h, u, s2, c, cd, tg, bh, sv2)
  BY <1>1, <1>2, <1>3, <1>6, <1>7 DEF Stream, Tagged
<1>. QED BY <1>8

\* The next word, and what it is.
LEMMA NextWord ==
    ASSUME NEW g, NEW t, Bursts(g, t), Strands(t), t.rcvd # <<>>
    PROVE  /\ Words(t) \in Nat \ {0}
           /\ Follows(g[0], g[1]) /\ Fits(Head(t.rcvd), g[1]) /\ Place(g[0]) /\ Place(g[1])
<1>1. TakesWord(t, [sent |-> t.sent, rcvd |-> Tail(t.rcvd)])
  BY DEF TakesWord
<1>2. Words(t) \in Nat \ {0} /\ Head(t.rcvd) = At(t, 1)
  BY <1>1, TakeWord
<1>3. 0 \in 0 .. Words(t) - 1 /\ 0 \in 0 .. Words(t) /\ 1 \in 0 .. Words(t) /\ 1 \in 1 .. Words(t) /\ 0 + 1 = 1
  BY <1>2
<1>. QED BY <1>2, <1>3 DEF Bursts

\* ServeRequest preserves the invariant.
LEMMA ServeRequestWorks ==
    ASSUME LinkInv, ServeRequest
    PROVE  LinkInv'
<1> USE DEF LinkInv, LinkWorks
<1> DEFINE req == Head(there.rcvd)
           N == Words(there)
<1>1. /\ UNCHANGED <<card, tag, on, call, back, served, behind>>
      /\ slave.pc = "request" /\ there.rcvd # <<>>
      /\ there' = [there EXCEPT !.rcvd = Tail(@)]
      /\ slave' = [Resting EXCEPT !.pc = "count", !.op = req.op, !.slot = req.slot]
  BY DEF ServeRequest, Take
<1>2. CASE ~on
  BY <1>1, <1>2
<1>3. CASE on
  <2>1. LinkWorks
    BY <1>3
  <2>2. PICK g : Stream(g, there, slave, call, card, tag, behind, served)
    BY <2>1
  <2>3. TakesWord(there, there') /\ there' = [sent |-> there'.sent, rcvd |-> there'.rcvd] /\ Strands(there)
    BY <2>1, <1>1 DEF TakesWord, LinkTypes
  <2>4. Strands(there') /\ Words(there') = N - 1
    BY <2>3, TakeWord
  <2>5. N \in Nat \ {0} /\ Follows(g[0], g[1]) /\ Fits(req, g[1]) /\ Place(g[0]) /\ Place(g[1])
    BY <2>2, <2>3, <1>1, NextWord DEF Stream
  <2> HIDE DEF req, N
  <2>6. g[1].at = -2 /\ req = [op |-> g[1].op, slot |-> g[1].slot]
    BY <2>2, <2>5, <1>1 DEF Stream, Reader, Follows, Fits
  <2>7. req.op = g[1].op /\ req.slot = g[1].slot /\ req.op \in {"read", "write"} /\ req.slot \in Int
    BY <2>5, <2>6 DEF Place, Index
  <2>8. slave' \in SlaveType /\ slave'.pc = "count" /\ slave'.op = req.op /\ slave'.slot = req.slot /\ slave'.i = 0
    BY <1>1, <2>7 DEF SlaveType, Resting
  <2>9. LinkTypes'
    BY <2>1, <1>1, <2>3, <2>4, <2>8 DEF LinkTypes
  <2>10. Answer(call, slave, Words(there), back, card, behind)'
    <3>1. Returned(slave, N) = 0 /\ Returned(slave', N - 1) = 0
      BY <1>1, <2>5, <2>8 DEF Returned
    <3>2. Answer(call, slave', N - 1, back, card, behind)
      BY <2>1, <3>1, <2>8 DEF Answer, N
    <3>. QED BY <3>2, <1>1, <2>4
  <2>11. Reader(slave', g[1], N - 1) /\ Partial(g[1], served)
    BY <2>6, <2>7, <2>8 DEF Reader, Partial
  <2>12. \E h : Stream(h, there', slave', call, card, tag, behind, served)
    BY <2>2, <2>3, <2>11, StreamTake DEF N
  <2>. QED BY <2>1, <2>9, <2>10, <2>12, <1>1
<1>. QED BY <1>2, <1>3

\* ServeCount preserves the invariant.
LEMMA ServeCountWorks ==
    ASSUME LinkInv, ServeCount
    PROVE  LinkInv'
<1> USE DEF LinkInv, LinkWorks
<1> DEFINE w == Head(there.rcvd)
           N == Words(there)
<1>1. /\ UNCHANGED <<card, tag, on, call, back, served, behind>>
      /\ slave.pc = "count" /\ there.rcvd # <<>>
      /\ there' = [there EXCEPT !.rcvd = Tail(@)]
      /\ slave' = [slave EXCEPT !.pc = slave.op, !.n = w.n]
  BY DEF ServeCount, Take
<1>2. CASE ~on
  BY <1>1, <1>2
<1>3. CASE on
  <2>1. LinkWorks
    BY <1>3
  <2>2. PICK g : Stream(g, there, slave, call, card, tag, behind, served)
    BY <2>1
  <2>3. TakesWord(there, there') /\ there' = [sent |-> there'.sent, rcvd |-> there'.rcvd] /\ Strands(there)
    BY <2>1, <1>1 DEF TakesWord, LinkTypes
  <2>4. Strands(there') /\ Words(there') = N - 1
    BY <2>3, TakeWord
  <2>5. N \in Nat \ {0} /\ Follows(g[0], g[1]) /\ Fits(w, g[1]) /\ Place(g[0]) /\ Place(g[1])
    BY <2>2, <2>3, <1>1, NextWord DEF Stream
  <2> HIDE DEF w, N
  <2>6. g[0].at = -2 /\ g[0].op = slave.op /\ g[0].slot = slave.slot /\ slave.i = 0
    BY <2>2, <1>1 DEF Stream, Reader
  <2>7. g[1].at = -1 /\ g[1].op = slave.op /\ g[1].slot = slave.slot /\ w = [n |-> SecWords]
    BY <2>5, <2>6, Sizes DEF Follows, Ends, Fits
  <2>8. w.n = SecWords /\ slave.op \in {"read", "write"} /\ SecWords \in Nat \ {0}
    BY <2>5, <2>7, Sizes DEF Place
  <2>9. /\ slave' \in SlaveType /\ slave'.pc = slave.op /\ slave'.slot = slave.slot /\ slave'.i = 0
        /\ slave'.n = SecWords
    BY <1>1, <2>1, <2>6, <2>8 DEF SlaveType, LinkTypes
  <2>10. slave.op = "read" => N = 1 /\ call.pc = "receive"
    BY <2>2, <2>5, <2>7 DEF Stream, Reads, N
  <2>11. LinkTypes'
    BY <2>1, <1>1, <2>3, <2>4, <2>9 DEF LinkTypes
  <2>12. Answer(call, slave, Words(there), back, card, behind)'
    <3>1. Returned(slave, N) = 0 /\ Returned(slave', N - 1) = 0
      BY <1>1, <2>8, <2>9 DEF Returned
    <3>2. call.pc # "receive" => slave'.pc # "read"
      BY <2>9, <2>10
    <3>3. Answer(call, slave', N - 1, back, card, behind)
      BY <2>1, <3>1, <3>2 DEF Answer, N
    <3>. QED BY <3>3, <1>1, <2>4
  <2>13. Reader(slave', g[1], N - 1) /\ Partial(g[1], served)
    <3>1. N = 1 => N - 1 = 0
      OBVIOUS
    <3>. QED BY <3>1, <2>7, <2>8, <2>9, <2>10 DEF Reader, Partial
  <2>14. \E h : Stream(h, there', slave', call, card, tag, behind, served)
    BY <2>2, <2>3, <2>13, StreamTake DEF N
  <2>. QED BY <2>1, <2>11, <2>12, <2>14, <1>1
<1>. QED BY <1>2, <1>3

\* ServeWrite preserves the invariant.
LEMMA ServeWriteWorks ==
    ASSUME LinkInv, ServeWrite
    PROVE  LinkInv'
<1> USE DEF LinkInv, LinkWorks
<1> DEFINE w == Head(there.rcvd)
           N == Words(there)
<1>1. /\ UNCHANGED <<card, tag, on, call, back, behind>>
      /\ slave.pc = "write" /\ there.rcvd # <<>>
      /\ there' = [there EXCEPT !.rcvd = Tail(@)]
      /\ served' = [served EXCEPT ![slave.slot][slave.i] = w]
      /\ slave' = Served
  BY DEF ServeWrite, Take
<1>2. CASE ~on
  BY <1>1, <1>2
<1>3. CASE on
  <2>1. LinkWorks
    BY <1>3
  <2>2. PICK g : Stream(g, there, slave, call, card, tag, behind, served)
    BY <2>1
  <2>3. TakesWord(there, there') /\ there' = [sent |-> there'.sent, rcvd |-> there'.rcvd] /\ Strands(there)
    BY <2>1, <1>1 DEF TakesWord, LinkTypes
  <2>4. Strands(there') /\ Words(there') = N - 1
    BY <2>3, TakeWord
  <2>5. N \in Nat \ {0} /\ Follows(g[0], g[1]) /\ Fits(w, g[1]) /\ Place(g[0]) /\ Place(g[1])
    BY <2>2, <2>3, <1>1, NextWord DEF Stream
  <2> HIDE DEF w, N
  <2>6. PICK i \in Nat : slave.i = i
    BY <2>1 DEF LinkTypes, SlaveType
  <2>7. /\ g[0].op = "write" /\ g[0].slot = slave.slot /\ slave.n = SecWords /\ g[0].at = i - 1 /\ i < SecWords
    BY <2>2, <2>6, <1>1 DEF Stream, Reader
  <2>8. /\ g[1].at = i /\ g[1].op = "write" /\ g[1].slot = slave.slot /\ g[1].of = g[0].of
        /\ w = Word(g[1].of, i)
    <3>1. ~Ends(g[0]) /\ i - 1 + 1 = i
      BY <2>7, Sizes DEF Ends
    <3>2. g[1].at = i /\ g[1].op = "write" /\ g[1].slot = slave.slot /\ g[1].of = g[0].of
      BY <3>1, <2>5, <2>7 DEF Follows
    <3>. QED BY <3>2, <2>5 DEF Fits
  <2>9. slave.slot \in Index /\ i \in 0 .. SecWords - 1
    BY <2>5, <2>7, Sizes DEF Place
  <2>10. PICK X : served \in [Index -> [0 .. SecWords - 1 -> X]]
    BY <2>1 DEF LinkTypes
  <2>11. /\ served' \in [Index -> [0 .. SecWords - 1 -> X \cup {w}]]
         /\ \A k \in Index : k # slave.slot => served'[k] = served[k]
         /\ served'[slave.slot][i] = w
         /\ \A j \in 0 .. SecWords - 1 : j # i => served'[slave.slot][j] = served[slave.slot][j]
    BY <2>9, <2>10, <2>6, <1>1
  <2>12. /\ Reader(slave', g[1], N - 1) /\ slave' \in SlaveType /\ slave'.pc # "read"
         /\ call.pc = "receive" => Returned(slave', N - 1) = 0
    <3>1. CASE i + 1 < SecWords
      <4>1. slave' = [slave EXCEPT !.i = i + 1]
        BY <3>1, <2>7, <2>6, <1>1 DEF Served
      <4>2. /\ slave' \in SlaveType /\ slave'.pc = "write" /\ slave'.slot = slave.slot /\ slave'.n = SecWords
            /\ slave'.i = i + 1
        <5>1. slave \in SlaveType /\ slave.pc = "write" /\ slave.n = SecWords
          BY <2>1, <2>7, <1>1 DEF LinkTypes
        <5>2. i + 1 \in Nat
          OBVIOUS
        <5>. QED BY <4>1, <5>1, <5>2 DEF SlaveType
      <4>3. Reader(slave', g[1], N - 1)
        <5>1. i = i + 1 - 1
          OBVIOUS
        <5>2. g[1].at = slave'.i - 1 /\ slave'.i < SecWords
          BY <4>2, <2>8, <3>1
        <5>. QED BY <5>2, <4>2, <2>8 DEF Reader
      <4>4. Returned(slave', N - 1) = 0
        BY <4>2 DEF Returned
      <4>. QED BY <4>2, <4>3, <4>4
    <3>2. CASE ~(i + 1 < SecWords)
      <4>1. slave' = Resting
        BY <3>2, <2>7, <2>6, <1>1 DEF Served
      <4>2. g[1].at = SecWords - 1
        BY <3>2, <2>7, <2>8, Sizes
      <4>3. Reader(slave', g[1], N - 1)
        BY <4>1, <4>2, RestingType DEF Reader, Ends
      <4>4. call.pc = "receive" => N # 1
        BY <2>2, <2>8 DEF Stream, Writer, Sends, N
      <4>5. call.pc = "receive" => Returned(slave', N - 1) = 0
        <5>1. N # 1 => N - 1 # 0
          BY <2>5
        <5>. QED BY <4>1, <4>4, <5>1, RestingType DEF Returned
      <4>. QED BY <4>1, <4>3, <4>5, RestingType
    <3>. QED BY <3>1, <3>2
  <2>13. LinkTypes'
    BY <2>1, <1>1, <2>3, <2>4, <2>11, <2>12 DEF LinkTypes
  <2>14. Answer(call, slave, Words(there), back, card, behind)'
    <3>1. Returned(slave, N) = 0
      BY <1>1 DEF Returned
    <3>2. Answer(call, slave', N - 1, back, card, behind)
      BY <2>1, <3>1, <2>12 DEF Answer, N
    <3>. QED BY <3>2, <1>1, <2>4
  <2>15. Partial(g[1], served')
    <3>1. ASSUME NEW j \in 0 .. i PROVE served'[slave.slot][j] = Word(g[1].of, j)
      <4>1. CASE j = i
        BY <4>1, <2>8, <2>11
      <4>2. CASE j # i
        <5>1. j \in 0 .. i - 1 /\ j \in 0 .. SecWords - 1
          BY <4>2, <2>9, Sizes
        <5>2. served[slave.slot][j] = Word(g[0].of, j)
          BY <5>1, <2>2, <2>7 DEF Stream, Partial
        <5>. QED BY <5>1, <5>2, <4>2, <2>8, <2>11
      <4>. QED BY <4>1, <4>2
    <3>. QED BY <3>1, <2>8 DEF Partial
  <2>16. \A k \in Index : served'[k] = served[k] \/ (g[1].op = "write" /\ g[1].slot = k)
    BY <2>8, <2>11
  <2>17. \E h : Stream(h, there', slave', call, card, tag, behind, served')
    BY <2>2, <2>3, <2>12, <2>15, <2>16, StreamTake DEF N
  <2>. QED BY <2>1, <2>13, <2>14, <2>17, <1>1
<1>. QED BY <1>2, <1>3

\* ServeRead preserves the invariant.
LEMMA ServeReadWorks ==
    ASSUME LinkInv, ServeRead
    PROVE  LinkInv'
<1> USE DEF LinkInv, LinkWorks
<1> DEFINE w == served[slave.slot][slave.i]
           N == Words(there)
<1>1. /\ UNCHANGED <<card, tag, on, call, there, served, behind>>
      /\ slave.pc = "read"
      /\ back' = [back EXCEPT !.sent = Append(@, w)]
      /\ slave' = Served
  BY DEF ServeRead
<1>2. CASE ~on
  BY <1>1, <1>2
<1>3. CASE on
  <2>1. LinkWorks
    BY <1>3
  <2>2. PICK g : Stream(g, there, slave, call, card, tag, behind, served)
    BY <2>1
  <2>3. call.pc = "receive"
    BY <2>1, <1>1 DEF Answer
  <2>4. Steps(call) /\ Gotten(call, tag, behind, card) /\ CallType(call) /\ call.op = "read"
    BY <2>1, <2>3 DEF Calling, LinkTypes, Steps
  <2>5. PICK i \in Nat : slave.i = i
    BY <2>1 DEF LinkTypes, SlaveType
  <2>6. /\ N = 0 /\ g[0].op = "read" /\ g[0].slot = slave.slot /\ slave.n = SecWords /\ g[0].at = -1 /\ i < SecWords
    BY <2>2, <2>5, <1>1 DEF Stream, Reader
  <2>7. g[0].slot = Slot(CurOf(call))
    BY <2>2, <2>3, <2>6 DEF Stream, Writer, Sends
  <2>8. CurOf(call) \in Sector /\ slave.slot \in Index /\ tag[slave.slot] = CurOf(call)
    BY <2>4, <2>6, <2>7, CurrentIsSector DEF Gotten
  <2>9. WordRight(w, call, card, behind, i)
    <3>1. TagHolds(g, N, tag, behind, call, card, served, slave.slot)
      BY <2>2, <2>8 DEF Stream, Tagged
    <3>2. ~Writing(call, slave.slot) /\ tag[slave.slot] # DC_EMPTY
      BY <2>4, <2>8, Sizes DEF Writing
    <3>3. CurOf(call) \notin behind => Holds(g, N, slave.slot, served, card[CurOf(call)])
      BY <3>1, <3>2, <2>8 DEF TagHolds
    <3>4. Fills(g, 0, slave.slot) = {}
      BY <2>6 DEF Fills
    <3>5. i \in 0 .. SecWords - 1
      BY <2>6, Sizes
    <3>. QED BY <3>3, <3>4, <3>5, <2>5, <2>6 DEF Holds, WordRight
  <2>10. IsSeq(back.sent) /\ IsSeq(back.rcvd)
    BY <2>1 DEF LinkTypes, Strands
  <2> HIDE DEF w
  <2>11. PICK r \in Nat, s \in Nat, j \in Nat : Len(back.rcvd) = r /\ Len(back.sent) = s /\ call.j = j
    BY <2>10, <2>4, EmptyIs DEF CallType
  <2>12. /\ IsSeq(Append(back.sent, w)) /\ Len(Append(back.sent, w)) = s + 1 /\ Append(back.sent, w)[s + 1] = w
         /\ \A p \in 1 .. s : Append(back.sent, w)[p] = back.sent[p]
    BY <2>10, <2>11, AppendIs
  <2>13. /\ back'.sent = Append(back.sent, w) /\ back'.rcvd = back.rcvd /\ back'.framed = back.framed
         /\ back' = [sent |-> back'.sent, rcvd |-> back'.rcvd, framed |-> back'.framed]
    BY <1>1, <2>1 DEF LinkTypes
  <2>14. /\ slave' \in SlaveType /\ Reader(slave', g[0], N) /\ Returned(slave', N) = i + 1
    <3>1. CASE i + 1 < SecWords
      <4>1. slave' = [slave EXCEPT !.i = i + 1]
        BY <3>1, <2>5, <2>6, <1>1 DEF Served
      <4>2. slave \in SlaveType
        BY <2>1 DEF LinkTypes
      <4>3. i + 1 \in Nat
        BY <2>6
      <4>4. /\ slave'.pc = "read" /\ slave'.slot = slave.slot /\ slave'.n = SecWords
            /\ slave'.i = i + 1
        BY <4>1, <4>2, <2>6, <1>1 DEF SlaveType
      <4>5. slave' \in SlaveType
        BY <4>1, <4>2, <4>3 DEF SlaveType
      <4>6. Reader(slave', g[0], N)
        BY <4>4, <2>6, <3>1 DEF Reader
      <4>. QED BY <4>4, <4>5, <4>6 DEF Returned
    <3>2. CASE ~(i + 1 < SecWords)
      <4>1. slave' = Resting
        BY <3>2, <2>5, <2>6, <1>1 DEF Served
      <4>2. i + 1 = SecWords
        BY <3>2, <2>6, Sizes
      <4>. QED BY <4>1, <4>2, <2>6, RestingType DEF Reader, Returned, Ends
    <3>. QED BY <3>1, <3>2
  <2>15. Returned(slave, N) = i
    BY <1>1, <2>5 DEF Returned
  <2>16. LinkTypes'
    BY <2>1, <1>1, <2>10, <2>12, <2>13, <2>14 DEF LinkTypes, Strands
  <2>17. /\ back.framed =>
             /\ j + r + s = i
             /\ \A k \in 0 .. j - 1 : GotRight(call, behind, card, call.i, k)
             /\ \A p \in 1 .. r : WordRight(back.rcvd[p], call, card, behind, j + p - 1)
             /\ \A p \in 1 .. s : WordRight(back.sent[p], call, card, behind, j + r + p - 1)
         /\ ~back.framed => j + r + s < i
    BY <2>1, <2>3, <2>11, <2>15 DEF Answer
  <2> HIDE DEF N
  <2>18. ASSUME back.framed, NEW p \in 1 .. s + 1
         PROVE  WordRight(back'.sent[p], call, card, behind, j + r + p - 1)
    <3>1. CASE p = s + 1
      <4>1. j + r + p - 1 = i
        BY <3>1, <2>17, <2>18
      <4>. QED BY <4>1, <3>1, <2>9, <2>12, <2>13
    <3>2. CASE p # s + 1
      <4>1. p \in 1 .. s
        BY <3>2
      <4>. QED BY <4>1, <2>12, <2>13, <2>17, <2>18
    <3>. QED BY <3>1, <3>2
  <2>19. Answer(call, slave', N, back', card, behind)
    <3>1. Len(back'.rcvd) = r /\ Len(back'.sent) = s + 1
      BY <2>11, <2>12, <2>13
    <3>2. (back.framed => j + r + (s + 1) = i + 1) /\ (~back.framed => j + r + (s + 1) < i + 1)
      BY <2>17
    <3>. QED BY <3>1, <3>2, <2>3, <2>11, <2>13, <2>14, <2>17, <2>18 DEF Answer
  <2>20. Stream(g, there, slave', call, card, tag, behind, served)
    BY <2>2, <2>14 DEF Stream, N
  <2>. QED BY <2>1, <2>16, <2>19, <2>20, <1>1 DEF N
<1>. QED BY <1>2, <1>3

\* ServeNoMore preserves the invariant.
LEMMA ServeNoMoreWorks ==
    ASSUME LinkInv, ServeNoMore
    PROVE  LinkInv'
<1> USE DEF LinkInv, LinkWorks
<1>1. /\ UNCHANGED <<card, tag, on, call, there, back, served, behind>>
      /\ slave.pc \in {"count", "write"} /\ there = [sent |-> <<>>, rcvd |-> <<>>]
      /\ call.pc \notin {"count", "send"}
  BY DEF ServeNoMore, linkvars
<1>2. CASE ~on
  BY <1>1, <1>2
<1>3. CASE on
  <2>1. LinkWorks
    BY <1>3
  <2>2. PICK g : Stream(g, there, slave, call, card, tag, behind, served)
    BY <2>1
  <2>3. Words(there) = 0
    BY <1>1, EmptyIs DEF Words
  <2>4. Reader(slave, g[0], 0) /\ Writer(call, card, g[0])
    BY <2>2, <2>3 DEF Stream
  <2>5. slave.i \in Nat /\ SecWords \in Nat \ {0}
    BY <2>1, Sizes DEF LinkTypes, SlaveType
  <2>6. ~Ends(g[0]) /\ ~(g[0].op = "read" /\ g[0].at = -1)
    BY <2>4, <2>5, <1>1 DEF Reader, Ends
  <2>7. call.pc \in {"idle", "request", "receive", "done"}
    BY <2>1, <1>1 DEF Calling
  <2>8. call.pc = "receive" => call.op = "read"
    BY <2>1 DEF Calling, Steps
  <2>. QED BY <2>4, <2>6, <2>7, <2>8 DEF Writer, Sends
<1>. QED BY <1>2, <1>3

-----------------------------------------------------------------------------

\* Every step preserves the invariant.
LEMMA LinkStep ==
    ASSUME LinkInv, [DcNext]_dcvars
    PROVE  LinkInv'
<1>1. CASE UNCHANGED dcvars
  BY <1>1 DEF dcvars, LinkInv, LinkWorks, LinkTypes, CallType
<1>2. ASSUME NEW s \in Sector, NEW n \in 1 .. MaxCount, DiskRead(s, n) \/ DiskWrite(s, n) PROVE LinkInv'
  BY <1>2, DiskReadWorks, DiskWriteWorks
<1>3. CASE DcNext
  BY <1>2, <1>3, CardChangesWorks, PutRequestWorks, PutCountWorks, PutWordWorks, GetWordWorks, ReturnWorks,
     TimeOutWorks, WireThereWorks, WireBackWorks, ServeRequestWorks, ServeCountWorks, ServeWriteWorks,
     ServeReadWorks, ServeNoMoreWorks DEF DcNext
<1>. QED BY <1>1, <1>3

\* The inductive invariant of the link: dc_read, dc_fill and linkf_serve agree
\* on every word under way, and the tags are true of what arrives.
THEOREM LinkInvariance == DcSpec => []LinkInv
<1>1. DcInit => LinkInv
  BY InitWorks
<1>2. LinkInv /\ [DcNext]_dcvars => LinkInv'
  BY LinkStep
<1>. QED BY <1>1, <1>2, PTL DEF DcSpec

\* What a finished read has got is right.
LEMMA HitsFollow ==
    ASSUME LinkInv
    PROVE  HitsTrue
<1> SUFFICES ASSUME call.pc = "done", NEW i \in 0 .. call.count - 1, call.first + i \notin behind,
                    NEW j \in 0 .. SecWords - 1
             PROVE  call.got[i * SecWords + j + 1] = Word(card[call.first + i], j)
  BY DEF HitsTrue
<1>1. on /\ LinkWorks
  BY NoCallType DEF LinkInv
<1>2. Steps(call) /\ Gotten(call, tag, behind, card)
  BY <1>1 DEF LinkWorks, Calling
<1>3. call.i = call.count - 1 /\ call.op = "read"
  BY <1>2 DEF Steps, Gotten
<1>4. GotRight(call, behind, card, i, j)
  BY <1>2, <1>3 DEF Gotten
<1>. QED BY <1>4 DEF GotRight

\* dc_read returns true only with what the card holds: no word of a burst that
\* was given up or damaged is ever taken for one of the answer.
THEOREM HitsTrueHolds == DcSpec => []HitsTrue
<1>1. LinkInv => HitsTrue
  BY HitsFollow
<1>. QED BY <1>1, LinkInvariance, PTL

=============================================================================
