------------------------- MODULE GuestMemoryProofs -------------------------
(***************************************************************************)
(* Guest RAM is correct for any number of pages, slots and hot entries.    *)
(*                                                                         *)
(* First Ega128Paging: its type invariant, the absence of aliases, and     *)
(* that it implements GuestRam.  The inductive invariant is Good(c): the   *)
(* record has its type, no page is in two slots, and a clean frame agrees  *)
(* with its backing copy unless the page was lost.  Nothing is said of the *)
(* hot list: map_page checks every entry before use, so any contents are   *)
(* safe.                                                                   *)
(*                                                                         *)
(* Then GuestBlock: the native block transfers are exact, for any page     *)
(* size and any length too.  The pager is in order (Good) between the      *)
(* iterations and has lost nothing, so guest RAM can be spoken of as one   *)
(* array, Image.  Mapping a page leaves the image alone, a read through a  *)
(* pointer gives a slice of it and a write through a pointer changes one,  *)
(* as long as the pointer's slot still holds the page.  The invariant of   *)
(* each loop says what part of the transfer is done; what is left to copy  *)
(* still finds its sources as they were when the transfer was called.      *)
(***************************************************************************)
EXTENDS GuestBlock, SequenceTheorems, WellFoundedInduction, TLAPS

Good(x) == x \in Cache /\ AliasFree(x) /\ CleanSlotsAgree(x)

IInv == Good(c) /\ medium \in Media

-----------------------------------------------------------------------------
(* The operators.                                                          *)

\* First picks an element: sets of slots and hot indices have a least one.
LEMMA FirstIsMember ==
    ASSUME NEW S, S \subseteq Nat, S # {}
    PROVE  First(S) \in S
<1>1. \E m \in S : \A y \in S : ~(<<y, m>> \in OpToRel(<, Nat))
  BY NatLessThanWellFounded, WFMin
<1>2. PICK m \in S : \A y \in S : ~(<<y, m>> \in OpToRel(<, Nat))
  BY <1>1
<1>3. \A y \in S : ~(y < m)
  BY <1>2, Zenon DEF OpToRel
<1>4. \A y \in S : m <= y
  BY <1>3, SMT
<1>. QED BY <1>4 DEF First

\* map_page returns a slot; on a hit, one that holds the page.
LEMMA MapSlotIsSlot ==
    ASSUME NEW x \in Cache, NEW p \in Page
    PROVE  /\ MapSlot(x, p) \in Slot
           /\ HotHits(x, p) # {} => x.cache_page[MapSlot(x, p)] = p
           /\ HotHits(x, p) = {} /\ Resident(x, p) # {} => x.cache_page[MapSlot(x, p)] = p
           /\ HotHits(x, p) = {} /\ Resident(x, p) = {} => MapSlot(x, p) = x.victim
<1>1. ASSUME HotHits(x, p) # {} PROVE First(HotHits(x, p)) \in HotHits(x, p)
  BY <1>1, FirstIsMember, SizesAssumption DEF HotHits, Hot
<1>2. ASSUME Resident(x, p) # {} PROVE First(Resident(x, p)) \in Resident(x, p)
  BY <1>2, FirstIsMember, SizesAssumption DEF Resident, Slot
<1>3. x.victim \in Slot
  BY DEF Cache
<1>. QED BY <1>1, <1>2, <1>3 DEF MapSlot, HotHits, Resident

\* What a page holds for the guest, given the slot it is in.
LEMMA ViewOfResident ==
    ASSUME NEW x, AliasFree(x), NEW p \in Page, NEW s \in Slot, x.cache_page[s] = p
    PROVE  GuestView(x, p) = x.ram_pages[s]
<1>1. Resident(x, p) = {s}
  BY DEF AliasFree, Resident, NoPage, Page
<1>2. First(Resident(x, p)) \in Resident(x, p)
  BY <1>1, FirstIsMember, SizesAssumption DEF Slot
<1>. QED BY <1>1, <1>2 DEF GuestView

LEMMA ViewOfAbsent ==
    ASSUME NEW x, NEW p, \A s \in Slot : x.cache_page[s] # p
    PROVE  GuestView(x, p) = BackingView(x, p)
  BY DEF GuestView, Resident

-----------------------------------------------------------------------------
(* map_page.                                                               *)

\* Two records with the same cached pages, frames, backing store and losses
\* show the guest the same memory.
LEMMA FrameOfView ==
    ASSUME NEW x, NEW y,
           y.cache_page = x.cache_page, y.ram_pages = x.ram_pages,
           y.backing = x.backing, y.backing_valid = x.backing_valid,
           NEW p
    PROVE  GuestView(y, p) = GuestView(x, p)
  BY DEF GuestView, Resident, BackingView

LEMMA TouchIsGood ==
    ASSUME NEW x, Good(x), NEW s \in Slot, NEW wr \in BOOLEAN
    PROVE  /\ Good(Touch(x, s, wr))
           /\ wr => Touch(x, s, wr).cache_dirty[s]
           /\ Touch(x, s, wr).cache_page = x.cache_page
           /\ Touch(x, s, wr).lost = x.lost
           /\ \A p \in Page : GuestView(Touch(x, s, wr), p) = GuestView(x, p)
<1>. DEFINE y == Touch(x, s, wr)
<1>1. /\ y \in Cache
      /\ y.cache_page = x.cache_page /\ y.ram_pages = x.ram_pages
      /\ y.backing = x.backing /\ y.backing_valid = x.backing_valid
      /\ y.lost = x.lost
      /\ y.cache_dirty = [x.cache_dirty EXCEPT ![s] = @ \/ wr]
  BY DEF Touch, Good, Cache
<1>2. x.cache_dirty \in [Slot -> BOOLEAN]
  BY DEF Good, Cache
<1>3. AliasFree(y)
  BY <1>1 DEF Good, AliasFree
<1>4. \A t \in Slot : ~y.cache_dirty[t] => ~x.cache_dirty[t]
  BY <1>1, <1>2
<1>5. CleanSlotsAgree(y)
  BY <1>1, <1>4 DEF Good, CleanSlotsAgree, BackingView
<1>6. wr => y.cache_dirty[s]
  BY <1>1, <1>2
<1>7. \A p \in Page : GuestView(y, p) = GuestView(x, p)
  BY <1>1, FrameOfView
<1>. QED BY <1>1, <1>3, <1>5, <1>6, <1>7 DEF Good

\* Remembering a slot in the hot list disturbs nothing else.
LEMMA RememberIsFrame ==
    ASSUME NEW x \in Cache, NEW p \in Page, NEW s \in Slot
    PROVE  LET y == HotPageRemember(x, p, s)
           IN  /\ y \in Cache
               /\ y.cache_page = x.cache_page /\ y.cache_dirty = x.cache_dirty
               /\ y.ram_pages = x.ram_pages /\ y.backing = x.backing
               /\ y.backing_valid = x.backing_valid /\ y.lost = x.lost
               /\ y.victim = x.victim
<1>. DEFINE hp == [i \in Hot |-> IF i = 1 THEN p ELSE x.hot_page[i - 1]]
            hs == [i \in Hot |-> IF i = 1 THEN s ELSE x.hot_slot[i - 1]]
<1>1. hp \in [Hot -> Page \cup {NoPage}] /\ hs \in [Hot -> Slot \cup {NoSlot}]
  BY SizesAssumption DEF Cache, Hot
<1>2. HotPageRemember(x, p, s) = [x EXCEPT !.hot_page = hp, !.hot_slot = hs]
  BY DEF HotPageRemember
<1>. HIDE DEF hp, hs
<1>. QED BY <1>1, <1>2 DEF Cache

\* Taking the victim: the evicted page loses nothing unless its write fails,
\* the new page gets the frame the backing store shows, and no other page
\* changes.
LEMMA MissIsGood ==
    ASSUME NEW x, Good(x), NEW p \in Page, NEW wr \in BOOLEAN, NEW io \in Outcome,
           Resident(x, p) = {}
    PROVE  LET y == Miss(x, p, wr, io)
           IN  /\ Good(y)
               /\ y.cache_page[x.victim] = p
               /\ wr => y.cache_dirty[x.victim]
               /\ x.lost \subseteq y.lost
               /\ \A q \in Page \ y.lost : GuestView(y, q) = GuestView(x, q)
<1>. DEFINE s   == x.victim
            old == x.cache_page[s]
            e   == Evict(x, s, io)
            y   == Miss(x, p, wr, io)
<1>0. /\ s \in Slot /\ x \in Cache /\ p # NoPage /\ \A t \in Slot : x.cache_page[t] # p
      /\ old \in Page \cup {NoPage}
  BY DEF Good, Cache, Resident, Page, NoPage
<1>1. /\ e \in Cache
      /\ e.cache_page = x.cache_page /\ e.cache_dirty = x.cache_dirty
      /\ e.ram_pages = x.ram_pages /\ e.victim = x.victim
      /\ x.lost \subseteq e.lost
      /\ \A q \in Page : q # old => BackingView(e, q) = BackingView(x, q)
      /\ old # NoPage /\ old \notin e.lost => BackingView(e, old) = x.ram_pages[s]
  <2>1. /\ x.cache_dirty \in [Slot -> BOOLEAN] /\ x.ram_pages \in [Slot -> Frame]
        /\ x.backing \in [Page -> Frame] /\ x.backing_valid \subseteq Page
        /\ x.lost \subseteq Page
    BY <1>0 DEF Cache
  <2>2. CASE old # NoPage /\ x.cache_dirty[s] /\ io.w
    <3>. DEFINE e1 == [x EXCEPT !.backing[old] = x.ram_pages[s]]
                e2 == [e1 EXCEPT !.backing_valid = @ \cup {old}]
    <3>1. e = [e2 EXCEPT !.lost = @]
      BY <2>2 DEF Evict, BackingWrite
    <3>a. e1 \in Cache /\ e1.cache_page = x.cache_page /\ e1.cache_dirty = x.cache_dirty
          /\ e1.ram_pages = x.ram_pages /\ e1.victim = x.victim /\ e1.lost = x.lost
          /\ e1.backing = [x.backing EXCEPT ![old] = x.ram_pages[s]]
          /\ e1.backing_valid = x.backing_valid
      BY <2>1, <2>2, <1>0 DEF Cache
    <3>. HIDE DEF e1
    <3>b. e2 \in Cache /\ e2.cache_page = e1.cache_page /\ e2.cache_dirty = e1.cache_dirty
          /\ e2.ram_pages = e1.ram_pages /\ e2.victim = e1.victim /\ e2.lost = e1.lost
          /\ e2.backing = e1.backing /\ e2.backing_valid = e1.backing_valid \cup {old}
      BY <3>a, <2>1, <2>2, <1>0 DEF Cache
    <3>. HIDE DEF e2
    <3>2. /\ e \in Cache
          /\ e.cache_page = x.cache_page /\ e.cache_dirty = x.cache_dirty
          /\ e.ram_pages = x.ram_pages /\ e.victim = x.victim
          /\ e.lost = x.lost
          /\ e.backing = [x.backing EXCEPT ![old] = x.ram_pages[s]]
          /\ e.backing_valid = x.backing_valid \cup {old}
      BY <3>1, <3>a, <3>b DEF Cache
    <3>3. /\ \A q \in Page : q # old => BackingView(e, q) = BackingView(x, q)
          /\ BackingView(e, old) = x.ram_pages[s]
      <4>. HIDE DEF e
      <4>. QED BY <3>2, <2>1, <2>2, <1>0 DEF BackingView
    <3>. QED BY <3>2, <3>3
  <2>3. CASE old # NoPage /\ x.cache_dirty[s] /\ ~io.w
    <3>. DEFINE torn == [o \in Offset |-> IF o \in io.torn THEN x.ram_pages[s][o]
                                          ELSE x.backing[old][o]]
    <3>0. old \in Page
      BY <2>3, <1>0
    <3>1. torn \in Frame
      BY <2>1, <1>0, <3>0 DEF Frame
    <3>. DEFINE e1 == [x EXCEPT !.backing[old] = torn]
    <3>2. e = [e1 EXCEPT !.lost = @ \cup {old}]
      BY <2>3, <2>1, <3>0, <1>0 DEF Evict, BackingWrite, Cache
    <3>a. e1 \in Cache /\ e1.cache_page = x.cache_page /\ e1.cache_dirty = x.cache_dirty
          /\ e1.ram_pages = x.ram_pages /\ e1.victim = x.victim /\ e1.lost = x.lost
          /\ e1.backing = [x.backing EXCEPT ![old] = torn]
          /\ e1.backing_valid = x.backing_valid
      <4>. HIDE DEF torn
      <4>. QED BY <1>0, <2>1, <3>0, <3>1 DEF Cache
    <3>. HIDE DEF e1
    <3>3. /\ e \in Cache
          /\ e.cache_page = x.cache_page /\ e.cache_dirty = x.cache_dirty
          /\ e.ram_pages = x.ram_pages /\ e.victim = x.victim
          /\ e.lost = x.lost \cup {old}
          /\ e.backing = [x.backing EXCEPT ![old] = torn]
          /\ e.backing_valid = x.backing_valid
      <4>. HIDE DEF torn
      <4>. QED BY <3>0, <3>2, <3>a, <2>1 DEF Cache
    <3>4. \A q \in Page : q # old => BackingView(e, q) = BackingView(x, q)
      <4>. HIDE DEF e, torn
      <4>. QED BY <3>3, <2>1, <1>0 DEF BackingView
    <3>. QED BY <3>3, <3>4
  <2>4. CASE old = NoPage \/ ~x.cache_dirty[s]
    <3>1. e = x
      BY <2>4 DEF Evict
    <3>. QED BY <3>1, <2>4, <1>0 DEF Good, CleanSlotsAgree
  <2>. QED BY <2>2, <2>3, <2>4, <2>1
<1>2. BackingRead(e, p, io) \in Frame
  <2>1. Zeroes \in Frame
    BY SizesAssumption DEF Zeroes, Frame
  <2>2. e.backing \in [Page -> Frame]
    <3>. HIDE DEF e
    <3>. QED BY <1>1 DEF Cache
  <2>. HIDE DEF e
  <2>. QED BY <2>1, <2>2 DEF BackingRead, BackingView
<1>3. /\ y \in Cache
      /\ y.cache_page = [x.cache_page EXCEPT ![s] = p]
      /\ y.cache_dirty = [x.cache_dirty EXCEPT ![s] = wr]
      /\ y.ram_pages = [x.ram_pages EXCEPT ![s] = BackingRead(e, p, io)]
      /\ y.backing = e.backing /\ y.backing_valid = e.backing_valid
      /\ y.lost = IF ReadFails(e, p, io) THEN e.lost \cup {p} ELSE e.lost
  <2>. DEFINE f == Fill(e, s, p, wr, io)
  <2>. HIDE DEF e
  <2>0. e.lost \cup {p} \subseteq Page
    BY <1>1 DEF Cache
  <2>. DEFINE d == BackingRead(e, p, io)
              l == IF ReadFails(e, p, io) THEN e.lost \cup {p} ELSE e.lost
  <2>typed. d \in Frame /\ l \subseteq Page
    BY <1>2, <2>0
  <2>. DEFINE f1 == [e EXCEPT !.ram_pages[s] = d]
              f2 == [f1 EXCEPT !.cache_page[s] = p]
              f3 == [f2 EXCEPT !.cache_dirty[s] = wr]
  <2>split. f = [f3 EXCEPT !.lost = l]
    BY DEF Fill
  <2>. HIDE DEF d, l
  <2>frame. f1 \in Cache /\ f1.ram_pages = [e.ram_pages EXCEPT ![s] = d]
        /\ f1.cache_page = e.cache_page /\ f1.cache_dirty = e.cache_dirty
        /\ f1.backing = e.backing /\ f1.backing_valid = e.backing_valid
    BY <1>0, <1>1, <2>typed DEF Cache
  <2>. HIDE DEF f1
  <2>page. f2 \in Cache /\ f2.cache_page = [f1.cache_page EXCEPT ![s] = p]
        /\ f2.ram_pages = f1.ram_pages /\ f2.cache_dirty = f1.cache_dirty
        /\ f2.backing = f1.backing /\ f2.backing_valid = f1.backing_valid
    BY <1>0, <2>frame DEF Cache
  <2>. HIDE DEF f2
  <2>dirty. f3 \in Cache /\ f3.cache_dirty = [f2.cache_dirty EXCEPT ![s] = wr]
        /\ f3.ram_pages = f2.ram_pages /\ f3.cache_page = f2.cache_page
        /\ f3.backing = f2.backing /\ f3.backing_valid = f2.backing_valid
    BY <1>0, <2>page DEF Cache
  <2>. HIDE DEF f3
  <2>last. f \in Cache /\ f.lost = l
        /\ f.ram_pages = f3.ram_pages /\ f.cache_page = f3.cache_page
        /\ f.cache_dirty = f3.cache_dirty
        /\ f.backing = f3.backing /\ f.backing_valid = f3.backing_valid
    BY <2>typed, <2>split, <2>dirty DEF Cache
  <2>. HIDE DEF f
  <2>1. /\ f \in Cache
        /\ f.cache_page = [x.cache_page EXCEPT ![s] = p]
        /\ f.cache_dirty = [x.cache_dirty EXCEPT ![s] = wr]
        /\ f.ram_pages = [x.ram_pages EXCEPT ![s] = d]
        /\ f.backing = e.backing /\ f.backing_valid = e.backing_valid
        /\ f.lost = l
    BY <1>1, <2>frame, <2>page, <2>dirty, <2>last
  <2>2. NextVictim(s) \in Slot
    BY <1>0, SizesAssumption DEF NextVictim, Slot
  <2>. DEFINE g == [f EXCEPT !.victim = NextVictim(s)]
  <2>3. y = HotPageRemember(g, p, s)
    BY DEF Miss, e, f
  <2>4. /\ g \in Cache
        /\ g.cache_page = f.cache_page /\ g.cache_dirty = f.cache_dirty
        /\ g.ram_pages = f.ram_pages /\ g.backing = f.backing
        /\ g.backing_valid = f.backing_valid /\ g.lost = f.lost
    BY <2>1, <2>2 DEF Cache
  <2>. HIDE DEF g
  <2>5. /\ y \in Cache
        /\ y.cache_page = g.cache_page /\ y.cache_dirty = g.cache_dirty
        /\ y.ram_pages = g.ram_pages /\ y.backing = g.backing
        /\ y.backing_valid = g.backing_valid /\ y.lost = g.lost
    <3>. HIDE DEF y
    <3>. QED BY <2>3, <2>4, <1>0, RememberIsFrame
  <2>. QED BY <2>1, <2>4, <2>5 DEF d, l
<1>. HIDE DEF e, y
<1>4. AliasFree(y)
  BY <1>0, <1>3 DEF Good, AliasFree, Cache
<1>5. \A q \in Page : BackingView(y, q) = BackingView(e, q)
  BY <1>3 DEF BackingView
<1>6. p \notin y.lost => y.ram_pages[s] = BackingView(x, p)
  <2>1. p # old
    BY <1>0
  <2>2. p \notin y.lost => ~ReadFails(e, p, io)
    BY <1>3
  <2>3. ~ReadFails(e, p, io) => BackingRead(e, p, io) = BackingView(e, p)
    BY DEF ReadFails, BackingRead, BackingView
  <2>4. y.ram_pages[s] = BackingRead(e, p, io)
    BY <1>3, <1>0 DEF Cache
  <2>. QED BY <2>1, <2>2, <2>3, <2>4, <1>1
<1>7. \A t \in Slot : t # s => /\ y.cache_page[t] = x.cache_page[t]
                               /\ y.cache_dirty[t] = x.cache_dirty[t]
                               /\ y.ram_pages[t] = x.ram_pages[t]
  BY <1>3, <1>0 DEF Cache
<1>8. y.cache_page[s] = p /\ y.cache_dirty[s] = wr
  BY <1>3, <1>0 DEF Cache
<1>9. CleanSlotsAgree(y)
  <2>. SUFFICES ASSUME NEW t \in Slot, y.cache_page[t] # NoPage, ~y.cache_dirty[t],
                       y.cache_page[t] \notin y.lost
                PROVE  y.ram_pages[t] = BackingView(y, y.cache_page[t])
    BY DEF CleanSlotsAgree
  <2>1. CASE t = s
    BY <2>1, <1>6, <1>8, <1>5, <1>1, <1>0
  <2>2. CASE t # s
    <3>. DEFINE q == x.cache_page[t]
    <3>1. q \in Page /\ q # old
      BY <2>2, <1>7, <1>0 DEF Good, AliasFree, Cache
    <3>2. x.ram_pages[t] = BackingView(x, q)
      BY <2>2, <3>1, <1>7, <1>3, <1>1 DEF Good, CleanSlotsAgree
    <3>. QED BY <3>1, <3>2, <2>2, <1>7, <1>5, <1>1
  <2>. QED BY <2>1, <2>2
<1>10. \A q \in Page \ y.lost : GuestView(y, q) = GuestView(x, q)
  <2>. SUFFICES ASSUME NEW q \in Page, q \notin y.lost
                PROVE  GuestView(y, q) = GuestView(x, q)
    OBVIOUS
  <2>1. CASE q = p
    BY <2>1, <1>0, <1>4, <1>6, <1>8, ViewOfResident, ViewOfAbsent
  <2>2. CASE q # p /\ \E t \in Slot : t # s /\ x.cache_page[t] = q
    BY <2>2, <1>4, <1>7, ViewOfResident DEF Good
  <2>3. CASE q # p /\ q = old
    <3>1. GuestView(x, q) = x.ram_pages[s]
      BY <2>3, <1>0, ViewOfResident DEF Good
    <3>2. \A t \in Slot : y.cache_page[t] # q
      BY <2>3, <1>0, <1>7, <1>8 DEF Good, AliasFree, NoPage, Page
    <3>3. GuestView(y, q) = BackingView(y, q)
      BY <3>2, ViewOfAbsent
    <3>. QED BY <3>1, <3>3, <2>3, <1>0, <1>1, <1>3, <1>5 DEF NoPage, Page
  <2>4. CASE q # p /\ \A t \in Slot : x.cache_page[t] # q
    <3>1. \A t \in Slot : y.cache_page[t] # q
      BY <2>4, <1>7, <1>8
    <3>2. q # old
      BY <2>4, <1>0
    <3>. QED BY <3>1, <3>2, <2>4, ViewOfAbsent, <1>5, <1>1
  <2>. QED BY <2>1, <2>2, <2>3, <2>4
<1>. QED BY <1>1, <1>3, <1>4, <1>8, <1>9, <1>10 DEF Good, y

\* map_page as a whole, whichever of its three ways it takes: the page is in
\* the slot it returns, dirty if it was mapped for writing, and guest RAM is
\* what it was except on pages lost to a fault.
LEMMA MapPageIsGood ==
    ASSUME NEW x, Good(x), NEW p \in Page, NEW wr \in BOOLEAN, NEW io \in Outcome
    PROVE  LET y == MapPage(x, p, wr, io)
               s == MapSlot(x, p)
           IN  /\ s \in Slot
               /\ Good(y)
               /\ y.cache_page[s] = p
               /\ wr => y.cache_dirty[s]
               /\ x.lost \subseteq y.lost
               /\ \A q \in Page \ y.lost : GuestView(y, q) = GuestView(x, q)
<1>. DEFINE s == MapSlot(x, p)
            t == Touch(x, s, wr)
<1>0. x \in Cache
  BY DEF Good
<1>1. s \in Slot
  BY <1>0, MapSlotIsSlot
<1>2. CASE HotHits(x, p) # {}
  <2>1. MapPage(x, p, wr, io) = t
    BY <1>2 DEF MapPage
  <2>2. x.cache_page[s] = p
    BY <1>0, <1>2, MapSlotIsSlot
  <2>. HIDE DEF s
  <2>. QED BY <1>1, <2>1, <2>2, TouchIsGood DEF s
<1>3. CASE HotHits(x, p) = {} /\ Resident(x, p) # {}
  <2>. DEFINE y == HotPageRemember(t, p, s)
  <2>1. MapPage(x, p, wr, io) = y
    BY <1>3 DEF MapPage
  <2>2. x.cache_page[s] = p
    BY <1>0, <1>3, MapSlotIsSlot
  <2>3. /\ Good(t) /\ (wr => t.cache_dirty[s])
        /\ t.cache_page = x.cache_page /\ t.lost = x.lost
        /\ \A q \in Page : GuestView(t, q) = GuestView(x, q)
    <3>. HIDE DEF s
    <3>. QED BY <1>1, TouchIsGood
  <2>. HIDE DEF t, s
  <2>4. /\ y \in Cache
        /\ y.cache_page = t.cache_page /\ y.cache_dirty = t.cache_dirty
        /\ y.ram_pages = t.ram_pages /\ y.backing = t.backing
        /\ y.backing_valid = t.backing_valid /\ y.lost = t.lost
    BY <2>3, <1>1, RememberIsFrame DEF Good
  <2>. HIDE DEF y
  <2>5. Good(y)
    BY <2>3, <2>4 DEF Good, AliasFree, CleanSlotsAgree, BackingView
  <2>6. \A q \in Page : GuestView(y, q) = GuestView(t, q)
    BY <2>4, FrameOfView
  <2>. QED BY <1>1, <2>1, <2>2, <2>3, <2>4, <2>5, <2>6 DEF s
<1>4. CASE HotHits(x, p) = {} /\ Resident(x, p) = {}
  <2>1. MapPage(x, p, wr, io) = Miss(x, p, wr, io) /\ s = x.victim
    BY <1>0, <1>4, MapSlotIsSlot DEF MapPage
  <2>. QED BY <1>1, <1>4, <2>1, MissIsGood
<1>. QED BY <1>2, <1>3, <1>4

\* The same in one word: y is x with the page p mapped into the slot m.
PageMapped(x, p, wr, y, m) ==
    /\ m \in Slot /\ Good(y) /\ y.cache_page[m] = p /\ (wr => y.cache_dirty[m])
    /\ x.lost \subseteq y.lost
    /\ \A q \in Page \ y.lost : GuestView(y, q) = GuestView(x, q)

\* map_page maps the page.
LEMMA MapPageMaps ==
    ASSUME NEW x, Good(x), NEW p \in Page, NEW wr \in BOOLEAN, NEW io \in Outcome
    PROVE  PageMapped(x, p, wr, MapPage(x, p, wr, io), MapSlot(x, p))
BY MapPageIsGood DEF PageMapped

\* A store through the pointer to a dirty slot changes that page and no other.
LEMMA PokeIsGood ==
    ASSUME NEW x, Good(x), NEW s \in Slot, NEW p \in Page,
           x.cache_page[s] = p, x.cache_dirty[s],
           NEW d, \A o \in Offset \cap DOMAIN d : d[o] \in Byte
    PROVE  LET y == Poke(x, s, d)
           IN  /\ Good(y)
               /\ y.lost = x.lost /\ y.cache_page = x.cache_page
               /\ \A q \in Page \ {p} : GuestView(y, q) = GuestView(x, q)
               /\ GuestView(y, p) = [o \in Offset |-> IF o \in DOMAIN d THEN d[o]
                                                      ELSE GuestView(x, p)[o]]
<1>. DEFINE y == Poke(x, s, d)
            f == [o \in Offset |-> IF o \in DOMAIN d THEN d[o] ELSE x.ram_pages[s][o]]
<1>0. x \in Cache /\ x.ram_pages \in [Slot -> Frame]
  BY DEF Good, Cache
<1>1. f \in Frame
  BY <1>0 DEF Frame
<1>2. y = [x EXCEPT !.ram_pages[s] = f]
  BY <1>0 DEF Poke, Cache
<1>3. /\ y \in Cache /\ y.cache_page = x.cache_page /\ y.cache_dirty = x.cache_dirty
      /\ y.ram_pages = [x.ram_pages EXCEPT ![s] = f] /\ y.lost = x.lost
      /\ y.backing = x.backing /\ y.backing_valid = x.backing_valid
  <2>. HIDE DEF f
  <2>. QED BY <1>0, <1>1, <1>2 DEF Cache
<1>. HIDE DEF y, f
<1>4. AliasFree(y)
  BY <1>3 DEF Good, AliasFree
<1>5. CleanSlotsAgree(y)
  BY <1>0, <1>3 DEF Good, CleanSlotsAgree, BackingView
<1>6. GuestView(y, p) = f
  BY <1>0, <1>3, <1>4, ViewOfResident
<1>7. GuestView(x, p) = x.ram_pages[s]
  BY ViewOfResident DEF Good
<1>8. ASSUME NEW q \in Page, q # p
      PROVE  GuestView(y, q) = GuestView(x, q)
  <2>1. CASE \E t \in Slot : x.cache_page[t] = q
    BY <2>1, <1>0, <1>3, <1>4, <1>8, ViewOfResident DEF Good
  <2>2. CASE \A t \in Slot : x.cache_page[t] # q
    BY <2>2, <1>3, ViewOfAbsent DEF BackingView
  <2>. QED BY <2>1, <2>2
<1>. QED BY <1>3, <1>4, <1>5, <1>6, <1>7, <1>8 DEF Good, y, f

\* What the guest sees is always a frame.
LEMMA ViewIsFrame ==
    ASSUME NEW x, Good(x), NEW p \in Page
    PROVE  GuestView(x, p) \in Frame
<1>1. Zeroes \in Frame
  BY SizesAssumption DEF Zeroes, Frame
<1>2. CASE \E t \in Slot : x.cache_page[t] = p
  BY <1>2, ViewOfResident DEF Good, Cache
<1>3. CASE \A t \in Slot : x.cache_page[t] # p
  BY <1>1, <1>3, ViewOfAbsent DEF BackingView, Good, Cache
<1>. QED BY <1>2, <1>3

LEMMA OutcomesAreOutcomes ==
    ASSUME NEW x, NEW p
    PROVE  Outcomes(x, p) \subseteq Outcome
<1>1. NoFault \in Outcome
  BY DEF NoFault, Outcome
<1>. QED BY <1>1 DEF Outcomes

-----------------------------------------------------------------------------
(* Flush.                                                                  *)

LEMMA FlushIsGood ==
    ASSUME NEW x, Good(x), NEW f \in 0 .. SlotCount, NEW torn \in SUBSET Offset
    PROVE  LET y == FlushTo(x, f, torn)
           IN  /\ Good(y)
               /\ y.lost = x.lost
               /\ \A p \in Page : GuestView(y, p) = GuestView(x, p)
               /\ f = SlotCount => \A p \in Page \ x.lost : BackingView(y, p) = GuestView(x, p)
<1>. DEFINE y  == FlushTo(x, f, torn)
            B  == [q \in Page |->
                     IF Written(x, f, q) # {} THEN x.ram_pages[First(Written(x, f, q))]
                     ELSE IF f \in DirtySlots(x) /\ x.cache_page[f] = q
                          THEN [o \in Offset |-> IF o \in torn THEN x.ram_pages[f][o]
                                                 ELSE x.backing[q][o]]
                     ELSE x.backing[q]]
            V  == x.backing_valid \cup {q \in Page : Written(x, f, q) # {}}
            D  == [s \in Slot |-> x.cache_dirty[s] /\ ~(s \in DirtySlots(x) /\ s < f)]
            y1 == [x EXCEPT !.backing = B]
            y2 == [y1 EXCEPT !.backing_valid = V]
<1>0. /\ x \in Cache
      /\ x.cache_page \in [Slot -> Page \cup {NoPage}] /\ x.cache_dirty \in [Slot -> BOOLEAN]
      /\ x.ram_pages \in [Slot -> Frame]
      /\ x.backing \in [Page -> Frame] /\ x.backing_valid \subseteq Page
  BY DEF Good, Cache
<1>1. ASSUME NEW q \in Page, NEW t \in Slot, x.cache_page[t] = q, x.cache_dirty[t], t < f
      PROVE  Written(x, f, q) = {t}
  BY <1>1 DEF Written, DirtySlots, Good, AliasFree, NoPage, Page
<1>2. ASSUME NEW q \in Page, Written(x, f, q) # {}
      PROVE  First(Written(x, f, q)) \in Written(x, f, q)
  BY <1>2, FirstIsMember, SizesAssumption DEF Written, DirtySlots, Slot
<1>3. B \in [Page -> Frame]
  <2>. SUFFICES ASSUME NEW q \in Page PROVE B[q] \in Frame
    OBVIOUS
  <2>1. CASE Written(x, f, q) # {}
    BY <1>0, <1>2, <2>1 DEF Written, DirtySlots
  <2>2. CASE Written(x, f, q) = {}
    BY <1>0, <2>2 DEF DirtySlots, Frame
  <2>. QED BY <2>1, <2>2
<1>4. V \subseteq Page /\ D \in [Slot -> BOOLEAN]
  BY <1>0
<1>5. y = [y2 EXCEPT !.cache_dirty = D]
  BY DEF FlushTo
<1>6. /\ y \in Cache /\ y.cache_page = x.cache_page /\ y.ram_pages = x.ram_pages
      /\ y.lost = x.lost /\ y.backing = B /\ y.backing_valid = V /\ y.cache_dirty = D
  <2>. HIDE DEF B, V, D
  <2>1. /\ y1 \in Cache /\ y1.backing = B /\ y1.cache_page = x.cache_page
        /\ y1.ram_pages = x.ram_pages /\ y1.lost = x.lost
    BY <1>0, <1>3 DEF Cache
  <2>. HIDE DEF y1
  <2>2. /\ y2 \in Cache /\ y2.backing = B /\ y2.cache_page = x.cache_page
        /\ y2.ram_pages = x.ram_pages /\ y2.lost = x.lost /\ y2.backing_valid = V
    BY <1>4, <2>1 DEF Cache
  <2>. HIDE DEF y2
  <2>. QED BY <1>4, <1>5, <2>2 DEF Cache
<1>7. AliasFree(y)
  BY <1>6 DEF Good, AliasFree
<1>8. ASSUME NEW t \in Slot, x.cache_page[t] # NoPage, x.cache_dirty[t], t < f
      PROVE  BackingView(y, x.cache_page[t]) = x.ram_pages[t]
  <2>. DEFINE q == x.cache_page[t]
  <2>1. q \in Page /\ Written(x, f, q) = {t}
    BY <1>0, <1>1, <1>8
  <2>2. First(Written(x, f, q)) = t
    BY <1>2, <2>1
  <2>3. B[q] = x.ram_pages[t] /\ q \in V
    BY <2>1, <2>2
  <2>. HIDE DEF B, V
  <2>. QED BY <1>6, <2>3 DEF BackingView
<1>9. ASSUME NEW q \in Page, Written(x, f, q) = {}, ~(f \in DirtySlots(x) /\ x.cache_page[f] = q)
      PROVE  BackingView(y, q) = BackingView(x, q)
  <2>1. B[q] = x.backing[q] /\ (q \in V <=> q \in x.backing_valid)
    BY <1>9
  <2>. HIDE DEF B, V
  <2>. QED BY <1>6, <2>1 DEF BackingView
<1>10. ASSUME NEW t \in Slot, x.cache_page[t] # NoPage, ~x.cache_dirty[t]
       PROVE  BackingView(y, x.cache_page[t]) = BackingView(x, x.cache_page[t])
  <2>1. x.cache_page[t] \in Page /\ \A u \in DirtySlots(x) : x.cache_page[u] # x.cache_page[t]
    BY <1>0, <1>10 DEF Good, AliasFree, DirtySlots
  <2>. QED BY <1>9, <2>1 DEF Written
<1>11. CleanSlotsAgree(y)
  <2>. SUFFICES ASSUME NEW t \in Slot, y.cache_page[t] # NoPage, ~y.cache_dirty[t],
                       y.cache_page[t] \notin y.lost
                PROVE  y.ram_pages[t] = BackingView(y, y.cache_page[t])
    BY DEF CleanSlotsAgree
  <2>1. ~x.cache_dirty[t] \/ (x.cache_dirty[t] /\ t < f)
    BY <1>6
  <2>. HIDE DEF y
  <2>2. CASE ~x.cache_dirty[t]
    BY <1>6, <1>10, <2>2 DEF Good, CleanSlotsAgree
  <2>3. CASE x.cache_dirty[t] /\ t < f
    BY <1>6, <1>8, <2>3
  <2>. QED BY <2>1, <2>2, <2>3
<1>12. ASSUME NEW p \in Page, \A t \in Slot : x.cache_page[t] # p
       PROVE  BackingView(y, p) = BackingView(x, p)
  BY <1>9, <1>12 DEF Written, DirtySlots
<1>13. ASSUME NEW p \in Page
       PROVE  GuestView(y, p) = GuestView(x, p)
  <2>. HIDE DEF y
  <2>1. CASE \E t \in Slot : x.cache_page[t] = p
    BY <2>1, <1>6, <1>7, ViewOfResident DEF Good
  <2>2. CASE \A t \in Slot : x.cache_page[t] # p
    BY <2>2, <1>6, <1>12, ViewOfAbsent
  <2>. QED BY <2>1, <2>2
<1>14. ASSUME f = SlotCount, NEW p \in Page, p \notin x.lost
       PROVE  BackingView(y, p) = GuestView(x, p)
  <2>1. CASE \E t \in Slot : x.cache_page[t] = p
    <3>1. PICK t \in Slot : x.cache_page[t] = p
      BY <2>1
    <3>2. GuestView(x, p) = x.ram_pages[t] /\ p # NoPage /\ t < f
      BY <3>1, <1>14, ViewOfResident, SizesAssumption DEF Good, NoPage, Page, Slot
    <3>3. CASE x.cache_dirty[t]
      BY <3>1, <3>2, <3>3, <1>8
    <3>4. CASE ~x.cache_dirty[t]
      BY <3>1, <3>2, <3>4, <1>10, <1>14 DEF Good, CleanSlotsAgree
    <3>. QED BY <3>3, <3>4
  <2>2. CASE \A t \in Slot : x.cache_page[t] # p
    BY <2>2, <1>12, ViewOfAbsent
  <2>. QED BY <2>1, <2>2
<1>. HIDE DEF y
<1>. QED BY <1>6, <1>7, <1>11, <1>13, <1>14 DEF Good, y

-----------------------------------------------------------------------------
(* The parts of a stored value.                                            *)

LEMMA PartsAreBytes ==
    ASSUME NEW o \in Offset, NEW k \in Width, NEW v \in [0 .. k - 1 -> Byte]
    PROVE  /\ \A y \in Offset \cap DOMAIN LowPart(o, k, v) : LowPart(o, k, v)[y] \in Byte
           /\ \A y \in Offset \cap DOMAIN HighPart(o, k, v) : HighPart(o, k, v)[y] \in Byte
<1>1. o \in Int /\ 0 <= o /\ o < PageSize /\ k \in Int /\ 1 <= k /\ PageSize \in Int
  BY SizesAssumption DEF Offset
<1>2. ASSUME NEW y \in Offset, o <= y, y < o + k
      PROVE  y - o \in 0 .. k - 1
  BY <1>1, <1>2 DEF Offset
<1>3. ASSUME NEW y \in Offset, y < o + k - PageSize
      PROVE  y + PageSize - o \in 0 .. k - 1
  BY <1>1, <1>3 DEF Offset
<1>. QED BY <1>2, <1>3 DEF LowPart, HighPart

-----------------------------------------------------------------------------
(* The actions.                                                            *)

\* Guest RAM after a step, compared with guest RAM before it.
Shows(r) == \A q \in Page \ c'.lost : GuestView(c', q) = r[q]

Now == [p \in Page |-> GuestView(c, p)]

LEMMA LoadStep ==
    ASSUME IInv, NEW p \in Page, NEW o \in Offset, NEW k \in Width,
           NEW io \in Outcome, Load(p, o, k, io)
    PROVE  /\ Good(c)' /\ c.lost \subseteq c'.lost /\ Shows(Now)
           /\ ret'.op = "load"
           /\ \A i \in 0 .. k - 1 : p \notin c'.lost => ret'.val[i] = GuestView(c, p)[o + i]
<1>. DEFINE y == MapPage(c, p, FALSE, io)
            s == MapSlot(c, p)
<1>1. /\ s \in Slot /\ Good(y) /\ y.cache_page[s] = p /\ c.lost \subseteq y.lost
      /\ \A q \in Page \ y.lost : GuestView(y, q) = GuestView(c, q)
  <2>1. PageMapped(c, p, FALSE, y, s)
    BY MapPageMaps DEF IInv
  <2>. HIDE DEF y, s
  <2>. QED BY <2>1 DEF PageMapped
<1>2. c' = y /\ ret' = [op |-> "load", val |-> [i \in 0 .. k - 1 |-> y.ram_pages[s][o + i]]]
  BY DEF Load
<1>. HIDE DEF y, s
<1>3. y.ram_pages[s] = GuestView(y, p)
  BY <1>1, ViewOfResident DEF Good
<1>. QED BY <1>1, <1>2, <1>3 DEF Shows, Now

LEMMA StoreStep ==
    ASSUME IInv, NEW p \in Page, NEW o \in Offset, NEW k \in Width,
           NEW v \in [0 .. k - 1 -> Byte], NEW io \in Outcome, Store(p, o, k, v, io)
    PROVE  /\ Good(c)' /\ c.lost \subseteq c'.lost
           /\ Shows([q \in Page |-> IF q = p
                        THEN [x \in Offset |-> IF x \in DOMAIN LowPart(o, k, v)
                                               THEN LowPart(o, k, v)[x]
                                               ELSE GuestView(c, p)[x]]
                        ELSE GuestView(c, q)])
           /\ ~Straddles(o, k) /\ ret' = [op |-> "store"]
<1>. DEFINE y == MapPage(c, p, TRUE, io)
            s == MapSlot(c, p)
            d == LowPart(o, k, v)
<1>1. /\ s \in Slot /\ Good(y) /\ y.cache_page[s] = p /\ y.cache_dirty[s]
      /\ c.lost \subseteq y.lost
      /\ \A q \in Page \ y.lost : GuestView(y, q) = GuestView(c, q)
  <2>1. PageMapped(c, p, TRUE, y, s)
    BY MapPageMaps DEF IInv
  <2>. HIDE DEF y, s
  <2>. QED BY <2>1 DEF PageMapped
<1>2. c' = Poke(y, s, d) /\ ret' = [op |-> "store"] /\ ~Straddles(o, k)
  BY DEF Store
<1>3. \A x \in Offset \cap DOMAIN d : d[x] \in Byte
  BY PartsAreBytes
<1>. HIDE DEF y, s, d
<1>4. /\ Good(c') /\ c'.lost = y.lost
      /\ \A q \in Page \ {p} : GuestView(c', q) = GuestView(y, q)
      /\ GuestView(c', p) = [x \in Offset |-> IF x \in DOMAIN d THEN d[x]
                                              ELSE GuestView(y, p)[x]]
  BY <1>1, <1>2, <1>3, PokeIsGood
<1>. QED BY <1>1, <1>2, <1>4 DEF Shows, d

LEMMA LoadStraddleStep ==
    ASSUME IInv, NEW p \in Page, p + 1 \in Page, NEW o \in Offset, NEW k \in Width,
           NEW lowFirst \in BOOLEAN, NEW io1 \in Outcome, NEW io2 \in Outcome,
           LoadStraddle(p, o, k, lowFirst, io1, io2)
    PROVE  /\ Good(c)' /\ c.lost \subseteq c'.lost /\ Shows(Now)
           /\ ret'.op = "load"
           /\ \A i \in 0 .. k - 1 :
                 /\ o + i < PageSize /\ p \notin c'.lost => ret'.val[i] = GuestView(c, p)[o + i]
                 /\ ~(o + i < PageSize) /\ p + 1 \notin c'.lost
                       => ret'.val[i] = GuestView(c, p + 1)[o + i - PageSize]
<1>. DEFINE p1 == IF lowFirst THEN p ELSE p + 1
            p2 == IF lowFirst THEN p + 1 ELSE p
            y  == MapPage(c, p1, FALSE, io1)
            z  == MapPage(y, p2, FALSE, io2)
            s1 == MapSlot(c, p1)
            s2 == MapSlot(y, p2)
            d1 == y.ram_pages[s1]
            d2 == z.ram_pages[s2]
<1>0. p1 \in Page /\ p2 \in Page
  OBVIOUS
<1>1. /\ s1 \in Slot /\ Good(y) /\ y.cache_page[s1] = p1 /\ c.lost \subseteq y.lost
      /\ \A q \in Page \ y.lost : GuestView(y, q) = GuestView(c, q)
  <2>1. PageMapped(c, p1, FALSE, y, s1)
    <3> HIDE DEF p1
    <3>. QED BY <1>0, MapPageMaps DEF IInv
  <2>. QED BY <2>1 DEF PageMapped
<1>2. /\ s2 \in Slot /\ Good(z) /\ z.cache_page[s2] = p2 /\ y.lost \subseteq z.lost
      /\ \A q \in Page \ z.lost : GuestView(z, q) = GuestView(y, q)
  <2>. HIDE DEF y
  <2>1. PageMapped(y, p2, FALSE, z, s2)
    <3> HIDE DEF p2
    <3>. QED BY <1>0, <1>1, MapPageMaps
  <2>. QED BY <2>1 DEF PageMapped
<1>3. c' = z /\ ret' = [op |-> "load",
          val |-> [i \in 0 .. k - 1 |->
              IF o + i < PageSize THEN (IF lowFirst THEN d1 ELSE d2)[o + i]
              ELSE (IF lowFirst THEN d2 ELSE d1)[o + i - PageSize]]]
  BY DEF LoadStraddle
<1>4. d1 = GuestView(y, p1) /\ d2 = GuestView(z, p2)
  <2>. HIDE DEF y, z, s1, s2, p1, p2
  <2>. QED BY <1>0, <1>1, <1>2, ViewOfResident DEF Good
<1>. HIDE DEF y, z, s1, s2, d1, d2
<1>5. /\ p1 \notin z.lost => d1 = GuestView(c, p1)
      /\ p2 \notin z.lost => d2 = GuestView(c, p2)
  <2>. HIDE DEF p1, p2
  <2>. QED BY <1>0, <1>1, <1>2, <1>4
<1>6. Good(c)' /\ c.lost \subseteq c'.lost /\ Shows(Now) /\ ret'.op = "load"
  <2>. HIDE DEF p1, p2
  <2>. QED BY <1>1, <1>2, <1>3 DEF Shows, Now
<1>7. ASSUME NEW i \in 0 .. k - 1, o + i < PageSize, p \notin c'.lost
      PROVE  ret'.val[i] = GuestView(c, p)[o + i]
  BY <1>3, <1>5, <1>7
<1>8. ASSUME NEW i \in 0 .. k - 1, ~(o + i < PageSize), p + 1 \notin c'.lost
      PROVE  ret'.val[i] = GuestView(c, p + 1)[o + i - PageSize]
  BY <1>3, <1>5, <1>8
<1>. QED BY <1>6, <1>7, <1>8

LEMMA StoreStraddleStep ==
    ASSUME IInv, NEW p \in Page, p + 1 \in Page, NEW o \in Offset, NEW k \in Width,
           NEW v \in [0 .. k - 1 -> Byte], NEW io1 \in Outcome, NEW io2 \in Outcome,
           StoreStraddle(p, o, k, v, io1, io2)
    PROVE  /\ Good(c)' /\ c.lost \subseteq c'.lost
           /\ Shows([q \in Page |->
                 IF q = p THEN [x \in Offset |-> IF x \in DOMAIN LowPart(o, k, v)
                                                 THEN LowPart(o, k, v)[x]
                                                 ELSE GuestView(c, p)[x]]
                 ELSE IF q = p + 1
                      THEN [x \in Offset |-> IF x \in DOMAIN HighPart(o, k, v)
                                             THEN HighPart(o, k, v)[x]
                                             ELSE GuestView(c, p + 1)[x]]
                 ELSE GuestView(c, q)])
           /\ ret' = [op |-> "store"]
<1>. DEFINE m1 == MapPage(c, p, TRUE, io1)
            s1 == MapSlot(c, p)
            d1 == LowPart(o, k, v)
            y  == Poke(m1, s1, d1)
            m2 == MapPage(y, p + 1, TRUE, io2)
            s2 == MapSlot(y, p + 1)
            d2 == HighPart(o, k, v)
<1>1. /\ s1 \in Slot /\ Good(m1) /\ m1.cache_page[s1] = p /\ m1.cache_dirty[s1]
      /\ c.lost \subseteq m1.lost
      /\ \A q \in Page \ m1.lost : GuestView(m1, q) = GuestView(c, q)
  <2>1. PageMapped(c, p, TRUE, m1, s1)
    BY MapPageMaps DEF IInv
  <2>. HIDE DEF m1, s1
  <2>. QED BY <2>1 DEF PageMapped
<1>2. /\ \A x \in Offset \cap DOMAIN d1 : d1[x] \in Byte
      /\ \A x \in Offset \cap DOMAIN d2 : d2[x] \in Byte
  BY PartsAreBytes
<1>3. /\ Good(y) /\ y.lost = m1.lost
      /\ \A q \in Page \ {p} : GuestView(y, q) = GuestView(m1, q)
      /\ GuestView(y, p) = [x \in Offset |-> IF x \in DOMAIN d1 THEN d1[x]
                                             ELSE GuestView(m1, p)[x]]
  <2>. HIDE DEF m1, s1, d1
  <2>. QED BY <1>1, <1>2, PokeIsGood
<1>4. c' = Poke(m2, s2, d2) /\ ret' = [op |-> "store"]
  BY DEF StoreStraddle
<1>. HIDE DEF y, d1, d2
<1>5. /\ s2 \in Slot /\ Good(m2) /\ m2.cache_page[s2] = p + 1 /\ m2.cache_dirty[s2]
      /\ y.lost \subseteq m2.lost
      /\ \A q \in Page \ m2.lost : GuestView(m2, q) = GuestView(y, q)
  <2>1. PageMapped(y, p + 1, TRUE, m2, s2)
    BY <1>3, MapPageMaps
  <2>. HIDE DEF m2, s2
  <2>. QED BY <2>1 DEF PageMapped
<1>. HIDE DEF m1, s1, m2, s2
<1>6. /\ Good(c') /\ c'.lost = m2.lost
      /\ \A q \in Page \ {p + 1} : GuestView(c', q) = GuestView(m2, q)
      /\ GuestView(c', p + 1) = [x \in Offset |-> IF x \in DOMAIN d2 THEN d2[x]
                                                  ELSE GuestView(m2, p + 1)[x]]
  BY <1>2, <1>4, <1>5, PokeIsGood
<1>7. p # p + 1
  BY DEF Page
<1>8. ASSUME NEW q \in Page, q \notin c'.lost, q # p, q # p + 1
      PROVE  GuestView(c', q) = GuestView(c, q)
  BY <1>1, <1>3, <1>5, <1>6, <1>8
<1>9. p \notin c'.lost =>
        GuestView(c', p) = [x \in Offset |-> IF x \in DOMAIN d1 THEN d1[x]
                                             ELSE GuestView(c, p)[x]]
  BY <1>1, <1>3, <1>5, <1>6, <1>7
<1>10. p + 1 \notin c'.lost =>
        GuestView(c', p + 1) = [x \in Offset |-> IF x \in DOMAIN d2 THEN d2[x]
                                                 ELSE GuestView(c, p + 1)[x]]
  BY <1>1, <1>3, <1>5, <1>6, <1>7
<1>. QED BY <1>1, <1>3, <1>4, <1>5, <1>6, <1>7, <1>8, <1>9, <1>10 DEF Shows, d1, d2

LEMMA PagePtrStep ==
    ASSUME IInv, NEW p \in Page, NEW wr \in BOOLEAN, NEW io \in Outcome, PagePtr(p, wr, io)
    PROVE  /\ Good(c)' /\ c.lost \subseteq c'.lost /\ Shows(Now)
           /\ ret'.op = "ptr"
           /\ CachePtrToLinear(c', ret'.slot) = ret'.page
<1>1. PageMapped(c, p, wr, MapPage(c, p, wr, io), MapSlot(c, p))
  BY MapPageMaps DEF IInv
<1>. QED BY <1>1 DEF PageMapped, PagePtr, Shows, Now, CachePtrToLinear

LEMMA FlushStep ==
    ASSUME IInv, NEW f \in 0 .. SlotCount, NEW torn \in SUBSET Offset, NEW sync \in BOOLEAN,
           Flush(f, torn, sync)
    PROVE  /\ Good(c)' /\ c'.lost = c.lost /\ Shows(Now)
           /\ ret'.op = "flush"
           /\ ret'.val => \A p \in Page \ c.lost : BackingView(c', p) = GuestView(c, p)
<1>1. c' = FlushTo(c, f, torn) /\ ret' = [op |-> "flush", val |-> f = SlotCount /\ sync]
  BY DEF Flush
<1>2. /\ Good(c') /\ c'.lost = c.lost
      /\ \A p \in Page : GuestView(c', p) = GuestView(c, p)
      /\ f = SlotCount => \A p \in Page \ c.lost : BackingView(c', p) = GuestView(c, p)
  BY <1>1, FlushIsGood DEF IInv
<1>. QED BY <1>1, <1>2 DEF Shows, Now

-----------------------------------------------------------------------------
(* The theorems.                                                           *)

LEMMA InitIsGood == Init => IInv
<1>. SUFFICES ASSUME Init PROVE IInv
  OBVIOUS
<1>1. Zeroes \in Frame
  BY SizesAssumption DEF Zeroes, Frame
<1>2. 0 \in Slot
  BY SizesAssumption DEF Slot
<1>3. c \in Cache
  BY <1>1, <1>2 DEF Init, Cache
<1>4. \A s \in Slot : c.cache_page[s] = NoPage
  BY DEF Init
<1>. QED BY <1>3, <1>4 DEF IInv, Good, AliasFree, CleanSlotsAgree, Init

\* The cases of a step, with the outcomes in their set.
LEMMA NextCases ==
    ASSUME Next
    PROVE  /\ medium' = medium
           /\ \/ \E p \in Page, o \in Offset, k \in Width, io \in Outcome :
                    \/ Load(p, o, k, io)
                    \/ \E v \in [0 .. k - 1 -> Byte] : Store(p, o, k, v, io)
              \/ \E p \in Page, o \in Offset, k \in Width, io1, io2 \in Outcome :
                    /\ p + 1 \in Page /\ Straddles(o, k)
                    /\ \/ \E lowFirst \in BOOLEAN : LoadStraddle(p, o, k, lowFirst, io1, io2)
                       \/ \E v \in [0 .. k - 1 -> Byte] : StoreStraddle(p, o, k, v, io1, io2)
              \/ \E p \in Page, wr \in BOOLEAN, io \in Outcome : PagePtr(p, wr, io)
              \/ FlushAll
<1>1. medium' = medium
  BY DEF Next
<1>2. CASE Access
  BY <1>1, <1>2, OutcomesAreOutcomes DEF Access
<1>3. CASE AccessStraddle
  BY <1>1, <1>3, OutcomesAreOutcomes DEF AccessStraddle
<1>4. CASE Pointer
  BY <1>1, <1>4, OutcomesAreOutcomes DEF Pointer
<1>5. CASE FlushAll
  BY <1>1, <1>5
<1>. QED BY <1>2, <1>3, <1>4, <1>5 DEF Next

LEMMA StepIsGood == IInv /\ [Next]_vars => IInv'
<1>. SUFFICES ASSUME IInv, [Next]_vars PROVE IInv'
  OBVIOUS
<1>1. CASE UNCHANGED vars
  BY <1>1 DEF vars, IInv, Good, AliasFree, CleanSlotsAgree
<1>2. CASE Next
  <2>1. Good(c)'
    <3>1. ASSUME NEW p \in Page, NEW o \in Offset, NEW k \in Width, NEW io \in Outcome,
                 \/ Load(p, o, k, io)
                 \/ \E v \in [0 .. k - 1 -> Byte] : Store(p, o, k, v, io)
          PROVE  Good(c)'
      BY <3>1, LoadStep, StoreStep
    <3>2. ASSUME NEW p \in Page, NEW o \in Offset, NEW k \in Width, p + 1 \in Page,
                 NEW io1 \in Outcome, NEW io2 \in Outcome,
                 \/ \E lowFirst \in BOOLEAN : LoadStraddle(p, o, k, lowFirst, io1, io2)
                 \/ \E v \in [0 .. k - 1 -> Byte] : StoreStraddle(p, o, k, v, io1, io2)
          PROVE  Good(c)'
      BY <3>2, LoadStraddleStep, StoreStraddleStep
    <3>3. ASSUME NEW p \in Page, NEW wr \in BOOLEAN, NEW io \in Outcome, PagePtr(p, wr, io)
          PROVE  Good(c)'
      BY <3>3, PagePtrStep
    <3>4. CASE FlushAll
      BY <3>4, FlushStep DEF FlushAll
    <3>. QED BY <1>2, <3>1, <3>2, <3>3, <3>4, NextCases
  <2>. QED BY <1>2, <2>1, NextCases DEF IInv
<1>. QED BY <1>1, <1>2

\* The inductive invariant holds in every reachable state.
THEOREM Invariance == Spec => []IInv
  BY InitIsGood, StepIsGood, PTL DEF Spec

\* The statics of ega128_paging.c hold values of their types, for any number
\* of pages, slots and hot entries.
THEOREM TypeCorrect == Spec => []TypeOK
<1>1. IInv => TypeOK
  BY DEF IInv, Good, TypeOK
<1>. QED BY Invariance, <1>1, PTL

\* No guest page is ever cached twice.
THEOREM NoAliasHolds == Spec => []NoAlias
<1>1. IInv => NoAlias
  BY DEF IInv, Good, NoAlias
<1>. QED BY Invariance, <1>1, PTL

\* Only ega128_page_ptr hands out a pointer, and nothing runs between the call
\* and the use of the slot it returned: the address recovered from the pointer
\* is the one it was made for, whatever the hot list still names.
THEOREM PtrRoundTripHolds == Spec => []PtrRoundTrip
<1>1. Init => PtrRoundTrip
  BY DEF Init, PtrRoundTrip
<1>2. ASSUME IInv, Next PROVE PtrRoundTrip'
  <2>1. ASSUME NEW p \in Page, NEW o \in Offset, NEW k \in Width, NEW io \in Outcome
        PROVE  /\ Load(p, o, k, io) => ret'.op = "load"
               /\ \A v \in [0 .. k - 1 -> Byte] : Store(p, o, k, v, io) => ret'.op = "store"
    <3>1. \A w : ret' = [op |-> "load", val |-> w] => ret'.op = "load"
      OBVIOUS
    <3>2. ret' = [op |-> "store"] => ret'.op = "store"
      OBVIOUS
    <3>. QED BY <3>1, <3>2, Zenon DEF Load, Store
  <2>2. ASSUME NEW p \in Page, NEW o \in Offset, NEW k \in Width, p + 1 \in Page,
               NEW io1 \in Outcome, NEW io2 \in Outcome
        PROVE  /\ \A lowFirst \in BOOLEAN :
                     LoadStraddle(p, o, k, lowFirst, io1, io2) => ret'.op = "load"
               /\ \A v \in [0 .. k - 1 -> Byte] :
                     StoreStraddle(p, o, k, v, io1, io2) => ret'.op = "store"
    <3>1. \A w : ret' = [op |-> "load", val |-> w] => ret'.op = "load"
      OBVIOUS
    <3>2. ret' = [op |-> "store"] => ret'.op = "store"
      OBVIOUS
    <3>. QED BY <3>1, <3>2, Zenon DEF LoadStraddle, StoreStraddle
  <2>3. FlushAll => ret'.op = "flush"
    BY DEF FlushAll, Flush
  <2>4. \/ ret'.op \in {"load", "store", "flush"}
        \/ ret'.op = "ptr" /\ CachePtrToLinear(c', ret'.slot) = ret'.page
    BY <1>2, <2>1, <2>2, <2>3, NextCases, PagePtrStep
  <2>. QED BY <2>4 DEF PtrRoundTrip, CachePtrToLinear
<1>3. IInv /\ PtrRoundTrip /\ [Next]_vars => PtrRoundTrip'
  BY <1>2 DEF vars, PtrRoundTrip, CachePtrToLinear
<1>. QED BY Invariance, <1>1, <1>3, PTL DEF Spec

\* A clean frame equals its backing copy unless the page was lost.
THEOREM CleanAgreesHolds == Spec => []CleanAgrees
<1>1. IInv => CleanAgrees
  BY DEF IInv, Good, CleanAgrees
<1>. QED BY Invariance, <1>1, PTL

\* A flush that reports success has written all of guest RAM.
THEOREM FlushTruth == Spec => FlushReportsTruth
<1>1. ASSUME Next, ret'.op = "flush" PROVE FlushAll
  <2>1. ASSUME NEW p \in Page, NEW o \in Offset, NEW k \in Width, NEW io \in Outcome
        PROVE  /\ ~Load(p, o, k, io)
               /\ \A v \in [0 .. k - 1 -> Byte] : ~Store(p, o, k, v, io)
    <3>1. ASSUME NEW w, ret' = [op |-> "load", val |-> w] PROVE FALSE
      BY <1>1, <3>1
    <3>2. ~Load(p, o, k, io)
      BY <3>1, Zenon DEF Load
    <3>3. ret' # [op |-> "store"]
      BY <1>1
    <3>. QED BY <3>2, <3>3, Zenon DEF Store
  <2>2. ASSUME NEW p \in Page, NEW o \in Offset, NEW k \in Width,
               NEW io1 \in Outcome, NEW io2 \in Outcome
        PROVE  /\ \A lowFirst \in BOOLEAN : ~LoadStraddle(p, o, k, lowFirst, io1, io2)
               /\ \A v \in [0 .. k - 1 -> Byte] : ~StoreStraddle(p, o, k, v, io1, io2)
    <3>1. ASSUME NEW w, ret' = [op |-> "load", val |-> w] PROVE FALSE
      BY <1>1, <3>1
    <3>2. \A lowFirst \in BOOLEAN : ~LoadStraddle(p, o, k, lowFirst, io1, io2)
      BY <3>1, Zenon DEF LoadStraddle
    <3>3. ret' # [op |-> "store"]
      BY <1>1
    <3>. QED BY <3>2, <3>3, Zenon DEF StoreStraddle
  <2>3. \A p \in Page, wr \in BOOLEAN, io \in Outcome : ~PagePtr(p, wr, io)
    BY <1>1 DEF PagePtr
  <2>. QED BY <1>1, <2>1, <2>2, <2>3, NextCases
<1>2. ASSUME IInv, Next
      PROVE  ret'.op = "flush" /\ ret'.val =>
                \A p \in Page \ c.lost : BackingView(c', p) = GuestView(c, p)
  BY <1>1, <1>2, FlushStep DEF FlushAll
<1>3. IInv /\ [Next]_vars =>
        [ret'.op = "flush" /\ ret'.val =>
            \A p \in Page \ c.lost : BackingView(c', p) = GuestView(c, p)]_vars
  BY <1>2
<1>. QED BY Invariance, <1>3, PTL DEF Spec, FlushReportsTruth

-----------------------------------------------------------------------------
(* Refinement.                                                             *)

LEMMA RamPage == Ram!Page = Page /\ Ram!Offset = Offset
  BY DEF Ram!Page, Page, Ram!Offset, Offset

\* Storing in one page, and across two, is what GuestRam's Put says.
LEMMA PutLow ==
    ASSUME IInv, NEW p \in Page, NEW o \in Offset, NEW k \in Width,
           NEW v \in [0 .. k - 1 -> Byte], ~Straddles(o, k), NEW q \in Page
    PROVE  Ram!Put(Now, p, o, k, v)[q] =
              IF q = p THEN [x \in Offset |-> IF x \in DOMAIN LowPart(o, k, v)
                                              THEN LowPart(o, k, v)[x]
                                              ELSE GuestView(c, p)[x]]
              ELSE GuestView(c, q)
<1>1. o \in Int /\ 0 <= o /\ o < PageSize /\ k \in Int /\ 1 <= k /\ PageSize \in Int
  BY SizesAssumption DEF Offset
<1>2. ASSUME NEW x \in Offset
      PROVE  /\ x \in o .. o + k - 1 <=> x \in DOMAIN LowPart(o, k, v)
             /\ x \in DOMAIN LowPart(o, k, v) => LowPart(o, k, v)[x] = v[x - o]
             /\ x + PageSize \notin o .. o + k - 1
  BY <1>1 DEF LowPart, Offset, Straddles
<1>3. GuestView(c, q) \in Frame
  BY ViewIsFrame DEF IInv
<1>4. Ram!Put(Now, p, o, k, v)[q] =
        [x \in Offset |-> IF q = p /\ x \in o .. o + k - 1 THEN v[x - o]
                          ELSE IF q = p + 1 /\ x + PageSize \in o .. o + k - 1
                               THEN v[x + PageSize - o]
                          ELSE GuestView(c, q)[x]]
  BY RamPage DEF Ram!Put, Now
<1>5. GuestView(c, q) = [x \in Offset |-> GuestView(c, q)[x]]
  BY <1>3 DEF Frame
<1>6. CASE q = p
  BY <1>2, <1>4, <1>6
<1>7. CASE q # p
  BY <1>2, <1>4, <1>5, <1>7
<1>. QED BY <1>6, <1>7

LEMMA PutBoth ==
    ASSUME IInv, NEW p \in Page, NEW o \in Offset, NEW k \in Width,
           NEW v \in [0 .. k - 1 -> Byte], NEW q \in Page
    PROVE  Ram!Put(Now, p, o, k, v)[q] =
              IF q = p THEN [x \in Offset |-> IF x \in DOMAIN LowPart(o, k, v)
                                              THEN LowPart(o, k, v)[x]
                                              ELSE GuestView(c, p)[x]]
              ELSE IF q = p + 1
                   THEN [x \in Offset |-> IF x \in DOMAIN HighPart(o, k, v)
                                          THEN HighPart(o, k, v)[x]
                                          ELSE GuestView(c, p + 1)[x]]
              ELSE GuestView(c, q)
<1>1. o \in Int /\ 0 <= o /\ o < PageSize /\ k \in Int /\ 1 <= k /\ PageSize \in Int
  BY SizesAssumption DEF Offset
<1>2. ASSUME NEW x \in Offset
      PROVE  /\ x \in o .. o + k - 1 <=> x \in DOMAIN LowPart(o, k, v)
             /\ x \in DOMAIN LowPart(o, k, v) => LowPart(o, k, v)[x] = v[x - o]
             /\ x + PageSize \in o .. o + k - 1 <=> x \in DOMAIN HighPart(o, k, v)
             /\ x \in DOMAIN HighPart(o, k, v) => HighPart(o, k, v)[x] = v[x + PageSize - o]
  BY <1>1 DEF LowPart, HighPart, Offset
<1>3. GuestView(c, q) \in Frame
  BY ViewIsFrame DEF IInv
<1>4. Ram!Put(Now, p, o, k, v)[q] =
        [x \in Offset |-> IF q = p /\ x \in o .. o + k - 1 THEN v[x - o]
                          ELSE IF q = p + 1 /\ x + PageSize \in o .. o + k - 1
                               THEN v[x + PageSize - o]
                          ELSE GuestView(c, q)[x]]
  BY RamPage DEF Ram!Put, Now
<1>5. GuestView(c, q) = [x \in Offset |-> GuestView(c, q)[x]]
  BY <1>3 DEF Frame
<1>6. p # p + 1
  BY DEF Page
<1>7. CASE q = p
  BY <1>2, <1>4, <1>6, <1>7
<1>8. CASE q = p + 1
  BY <1>2, <1>4, <1>6, <1>8
<1>9. CASE q # p /\ q # p + 1
  BY <1>4, <1>5, <1>9
<1>. QED BY <1>7, <1>8, <1>9

\* A step that shows r is a step of GuestRam that keeps r.
LEMMA ShowsIsKept ==
    ASSUME NEW r, Good(c)', c.lost \subseteq c'.lost, Shows(r)
    PROVE  Ram!KeptExceptLost(r)
<1>1. c'.lost \subseteq Page
  BY DEF Good, Cache
<1>. QED BY <1>1, RamPage DEF Ram!KeptExceptLost, Shows

LEMMA StepRefines == IInv /\ [Next]_vars => [Ram!Next]_<<Now, c.lost, ret>>
<1>. SUFFICES ASSUME IInv, [Next]_vars PROVE [Ram!Next]_<<Now, c.lost, ret>>
  OBVIOUS
<1>1. CASE UNCHANGED vars
  BY <1>1 DEF vars, Now, GuestView, Resident, BackingView
<1>2. ASSUME NEW p \in Page, NEW o \in Offset, NEW k \in Width, NEW io \in Outcome,
             Load(p, o, k, io)
      PROVE  Ram!Next
  <2>1. ~Straddles(o, k)
    BY <1>2 DEF Load
  <2>2. Ram!KeptExceptLost(Now)
    BY <1>2, LoadStep, ShowsIsKept
  <2>3. ASSUME NEW i \in 0 .. k - 1
        PROVE  /\ Ram!CellPage(p, o, i) = p
               /\ Ram!Cell(Now, p, o, i) = GuestView(c, p)[o + i]
    <3>1. o + i < PageSize
      BY <2>1, SizesAssumption DEF Straddles, Offset
    <3>. QED BY <3>1 DEF Ram!CellPage, Ram!CellOffset, Ram!Cell, Now
  <2>4. Ram!Load(p, o, k)
    BY <1>2, <2>2, <2>3, LoadStep DEF Ram!Load, Now
  <2>5. Ram!InRange(p, o, k)
    BY <2>1, SizesAssumption DEF Ram!InRange, Straddles, Offset
  <2>. QED BY <2>4, <2>5, RamPage DEF Ram!Next
<1>3. ASSUME NEW p \in Page, NEW o \in Offset, NEW k \in Width, NEW io \in Outcome,
             NEW v \in [0 .. k - 1 -> Byte], Store(p, o, k, v, io)
      PROVE  Ram!Next
  <2>1. ~Straddles(o, k)
    BY <1>3, StoreStep
  <2>. DEFINE r == [q \in Page |->
                      IF q = p THEN [x \in Offset |-> IF x \in DOMAIN LowPart(o, k, v)
                                                      THEN LowPart(o, k, v)[x]
                                                      ELSE GuestView(c, p)[x]]
                      ELSE GuestView(c, q)]
  <2>shows. Shows(r)
    BY <1>3, StoreStep
  <2>put. \A q \in Page : Ram!Put(Now, p, o, k, v)[q] = r[q]
    BY <2>1, PutLow
  <2>. HIDE DEF r
  <2>2. Shows(Ram!Put(Now, p, o, k, v))
    BY <2>shows, <2>put DEF Shows
  <2>3. Ram!Store(p, o, k, v)
    BY <1>3, <2>2, StoreStep, ShowsIsKept DEF Ram!Store, Now
  <2>4. Ram!InRange(p, o, k)
    BY <2>1, SizesAssumption DEF Ram!InRange, Straddles, Offset
  <2>. QED BY <2>3, <2>4, RamPage DEF Ram!Next
<1>4. ASSUME NEW p \in Page, NEW o \in Offset, NEW k \in Width, p + 1 \in Page,
             NEW io1 \in Outcome, NEW io2 \in Outcome, NEW lowFirst \in BOOLEAN,
             LoadStraddle(p, o, k, lowFirst, io1, io2)
      PROVE  Ram!Next
  <2>1. Ram!KeptExceptLost(Now)
    BY <1>4, LoadStraddleStep, ShowsIsKept
  <2>2. ASSUME NEW i \in 0 .. k - 1, Ram!CellPage(p, o, i) \notin c'.lost
        PROVE  ret'.val[i] = Ram!Cell(Now, p, o, i)
    <3>1. CASE o + i < PageSize
      <4>1. Ram!CellPage(p, o, i) = p /\ Ram!Cell(Now, p, o, i) = GuestView(c, p)[o + i]
        BY <3>1 DEF Ram!CellPage, Ram!CellOffset, Ram!Cell, Now
      <4>2. o + i < PageSize /\ p \notin c'.lost => ret'.val[i] = GuestView(c, p)[o + i]
        BY <1>4, LoadStraddleStep
      <4>. QED BY <2>2, <3>1, <4>1, <4>2
    <3>2. CASE ~(o + i < PageSize)
      <4>1. /\ Ram!CellPage(p, o, i) = p + 1
            /\ Ram!Cell(Now, p, o, i) = GuestView(c, p + 1)[o + i - PageSize]
        BY <1>4, <3>2 DEF Ram!CellPage, Ram!CellOffset, Ram!Cell, Now
      <4>2. ~(o + i < PageSize) /\ p + 1 \notin c'.lost
               => ret'.val[i] = GuestView(c, p + 1)[o + i - PageSize]
        BY <1>4, LoadStraddleStep
      <4>. QED BY <2>2, <3>2, <4>1, <4>2
    <3>. QED BY <3>1, <3>2
  <2>3. Ram!Load(p, o, k)
    BY <1>4, <2>1, <2>2, LoadStraddleStep DEF Ram!Load, Now
  <2>. QED BY <1>4, <2>3, RamPage DEF Ram!Next, Ram!InRange
<1>5. ASSUME NEW p \in Page, NEW o \in Offset, NEW k \in Width, p + 1 \in Page,
             NEW io1 \in Outcome, NEW io2 \in Outcome, NEW v \in [0 .. k - 1 -> Byte],
             StoreStraddle(p, o, k, v, io1, io2)
      PROVE  Ram!Next
  <2>. DEFINE r == [q \in Page |->
                      IF q = p THEN [x \in Offset |-> IF x \in DOMAIN LowPart(o, k, v)
                                                      THEN LowPart(o, k, v)[x]
                                                      ELSE GuestView(c, p)[x]]
                      ELSE IF q = p + 1
                           THEN [x \in Offset |-> IF x \in DOMAIN HighPart(o, k, v)
                                                  THEN HighPart(o, k, v)[x]
                                                  ELSE GuestView(c, p + 1)[x]]
                      ELSE GuestView(c, q)]
  <2>shows. Shows(r)
    BY <1>5, StoreStraddleStep
  <2>put. \A q \in Page : Ram!Put(Now, p, o, k, v)[q] = r[q]
    BY PutBoth
  <2>. HIDE DEF r
  <2>1. Shows(Ram!Put(Now, p, o, k, v))
    BY <2>shows, <2>put DEF Shows
  <2>2. Ram!Store(p, o, k, v)
    BY <1>5, <2>1, StoreStraddleStep, ShowsIsKept DEF Ram!Store, Now
  <2>. QED BY <1>5, <2>2, RamPage DEF Ram!Next, Ram!InRange
<1>6. ASSUME NEW p \in Page, NEW wr \in BOOLEAN, NEW io \in Outcome, PagePtr(p, wr, io)
      PROVE  Ram!Next
  BY <1>6, PagePtrStep, ShowsIsKept DEF Ram!Next, Ram!Resolve, Now
<1>7. ASSUME FlushAll PROVE Ram!Next
  <2>1. PICK f \in 0 .. SlotCount, torn \in SUBSET Offset, sync \in BOOLEAN : Flush(f, torn, sync)
    BY <1>7 DEF FlushAll
  <2>2. Good(c)' /\ c'.lost = c.lost /\ Shows(Now) /\ ret'.op = "flush"
    BY <2>1, FlushStep
  <2>3. Ram!KeptExceptLost(Now)
    BY <2>2, ShowsIsKept
  <2>. QED BY <2>2, <2>3 DEF Ram!Next, Ram!Flush, Now
<1>8. CASE Next
  BY <1>2, <1>3, <1>4, <1>5, <1>6, <1>7, <1>8, NextCases
<1>. QED BY <1>1, <1>8

LEMMA InitRefines == Init => Ram!Init
<1>. SUFFICES ASSUME Init PROVE Ram!Init
  OBVIOUS
<1>1. \A p \in Page, s \in Slot : c.cache_page[s] # p
  BY DEF Init, NoPage, Page
<1>2. \A p \in Page : GuestView(c, p) = Zeroes
  BY <1>1, ViewOfAbsent DEF BackingView, Init
<1>. QED BY <1>2, RamPage DEF Init, Ram!Init, Zeroes

\* Paged guest RAM implements plain byte memory in which only the pages named
\* by a backing fault may lose their contents.
THEOREM Implements == Spec => PlainMemory
<1>1. IInv /\ [Next]_vars => [Ram!Next]_<<[p \in Page |-> GuestView(c, p)], c.lost, ret>>
  BY StepRefines DEF Now
<1>. QED BY Invariance, InitRefines, <1>1, PTL DEF Spec, PlainMemory, Ram!Spec

-----------------------------------------------------------------------------
(* Addresses.                                                              *)

\* Division by the page size.
LEMMA DivRule ==
    ASSUME NEW a \in Nat
    PROVE  /\ PageOf(a) \in Nat /\ Off(a) \in Offset
           /\ a = PageOf(a) * PageSize + Off(a)
BY SizesAssumption DEF PageOf, Off, Offset

\* A page and an offset make one address.
LEMMA Unique ==
    ASSUME NEW p \in Nat, NEW q \in Nat, NEW o \in Offset, NEW i \in Offset,
           p * PageSize + o = q * PageSize + i
    PROVE  p = q /\ o = i
<1>1. ASSUME NEW l \in Nat, NEW m \in Nat, l < m
      PROVE  l * PageSize + PageSize <= m * PageSize
  <2>1. PICK d \in Nat : m = l + 1 + d
    <3>1. m - l - 1 \in Nat /\ m = l + 1 + (m - l - 1)
      BY <1>1
    <3> QED
      BY <3>1
  <2>2. m * PageSize = l * PageSize + PageSize + d * PageSize
    BY <2>1, SizesAssumption
  <2>3. d * PageSize \in Nat /\ l * PageSize \in Nat
    BY SizesAssumption
  <2> QED
    BY <2>2, <2>3, SizesAssumption
<1>2. p * PageSize \in Nat /\ q * PageSize \in Nat /\ o \in Int /\ i \in Int
      /\ 0 <= o /\ o < PageSize /\ 0 <= i /\ i < PageSize
  BY SizesAssumption DEF Offset
<1>3. ~ p < q
  BY <1>1, <1>2, SizesAssumption
<1>4. ~ q < p
  BY <1>1, <1>2, SizesAssumption
<1>5. p = q
  BY <1>3, <1>4
<1> QED
  BY <1>2, <1>5

\* The page, the offset and the rest of the page of a guest address.
LEMMA AddrIs ==
    ASSUME NEW a \in Addr
    PROVE  /\ a \in Nat /\ PageOf(a) \in Page /\ Off(a) \in Offset
           /\ Span(a) \in 1 .. PageSize
           /\ a = PageOf(a) * PageSize + Off(a)
<1>1. a \in Nat /\ a < PageCount * PageSize /\ PageCount * PageSize \in Nat
  BY SizesAssumption DEF Addr
<1>2. PageOf(a) \in Nat /\ Off(a) \in Offset /\ a = PageOf(a) * PageSize + Off(a)
  BY <1>1, DivRule
<1>3. PageOf(a) < PageCount
  <2>1. SUFFICES ASSUME PageCount <= PageOf(a) PROVE FALSE
    BY <1>2, SizesAssumption
  <2>2. PICK d \in Nat : PageOf(a) = PageCount + d
    <3>1. PageOf(a) - PageCount \in Nat /\ PageOf(a) = PageCount + (PageOf(a) - PageCount)
      BY <1>2, <2>1, SizesAssumption
    <3> QED
      BY <3>1
  <2>3. PageOf(a) * PageSize = PageCount * PageSize + d * PageSize
    BY <2>2, SizesAssumption
  <2>4. d * PageSize \in Nat
    BY SizesAssumption
  <2> QED
    BY <1>1, <1>2, <2>3, <2>4, SizesAssumption DEF Offset
<1> QED
  BY <1>1, <1>2, <1>3, SizesAssumption DEF Page, Offset, Span

\* Addresses have no gaps.
LEMMA Between ==
    ASSUME NEW a \in Addr, NEW b \in Addr, NEW d \in a .. b
    PROVE  d \in Addr
<1>1. PageCount * PageSize \in Nat
  BY SizesAssumption
<1> QED
  BY <1>1 DEF Addr

\* What follows an address in its page.
LEMMA InSpan ==
    ASSUME NEW a \in Addr, NEW i \in 0 .. Span(a) - 1
    PROVE  /\ a + i \in Addr => PageOf(a + i) = PageOf(a) /\ Off(a + i) = Off(a) + i
           /\ Off(a) + i \in Offset
<1>1. /\ a \in Nat /\ PageOf(a) \in Nat /\ Off(a) \in Offset /\ PageSize \in Nat
      /\ a = PageOf(a) * PageSize + Off(a)
  BY AddrIs, SizesAssumption DEF Page
<1>2. Off(a) + i \in Offset
  BY <1>1 DEF Span, Offset
<1>3. ASSUME a + i \in Addr
      PROVE  PageOf(a + i) = PageOf(a) /\ Off(a + i) = Off(a) + i
  <2>1. /\ PageOf(a + i) \in Nat /\ Off(a + i) \in Offset
        /\ a + i = PageOf(a + i) * PageSize + Off(a + i)
    BY <1>3, AddrIs DEF Page
  <2>2. PageOf(a) * PageSize \in Nat
    BY <1>1
  <2>3. a + i = PageOf(a) * PageSize + (Off(a) + i)
    BY <1>1, <2>2 DEF Offset
  <2> DEFINE q == PageOf(a + i)
             j == Off(a + i)
             m == Off(a) + i
  <2>4. PageOf(a) * PageSize + m = q * PageSize + j /\ q \in Nat /\ j \in Offset /\ m \in Offset
    BY <1>2, <2>1, <2>3
  <2> HIDE DEF q, j, m
  <2>5. PageOf(a) = q /\ m = j
    BY <1>1, <2>4, Unique
  <2> QED
    BY <2>5 DEF q, j, m
<1> QED
  BY <1>2, <1>3

\* Two addresses of one page.
LEMMA SamePage ==
    ASSUME NEW a \in Addr, NEW b \in Addr, PageOf(a) = PageOf(b)
    PROVE  b - a = Off(b) - Off(a)
<1>1. a = PageOf(a) * PageSize + Off(a) /\ b = PageOf(a) * PageSize + Off(b)
  BY AddrIs
<1>2. PageOf(a) * PageSize \in Int /\ Off(a) \in Int /\ Off(b) \in Int
  BY AddrIs, SizesAssumption DEF Page, Offset
<1> QED
  BY <1>1, <1>2

-----------------------------------------------------------------------------
(* Guest RAM as one array.                                                 *)

\* A pager that has lost nothing.
Whole(x) == Good(x) /\ x.lost = {}

\* An image is an array of bytes, each where the guest reads it.
LEMMA ImageIs ==
    ASSUME NEW x, Good(x)
    PROVE  /\ Image(x) \in [Addr -> Byte]
           /\ \A a \in Addr : Image(x)[a] = GuestView(x, PageOf(a))[Off(a)]
<1>1. ASSUME NEW a \in Addr PROVE GuestView(x, PageOf(a))[Off(a)] \in Byte
  BY AddrIs, ViewIsFrame DEF Frame
<1> QED
  BY <1>1 DEF Image

\* map_page without a fault loses nothing.
LEMMA NothingLost ==
    ASSUME NEW x, x \in Cache, NEW p \in Page, NEW wr \in BOOLEAN
    PROVE  MapPage(x, p, wr, NoFault).lost = x.lost
<1> DEFINE s == MapSlot(x, p)
           e == Evict(x, x.victim, NoFault)
<1>1. s \in Slot
  BY MapSlotIsSlot
<1>2. Touch(x, s, wr).lost = x.lost /\ Touch(x, s, wr) \in Cache
  <2> HIDE DEF s
  <2> QED
    BY <1>1 DEF Touch, Cache
<1>3. CASE HotHits(x, p) # {}
  BY <1>2, <1>3 DEF MapPage
<1>4. CASE HotHits(x, p) = {} /\ Resident(x, p) # {}
  BY <1>1, <1>2, <1>4, RememberIsFrame DEF MapPage
<1>5. CASE HotHits(x, p) = {} /\ Resident(x, p) = {}
  <2> DEFINE old == x.cache_page[x.victim]
             w   == BackingWrite(x, old, x.ram_pages[x.victim], NoFault)
             f   == Fill(e, x.victim, p, wr, NoFault)
             y   == [f EXCEPT !.victim = NextVictim(x.victim)]
  <2>1. [w EXCEPT !.lost = @].lost = x.lost
    BY DEF BackingWrite, NoFault, Cache
  <2>2. e.lost = x.lost
    <3>1. e = x \/ e = [w EXCEPT !.lost = @]
      BY DEF Evict, NoFault
    <3> HIDE DEF w, e
    <3> QED
      BY <2>1, <3>1
  <2>3. f.lost = e.lost
    <3> HIDE DEF e
    <3> QED
      BY DEF Fill, ReadFails, NoFault
  <2>4. y.lost = f.lost
    <3> HIDE DEF f
    <3> QED
      OBVIOUS
  <2>5. MapPage(x, p, wr, NoFault) = HotPageRemember(y, p, x.victim)
    BY <1>5 DEF MapPage, Miss
  <2> HIDE DEF y
  <2>6. HotPageRemember(y, p, x.victim).lost = y.lost
    BY DEF HotPageRemember
  <2> QED
    BY <2>2, <2>3, <2>4, <2>5, <2>6
<1> QED
  BY <1>3, <1>4, <1>5

\* map_page without a fault: the slot holds the page and the image is kept.
LEMMA Mapped ==
    ASSUME NEW x, Whole(x), NEW a \in Addr, NEW wr \in BOOLEAN
    PROVE  LET y == MapPage(x, PageOf(a), wr, NoFault)
               s == MapSlot(x, PageOf(a))
           IN  /\ Whole(y) /\ s \in Slot
               /\ y.cache_page[s] = PageOf(a)
               /\ wr => y.cache_dirty[s]
               /\ Image(y) = Image(x)
<1> DEFINE p == PageOf(a)
           y == MapPage(x, p, wr, NoFault)
           s == MapSlot(x, p)
<1>1. p \in Page /\ NoFault \in Outcome
  BY AddrIs DEF NoFault, Outcome
<1>2. /\ s \in Slot /\ Good(y) /\ y.cache_page[s] = p /\ (wr => y.cache_dirty[s])
      /\ \A q \in Page \ y.lost : GuestView(y, q) = GuestView(x, q)
  <2> HIDE DEF p
  <2>1. PageMapped(x, p, wr, y, s)
    BY <1>1, MapPageMaps DEF Whole
  <2> HIDE DEF y, s
  <2> QED
    BY <2>1 DEF PageMapped
<1>3. y.lost = {}
  BY <1>1, NothingLost DEF Whole, Good
<1>4. \A b \in Addr : Image(y)[b] = Image(x)[b]
  <2> HIDE DEF y
  <2> QED
    BY <1>2, <1>3, AddrIs, ImageIs DEF Whole
<1>5. Image(y) = Image(x)
  <2> HIDE DEF y
  <2> QED
    BY <1>2, <1>4, ImageIs DEF Whole
<1> QED
  BY <1>2, <1>3, <1>5 DEF Whole

\* Bytes read through a pointer.
LEMMA ReadIs ==
    ASSUME NEW y, Good(y), NEW a \in Addr, NEW s \in Slot, y.cache_page[s] = PageOf(a),
           NEW n \in 1 .. Span(a), a + n - 1 \in Addr
    PROVE  /\ ReadAt(y, s, a, n) = Slice(Image(y), a, n)
           /\ ReadAt(y, s, a, n) \in [1 .. n -> Byte]
<1> SUFFICES ASSUME NEW i \in 1 .. n
             PROVE  /\ y.ram_pages[s][Off(a) + i - 1] = Image(y)[a + i - 1]
                    /\ Image(y)[a + i - 1] \in Byte
  BY DEF ReadAt, Slice
<1>1. i - 1 \in 0 .. Span(a) - 1 /\ a + (i - 1) \in Addr
  <2>1. a \in Nat /\ Span(a) \in Nat
    BY AddrIs
  <2>2. i - 1 \in 0 .. Span(a) - 1 /\ a + (i - 1) \in a .. a + n - 1
    BY <2>1
  <2> QED
    BY <2>2, Between
<1>2. PageOf(a + (i - 1)) = PageOf(a) /\ Off(a + (i - 1)) = Off(a) + (i - 1)
  BY <1>1, InSpan
<1>3. GuestView(y, PageOf(a)) = y.ram_pages[s]
  BY AddrIs, ViewOfResident DEF Good
<1>4. Image(y)[a + (i - 1)] = y.ram_pages[s][Off(a) + (i - 1)] /\ Image(y)[a + (i - 1)] \in Byte
  BY <1>1, <1>2, <1>3, ImageIs
<1>5. a + (i - 1) = a + i - 1 /\ Off(a) + (i - 1) = Off(a) + i - 1
  BY AddrIs DEF Offset
<1> QED
  BY <1>4, <1>5

\* Bytes written through a pointer to a dirty slot.
LEMMA WriteIs ==
    ASSUME NEW y, Whole(y), NEW a \in Addr, NEW s \in Slot, y.cache_page[s] = PageOf(a),
           y.cache_dirty[s], NEW n \in 1 .. Span(a), a + n - 1 \in Addr,
           NEW v \in [1 .. n -> Byte]
    PROVE  /\ Whole(WriteAt(y, s, a, v))
           /\ \A b \in Addr : Image(WriteAt(y, s, a, v))[b] =
                                 IF b \in a .. a + n - 1 THEN v[b - a + 1] ELSE Image(y)[b]
<1>1. Len(v) = n
  BY AddrIs
<1> DEFINE d == [o \in Off(a) .. Off(a) + n - 1 |-> v[o - Off(a) + 1]]
           z == WriteAt(y, s, a, v)
           p == PageOf(a)
<1>2. z = Poke(y, s, d)
  BY <1>1 DEF WriteAt, Poke
<1>3. \A o \in Offset \cap DOMAIN d : d[o] \in Byte
  BY AddrIs DEF Offset
<1>4. p \in Page
  BY AddrIs
<1>5. /\ Good(z) /\ z.lost = y.lost
      /\ \A q \in Page \ {p} : GuestView(z, q) = GuestView(y, q)
      /\ GuestView(z, p) = [o \in Offset |-> IF o \in DOMAIN d THEN d[o] ELSE GuestView(y, p)[o]]
  <2> HIDE DEF d, z
  <2> QED
    BY <1>2, <1>3, <1>4, PokeIsGood DEF Whole
<1>6. ASSUME NEW b \in Addr
      PROVE  Image(z)[b] = IF b \in a .. a + n - 1 THEN v[b - a + 1] ELSE Image(y)[b]
  <2>1. /\ PageOf(b) \in Page /\ Off(b) \in Offset
        /\ Image(z)[b] = GuestView(z, PageOf(b))[Off(b)]
        /\ Image(y)[b] = GuestView(y, PageOf(b))[Off(b)]
    <3> HIDE DEF z
    <3> QED
      BY <1>5, AddrIs, ImageIs DEF Whole
  <2>2. CASE PageOf(b) # p
    <3>1. b \notin a .. a + n - 1
      <4>1. SUFFICES ASSUME b \in a .. a + n - 1 PROVE FALSE
        OBVIOUS
      <4>2. b - a \in 0 .. Span(a) - 1 /\ a + (b - a) = b
        BY <4>1, AddrIs
      <4> QED
        BY <2>2, <4>2, InSpan
    <3> QED
      BY <1>5, <2>1, <2>2, <3>1
  <2>3. CASE PageOf(b) = p
    <3>1. b - a = Off(b) - Off(a)
      BY <2>3, SamePage
    <3>2. b \in Nat /\ a \in Nat /\ Off(a) \in Int /\ Off(b) \in Int
      BY AddrIs DEF Offset
    <3>3. /\ b \in a .. a + n - 1 <=> Off(b) \in Off(a) .. Off(a) + n - 1
          /\ b - a + 1 = Off(b) - Off(a) + 1
      BY <3>1, <3>2
    <3>4. Image(z)[b] = IF Off(b) \in Off(a) .. Off(a) + n - 1
                        THEN v[Off(b) - Off(a) + 1] ELSE Image(y)[b]
      <4> HIDE DEF z
      <4> QED
        BY <1>5, <2>1, <2>3
    <3> QED
      BY <3>3, <3>4
  <2> QED
    BY <2>2, <2>3
<1> QED
  BY <1>5, <1>6 DEF Whole

\* Bytes read through a pointer into any slot, stale or not.
LEMMA ReadBytes ==
    ASSUME NEW y \in Cache, NEW a \in Addr, NEW s \in Slot, NEW n \in 1 .. Span(a)
    PROVE  ReadAt(y, s, a, n) \in [1 .. n -> Byte]
<1> SUFFICES ASSUME NEW i \in 1 .. n
             PROVE  y.ram_pages[s][Off(a) + i - 1] \in Byte
  BY DEF ReadAt
<1>1. i - 1 \in 0 .. Span(a) - 1
  BY AddrIs
<1>2. Off(a) + (i - 1) \in Offset
  BY <1>1, InSpan
<1>3. Off(a) + (i - 1) = Off(a) + i - 1
  BY AddrIs DEF Offset
<1> QED
  BY <1>2, <1>3 DEF Cache, Frame

\* Writing to any dirty slot that holds a page keeps the pager in order.
LEMMA WriteKeeps ==
    ASSUME NEW y, Whole(y), NEW a \in Addr, NEW s \in Slot, y.cache_page[s] \in Page,
           y.cache_dirty[s], NEW n \in 1 .. Span(a), NEW v \in [1 .. n -> Byte]
    PROVE  Whole(WriteAt(y, s, a, v))
<1>1. Len(v) = n
  BY AddrIs
<1> DEFINE d == [o \in Off(a) .. Off(a) + n - 1 |-> v[o - Off(a) + 1]]
<1>2. WriteAt(y, s, a, v) = Poke(y, s, d)
  BY <1>1 DEF WriteAt, Poke
<1>3. \A o \in Offset \cap DOMAIN d : d[o] \in Byte
  BY AddrIs DEF Offset
<1> HIDE DEF d
<1> QED
  BY <1>2, <1>3, PokeIsGood DEF Whole

\* The hot list holds no part of a page's state.
LEMMA RememberKeepsPages ==
    ASSUME NEW y, NEW p, NEW s
    PROVE  /\ HotPageRemember(y, p, s).cache_page = y.cache_page
           /\ HotPageRemember(y, p, s).cache_dirty = y.cache_dirty
  BY DEF HotPageRemember

\* A slot that is dirty stays so, whatever page is mapped for a write.
LEMMA DirtyStays ==
    ASSUME NEW y, Whole(y), NEW p \in Page, NEW t \in Slot, y.cache_page[t] \in Page, y.cache_dirty[t]
    PROVE  LET z == MapPage(y, p, TRUE, NoFault)
           IN  z.cache_page[t] \in Page /\ z.cache_dirty[t]
<1> DEFINE s == MapSlot(y, p)
           u == Touch(y, s, TRUE)
           z == MapPage(y, p, TRUE, NoFault)
<1>1. s \in Slot /\ y \in Cache
  BY MapSlotIsSlot DEF Whole, Good
<1>2. u \in Cache /\ u.cache_page = y.cache_page /\ u.cache_dirty[t]
  <2> HIDE DEF s
  <2> QED
    BY <1>1 DEF Touch, Cache
<1>3. CASE HotHits(y, p) # {}
  BY <1>2, <1>3 DEF MapPage
<1>4. CASE HotHits(y, p) = {} /\ Resident(y, p) # {}
  <2>1. z = HotPageRemember(u, p, s)
    BY <1>4 DEF MapPage
  <2> HIDE DEF z, u, s
  <2>2. z.cache_page[t] \in Page /\ z.cache_dirty[t]
    BY <1>1, <1>2, <2>1, RememberIsFrame
  <2> QED
    BY <2>2 DEF z
<1>5. CASE HotHits(y, p) = {} /\ Resident(y, p) = {}
  <2> DEFINE k == y.victim
             e == Evict(y, k, NoFault)
             f == Fill(e, k, p, TRUE, NoFault)
             m == [f EXCEPT !.victim = NextVictim(k)]
  <2>1. z = HotPageRemember(m, p, k)
    BY <1>5 DEF MapPage, Miss
  <2>2. e.cache_page = y.cache_page /\ e.cache_dirty = y.cache_dirty /\ DOMAIN e = DOMAIN y
    BY <1>1 DEF Evict, BackingWrite, Cache
  <2>3. k \in Slot /\ y.cache_page \in [Slot -> Page \cup {NoPage}] /\ y.cache_dirty \in [Slot -> BOOLEAN]
        /\ DOMAIN y = {"cache_page", "cache_dirty", "ram_pages", "hot_page", "hot_slot", "victim",
                       "backing_valid", "backing", "lost"}
    BY <1>1 DEF Cache
  <2>4. f.cache_page = [y.cache_page EXCEPT ![k] = p] /\ f.cache_dirty = [y.cache_dirty EXCEPT ![k] = TRUE]
    <3> HIDE DEF e, k
    <3> QED
      BY <2>2, <2>3 DEF Fill
  <2>5. m.cache_page = f.cache_page /\ m.cache_dirty = f.cache_dirty
    <3> HIDE DEF f
    <3> QED
      OBVIOUS
  <2> HIDE DEF z, m, f, e, k
  <2>6. z.cache_page = m.cache_page /\ z.cache_dirty = m.cache_dirty
    BY <2>1, RememberKeepsPages
  <2>7. z.cache_page[t] \in Page /\ z.cache_dirty[t]
    BY <2>3, <2>4, <2>5, <2>6
  <2> QED
    BY <2>7 DEF z
<1> QED
  BY <1>3, <1>4, <1>5

\* A set of naturals has a least member.
LEMMA FirstIsLeast ==
    ASSUME NEW S, S \subseteq Nat, S # {}
    PROVE  First(S) \in S /\ \A y \in S : First(S) <= y
<1>1. \E m \in S : \A y \in S : ~(<<y, m>> \in OpToRel(<, Nat))
  BY NatLessThanWellFounded, WFMin
<1>2. PICK m \in S : \A y \in S : ~(<<y, m>> \in OpToRel(<, Nat))
  BY <1>1
<1>3. \A y \in S : ~(y < m)
  BY <1>2, Zenon DEF OpToRel
<1>4. \A y \in S : m <= y
  BY <1>3
<1> QED
  BY <1>4, Zenon DEF First

\* The span of one iteration is not empty and stays inside every bound.
LEMMA Chunk ==
    ASSUME NEW n \in Nat \ {0}, NEW m \in Nat \ {0}, NEW l \in Nat \ {0}
    PROVE  /\ MinOf({n, m}) \in 1 .. n /\ MinOf({n, m}) <= m
           /\ MinOf({n, m, l}) \in 1 .. n /\ MinOf({n, m, l}) <= m /\ MinOf({n, m, l}) <= l
<1> DEFINE S == {n, m}
           T == {n, m, l}
<1>1. /\ First(S) \in Nat \ {0} /\ First(S) <= n /\ First(S) <= m
      /\ First(T) \in Nat \ {0} /\ First(T) <= n /\ First(T) <= m /\ First(T) <= l
  <2>1. S \subseteq Nat /\ S # {} /\ T \subseteq Nat /\ T # {}
    OBVIOUS
  <2>2. /\ First(S) \in S /\ \A y \in S : First(S) <= y
        /\ First(T) \in T /\ \A y \in T : First(T) <= y
    <3> HIDE DEF S, T
    <3> QED
      BY <2>1, FirstIsLeast
  <2> QED
    BY <2>2
<1> HIDE DEF S, T
<1>2. First(S) \in 1 .. n /\ First(T) \in 1 .. n
  BY <1>1
<1> QED
  BY <1>1, <1>2 DEF MinOf, S, T

-----------------------------------------------------------------------------
(* The transfer in progress.                                               *)

\* The fields of blk while a transfer is known.
Shape(b) ==
    b = [op |-> b.op, src |-> b.src, dst |-> b.dst, left |-> b.left, data |-> b.data,
         out |-> b.out, at |-> b.at, want |-> b.want, answer |-> b.answer,
         from |-> b.from, to |-> b.to, len |-> b.len, stale |-> b.stale]

\* n bytes from a on are guest RAM.
Within(a, n) == a \in Addr /\ a + n - 1 \in Addr

\* What has been read is what there was.
ReadInv(x, b) ==
    /\ b.len \in Nat \ {0} /\ b.left \in 0 .. b.len
    /\ Within(b.from, b.len)
    /\ b.src = b.from + (b.len - b.left)
    /\ b.want = Image(x)
    /\ b.answer = Slice(b.want, b.from, b.len)
    /\ b.out = Slice(b.want, b.from, b.len - b.left)

\* What has been searched holds no hit.
FindInv(x, b) ==
    /\ b.len \in Nat \ {0} /\ b.left \in 0 .. b.len
    /\ Within(b.from, b.len)
    /\ b.want = Image(x)
    /\ b.answer = FindIn(Slice(b.want, b.from, b.len), b.data)
    /\ IF b.left = 0 THEN b.out = b.answer
       ELSE /\ b.at \in Nat /\ b.at + b.left = b.len
            /\ b.src = b.from + b.at
            /\ \A i \in 0 .. b.at - 1 : b.want[b.from + i] # b.data

\* Only the bytes from dst on are still to be written, with the rest of data.
WriteInv(x, b) ==
    /\ b.len \in Nat \ {0} /\ b.left \in 0 .. b.len
    /\ Within(b.to, b.len)
    /\ b.at = b.len - b.left /\ b.dst = b.to + b.at
    /\ b.data \in [1 .. b.len -> Byte]
    /\ b.want \in [Addr -> Byte]
    /\ \A a \in Addr : a \notin b.dst .. b.dst + b.left - 1 => Image(x)[a] = b.want[a]
    /\ \A j \in 0 .. b.left - 1 : b.want[b.dst + j] = b.data[b.at + j + 1]

\* Only the bytes from dst on are still to be moved, and their sources hold
\* what they held when the move was called.
MoveInv(x, b) ==
    /\ b.left \in Nat /\ b.src \in Nat /\ b.dst \in Nat
    /\ b.left # 0 => Within(b.src, b.left) /\ Within(b.dst, b.left)
    /\ b.op = "moveup" => b.dst < b.src
    /\ b.op = "movedown" => b.src < b.dst
    /\ b.op \in {"moveup", "movedown"} => ~b.stale
    /\ b.op \in {"move", "fmemcpy"} =>
          b.dst + b.left <= b.src \/ b.src + b.left <= b.dst
    /\ b.stale \in BOOLEAN
    /\ b.want \in [Addr -> Byte]
    /\ ~b.stale =>
          /\ \A a \in Addr : a \notin b.dst .. b.dst + b.left - 1 => Image(x)[a] = b.want[a]
          /\ \A j \in 0 .. b.left - 1 : b.want[b.dst + j] = Image(x)[b.src + j]

BlkInv(x, b) ==
    \/ b = [op |-> "none", left |-> 0]
    \/ /\ Shape(b)
       /\ \/ b.op = "read" /\ ReadInv(x, b)
          \/ b.op = "find" /\ FindInv(x, b)
          \/ b.op = "write" /\ WriteInv(x, b)
          \/ b.op \in {"moveup", "movedown", "move", "fmemcpy"} /\ MoveInv(x, b)

\* The inductive invariant.
BInv ==
    /\ Whole(c)
    /\ medium \in Media
    /\ BlkInv(c, blk)

\* Addresses within a range.
LEMMA WithinIs ==
    ASSUME NEW a, NEW n \in Nat \ {0}, Within(a, n)
    PROVE  /\ a \in Nat
           /\ \A i \in 0 .. n - 1 : a + i \in Addr
           /\ \A m \in 1 .. n : Within(a, m)
           /\ \A m \in 0 .. n - 1 : Within(a + m, n - m)
<1>1. a \in Nat /\ a \in Addr /\ a + n - 1 \in Addr
  BY AddrIs DEF Within
<1>2. ASSUME NEW i \in 0 .. n - 1 PROVE a + i \in Addr
  <2>1. a + i \in a .. a + n - 1
    BY <1>1
  <2> QED
    BY <1>1, <2>1, Between
<1>3. ASSUME NEW m \in 1 .. n PROVE Within(a, m)
  <2>1. m - 1 \in 0 .. n - 1 /\ a + (m - 1) = a + m - 1
    BY <1>1
  <2> QED
    BY <1>1, <1>2, <2>1 DEF Within
<1>4. ASSUME NEW m \in 0 .. n - 1 PROVE Within(a + m, n - m)
  <2>1. a + m + (n - m) - 1 = a + n - 1
    BY <1>1
  <2> QED
    BY <1>1, <1>2, <2>1 DEF Within
<1> QED
  BY <1>1, <1>2, <1>3, <1>4

\* A slice is a string of bytes.
LEMMA SliceIs ==
    ASSUME NEW im \in [Addr -> Byte], NEW a, NEW n \in Nat \ {0}, Within(a, n)
    PROVE  Slice(im, a, n) \in [1 .. n -> Byte]
<1> SUFFICES ASSUME NEW i \in 1 .. n PROVE im[a + i - 1] \in Byte
  BY DEF Slice
<1>1. a \in Nat /\ i - 1 \in 0 .. n - 1
  BY WithinIs
<1>2. a + (i - 1) \in Addr /\ a + (i - 1) = a + i - 1
  BY <1>1, WithinIs
<1> QED
  BY <1>2

\* Two adjacent slices are one.
LEMMA SliceCat ==
    ASSUME NEW im \in [Addr -> Byte], NEW a, NEW m \in Nat, NEW n \in Nat \ {0}, Within(a, m + n)
    PROVE  Slice(im, a, m) \o Slice(im, a + m, n) = Slice(im, a, m + n)
<1> DEFINE s == Slice(im, a, m)
           t == Slice(im, a + m, n)
           u == Slice(im, a, m + n)
<1>1. a \in Nat /\ m + n \in Nat \ {0}
  BY WithinIs
<1>2. u \in [1 .. m + n -> Byte]
  BY <1>1, SliceIs
<1>3. s \in [1 .. m -> Byte]
  <2>1. CASE m = 0
    BY <2>1 DEF Slice
  <2>2. CASE m # 0
    <3>1. m \in 1 .. m + n /\ m \in Nat \ {0}
      BY <2>2
    <3> QED
      BY <1>1, <3>1, WithinIs, SliceIs
  <2> QED
    BY <2>1, <2>2
<1>4. t \in [1 .. n -> Byte]
  <2>1. m \in 0 .. (m + n) - 1 /\ (m + n) - m = n
    OBVIOUS
  <2>2. Within(a + m, n)
    BY <1>1, <2>1, WithinIs
  <2> QED
    BY <2>2, SliceIs
<1>5. s \in Seq(Byte) /\ t \in Seq(Byte) /\ u \in Seq(Byte) /\ Len(s) = m /\ Len(t) = n /\ Len(u) = m + n
  <2> HIDE DEF s, t, u
  <2> QED
    BY <1>1, <1>2, <1>3, <1>4
<1>6. /\ s \o t \in Seq(Byte) /\ Len(s \o t) = m + n
      /\ \A i \in 1 .. m + n : (s \o t)[i] = IF i <= m THEN s[i] ELSE t[i - m]
  <2> HIDE DEF s, t, u
  <2> QED
    BY <1>5, ConcatProperties
<1>7. ASSUME NEW i \in 1 .. m + n PROVE (s \o t)[i] = u[i]
  <2>1. u[i] = im[a + i - 1]
    BY DEF Slice
  <2>2. ASSUME i <= m PROVE s[i] = im[a + i - 1]
    BY <2>2 DEF Slice
  <2>3. ASSUME ~(i <= m) PROVE t[i - m] = im[a + i - 1]
    <3>1. i - m \in 1 .. n /\ a + m + (i - m) - 1 = a + i - 1
      BY <1>1, <2>3
    <3>2. t[i - m] = im[a + m + (i - m) - 1]
      BY <3>1 DEF Slice
    <3> QED
      BY <3>1, <3>2
  <2> HIDE DEF s, t, u
  <2> QED
    BY <1>6, <2>1, <2>2, <2>3
<1>8. s \o t = u
  <2> HIDE DEF s, t, u
  <2> QED
    BY <1>5, <1>6, <1>7, SeqEqual
<1> QED
  BY <1>8 DEF Slice

\* memchr.
LEMMA FindIs ==
    ASSUME NEW n \in Nat, NEW s \in [1 .. n -> Byte], NEW v
    PROVE  \/ FindIn(s, v) = -1 /\ \A i \in 1 .. n : s[i] # v
           \/ /\ FindIn(s, v) \in 0 .. n - 1
              /\ s[FindIn(s, v) + 1] = v
              /\ \A i \in 1 .. FindIn(s, v) : s[i] # v
<1> DEFINE hits == {i \in DOMAIN s : s[i] = v}
<1>1. FindIn(s, v) = IF hits = {} THEN -1 ELSE First(hits) - 1
  BY DEF FindIn
<1>2. hits \subseteq 1 .. n /\ \A i \in 1 .. n : s[i] = v <=> i \in hits
  OBVIOUS
<1> HIDE DEF hits
<1>3. CASE hits = {}
  BY <1>1, <1>2, <1>3
<1>4. CASE hits # {}
  <2>1. First(hits) \in hits /\ \A y \in hits : First(hits) <= y
    <3>1. hits \subseteq Nat
      BY <1>2
    <3> QED
      BY <1>4, <3>1, FirstIsLeast
  <2> DEFINE k == First(hits)
  <2>2. k \in 1 .. n /\ s[k] = v /\ FindIn(s, v) = k - 1
    BY <1>1, <1>2, <1>4, <2>1
  <2>3. \A i \in 1 .. n : s[i] = v => k <= i
    BY <1>2, <2>1
  <2> HIDE DEF k
  <2>4. k - 1 \in 0 .. n - 1 /\ (k - 1) + 1 = k
    BY <2>2
  <2>5. \A i \in 1 .. k - 1 : s[i] # v
    BY <2>2, <2>3
  <2> QED
    BY <2>2, <2>4, <2>5
<1> QED
  BY <1>3, <1>4

\* The first hit is the answer, and without a hit it is -1.
LEMMA FindHit ==
    ASSUME NEW n \in Nat, NEW s \in [1 .. n -> Byte], NEW v
    PROVE  /\ \A k \in 0 .. n - 1 :
                 s[k + 1] = v /\ (\A i \in 1 .. k : s[i] # v) => FindIn(s, v) = k
           /\ (\A i \in 1 .. n : s[i] # v) => FindIn(s, v) = -1
<1> DEFINE f == FindIn(s, v)
<1>1. \/ f = -1 /\ \A i \in 1 .. n : s[i] # v
      \/ f \in 0 .. n - 1 /\ s[f + 1] = v /\ \A i \in 1 .. f : s[i] # v
  BY FindIs
<1> HIDE DEF f
<1>2. ASSUME NEW k \in 0 .. n - 1, s[k + 1] = v, \A i \in 1 .. k : s[i] # v
      PROVE  f = k
  <2>1. k + 1 \in 1 .. n
    OBVIOUS
  <2>2. f \in 0 .. n - 1 /\ s[f + 1] = v /\ \A i \in 1 .. f : s[i] # v
    BY <1>1, <1>2, <2>1
  <2>3. ~(f < k)
    <3>1. f < k => f + 1 \in 1 .. k
      BY <2>2
    <3> QED
      BY <1>2, <2>2, <3>1
  <2>4. ~(k < f)
    <3>1. k < f => k + 1 \in 1 .. f
      BY <2>2
    <3> QED
      BY <1>2, <2>2, <3>1
  <2> QED
    BY <2>2, <2>3, <2>4
<1>3. ASSUME \A i \in 1 .. n : s[i] # v
      PROVE  f = -1
  <2>1. f \in 0 .. n - 1 => f + 1 \in 1 .. n
    OBVIOUS
  <2> QED
    BY <1>1, <1>3, <2>1
<1> QED
  BY <1>2, <1>3 DEF f

-----------------------------------------------------------------------------
(* One iteration of each loop.                                             *)

\* The span of one iteration.
LEMMA SpanOf ==
    ASSUME NEW a, NEW n \in Nat \ {0}, Within(a, n)
    PROVE  LET k == MinOf({n, Span(a)})
           IN  k \in 1 .. n /\ k \in 1 .. Span(a) /\ Within(a, k)
<1>1. a \in Addr /\ Span(a) \in Nat \ {0}
  BY AddrIs, SizesAssumption DEF Within
<1> DEFINE k == MinOf({n, Span(a)})
<1>2. k \in 1 .. n /\ k <= Span(a)
  BY <1>1, Chunk
<1> HIDE DEF k
<1>3. k \in 1 .. Span(a)
  BY <1>1, <1>2
<1>4. Within(a, k)
  BY <1>2, WithinIs
<1> QED
  BY <1>2, <1>3, <1>4 DEF k

\* An iteration of guest_read_block appends the next slice.
LEMMA ReadKeeps ==
    ASSUME Whole(c), Shape(blk), ReadInv(c, blk), ~Idle, ReadStep
    PROVE  Whole(c') /\ BlkInv(c', blk')
<1> DEFINE s == MapSlot(c, PageOf(blk.src))
           y == MapPage(c, PageOf(blk.src), FALSE, NoFault)
           n == MinOf({blk.left, Span(blk.src)})
           r == ReadAt(y, s, blk.src, n)
           w == blk.want
           m == blk.len - blk.left
<1>1. /\ blk.len \in Nat \ {0} /\ blk.left \in 1 .. blk.len /\ m \in 0 .. blk.len - 1
      /\ Within(blk.from, blk.len) /\ blk.src = blk.from + m /\ w = Image(c)
      /\ blk.answer = Slice(w, blk.from, blk.len) /\ blk.out = Slice(w, blk.from, m)
      /\ blk.len - m = blk.left
  BY DEF ReadInv, Idle
<1>2. Within(blk.src, blk.left)
  <2> HIDE DEF m, w
  <2> QED
    BY <1>1, WithinIs
<1>3. n \in 1 .. blk.left /\ n \in 1 .. Span(blk.src) /\ Within(blk.src, n)
  <2>1. blk.left \in Nat \ {0}
    BY <1>1
  <2> QED
    BY <1>2, <2>1, SpanOf
<1>4. Whole(y) /\ s \in Slot /\ y.cache_page[s] = PageOf(blk.src) /\ Image(y) = w
  BY <1>1, <1>2, Mapped DEF Within
<1>5. r = Slice(w, blk.src, n)
  <2> HIDE DEF y, s, n, w
  <2> QED
    BY <1>3, <1>4, ReadIs DEF Whole, Within
<1>6. c' = y /\ blk' = [blk EXCEPT !.out = @ \o r, !.src = @ + n, !.left = @ - n]
  BY DEF ReadStep
<1> HIDE DEF r, n, y, s
<1>7. /\ Shape(blk') /\ blk'.op = blk.op /\ blk'.len = blk.len /\ blk'.from = blk.from
      /\ blk'.want = w /\ blk'.answer = blk.answer
      /\ blk'.out = blk.out \o r /\ blk'.src = blk.src + n /\ blk'.left = blk.left - n
  BY <1>6 DEF Shape
<1>8. Slice(w, blk.from, m) \o Slice(w, blk.from + m, n) = Slice(w, blk.from, m + n)
  <2>1. m + n \in 1 .. blk.len /\ m \in Nat /\ n \in Nat \ {0}
    BY <1>1, <1>3
  <2>2. w \in [Addr -> Byte]
    BY <1>1, ImageIs DEF Whole
  <2>3. Within(blk.from, m + n)
    BY <1>1, <2>1, WithinIs
  <2> HIDE DEF m, w
  <2> QED
    BY <2>1, <2>2, <2>3, SliceCat
<1>9. blk.from \in Nat /\ blk'.len - blk'.left = m + n /\ blk'.left \in 0 .. blk.len
  <2>1. blk.from \in Nat
    BY <1>1, WithinIs
  <2>2. blk.len - (blk.left - n) = m + n /\ blk.left - n \in 0 .. blk.len
    BY <1>1, <1>3
  <2> QED
    BY <1>7, <2>1, <2>2
<1>10. blk.from + m + n = blk.from + (m + n)
  BY <1>1, <1>3, <1>9
<1> HIDE DEF m, w
<1>11. ReadInv(c', blk')
  BY <1>1, <1>4, <1>5, <1>6, <1>7, <1>8, <1>9, <1>10 DEF ReadInv
<1> QED
  BY <1>4, <1>6, <1>7, <1>11 DEF BlkInv, ReadStep

\* An iteration of guest_find_byte_spans ends at the first hit of the range,
\* or moves past a span that has none.
LEMMA FindKeeps ==
    ASSUME Whole(c), Shape(blk), FindInv(c, blk), ~Idle, FindStep
    PROVE  Whole(c') /\ Shape(blk') /\ blk'.op = blk.op /\ FindInv(c', blk')
<1> DEFINE s == MapSlot(c, PageOf(blk.src))
           y == MapPage(c, PageOf(blk.src), FALSE, NoFault)
           n == MinOf({blk.left, Span(blk.src)})
           r == ReadAt(y, s, blk.src, n)
           q == FindIn(r, blk.data)
           w == blk.want
           v == blk.data
           S == Slice(w, blk.from, blk.len)
<1>1. /\ blk.len \in Nat \ {0} /\ blk.left \in 1 .. blk.len /\ blk.at \in 0 .. blk.len - 1
      /\ Within(blk.from, blk.len) /\ blk.src = blk.from + blk.at /\ w = Image(c)
      /\ blk.answer = FindIn(S, v) /\ blk.at + blk.left = blk.len
      /\ \A i \in 0 .. blk.at - 1 : w[blk.from + i] # v
  BY DEF FindInv, Idle
<1>2. Within(blk.src, blk.left) /\ blk.from \in Nat
  <2>1. blk.len - blk.at = blk.left
    BY <1>1
  <2> HIDE DEF w
  <2> QED
    BY <1>1, <2>1, WithinIs
<1>3. n \in 1 .. blk.left /\ n \in 1 .. Span(blk.src) /\ Within(blk.src, n)
  <2>1. blk.left \in Nat \ {0}
    BY <1>1
  <2> QED
    BY <1>2, <2>1, SpanOf
<1>4. Whole(y) /\ s \in Slot /\ y.cache_page[s] = PageOf(blk.src) /\ Image(y) = w
  BY <1>1, <1>2, Mapped DEF Within
<1>5. r = Slice(w, blk.src, n) /\ r \in [1 .. n -> Byte]
  <2> HIDE DEF y, s, n, w
  <2> QED
    BY <1>3, <1>4, ReadIs DEF Whole, Within
<1>6. /\ c' = y
      /\ blk' = IF q # -1 THEN [blk EXCEPT !.out = blk.at + q, !.left = 0]
                ELSE [blk EXCEPT !.out = -1, !.at = @ + n, !.src = @ + n, !.left = @ - n]
  BY DEF FindStep
<1>7. S \in [1 .. blk.len -> Byte]
  <2>1. w \in [Addr -> Byte]
    BY <1>1, ImageIs DEF Whole
  <2> HIDE DEF w
  <2> QED
    BY <1>1, <2>1, SliceIs
<1>8. \A i \in 1 .. blk.len : S[i] = w[blk.from + (i - 1)]
  <2>1. \A i \in 1 .. blk.len : S[i] = w[blk.from + i - 1] /\ blk.from + i - 1 = blk.from + (i - 1)
    BY <1>1, <1>2 DEF Slice
  <2> QED
    BY <2>1
<1>9. \A i \in 1 .. n : r[i] = w[blk.from + (blk.at + i - 1)]
  <2>1. \A i \in 1 .. n : Slice(w, blk.src, n)[i] = w[blk.src + i - 1]
    BY DEF Slice
  <2>2. \A i \in 1 .. n : blk.src + i - 1 = blk.from + (blk.at + i - 1)
    BY <1>1, <1>2, <1>3
  <2> HIDE DEF r, w
  <2> QED
    BY <1>5, <2>1, <2>2
<1>10. \/ q = -1 /\ \A i \in 1 .. n : r[i] # v
       \/ q \in 0 .. n - 1 /\ r[q + 1] = v /\ \A i \in 1 .. q : r[i] # v
  <2>1. n \in Nat
    BY <1>1, <1>3
  <2> HIDE DEF r, n
  <2> QED
    BY <1>5, <2>1, FindIs
<1> HIDE DEF r, n, y, s, q, w, S
\* Before the first hit of the span there is none in the range either.
<1>11. ASSUME NEW m \in 0 .. n, \A i \in 1 .. m : r[i] # v
       PROVE  \A j \in 0 .. blk.at + m - 1 : w[blk.from + j] # v
  <2>1. SUFFICES ASSUME NEW j \in 0 .. blk.at + m - 1 PROVE w[blk.from + j] # v
    OBVIOUS
  <2>2. CASE j < blk.at
    BY <1>1, <2>1, <2>2
  <2>3. CASE ~(j < blk.at)
    <3>1. j - blk.at + 1 \in 1 .. m /\ j - blk.at + 1 \in 1 .. n
          /\ blk.at + (j - blk.at + 1) - 1 = j
      BY <1>1, <1>3, <2>1, <2>3
    <3> QED
      BY <1>9, <1>11, <3>1
  <2> QED
    BY <2>2, <2>3
<1>12. ASSUME NEW m \in 0 .. blk.len - blk.at, \A j \in 0 .. blk.at + m - 1 : w[blk.from + j] # v
       PROVE  \A i \in 1 .. blk.at + m : S[i] # v
  <2>1. \A i \in 1 .. blk.at + m : i \in 1 .. blk.len /\ i - 1 \in 0 .. blk.at + m - 1
    BY <1>1
  <2> QED
    BY <1>8, <1>12, <2>1
<1>13. CASE q # -1
  <2>1. q \in 0 .. n - 1 /\ r[q + 1] = v /\ \A i \in 1 .. q : r[i] # v
    BY <1>10, <1>13
  <2>2. q \in 0 .. n /\ q + 1 \in 1 .. n /\ q \in 0 .. blk.len - blk.at /\ q \in Nat
        /\ blk.at + q \in 0 .. blk.len - 1 /\ blk.at + q + 1 \in 1 .. blk.len
        /\ blk.at + (q + 1) - 1 = (blk.at + q + 1) - 1
    BY <1>1, <1>3, <2>1
  <2>3. \A i \in 1 .. blk.at + q : S[i] # v
    BY <1>11, <1>12, <2>1, <2>2
  <2>4. S[blk.at + q + 1] = v
    BY <1>8, <1>9, <2>1, <2>2
  <2>5. FindIn(S, v) = blk.at + q
    <3> DEFINE k == blk.at + q
    <3>1. k \in 0 .. blk.len - 1 /\ S[k + 1] = v /\ \A i \in 1 .. k : S[i] # v
      BY <2>2, <2>3, <2>4
    <3>2. blk.len \in Nat
      BY <1>1
    <3> HIDE DEF k, v
    <3>3. FindIn(S, v) = k
      BY <1>7, <3>1, <3>2, FindHit
    <3> QED
      BY <3>3 DEF k
  <2>6. /\ Shape(blk') /\ blk'.op = blk.op /\ blk'.len = blk.len /\ blk'.from = blk.from
        /\ blk'.want = w /\ blk'.answer = blk.answer /\ blk'.data = v
        /\ blk'.out = blk.at + q /\ blk'.left = 0
    BY <1>6, <1>13 DEF Shape, w
  <2> QED
    BY <1>1, <1>4, <1>6, <2>5, <2>6 DEF FindInv, S
<1>14. CASE q = -1
  <2>1. \A i \in 1 .. n : r[i] # v
    BY <1>10, <1>14
  <2>2. n \in 0 .. n /\ n \in 0 .. blk.len - blk.at /\ n \in Nat
    BY <1>1, <1>3
  <2>3. \A j \in 0 .. blk.at + n - 1 : w[blk.from + j] # v
    BY <1>11, <2>1, <2>2
  <2>4. /\ Shape(blk') /\ blk'.op = blk.op /\ blk'.len = blk.len /\ blk'.from = blk.from
        /\ blk'.want = w /\ blk'.answer = blk.answer /\ blk'.data = v
        /\ blk'.out = -1 /\ blk'.left = blk.left - n /\ blk'.at = blk.at + n
        /\ blk'.src = blk.src + n
    BY <1>6, <1>14 DEF Shape, w
  <2>5. /\ blk'.left \in 0 .. blk.len /\ blk'.at \in Nat /\ blk'.at + blk'.left = blk.len
        /\ blk'.src = blk.from + blk'.at
    BY <1>1, <1>2, <1>3, <2>2, <2>4
  <2>6. ASSUME blk'.left = 0 PROVE FindIn(S, v) = -1
    <3>1. blk.at + n = blk.len
      BY <1>1, <2>2, <2>4, <2>6
    <3>2. blk.len \in Nat /\ \A i \in 1 .. blk.len : S[i] # v
      BY <1>1, <1>12, <2>2, <2>3, <3>1
    <3> HIDE DEF v
    <3> QED
      BY <1>7, <3>2, FindHit
  <2>7. c' = y
    BY <1>6
  <2>8. blk'.left = 0 => blk'.out = blk'.answer
    BY <1>1, <2>4, <2>6
  <2>9. blk'.answer = FindIn(Slice(blk'.want, blk'.from, blk'.len), blk'.data)
    BY <1>1, <2>4 DEF S
  <2>10. \A i \in 0 .. blk'.at - 1 : blk'.want[blk'.from + i] # blk'.data
    <3>1. blk'.at = blk.at + n /\ blk'.want = w /\ blk'.from = blk.from /\ blk'.data = v
      BY <2>4
    <3>2. blk.at \in Int /\ n \in Int
      BY <1>1, <2>2
    <3> HIDE DEF v
    <3> QED
      BY <2>3, <3>1, <3>2
  <2>11. FindInv(c', blk')
    BY <1>1, <1>4, <2>4, <2>5, <2>7, <2>8, <2>9, <2>10 DEF FindInv
  <2> QED
    BY <1>4, <2>4, <2>7, <2>11
<1> QED
  BY <1>13, <1>14

\* An iteration of guest_write_block writes the next bytes of data.
LEMMA WriteStepKeeps ==
    ASSUME Whole(c), Shape(blk), WriteInv(c, blk), ~Idle, WriteStep
    PROVE  Whole(c') /\ Shape(blk') /\ blk'.op = blk.op /\ WriteInv(c', blk')
<1> DEFINE s == MapSlot(c, PageOf(blk.dst))
           y == MapPage(c, PageOf(blk.dst), TRUE, NoFault)
           n == MinOf({blk.left, Span(blk.dst)})
           v == SubSeq(blk.data, blk.at + 1, blk.at + n)
           w == blk.want
<1>1. /\ blk.len \in Nat \ {0} /\ blk.left \in 1 .. blk.len /\ blk.at \in 0 .. blk.len - 1
      /\ blk.dst = blk.to + blk.at /\ blk.at + blk.left = blk.len
  BY DEF WriteInv, Idle
<1>2. /\ Within(blk.to, blk.len) /\ blk.data \in [1 .. blk.len -> Byte]
      /\ \A a \in Addr : a \notin blk.dst .. blk.dst + blk.left - 1 => Image(c)[a] = w[a]
      /\ \A j \in 0 .. blk.left - 1 : w[blk.dst + j] = blk.data[blk.at + j + 1]
  BY DEF WriteInv, Idle
<1>3. Within(blk.dst, blk.left) /\ blk.to \in Nat /\ blk.dst \in Nat
  <2>1. blk.len - blk.at = blk.left
    BY <1>1
  <2> HIDE DEF w
  <2>2. Within(blk.dst, blk.left) /\ blk.to \in Nat
    BY <1>1, <1>2, <2>1, WithinIs
  <2> QED
    BY <1>1, <2>2
<1>4. n \in 1 .. blk.left /\ n \in 1 .. Span(blk.dst) /\ Within(blk.dst, n)
  <2>1. blk.left \in Nat \ {0}
    BY <1>1
  <2> QED
    BY <1>3, <2>1, SpanOf
<1>5. /\ Whole(y) /\ s \in Slot /\ y.cache_page[s] = PageOf(blk.dst) /\ y.cache_dirty[s]
      /\ Image(y) = Image(c)
  BY <1>3, Mapped DEF Within
<1>6. v \in [1 .. n -> Byte] /\ \A i \in 1 .. n : v[i] = blk.data[blk.at + i]
  <2> DEFINE b == blk.at
  <2>1. b \in Nat /\ n \in Nat \ {0} /\ b + n \in 1 .. blk.len /\ blk.len \in Nat
    BY <1>1, <1>4
  <2>2. blk.data \in Seq(Byte) /\ Len(blk.data) = blk.len
    BY <1>2, <2>1
  <2> HIDE DEF n, b
  <2>3. b + 1 \in 1 .. Len(blk.data) + 1 /\ b + n \in b .. Len(blk.data)
        /\ (b + n) - (b + 1) + 1 = n
    BY <2>1, <2>2
  <2>4. /\ SubSeq(blk.data, b + 1, b + n) \in Seq(Byte)
        /\ Len(SubSeq(blk.data, b + 1, b + n)) = n
        /\ \A i \in 1 .. n : SubSeq(blk.data, b + 1, b + n)[i] = blk.data[(b + 1) + i - 1]
    BY <2>1, <2>2, <2>3, SubSeqProperties
  <2>5. \A i \in 1 .. n : (b + 1) + i - 1 = b + i
    BY <2>1
  <2>6. /\ SubSeq(blk.data, b + 1, b + n) \in [1 .. n -> Byte]
        /\ \A i \in 1 .. n : SubSeq(blk.data, b + 1, b + n)[i] = blk.data[b + i]
    <3> DEFINE u == SubSeq(blk.data, b + 1, b + n)
    <3> HIDE DEF v, u
    <3>1. u \in Seq(Byte) /\ Len(u) = n /\ \A i \in 1 .. n : u[i] = blk.data[(b + 1) + i - 1]
      BY <2>4 DEF u
    <3>2. u \in [1 .. n -> Byte] /\ \A i \in 1 .. n : u[i] = blk.data[b + i]
      BY <2>1, <2>5, <3>1
    <3> QED
      BY <3>2 DEF u
  <2> QED
    BY <2>6 DEF b
<1>7. c' = WriteAt(y, s, blk.dst, v)
      /\ blk' = [blk EXCEPT !.at = @ + n, !.dst = @ + n, !.left = @ - n]
  BY DEF WriteStep
<1> HIDE DEF s, y, n, v, w
<1>8. /\ Whole(c')
      /\ \A b \in Addr : Image(c')[b] =
             IF b \in blk.dst .. blk.dst + n - 1 THEN v[b - blk.dst + 1] ELSE Image(c)[b]
  BY <1>4, <1>5, <1>6, <1>7, WriteIs DEF Within
<1>9. /\ Shape(blk') /\ blk'.op = blk.op /\ blk'.len = blk.len /\ blk'.to = blk.to
      /\ blk'.want = w /\ blk'.data = blk.data
      /\ blk'.at = blk.at + n /\ blk'.left = blk.left - n /\ blk'.dst = blk.dst + n
  BY <1>7 DEF Shape, w
<1>10. /\ blk'.left \in 0 .. blk.len /\ blk'.at = blk.len - blk'.left
      /\ blk'.dst = blk.to + blk'.at
  BY <1>1, <1>3, <1>4, <1>9
<1>11. ASSUME NEW a \in Addr, a \notin blk'.dst .. blk'.dst + blk'.left - 1
       PROVE  Image(c')[a] = w[a]
  <2>1. CASE a \in blk.dst .. blk.dst + n - 1
    <3> DEFINE j == a - blk.dst
    <3>1. /\ j \in 0 .. blk.left - 1 /\ blk.dst + j = a /\ j + 1 \in 1 .. n
          /\ blk.at + (j + 1) = blk.at + j + 1 /\ j \in Nat
      BY <1>1, <1>3, <1>4, <2>1
    <3> HIDE DEF j
    <3>2. w[blk.dst + j] = blk.data[blk.at + j + 1]
      BY <1>2, <3>1
    <3>3. v[j + 1] = blk.data[blk.at + (j + 1)]
      BY <1>6, <3>1
    <3>4. Image(c')[a] = v[j + 1]
      BY <1>8, <2>1 DEF j
    <3> QED
      BY <3>1, <3>2, <3>3, <3>4
  <2>2. CASE a \notin blk.dst .. blk.dst + n - 1
    <3>1. a \notin blk.dst .. blk.dst + blk.left - 1
      <4>1. a \in Nat
        BY AddrIs
      <4> QED
        BY <1>1, <1>3, <1>4, <1>9, <1>11, <2>2, <4>1
    <3> QED
      BY <1>2, <1>8, <2>2, <3>1
  <2> QED
    BY <2>1, <2>2
<1>12. ASSUME NEW j \in 0 .. blk'.left - 1
       PROVE  w[blk'.dst + j] = blk.data[blk'.at + j + 1]
  <2>1. /\ n + j \in 0 .. blk.left - 1 /\ blk.dst + (n + j) = blk'.dst + j
        /\ blk.at + (n + j) + 1 = blk'.at + j + 1
    BY <1>1, <1>3, <1>4, <1>9
  <2> QED
    BY <1>2, <2>1
<1>13. w \in [Addr -> Byte]
  BY DEF WriteInv, w
<1> QED
  BY <1>1, <1>2, <1>8, <1>9, <1>10, <1>11, <1>12, <1>13 DEF WriteInv

\* A byte moved from one address to another.
LEMMA ByteMoveIs ==
    ASSUME NEW x, Whole(x), NEW a \in Addr, NEW d \in Addr
    PROVE  LET z == ByteMove(x, a, d)
           IN  /\ Whole(z)
               /\ \A b \in Addr : Image(z)[b] = IF b = d THEN Image(x)[a] ELSE Image(x)[b]
<1> DEFINE y == MapPage(x, PageOf(a), FALSE, NoFault)
           s == MapSlot(x, PageOf(a))
           v == ReadAt(y, s, a, 1)
           u == MapPage(y, PageOf(d), TRUE, NoFault)
           t == MapSlot(y, PageOf(d))
           z == ByteMove(x, a, d)
<1>1. Whole(y) /\ s \in Slot /\ y.cache_page[s] = PageOf(a) /\ Image(y) = Image(x)
  BY Mapped
<1>2. z = WriteAt(u, t, d, v)
  BY DEF ByteMove
<1>3. PICK n : n = 1 /\ n \in 1 .. Span(a) /\ n \in 1 .. Span(d)
               /\ a + n - 1 \in Addr /\ d + n - 1 \in Addr
  <2>1. a \in Nat /\ d \in Nat /\ 1 \in 1 .. Span(a) /\ 1 \in 1 .. Span(d)
    BY AddrIs
  <2> QED
    BY <2>1
<1>4. n \in 1 .. Span(a) /\ n \in 1 .. Span(d) /\ a + n - 1 \in Addr /\ d + n - 1 \in Addr
  BY <1>3
<1>5. ReadAt(y, s, a, n) = Slice(Image(x), a, n) /\ ReadAt(y, s, a, n) \in [1 .. n -> Byte]
  <2> HIDE DEF y, s
  <2> QED
    BY <1>1, <1>4, ReadIs DEF Whole
<1>6. v = ReadAt(y, s, a, n) /\ v[1] = Image(x)[a]
  <2>1. v = ReadAt(y, s, a, n)
    BY <1>3
  <2>2. Slice(Image(x), a, n)[1] = Image(x)[a]
    BY <1>3, AddrIs DEF Slice
  <2> HIDE DEF v, y, s
  <2> QED
    BY <1>5, <2>1, <2>2
<1>7. Whole(u) /\ t \in Slot /\ u.cache_page[t] = PageOf(d) /\ u.cache_dirty[t]
      /\ Image(u) = Image(y)
  <2> HIDE DEF y
  <2> QED
    BY <1>1, Mapped
<1> HIDE DEF y, s, v, u, t, z
<1>8. /\ Whole(z)
      /\ \A b \in Addr : Image(z)[b] = IF b \in d .. d + n - 1 THEN v[b - d + 1] ELSE Image(u)[b]
  BY <1>2, <1>4, <1>5, <1>6, <1>7, WriteIs
<1>9. ASSUME NEW b \in Addr
      PROVE  Image(z)[b] = IF b = d THEN Image(x)[a] ELSE Image(x)[b]
  <2>1. b \in d .. d + n - 1 <=> b = d
    BY <1>3, AddrIs
  <2>2. b = d => b - d + 1 = 1
    BY AddrIs
  <2> QED
    BY <1>1, <1>6, <1>7, <1>8, <2>1, <2>2
<1> QED
  BY <1>8, <1>9 DEF z

\* A span copied with two pointers, the source's resolved first: exact unless
\* the source's slot was taken.
ForwardMap(x, a, d) ==
    MapPage(MapPage(x, PageOf(a), FALSE, NoFault), PageOf(d), TRUE, NoFault)

Forward(x, a, d, n) ==
    WriteAt(ForwardMap(x, a, d), MapSlot(MapPage(x, PageOf(a), FALSE, NoFault), PageOf(d)), d,
            ReadAt(ForwardMap(x, a, d), MapSlot(x, PageOf(a)), a, n))

LEMMA SpanForwardIs ==
    ASSUME NEW x, Whole(x), NEW a \in Addr, NEW d \in Addr,
           NEW n \in 1 .. Span(a), n \in 1 .. Span(d), Within(a, n), Within(d, n)
    PROVE  /\ Whole(Forward(x, a, d, n))
           /\ ForwardMap(x, a, d).cache_page[MapSlot(x, PageOf(a))] = PageOf(a) =>
                 \A b \in Addr : Image(Forward(x, a, d, n))[b] =
                     IF b \in d .. d + n - 1 THEN Image(x)[a + (b - d)] ELSE Image(x)[b]
<1> DEFINE y  == MapPage(x, PageOf(a), FALSE, NoFault)
           u  == MapPage(y, PageOf(d), TRUE, NoFault)
           s1 == MapSlot(x, PageOf(a))
           s2 == MapSlot(y, PageOf(d))
           v  == ReadAt(u, s1, a, n)
           z  == WriteAt(u, s2, d, v)
<1>1. Whole(y) /\ s1 \in Slot /\ Image(y) = Image(x)
  BY Mapped
<1>2. Whole(u) /\ s2 \in Slot /\ u.cache_page[s2] = PageOf(d) /\ u.cache_dirty[s2]
      /\ Image(u) = Image(x)
  <2> HIDE DEF y
  <2> QED
    BY <1>1, Mapped
<1>3. v \in [1 .. n -> Byte]
  <2> HIDE DEF u, s1
  <2> QED
    BY <1>1, <1>2, ReadBytes DEF Whole, Good
<1>4. ASSUME u.cache_page[s1] = PageOf(a) PROVE v = Slice(Image(x), a, n)
  <2> HIDE DEF u, s1
  <2> QED
    BY <1>1, <1>2, <1>4, ReadIs DEF Whole, Within
<1>5. /\ z = Forward(x, a, d, n) /\ u = ForwardMap(x, a, d) /\ s1 = MapSlot(x, PageOf(a))
  BY DEF Forward, ForwardMap
<1> HIDE DEF v, u, s1, s2, y
<1>6. /\ Whole(z)
      /\ \A b \in Addr : Image(z)[b] = IF b \in d .. d + n - 1 THEN v[b - d + 1] ELSE Image(x)[b]
  BY <1>2, <1>3, WriteIs DEF Within
<1> HIDE DEF z
<1>7. ASSUME v = Slice(Image(x), a, n), NEW b \in Addr
      PROVE  Image(z)[b] = IF b \in d .. d + n - 1 THEN Image(x)[a + (b - d)] ELSE Image(x)[b]
  <2>1. ASSUME b \in d .. d + n - 1 PROVE v[b - d + 1] = Image(x)[a + (b - d)]
    <3>1. b - d + 1 \in 1 .. n /\ a + (b - d + 1) - 1 = a + (b - d)
      BY <2>1, AddrIs
    <3>2. \A i \in 1 .. n : v[i] = Image(x)[a + i - 1]
      BY <1>7 DEF Slice
    <3> QED
      BY <3>1, <3>2
  <2> QED
    BY <1>6, <2>1
<1>8. u.cache_page[s1] = PageOf(a) => \A b \in Addr : Image(z)[b] =
          IF b \in d .. d + n - 1 THEN Image(x)[a + (b - d)] ELSE Image(x)[b]
  BY <1>4, <1>7
<1> QED
  BY <1>5, <1>6, <1>8

\* The same with the destination's resolved first, which stays dirty even when
\* the source takes its slot.
BackwardMap(x, a, d) ==
    MapPage(MapPage(x, PageOf(d), TRUE, NoFault), PageOf(a), TRUE, NoFault)

Backward(x, a, d, n) ==
    WriteAt(BackwardMap(x, a, d), MapSlot(x, PageOf(d)), d,
            ReadAt(BackwardMap(x, a, d),
                   MapSlot(MapPage(x, PageOf(d), TRUE, NoFault), PageOf(a)), a, n))

LEMMA SpanBackwardIs ==
    ASSUME NEW x, Whole(x), NEW a \in Addr, NEW d \in Addr,
           NEW n \in 1 .. Span(a), n \in 1 .. Span(d), Within(a, n), Within(d, n)
    PROVE  /\ Whole(Backward(x, a, d, n))
           /\ BackwardMap(x, a, d).cache_page[MapSlot(x, PageOf(d))] = PageOf(d) =>
                 \A b \in Addr : Image(Backward(x, a, d, n))[b] =
                     IF b \in d .. d + n - 1 THEN Image(x)[a + (b - d)] ELSE Image(x)[b]
<1> DEFINE y  == MapPage(x, PageOf(d), TRUE, NoFault)
           u  == MapPage(y, PageOf(a), TRUE, NoFault)
           s1 == MapSlot(x, PageOf(d))
           s2 == MapSlot(y, PageOf(a))
           v  == ReadAt(u, s2, a, n)
           z  == WriteAt(u, s1, d, v)
<1>1. Whole(y) /\ s1 \in Slot /\ Image(y) = Image(x)
      /\ y.cache_page[s1] = PageOf(d) /\ y.cache_dirty[s1]
  BY Mapped
<1>2. Whole(u) /\ s2 \in Slot /\ u.cache_page[s2] = PageOf(a) /\ Image(u) = Image(x)
  <2> HIDE DEF y
  <2> QED
    BY <1>1, Mapped
<1>3. u.cache_page[s1] \in Page /\ u.cache_dirty[s1]
  <2>1. PageOf(d) \in Page /\ PageOf(a) \in Page
    BY AddrIs
  <2> HIDE DEF y, s1
  <2> QED
    BY <1>1, <2>1, DirtyStays
<1>4. v = Slice(Image(x), a, n) /\ v \in [1 .. n -> Byte]
  <2> HIDE DEF u, s2
  <2> QED
    BY <1>2, ReadIs DEF Whole, Within
<1>5. /\ z = Backward(x, a, d, n) /\ u = BackwardMap(x, a, d) /\ s1 = MapSlot(x, PageOf(d))
  BY DEF Backward, BackwardMap
<1> HIDE DEF v, u, s1, s2, y
<1>6. Whole(z)
  BY <1>1, <1>2, <1>3, <1>4, WriteKeeps
<1>7. ASSUME u.cache_page[s1] = PageOf(d)
      PROVE  \A b \in Addr : Image(z)[b] = IF b \in d .. d + n - 1 THEN v[b - d + 1] ELSE Image(x)[b]
  BY <1>1, <1>2, <1>3, <1>4, <1>7, WriteIs DEF Within
<1> HIDE DEF z
<1>8. ASSUME u.cache_page[s1] = PageOf(d), NEW b \in Addr
      PROVE  Image(z)[b] = IF b \in d .. d + n - 1 THEN Image(x)[a + (b - d)] ELSE Image(x)[b]
  <2>1. ASSUME b \in d .. d + n - 1 PROVE v[b - d + 1] = Image(x)[a + (b - d)]
    <3>1. b - d + 1 \in 1 .. n /\ a + (b - d + 1) - 1 = a + (b - d)
      BY <2>1, AddrIs
    <3>2. \A i \in 1 .. n : v[i] = Image(x)[a + i - 1]
      BY <1>4 DEF Slice
    <3> QED
      BY <3>1, <3>2
  <2> QED
    BY <1>7, <1>8, <2>1
<1> QED
  BY <1>5, <1>6, <1>8

\* Upwards, a byte still to be moved lies above the one just written.
LEMMA MoveUpKeeps ==
    ASSUME Whole(c), Shape(blk), MoveInv(c, blk), ~Idle, MoveUpStep
    PROVE  Whole(c') /\ Shape(blk') /\ blk'.op = blk.op /\ MoveInv(c', blk')
<1> DEFINE w == blk.want
<1>1. /\ blk.left \in Nat \ {0} /\ blk.src \in Nat /\ blk.dst \in Nat /\ blk.dst < blk.src
      /\ ~blk.stale /\ blk.op = "moveup"
      /\ Within(blk.src, blk.left) /\ Within(blk.dst, blk.left)
  BY DEF MoveInv, MoveUpStep, Idle
<1>2. /\ w \in [Addr -> Byte]
      /\ \A a \in Addr : a \notin blk.dst .. blk.dst + blk.left - 1 => Image(c)[a] = w[a]
      /\ \A j \in 0 .. blk.left - 1 : w[blk.dst + j] = Image(c)[blk.src + j]
  BY <1>1 DEF MoveInv
<1>3. /\ Shape(blk') /\ blk'.op = blk.op /\ blk'.want = w /\ blk'.stale = blk.stale
      /\ blk'.src = blk.src + 1 /\ blk'.dst = blk.dst + 1 /\ blk'.left = blk.left - 1
  BY DEF MoveUpStep, Shape
<1> DEFINE z == ByteMove(c, blk.src, blk.dst)
<1>4. c' = z
  BY DEF MoveUpStep
<1>5. /\ Whole(z)
       /\ \A b \in Addr : Image(z)[b] = IF b = blk.dst THEN Image(c)[blk.src] ELSE Image(c)[b]
  <2>1. blk.src \in Addr /\ blk.dst \in Addr
    BY <1>1 DEF Within
  <2> QED
    BY <2>1, ByteMoveIs
<1> HIDE DEF w, z
<1>6. /\ Whole(c')
      /\ \A b \in Addr : Image(c')[b] = IF b = blk.dst THEN Image(c)[blk.src] ELSE Image(c)[b]
  BY <1>4, <1>5
<1>7. /\ blk'.left \in Nat /\ blk'.src \in Nat /\ blk'.dst \in Nat /\ blk'.dst < blk'.src
      /\ blk'.dst + blk'.left - 1 = blk.dst + blk.left - 1
  BY <1>1, <1>3
<1>8. ASSUME blk'.left # 0 PROVE Within(blk'.src, blk'.left) /\ Within(blk'.dst, blk'.left)
  <2>1. 1 \in 0 .. blk.left - 1
    BY <1>1, <1>3, <1>8
  <2> QED
    BY <1>1, <1>3, <2>1, WithinIs
<1>9. ASSUME NEW a \in Addr, a \notin blk'.dst .. blk'.dst + blk'.left - 1
      PROVE  Image(c')[a] = w[a]
  <2>1. CASE a = blk.dst
    <3>1. 0 \in 0 .. blk.left - 1 /\ blk.dst + 0 = blk.dst /\ blk.src + 0 = blk.src
      BY <1>1
    <3> QED
      BY <1>2, <1>6, <2>1, <3>1
  <2>2. CASE a # blk.dst
    <3>1. a \notin blk.dst .. blk.dst + blk.left - 1
      BY <1>1, <1>3, <1>7, <1>9, <2>2, AddrIs
    <3> QED
      BY <1>2, <1>6, <2>2, <3>1
  <2> QED
    BY <2>1, <2>2
<1>10. ASSUME NEW j \in 0 .. blk'.left - 1
      PROVE  w[blk'.dst + j] = Image(c')[blk'.src + j]
  <2>1. /\ 1 + j \in 0 .. blk.left - 1 /\ blk.dst + (1 + j) = blk'.dst + j
        /\ blk.src + (1 + j) = blk'.src + j /\ blk.src + (1 + j) # blk.dst
    BY <1>1, <1>3
  <2>2. blk.src + (1 + j) \in Addr
    BY <1>1, <2>1, WithinIs
  <2> QED
    BY <1>2, <1>6, <2>1, <2>2
<1>11. blk.stale \in BOOLEAN
  BY DEF MoveInv
<1> QED
  BY <1>1, <1>2, <1>3, <1>6, <1>7, <1>8, <1>9, <1>10, <1>11 DEF MoveInv

\* Downwards, a byte still to be moved lies below the one just written.
LEMMA MoveDownKeeps ==
    ASSUME Whole(c), Shape(blk), MoveInv(c, blk), ~Idle, MoveDownStep
    PROVE  Whole(c') /\ Shape(blk') /\ blk'.op = blk.op /\ MoveInv(c', blk')
<1> DEFINE w == blk.want
           m == blk.left - 1
<1>1. /\ blk.left \in Nat \ {0} /\ blk.src \in Nat /\ blk.dst \in Nat /\ blk.src < blk.dst
      /\ ~blk.stale /\ blk.op = "movedown"
      /\ Within(blk.src, blk.left) /\ Within(blk.dst, blk.left)
  BY DEF MoveInv, MoveDownStep, Idle
<1>2. /\ w \in [Addr -> Byte]
      /\ \A a \in Addr : a \notin blk.dst .. blk.dst + blk.left - 1 => Image(c)[a] = w[a]
      /\ \A j \in 0 .. blk.left - 1 : w[blk.dst + j] = Image(c)[blk.src + j]
  BY <1>1 DEF MoveInv
<1>3. /\ Shape(blk') /\ blk'.op = blk.op /\ blk'.want = w /\ blk'.stale = blk.stale
      /\ blk'.src = blk.src /\ blk'.dst = blk.dst /\ blk'.left = m
  BY DEF MoveDownStep, Shape
<1>4. /\ m \in 0 .. blk.left - 1 /\ m \in Nat /\ blk.src + blk.left - 1 = blk.src + m
      /\ blk.dst + blk.left - 1 = blk.dst + m
  BY <1>1
<1>5. c' = ByteMove(c, blk.src + m, blk.dst + m) /\ blk.src + m \in Addr /\ blk.dst + m \in Addr
  <2>1. c' = ByteMove(c, blk.src + m, blk.dst + m)
    BY <1>4 DEF MoveDownStep
  <2> HIDE DEF m
  <2> QED
    BY <1>1, <1>4, <2>1, WithinIs
<1>6. m # 0 => m \in 1 .. blk.left
  BY <1>1
<1>7. \A j \in 0 .. m - 1 : j \in 0 .. blk.left - 1
  BY <1>1
<1> HIDE DEF w, m
<1> DEFINE z == ByteMove(c, blk.src + m, blk.dst + m)
<1>8. /\ Whole(z)
       /\ \A b \in Addr : Image(z)[b] =
             IF b = blk.dst + m THEN Image(c)[blk.src + m] ELSE Image(c)[b]
  BY <1>5, ByteMoveIs
<1> HIDE DEF z
<1>9. c' = z
  BY <1>5 DEF z
<1>10. /\ Whole(c')
      /\ \A b \in Addr : Image(c')[b] =
             IF b = blk.dst + m THEN Image(c)[blk.src + m] ELSE Image(c)[b]
  BY <1>8, <1>9
<1>11. ASSUME m # 0 PROVE Within(blk.src, m) /\ Within(blk.dst, m)
  BY <1>1, <1>6, <1>11, WithinIs
<1>12. ASSUME NEW a \in Addr, a \notin blk.dst .. blk.dst + m - 1
       PROVE  Image(c')[a] = w[a]
  <2>1. CASE a = blk.dst + m
    BY <1>2, <1>4, <1>10, <2>1
  <2>2. CASE a # blk.dst + m
    <3>1. a \notin blk.dst .. blk.dst + blk.left - 1
      BY <1>1, <1>4, <1>12, <2>2, AddrIs
    <3> QED
      BY <1>2, <1>10, <2>2, <3>1
  <2> QED
    BY <2>1, <2>2
<1>13. ASSUME NEW j \in 0 .. m - 1
       PROVE  w[blk.dst + j] = Image(c')[blk.src + j]
  <2>1. j \in 0 .. blk.left - 1 /\ blk.src + j # blk.dst + m
    BY <1>1, <1>4, <1>7
  <2>2. blk.src + j \in Addr
    BY <1>1, <2>1, WithinIs
  <2> QED
    BY <1>2, <1>10, <2>1, <2>2
<1>14. blk.stale \in BOOLEAN
  BY DEF MoveInv
<1> QED
  BY <1>1, <1>2, <1>3, <1>4, <1>10, <1>11, <1>12, <1>13, <1>14 DEF MoveInv

\* The span of one iteration of a disjoint move.
LEMMA SpanOfBoth ==
    ASSUME NEW a, NEW d, NEW n \in Nat \ {0}, Within(a, n), Within(d, n)
    PROVE  LET k == MinOf({n, Span(a), Span(d)})
           IN  /\ k \in 1 .. n /\ k \in 1 .. Span(a) /\ k \in 1 .. Span(d)
               /\ Within(a, k) /\ Within(d, k)
<1>1. Span(a) \in Nat \ {0} /\ Span(d) \in Nat \ {0}
  BY AddrIs, SizesAssumption DEF Within
<1> DEFINE k == MinOf({n, Span(a), Span(d)})
<1>2. k \in 1 .. n /\ k <= Span(a) /\ k <= Span(d)
  BY <1>1, Chunk
<1> HIDE DEF k
<1>3. k \in 1 .. Span(a) /\ k \in 1 .. Span(d)
  BY <1>1, <1>2
<1>4. Within(a, k) /\ Within(d, k)
  BY <1>2, WithinIs
<1> QED
  BY <1>2, <1>3, <1>4 DEF k

\* What an iteration of a disjoint move leaves of its invariant, whichever of
\* its pointers was resolved first.
LEMMA SpanKeeps ==
    ASSUME Shape(blk), MoveInv(c, blk), ~Idle, blk.op \in {"move", "fmemcpy"},
           NEW n \in 1 .. blk.left, NEW z, NEW stale \in BOOLEAN,
           blk' = [blk EXCEPT !.src = @ + n, !.dst = @ + n, !.left = @ - n, !.stale = @ \/ stale],
           ~stale => \A b \in Addr : Image(z)[b] =
               IF b \in blk.dst .. blk.dst + n - 1 THEN Image(c)[blk.src + (b - blk.dst)]
               ELSE Image(c)[b]
    PROVE  Shape(blk') /\ blk'.op = blk.op /\ MoveInv(z, blk')
<1> DEFINE w == blk.want
<1>1. /\ blk.left \in Nat \ {0} /\ blk.src \in Nat /\ blk.dst \in Nat
      /\ n \in Nat \ {0} /\ n <= blk.left
      /\ blk.dst + blk.left <= blk.src \/ blk.src + blk.left <= blk.dst
  BY DEF MoveInv, Idle
<1>2. Within(blk.src, blk.left) /\ Within(blk.dst, blk.left)
      /\ w \in [Addr -> Byte] /\ blk.stale \in BOOLEAN
  BY <1>1 DEF MoveInv
<1>3. ASSUME ~blk.stale
      PROVE  /\ \A a \in Addr : a \notin blk.dst .. blk.dst + blk.left - 1 => Image(c)[a] = w[a]
             /\ \A j \in 0 .. blk.left - 1 : w[blk.dst + j] = Image(c)[blk.src + j]
  BY <1>3 DEF MoveInv
<1>4. /\ Shape(blk') /\ blk'.op = blk.op /\ blk'.want = w /\ blk'.stale = (blk.stale \/ stale)
      /\ blk'.src = blk.src + n /\ blk'.dst = blk.dst + n /\ blk'.left = blk.left - n
  BY DEF Shape
<1> HIDE DEF w
<1>5. /\ blk'.left \in Nat /\ blk'.src \in Nat /\ blk'.dst \in Nat
      /\ blk'.dst + blk'.left <= blk'.src \/ blk'.src + blk'.left <= blk'.dst
      /\ blk'.dst + blk'.left - 1 = blk.dst + blk.left - 1
  BY <1>1, <1>4
<1>6. ASSUME blk'.left # 0 PROVE Within(blk'.src, blk'.left) /\ Within(blk'.dst, blk'.left)
  <2>1. n \in 0 .. blk.left - 1
    BY <1>1, <1>4, <1>6
  <2> QED
    BY <1>1, <1>2, <1>4, <2>1, WithinIs
<1>7. ASSUME ~blk.stale, ~stale, NEW a \in Addr, a \notin blk'.dst .. blk'.dst + blk'.left - 1
      PROVE  Image(z)[a] = w[a]
  <2>1. CASE a \in blk.dst .. blk.dst + n - 1
    <3> DEFINE j == a - blk.dst
    <3>1. j \in 0 .. blk.left - 1 /\ blk.dst + j = a
      BY <1>1, <2>1, AddrIs
    <3>2. Image(z)[a] = Image(c)[blk.src + j]
      BY <1>7, <2>1
    <3> HIDE DEF j
    <3>3. w[blk.dst + j] = Image(c)[blk.src + j]
      BY <1>3, <1>7, <3>1
    <3> QED
      BY <3>1, <3>2, <3>3
  <2>2. CASE a \notin blk.dst .. blk.dst + n - 1
    <3>1. a \notin blk.dst .. blk.dst + blk.left - 1
      <4>1. a \in Nat
        BY AddrIs
      <4> QED
        BY <1>1, <1>4, <1>5, <1>7, <2>2, <4>1
    <3>2. Image(c)[a] = w[a]
      BY <1>3, <1>7, <3>1
    <3> QED
      BY <1>7, <2>2, <3>2
  <2> QED
    BY <2>1, <2>2
<1>8. ASSUME ~blk.stale, ~stale, NEW j \in 0 .. blk'.left - 1
      PROVE  w[blk'.dst + j] = Image(z)[blk'.src + j]
  <2>1. /\ n + j \in 0 .. blk.left - 1 /\ blk.dst + (n + j) = blk'.dst + j
        /\ blk.src + (n + j) = blk'.src + j
        /\ blk.src + (n + j) \notin blk.dst .. blk.dst + n - 1
    BY <1>1, <1>4
  <2>2. blk.src + (n + j) \in Addr
    BY <1>1, <1>2, <2>1, WithinIs
  <2>3. w[blk.dst + (n + j)] = Image(c)[blk.src + (n + j)]
    BY <1>3, <1>8, <2>1
  <2>4. Image(z)[blk.src + (n + j)] = Image(c)[blk.src + (n + j)]
    BY <1>8, <2>1, <2>2
  <2> QED
    BY <2>1, <2>3, <2>4
<1>9. /\ ~blk'.stale <=> ~blk.stale /\ ~stale
      /\ blk'.stale \in BOOLEAN
  BY <1>2, <1>4
<1>10. blk'.op \in {"move", "fmemcpy"}
  BY <1>4
<1> QED
  BY <1>2, <1>4, <1>5, <1>6, <1>7, <1>8, <1>9, <1>10 DEF MoveInv

\* An iteration of the disjoint guest_move_block.
LEMMA MoveKeeps ==
    ASSUME Whole(c), Shape(blk), MoveInv(c, blk), ~Idle, MoveStep
    PROVE  Whole(c') /\ Shape(blk') /\ blk'.op = blk.op /\ MoveInv(c', blk')
<1> DEFINE n == MinOf({blk.left, Span(blk.src), Span(blk.dst)})
           z == Forward(c, blk.src, blk.dst, n)
           u == ForwardMap(c, blk.src, blk.dst)
           s == MapSlot(c, PageOf(blk.src))
           stale == u.cache_page[s] # PageOf(blk.src)
<1>1. /\ blk.op = "move" /\ c' = z
      /\ blk' = [blk EXCEPT !.src = @ + n, !.dst = @ + n, !.left = @ - n, !.stale = @ \/ stale]
  BY DEF MoveStep, SpanMove, Forward, ForwardMap
<1>2. blk.left \in Nat \ {0} /\ Within(blk.src, blk.left) /\ Within(blk.dst, blk.left)
  BY DEF MoveInv, Idle
<1>3. /\ n \in 1 .. blk.left /\ n \in 1 .. Span(blk.src) /\ n \in 1 .. Span(blk.dst)
      /\ Within(blk.src, n) /\ Within(blk.dst, n) /\ blk.src \in Addr /\ blk.dst \in Addr
  BY <1>2, SpanOfBoth DEF Within
<1> HIDE DEF n
<1>4. /\ Whole(z)
      /\ u.cache_page[s] = PageOf(blk.src) => \A b \in Addr : Image(z)[b] =
             IF b \in blk.dst .. blk.dst + n - 1 THEN Image(c)[blk.src + (b - blk.dst)]
             ELSE Image(c)[b]
  BY <1>3, SpanForwardIs
<1> HIDE DEF z, u, s
<1>5. Shape(blk') /\ blk'.op = blk.op /\ MoveInv(z, blk')
  <2>1. /\ stale \in BOOLEAN
        /\ ~stale => \A b \in Addr : Image(z)[b] =
             IF b \in blk.dst .. blk.dst + n - 1 THEN Image(c)[blk.src + (b - blk.dst)]
             ELSE Image(c)[b]
    BY <1>4
  <2>2. blk.op \in {"move", "fmemcpy"}
    BY <1>1
  <2> HIDE DEF stale
  <2> QED
    BY <1>1, <1>3, <2>1, <2>2, SpanKeeps
<1> QED
  BY <1>1, <1>4, <1>5

\* An iteration of fmemcpy.
LEMMA FmemcpyKeeps ==
    ASSUME Whole(c), Shape(blk), MoveInv(c, blk), ~Idle, FmemcpyStep
    PROVE  Whole(c') /\ Shape(blk') /\ blk'.op = blk.op /\ MoveInv(c', blk')
<1> DEFINE n == MinOf({blk.left, Span(blk.src), Span(blk.dst)})
           z == Backward(c, blk.src, blk.dst, n)
           u == BackwardMap(c, blk.src, blk.dst)
           s == MapSlot(c, PageOf(blk.dst))
           stale == u.cache_page[s] # PageOf(blk.dst)
<1>1. /\ blk.op = "fmemcpy" /\ c' = z
      /\ blk' = [blk EXCEPT !.src = @ + n, !.dst = @ + n, !.left = @ - n, !.stale = @ \/ stale]
  BY DEF FmemcpyStep, SpanMove, Backward, BackwardMap
<1>2. blk.left \in Nat \ {0} /\ Within(blk.src, blk.left) /\ Within(blk.dst, blk.left)
  BY DEF MoveInv, Idle
<1>3. /\ n \in 1 .. blk.left /\ n \in 1 .. Span(blk.src) /\ n \in 1 .. Span(blk.dst)
      /\ Within(blk.src, n) /\ Within(blk.dst, n) /\ blk.src \in Addr /\ blk.dst \in Addr
  BY <1>2, SpanOfBoth DEF Within
<1> HIDE DEF n
<1>4. /\ Whole(z)
      /\ u.cache_page[s] = PageOf(blk.dst) => \A b \in Addr : Image(z)[b] =
             IF b \in blk.dst .. blk.dst + n - 1 THEN Image(c)[blk.src + (b - blk.dst)]
             ELSE Image(c)[b]
  BY <1>3, SpanBackwardIs
<1> HIDE DEF z, u, s
<1>5. Shape(blk') /\ blk'.op = blk.op /\ MoveInv(z, blk')
  <2>1. /\ stale \in BOOLEAN
        /\ ~stale => \A b \in Addr : Image(z)[b] =
             IF b \in blk.dst .. blk.dst + n - 1 THEN Image(c)[blk.src + (b - blk.dst)]
             ELSE Image(c)[b]
    BY <1>4
  <2>2. blk.op \in {"move", "fmemcpy"}
    BY <1>1
  <2> HIDE DEF stale
  <2> QED
    BY <1>1, <1>3, <2>1, <2>2, SpanKeeps
<1> QED
  BY <1>1, <1>4, <1>5

\* Whichever loop runs, its iteration keeps the invariant.
LEMMA StepKeeps == BInv /\ Step => Whole(c') /\ BlkInv(c', blk')
<1> SUFFICES ASSUME BInv, Step PROVE Whole(c') /\ BlkInv(c', blk')
  OBVIOUS
<1>1. /\ Whole(c) /\ ~Idle /\ blk.left # 0
      /\ \/ ReadStep \/ WriteStep \/ FindStep
         \/ MoveUpStep \/ MoveDownStep \/ MoveStep \/ FmemcpyStep
  BY DEF BInv, Step, Idle
<1>2. /\ Shape(blk)
      /\ \/ blk.op = "read" /\ ReadInv(c, blk)
         \/ blk.op = "find" /\ FindInv(c, blk)
         \/ blk.op = "write" /\ WriteInv(c, blk)
         \/ blk.op \in {"moveup", "movedown", "move", "fmemcpy"} /\ MoveInv(c, blk)
  BY <1>1 DEF BInv, BlkInv
<1>3. CASE ReadStep
  BY <1>1, <1>2, <1>3, ReadKeeps DEF ReadStep
<1>4. CASE WriteStep
  BY <1>1, <1>2, <1>4, WriteStepKeeps DEF WriteStep, BlkInv
<1>5. CASE FindStep
  BY <1>1, <1>2, <1>5, FindKeeps DEF FindStep, BlkInv
<1>6. CASE MoveUpStep
  BY <1>1, <1>2, <1>6, MoveUpKeeps DEF MoveUpStep, BlkInv
<1>7. CASE MoveDownStep
  BY <1>1, <1>2, <1>7, MoveDownKeeps DEF MoveDownStep, BlkInv
<1>8. CASE MoveStep
  BY <1>1, <1>2, <1>8, MoveKeeps DEF MoveStep, SpanMove, BlkInv
<1>9. CASE FmemcpyStep
  BY <1>1, <1>2, <1>9, FmemcpyKeeps DEF FmemcpyStep, SpanMove, BlkInv
<1> QED
  BY <1>1, <1>3, <1>4, <1>5, <1>6, <1>7, <1>8, <1>9

-----------------------------------------------------------------------------
(* The calls, and the guest's stores in between.                           *)

\* The ranges a transfer is called with.
LEMMA RangesAreWithin ==
    ASSUME NEW r \in Ranges
    PROVE  r[2] \in Nat \ {0} /\ Within(r[1], r[2])
  BY BlockAssumption DEF Ranges, Within

\* The fields of the record a call sets up.
LEMMA CallIs ==
    ASSUME NEW op, NEW src, NEW dst, NEW n, NEW data, NEW want, NEW answer,
           Call(op, src, dst, n, data, want, answer)
    PROVE  /\ c' = c /\ Shape(blk')
           /\ blk'.op = op /\ blk'.src = src /\ blk'.dst = dst /\ blk'.left = n
           /\ blk'.data = data /\ blk'.out = <<>> /\ blk'.at = 0 /\ blk'.want = want
           /\ blk'.answer = answer /\ blk'.from = src /\ blk'.to = dst /\ blk'.len = n
           /\ blk'.stale = FALSE
<1> DEFINE b == [op |-> op, src |-> src, dst |-> dst, left |-> n, data |-> data,
                 out |-> <<>>, at |-> 0, want |-> want, answer |-> answer,
                 from |-> src, to |-> dst, len |-> n, stale |-> FALSE]
<1>1. c' = c /\ blk' = b
  BY DEF Call
<1> QED
  BY <1>1 DEF Shape

\* An image with some bytes replaced.
LEMMA OverIs ==
    ASSUME NEW im \in [Addr -> Byte], NEW d \in Addr, NEW n \in Nat \ {0}, Within(d, n),
           NEW v \in [1 .. n -> Byte], NEW w, w = Over(im, d, v)
    PROVE  /\ w \in [Addr -> Byte]
           /\ \A a \in Addr : a \notin d .. d + n - 1 => w[a] = im[a]
           /\ \A j \in 0 .. n - 1 : w[d + j] = v[j + 1]
<1>1. Len(v) = n /\ d \in Nat
  BY WithinIs
<1>2. w = [a \in Addr |-> IF a \in d .. d + n - 1 THEN v[a - d + 1] ELSE im[a]]
  BY <1>1 DEF Over
<1>3. ASSUME NEW a \in Addr, a \in d .. d + n - 1 PROVE v[a - d + 1] \in Byte
  <2>1. a - d + 1 \in 1 .. n
    BY <1>1, <1>3, AddrIs
  <2> QED
    BY <2>1
<1>4. w \in [Addr -> Byte]
  BY <1>1, <1>2, <1>3
<1>5. ASSUME NEW j \in 0 .. n - 1 PROVE w[d + j] = v[j + 1]
  <2> DEFINE b == d + j
  <2>1. b \in Addr
    BY WithinIs
  <2>2. b \in d .. d + n - 1 /\ b - d + 1 = j + 1
    BY <1>1
  <2> HIDE DEF b
  <2>3. w[b] = v[j + 1]
    BY <1>2, <2>1, <2>2
  <2> QED
    BY <2>3 DEF b
<1> QED
  BY <1>2, <1>4, <1>5

\* A call has done nothing yet.
LEMMA CallKeeps ==
    ASSUME Whole(c), NEW ops, Start(ops)
    PROVE  Whole(c') /\ BlkInv(c', blk')
<1> DEFINE im == Image(c)
<1>1. im \in [Addr -> Byte]
  BY ImageIs DEF Whole
<1>2. PICK r \in Ranges :
          \/ Call("read", r[1], 0, r[2], <<>>, im, Slice(im, r[1], r[2]))
          \/ \E v \in [1 .. r[2] -> Byte] :
                Call("write", 0, r[1], r[2], v, Over(im, r[1], v), <<>>)
          \/ \E b \in Byte :
                Call("find", r[1], 0, r[2], b, im, FindIn(Slice(im, r[1], r[2]), b))
          \/ \E d \in Addr \ {r[1]}, op \in {"movedown", "moveup", "move", "fmemcpy"} :
                /\ d + r[2] - 1 \in Addr
                /\ MoveKind(r[1], d, r[2]) = IF op = "fmemcpy" THEN "move" ELSE op
                /\ Call(op, r[1], d, r[2], <<>>, Over(im, d, Slice(im, r[1], r[2])), <<>>)
  BY DEF Start
<1> DEFINE a == r[1]
           n == r[2]
<1>3. n \in Nat \ {0} /\ Within(a, n) /\ a \in Nat /\ n - n = 0 /\ a + 0 = a /\ n \in 0 .. n
  BY RangesAreWithin, WithinIs
<1> HIDE DEF im, a, n
<1>4. ASSUME Call("read", a, 0, n, <<>>, im, Slice(im, a, n))
      PROVE  c' = c /\ BlkInv(c', blk')
  <2>1. Slice(im, a, 0) = <<>>
    BY DEF Slice
  <2>2. /\ c' = c /\ Shape(blk') /\ blk'.op = "read" /\ blk'.src = a /\ blk'.left = n
        /\ blk'.out = <<>> /\ blk'.want = im /\ blk'.from = a /\ blk'.len = n
        /\ blk'.answer = Slice(im, a, n)
    <3> DEFINE u == Slice(im, a, n)
               nil == <<>>
    <3>1. Call("read", a, 0, n, nil, im, u)
      BY <1>4
    <3> HIDE DEF u, nil
    <3>2. /\ c' = c /\ Shape(blk') /\ blk'.op = "read" /\ blk'.src = a /\ blk'.left = n
          /\ blk'.want = im /\ blk'.from = a /\ blk'.len = n /\ blk'.answer = u
      BY <3>1, CallIs
    <3>3. blk'.out = <<>>
      BY <3>1, CallIs
    <3> QED
      BY <3>2, <3>3 DEF u
  <2>3. ReadInv(c, blk')
    BY <1>3, <2>1, <2>2 DEF ReadInv, im
  <2> QED
    BY <2>2, <2>3 DEF BlkInv
<1>5. ASSUME NEW v \in [1 .. n -> Byte], Call("write", 0, a, n, v, Over(im, a, v), <<>>)
      PROVE  c' = c /\ BlkInv(c', blk')
  <2> DEFINE w == Over(im, a, v)
  <2>1. w = Over(im, a, v) /\ a \in Addr
    BY <1>3 DEF Within
  <2> HIDE DEF w
  <2>2. /\ w \in [Addr -> Byte]
        /\ \A b \in Addr : b \notin a .. a + n - 1 => w[b] = im[b]
        /\ \A j \in 0 .. n - 1 : w[a + j] = v[j + 1]
    BY <1>1, <1>3, <2>1, OverIs
  <2>3. \A j \in 0 .. n - 1 : 0 + j + 1 = j + 1
    BY <1>3
  <2>4. /\ c' = c /\ Shape(blk') /\ blk'.op = "write" /\ blk'.dst = a /\ blk'.left = n
        /\ blk'.data = v /\ blk'.at = 0 /\ blk'.want = w /\ blk'.to = a /\ blk'.len = n
    BY <1>5, CallIs DEF w
  <2>5. WriteInv(c, blk')
    <3>1. /\ blk'.len \in Nat \ {0} /\ blk'.left \in 0 .. blk'.len
          /\ blk'.at = blk'.len - blk'.left /\ blk'.dst = blk'.to + blk'.at
      BY <1>3, <2>1, <2>4
    <3>2. /\ Within(blk'.to, blk'.len) /\ blk'.data \in [1 .. blk'.len -> Byte]
          /\ blk'.want \in [Addr -> Byte]
      BY <1>3, <2>2, <2>4
    <3>3. \A b \in Addr : b \notin blk'.dst .. blk'.dst + blk'.left - 1 =>
                 Image(c)[b] = blk'.want[b]
      BY <2>2, <2>4 DEF im
    <3>4. \A j \in 0 .. blk'.left - 1 : blk'.want[blk'.dst + j] = blk'.data[blk'.at + j + 1]
      BY <2>2, <2>3, <2>4
    <3> QED
      BY <3>1, <3>2, <3>3, <3>4 DEF WriteInv
  <2> QED
    BY <2>4, <2>5 DEF BlkInv
<1>6. ASSUME NEW b \in Byte, Call("find", a, 0, n, b, im, FindIn(Slice(im, a, n), b))
      PROVE  c' = c /\ BlkInv(c', blk')
  <2>1. /\ c' = c /\ Shape(blk') /\ blk'.op = "find" /\ blk'.src = a /\ blk'.left = n
        /\ blk'.data = b /\ blk'.at = 0 /\ blk'.want = im /\ blk'.from = a /\ blk'.len = n
        /\ blk'.answer = FindIn(Slice(im, a, n), b)
    BY <1>6, CallIs
  <2>2. 0 \in Nat /\ 0 + n = n /\ \A i : i \notin 0 .. 0 - 1
    BY <1>3
  <2>3. FindInv(c, blk')
    BY <1>3, <2>1, <2>2 DEF FindInv, im
  <2> QED
    BY <2>1, <2>3 DEF BlkInv
<1>7. ASSUME NEW d \in Addr \ {a}, NEW op \in {"movedown", "moveup", "move", "fmemcpy"},
             d + n - 1 \in Addr,
             MoveKind(a, d, n) = IF op = "fmemcpy" THEN "move" ELSE op,
             Call(op, a, d, n, <<>>, Over(im, d, Slice(im, a, n)), <<>>)
      PROVE  c' = c /\ BlkInv(c', blk')
  <2> DEFINE v == Slice(im, a, n)
             w == Over(im, d, v)
  <2>1. Within(d, n) /\ d \in Nat /\ d # a
    BY <1>7, AddrIs DEF Within
  <2>2. v \in [1 .. n -> Byte]
    BY <1>1, <1>3, SliceIs
  <2>3. \A j \in 0 .. n - 1 : v[j + 1] = im[a + j]
    <3>1. \A j \in 0 .. n - 1 : j + 1 \in 1 .. n /\ a + (j + 1) - 1 = a + j
      BY <1>3
    <3>2. \A i \in 1 .. n : v[i] = im[a + i - 1]
      BY DEF Slice
    <3> HIDE DEF v
    <3> QED
      BY <3>1, <3>2
  <2> HIDE DEF v
  <2>4. w = Over(im, d, v)
    OBVIOUS
  <2> HIDE DEF w
  <2>5. /\ w \in [Addr -> Byte]
        /\ \A b \in Addr : b \notin d .. d + n - 1 => w[b] = im[b]
        /\ \A j \in 0 .. n - 1 : w[d + j] = v[j + 1]
    BY <1>1, <1>3, <2>1, <2>2, <2>4, OverIs
  <2>6. /\ op = "moveup" => d < a
        /\ op = "movedown" => a < d
        /\ op \in {"move", "fmemcpy"} => d + n <= a \/ a + n <= d
    BY <1>3, <1>7, <2>1 DEF MoveKind
  <2>7. /\ c' = c /\ Shape(blk') /\ blk'.op = op /\ blk'.src = a /\ blk'.dst = d
        /\ blk'.left = n /\ blk'.want = w /\ blk'.stale = FALSE
    <3>1. Call(op, a, d, n, <<>>, w, <<>>)
      BY <1>7 DEF w, v
    <3> QED
      BY <3>1, CallIs
  <2>8. MoveInv(c, blk')
    <3>1. \A j \in 0 .. n - 1 : w[d + j] = Image(c)[a + j]
      BY <2>3, <2>5 DEF im
    <3>2. blk'.op \in {"moveup", "movedown"} => ~blk'.stale
      BY <2>7
    <3> QED
      BY <1>3, <2>1, <2>5, <2>6, <2>7, <3>1, <3>2 DEF MoveInv, im
  <2> QED
    BY <2>7, <2>8 DEF BlkInv
<1> QED
  BY <1>2, <1>4, <1>5, <1>6, <1>7 DEF a, n

\* A store of the guest between two transfers.
LEMMA GuestStoreKeeps ==
    ASSUME Whole(c), GuestStore
    PROVE  Whole(c') /\ BlkInv(c', blk')
<1>1. PICK p \in Page, o \in Offset, v \in [{0} -> Byte] :
          /\ Store(p, o, 1, v, NoFault)
          /\ blk' = [op |-> "none", left |-> 0]
  BY DEF GuestStore
<1> DEFINE y == MapPage(c, p, TRUE, NoFault)
           s == MapSlot(c, p)
           d == LowPart(o, 1, v)
<1>2. NoFault \in Outcome
  BY DEF NoFault, Outcome
<1>3. s \in Slot /\ Good(y) /\ y.cache_page[s] = p /\ y.cache_dirty[s]
  <2>1. Good(c)
    BY DEF Whole
  <2>2. PageMapped(c, p, TRUE, y, s)
    BY <1>2, <2>1, MapPageMaps
  <2> HIDE DEF y, s
  <2> QED
    BY <2>2 DEF PageMapped
<1>4. y.lost = {}
  BY NothingLost DEF Whole, Good
<1>5. \A x \in Offset \cap DOMAIN d : d[x] \in Byte
  <2>1. v \in [0 .. 1 - 1 -> Byte] /\ 1 \in Width
    BY BlockAssumption
  <2> QED
    BY <2>1, PartsAreBytes
<1>6. c' = Poke(y, s, d)
  BY <1>1 DEF Store
<1> HIDE DEF y, s, d
<1>7. Good(c') /\ c'.lost = {}
  BY <1>3, <1>4, <1>5, <1>6, PokeIsGood
<1> QED
  BY <1>1, <1>7 DEF Whole, BlkInv

-----------------------------------------------------------------------------
(* The theorems.                                                           *)

\* BInv is inductive.
LEMMA BlockInitIsGood == BlockInit => BInv
<1>1. ASSUME BlockInit PROVE Good(c) /\ medium \in Media
  BY <1>1, InitIsGood DEF BlockInit, IInv
<1>2. ASSUME BlockInit PROVE c.lost = {}
  BY <1>2 DEF BlockInit, Init
<1> QED
  BY <1>1, <1>2 DEF BInv, Whole, BlkInv, BlockInit

LEMMA BlockStepIsGood == BInv /\ [BlockNext]_bvars => BInv'
<1> SUFFICES ASSUME BInv, [BlockNext]_bvars PROVE BInv'
  OBVIOUS
<1>1. CASE UNCHANGED bvars
  <2>1. c' = c /\ medium' = medium /\ blk' = blk
    BY <1>1 DEF bvars
  <2> QED
    BY <2>1 DEF BInv
<1>2. CASE BlockNext
  <2>1. Whole(c) /\ medium' \in Media
    BY <1>2 DEF BInv, BlockNext
  <2>2. Whole(c') /\ BlkInv(c', blk')
    BY <1>2, <2>1, GuestStoreKeeps, CallKeeps, StepKeeps DEF BlockNext
  <2> QED
    BY <2>1, <2>2 DEF BInv
<1> QED
  BY <1>1, <1>2

\* Whatever mixture of guest stores and transfers runs, the pager stays in
\* order and loses nothing, and a transfer in progress has done exactly the
\* bytes it has passed.
THEOREM BlockInvariance == BlockSpec => []BInv
  BY BlockInitIsGood, BlockStepIsGood, PTL DEF BlockSpec

\* A move that is done has want as its image, if no pointer went stale.
LEMMA MoveDone ==
    ASSUME Whole(c), MoveInv(c, blk), blk.left = 0, ~blk.stale
    PROVE  Image(c) = blk.want
<1>1. \A a \in Addr : Image(c)[a] = blk.want[a]
  BY AddrIs DEF MoveInv
<1> QED
  BY <1>1, ImageIs DEF MoveInv, Whole

\* The calls of guest_read_block, guest_write_block, guest_find_byte_spans and
\* the overlapping guest_move_block do what their callers expect, for any
\* number of pages and slots and any length.
THEOREM TransfersAreExactHolds == BlockSpec => []TransfersAreExact
<1>1. BInv => TransfersAreExact
  <2> SUFFICES ASSUME BInv, NEW op, blk.op = op, blk.left = 0
               PROVE  /\ op \in {"read", "find"} => blk.out = blk.answer
                      /\ op \in {"read", "find", "write", "moveup", "movedown"} =>
                            Image(c) = blk.want
    BY DEF TransfersAreExact, Finished
  <2>1. Whole(c) /\ BlkInv(c, blk)
    BY DEF BInv
  <2>2. CASE op = "read"
    <3>1. ReadInv(c, blk)
      BY <2>1, <2>2 DEF BlkInv
    <3>2. blk.len - 0 = blk.len
      BY <3>1 DEF ReadInv
    <3> QED
      BY <2>2, <3>1, <3>2 DEF ReadInv
  <2>3. CASE op = "find"
    BY <2>1, <2>3 DEF BlkInv, FindInv
  <2>4. CASE op = "write"
    <3>1. WriteInv(c, blk)
      BY <2>1, <2>4 DEF BlkInv
    <3>2. \A a \in Addr : Image(c)[a] = blk.want[a]
      <4>1. blk.dst \in Nat
        BY <3>1, WithinIs DEF WriteInv
      <4>2. \A a \in Addr : a \notin blk.dst .. blk.dst + blk.left - 1
        BY <4>1
      <4> QED
        BY <3>1, <4>2 DEF WriteInv
    <3>3. Image(c) = blk.want
      BY <2>1, <3>1, <3>2, ImageIs DEF WriteInv, Whole
    <3> QED
      BY <2>4, <3>3
  <2>5. CASE op \in {"moveup", "movedown"}
    <3>1. MoveInv(c, blk) /\ ~blk.stale
      BY <2>1, <2>5 DEF BlkInv, MoveInv
    <3> QED
      BY <2>1, <2>5, <3>1, MoveDone
  <2> QED
    BY <2>2, <2>3, <2>4, <2>5
<1> QED
  BY BlockInvariance, <1>1, PTL

\* A disjoint guest_move_block, or an fmemcpy, can only go wrong by copying
\* through a pointer whose slot has been given to another page.
THEOREM MovesExactUnlessStaleHolds == BlockSpec => []MovesExactUnlessStale
<1>1. BInv => MovesExactUnlessStale
  <2> SUFFICES ASSUME BInv, NEW op \in {"move", "fmemcpy"}, blk.op = op, blk.left = 0, ~blk.stale
               PROVE  Image(c) = blk.want
    BY DEF MovesExactUnlessStale, Finished
  <2>1. Whole(c) /\ MoveInv(c, blk)
    BY DEF BInv, BlkInv
  <2> QED
    BY <2>1, MoveDone
<1> QED
  BY BlockInvariance, <1>1, PTL

============================================================================
