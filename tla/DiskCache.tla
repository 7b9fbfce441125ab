----------------------------- MODULE DiskCache -----------------------------
(***************************************************************************)
(* The sector cache in the memory of the second chip (src/src/diskcache.c) *)
(* and the link to it (src/link/link_fast.c), for the disk_read and        *)
(* disk_write of drivers/sdcard/sdcard.c. The first chip keeps a tag for   *)
(* each slot of the cache; the sectors are at the other end of a link      *)
(* that has no flow control and acknowledges no write, and both ends give  *)
(* up when a word they wait for does not come.                             *)
(*                                                                         *)
(* A burst is a request, a count and the words of one sector. A word that  *)
(* reaches the second chip when its receiver is full is lost, and with it  *)
(* the framing of all that follow: diskcache.h says that the cache is not  *)
(* correct from then on, and the model ends there. Words that get lost on  *)
(* the way back are modelled: they must only ever cost time.               *)
(***************************************************************************)
EXTENDS Integers, Sequences

CONSTANTS
    Sector,      \* sector numbers of the card
    Slots,       \* DC_SECTORS
    SecWords,    \* DC_SEC_WORDS
    Content,     \* what a sector may hold
    Depth,       \* words in a FIFO of the PIO
    MaxCount,    \* sectors of a request
    MaxChanges,  \* bound: trims, and other cards
    Noise        \* a word off its framing

ASSUME DiskCacheAssumption ==
    /\ Sector \subseteq Nat /\ Slots \in Nat \ {0} /\ SecWords \in Nat \ {0}
    /\ Depth \in Nat \ {0} /\ MaxCount \in Nat /\ MaxChanges \in Nat

DC_EMPTY == -1

VARIABLES
    card,     \* what the card holds
    tag,      \* dc_tag
    on,       \* dc_on
    call,     \* the disk_read in progress
    there,    \* the link to the second chip: words sent, words received
    back,     \* the link from it, and whether it has lost its framing
    slave,    \* linkf_serve: where it is in a request
    served,   \* the memory it serves
    lost,     \* history: a word to the second chip was lost
    behind,   \* history: sectors that changed on the card behind the cache
    changes

linkvars == <<there, back>>
dcvars == <<card, tag, on, call, there, back, slave, served, lost, behind, changes>>

Slot(s) == s % Slots
Word(c, j) == [of |-> c, at |-> j]
Range(s, n) == s..(s + n - 1)

NoCall  == [pc |-> "idle", op |-> "none", first |-> 0, count |-> 0, i |-> 0, j |-> 0, got |-> <<>>]
Resting == [pc |-> "request", op |-> "none", slot |-> 0, n |-> 0, i |-> 0]

\* dc_init has found the second chip and emptied the tags.
DcInit ==
    /\ card \in [Sector -> Content] /\ tag = [k \in 0..(Slots - 1) |-> DC_EMPTY]
    /\ on = TRUE /\ call = NoCall /\ slave = Resting
    /\ there = [sent |-> <<>>, rcvd |-> <<>>]
    /\ back = [sent |-> <<>>, rcvd |-> <<>>, framed |-> TRUE]
    /\ served = [k \in 0..(Slots - 1) |-> [j \in 0..(SecWords - 1) |-> Noise]]
    /\ lost = FALSE /\ behind = {} /\ changes = 0

-----------------------------------------------------------------------------
(* disk_read and disk_write, while the cache is on *)

BetweenReads == call = NoCall /\ on

\* disk_read: a request that is in the cache as a whole comes from there, any
\* other from the card, and then goes to the cache. Reads that fail change
\* nothing.
DiskRead(s, n) ==
    /\ BetweenReads /\ Range(s, n) \subseteq Sector
    /\ LET hit == \A x \in Range(s, n) : tag[Slot(x)] = x
       IN  call' = [NoCall EXCEPT !.pc = "request", !.first = s, !.count = n,
                                  !.op = IF hit THEN "read" ELSE "write"]
    /\ UNCHANGED <<card, tag, on, linkvars, slave, served, lost, behind, changes>>

\* Mutant of DropTags: only the first sector is dropped.
DropFirstTag(s, n) == [tag EXCEPT ![Slot(s)] = IF @ = s THEN DC_EMPTY ELSE @]

\* dc_invalidate
DropTags(s, n) == [k \in DOMAIN tag |-> IF tag[k] \in Range(s, n) THEN DC_EMPTY ELSE tag[k]]

\* disk_write drops the tags whether the write failed or not: it may have
\* reached a part of the card.
DiskWrite(s, n) ==
    /\ BetweenReads /\ Range(s, n) \subseteq Sector
    /\ \E new \in [Range(s, n) -> Content] :
          card' = [x \in Sector |-> IF x \in Range(s, n) THEN new[x] ELSE card[x]]
    /\ tag' = DropTags(s, n)
    /\ behind' = behind \ Range(s, n)
    /\ UNCHANGED <<on, call, linkvars, slave, served, lost, changes>>

\* disk_ioctl trims sectors and disk_initialize finds another card; both drop
\* the sectors of the first chip's own cache, and leave the tags of this one.
CardChanges ==
    /\ BetweenReads /\ changes < MaxChanges
    /\ \E new \in [Sector -> Content] :
          /\ card' = new
          /\ behind' = behind \cup {x \in Sector : tag[Slot(x)] = x /\ new[x] # card[x]}
    /\ changes' = changes + 1
    /\ UNCHANGED <<tag, on, call, linkvars, slave, served, lost>>

-----------------------------------------------------------------------------
(* The first chip's end of a burst *)

Current == call.first + call.i

\* The sector is done: the call goes on with the next one.
NextSector(c, done) ==
    IF c.i + 1 < c.count THEN [c EXCEPT !.pc = "request", !.i = @ + 1, !.j = 0] ELSE done

\* lf_put
Put(w) ==
    /\ Len(there.sent) < Depth
    /\ there' = [there EXCEPT !.sent = Append(@, w)]

PutRequest ==
    /\ call.pc = "request"
    /\ Put([op |-> call.op, slot |-> Slot(Current)])
    /\ call' = [call EXCEPT !.pc = "count"]
    /\ UNCHANGED <<card, tag, on, back, slave, served, lost, behind, changes>>

PutCount ==
    /\ call.pc = "count"
    /\ Put([n |-> SecWords])
    /\ call' = [call EXCEPT !.pc = IF call.op = "read" THEN "receive" ELSE "send"]
    /\ UNCHANGED <<card, tag, on, back, slave, served, lost, behind, changes>>

\* dc_fill: the tag is set when the last word is under way.
PutWord ==
    /\ call.pc = "send"
    /\ Put(Word(card[Current], call.j))
    /\ IF call.j + 1 < SecWords
       THEN call' = [call EXCEPT !.j = @ + 1] /\ UNCHANGED <<tag, behind>>
       ELSE /\ tag' = [tag EXCEPT ![Slot(Current)] = Current]
            /\ behind' = behind \ {Current}
            /\ call' = NextSector(call, NoCall)
    /\ UNCHANGED <<card, on, back, slave, served, lost, changes>>

\* linkf_read_burst
GetWord ==
    /\ call.pc = "receive" /\ back.rcvd # <<>>
    /\ back' = [back EXCEPT !.rcvd = Tail(@)]
    /\ LET c == [call EXCEPT !.got = Append(@, Head(back.rcvd))]
       IN  call' = IF call.j + 1 < SecWords THEN [c EXCEPT !.j = @ + 1]
                   ELSE NextSector(c, [c EXCEPT !.pc = "done"])
    /\ UNCHANGED <<card, tag, on, there, slave, served, lost, behind, changes>>

Return ==
    /\ call.pc = "done"
    /\ call' = NoCall
    /\ UNCHANGED <<card, tag, on, linkvars, slave, served, lost, behind, changes>>

Waiting ==
    \/ call.pc \in {"request", "count", "send"} /\ Len(there.sent) = Depth
    \/ call.pc = "receive" /\ back.rcvd = <<>>

\* A time-out, of a full FIFO or of an answer that does not come or comes too
\* late, ends the use of the cache; a read then takes the card.
TimeOut ==
    /\ Waiting
    /\ on' = FALSE
    /\ call' = NoCall
    /\ UNCHANGED <<card, tag, linkvars, slave, served, lost, behind, changes>>

-----------------------------------------------------------------------------
(* The wires *)

\* The first chip's transmitter waits for nobody.
WireThere ==
    /\ there.sent # <<>>
    /\ IF Len(there.rcvd) < Depth
       THEN /\ there' = [sent |-> Tail(there.sent), rcvd |-> Append(there.rcvd, Head(there.sent))]
            /\ UNCHANGED lost
       ELSE lost' = TRUE /\ UNCHANGED there
    /\ UNCHANGED <<card, tag, on, call, back, slave, served, behind, changes>>

\* Nor does that of the second: while an interrupt keeps the first chip from
\* reading, words get lost and what follows is off its framing.
WireBack ==
    /\ back.sent # <<>>
    /\ LET full == Len(back.rcvd) >= Depth
       IN  back' = [sent   |-> Tail(back.sent),
                    rcvd   |-> IF full THEN back.rcvd
                               ELSE Append(back.rcvd, IF back.framed THEN Head(back.sent) ELSE Noise),
                    framed |-> back.framed /\ ~full]
    /\ UNCHANGED <<card, tag, on, call, there, slave, served, lost, behind, changes>>

-----------------------------------------------------------------------------
(* linkf_serve *)

Take == there' = [there EXCEPT !.rcvd = Tail(@)]

\* No word but a request ever arrives here as long as none is lost.
ServeRequest ==
    /\ slave.pc = "request" /\ there.rcvd # <<>>
    /\ Take
    /\ LET req == Head(there.rcvd)
       IN  slave' = [Resting EXCEPT !.pc = "count", !.op = req.op, !.slot = req.slot]
    /\ UNCHANGED <<card, tag, on, call, back, served, lost, behind, changes>>

ServeCount ==
    /\ slave.pc = "count" /\ there.rcvd # <<>>
    /\ Take
    /\ slave' = [slave EXCEPT !.pc = slave.op, !.n = Head(there.rcvd).n]
    /\ UNCHANGED <<card, tag, on, call, back, served, lost, behind, changes>>

Served == IF slave.i + 1 < slave.n THEN [slave EXCEPT !.i = @ + 1] ELSE Resting

ServeWrite ==
    /\ slave.pc = "write" /\ there.rcvd # <<>>
    /\ Take
    /\ served' = [served EXCEPT ![slave.slot][slave.i] = Head(there.rcvd)]
    /\ slave' = Served
    /\ UNCHANGED <<card, tag, on, call, back, lost, behind, changes>>

ServeRead ==
    /\ slave.pc = "read" /\ Len(back.sent) < Depth
    /\ back' = [back EXCEPT !.sent = Append(@, served[slave.slot][slave.i])]
    /\ slave' = Served
    /\ UNCHANGED <<card, tag, on, call, there, served, lost, behind, changes>>

\* lf_wait_rx: interrupts hold up a burst for microseconds and the second chip
\* waits for milliseconds, so that it gives up only what the first has.
ServeNoMore ==
    /\ slave.pc \in {"count", "write"} /\ there = [sent |-> <<>>, rcvd |-> <<>>]
    /\ call.pc \notin {"count", "send"}
    /\ slave' = Resting
    /\ UNCHANGED <<card, tag, on, call, linkvars, served, lost, behind, changes>>

DcNext ==
    /\ ~lost
    /\ \/ \E s \in Sector, n \in 1..MaxCount : DiskRead(s, n) \/ DiskWrite(s, n)
       \/ CardChanges
       \/ PutRequest \/ PutCount \/ PutWord \/ GetWord \/ Return \/ TimeOut
       \/ WireThere \/ WireBack
       \/ ServeRequest \/ ServeCount \/ ServeWrite \/ ServeRead \/ ServeNoMore

DcSpec == DcInit /\ [][DcNext]_dcvars

-----------------------------------------------------------------------------
\* "True only if every sector of the request was served from the cache": when
\* dc_read returns true the caller has what the card holds, whatever bursts
\* were given up, came late or got lost on the way back before. Only sectors
\* that were trimmed, or belong to another card, may be those of before.
HitsTrue ==
    call.pc = "done" =>
        \A i \in 0..(call.count - 1) : call.first + i \notin behind =>
            \A j \in 0..(SecWords - 1) :
                call.got[i * SecWords + j + 1] = Word(card[call.first + i], j)
=============================================================================
