------------------------------- MODULE I8042 -------------------------------
(***************************************************************************)
(* The keyboard controller and its two PS/2 devices (src/src/i8042.c) with *)
(* the native BIOS that empties it: the handlers of INT 09h and INT 74h,   *)
(* the reset of the mouse driver (INT 33h) and the calls of INT 15h/C2h.   *)
(*                                                                         *)
(* Keys and mouse movements are put into two queues of bytes by the poll   *)
(* of the main loop.  The second byte of an extended key follows its E0    *)
(* only after a delay.  The controller shows one queue at a time, the      *)
(* keyboard's first, and announces bytes by edges on IRQ1 and IRQ12.       *)
(* A byte is what the handlers tell apart; mouse packets have three bytes  *)
(* (bios_74h never asks for more).  The reset line, the A20 gate and the   *)
(* self-test bits of the status are left out.                              *)
(***************************************************************************)
EXTENDS Integers, SequencesExt

CONSTANTS
    QueueSize,    \* PS2_QUEUE_SIZE
    Reserve,      \* PS2_KBD_BREAK_RESERVE
    MouseMargin,  \* the room a mouse event must find, 16 bytes
    Key,          \* keys with a scan code of their own
    Scan,         \* their codes
    Extended,     \* those with an E0 prefix
    MaxMoves,     \* bound on the packets a movement takes
    MaxEvents     \* bound on the events of keys, mouse and guest

ASSUME KbdAssumption ==
    /\ QueueSize \in Nat /\ Reserve \in Nat /\ MouseMargin \in Nat
    /\ Reserve < QueueSize /\ MouseMargin < QueueSize
    /\ Scan \in [Key -> Nat] /\ Extended \subseteq Key
    /\ MaxMoves \in Nat /\ MaxEvents \in Nat

SysRq     == 55  \* E0 37, the code of PrintScreen
FakeShift == 42  \* E0 2A, sent before it

E0       == <<"E0", 0>>
Make(c)  == <<"make", c>>
Break(c) == <<"break", c>>
Reply    == <<"reply", 0>>

VARIABLES
    kq, mq,    \* the queues of keyboard and mouse
    delay,     \* the byte that will follow an E0, or nothing
    pending,   \* devices with data
    mode,      \* mode bits: of "kbd_int", "mouse_int", "disable_kbd"
    level,     \* the levels of lines 1 and 12
    irr,       \* requests latched by the interrupt controllers
    mouse,     \* how the mouse reports, and packets its counters amount to
    held,      \* keys that are down
    bios,      \* the handlers' state: byte, prefix, keys down, packet
    lost,      \* history: devices of which half a code or packet was refused
    torn,      \* history: a byte was queued between E0 and its second byte
    eaten,     \* history: devices that a BIOS call cost bytes or a packet's start
    mangled,   \* history: bytes of two packets were taken for one
    events     \* how many events there were

kbdvars == <<kq, mq, delay, pending, mode, level, irr, mouse, held, bios,
             lost, torn, eaten, mangled, events>>

NoDelay == [on |-> FALSE]
KbdId(k) == <<k \in Extended, Scan[k]>>
KeyByte(k, down) == IF down THEN Make(Scan[k]) ELSE Break(Scan[k])

\* After i8042_bios_post_init; the mouse is set up by the guest.
KbdInit ==
    /\ kq = <<>> /\ mq = <<>> /\ delay = NoDelay
    /\ pending = {} /\ mode = {"kbd_int"} /\ level = {} /\ irr = {}
    /\ mouse = [reports |-> "off", owed |-> 0]
    /\ held = {}
    /\ bios = [byte |-> <<>>, e0 |-> FALSE, down |-> {}, packet |-> <<>>]
    /\ lost = {} /\ torn = FALSE /\ eaten = {} /\ mangled = FALSE /\ events = 0

-----------------------------------------------------------------------------
(* Queues.                                                                 *)

\* Mutant: the reserve is not kept.
FitsNoReserve(q, n, critical) == IF QueueSize - Len(q) > n THEN n ELSE QueueSize - Len(q)

\* ps2_kbd_queue: bytes other than those of releases leave the reserve alone.
\* A queue takes so many of n bytes.
Fits(q, n, critical) ==
    LET room == (IF critical THEN QueueSize ELSE QueueSize - Reserve) - Len(q)
    IN  IF room < 0 THEN 0 ELSE IF room > n THEN n ELSE room

Queued(q, bs, critical) == q \o SubSeq(bs, 1, Fits(q, Len(bs), critical))

\* A byte that was held back for the guest to read its E0 twice.
Flushed == IF delay.on THEN Queued(kq, <<delay.byte>>, delay.critical) ELSE kq

FlushRefused == delay.on /\ Fits(kq, 1, delay.critical) = 0

\* What is left of the reserve went to releases and answers.
ReserveKept == \A i \in QueueSize - Reserve + 1 .. Len(kq) : kq[i][1] # "make"

\* A refusal leaves a key pressed, or half a code or packet.
Lose(dev, matters) == lost' = lost \cup (IF matters THEN {dev} ELSE {})
LoseKey(matters) == Lose("KBD", matters /\ ReserveKept)

-----------------------------------------------------------------------------
(* kbd_update_irq.                                                         *)

\* Keyboard data takes priority over that of the mouse.
Levels(p, m) ==
    IF p = {"AUX"} THEN IF "mouse_int" \in m THEN {12} ELSE {}
    ELSE IF p # {} /\ "kbd_int" \in m /\ "disable_kbd" \notin m THEN {1} ELSE {}

\* Mutant: the mode is stored and the lines are left as they are.
ModeOnly(p, m) ==
    /\ pending' = p
    /\ mode' = m
    /\ IF m # mode THEN UNCHANGED <<level, irr>>
       ELSE level' = Levels(p, m) /\ irr' = irr \cup (Levels(p, m) \ level)

\* The lines follow pending and mode; the controllers latch rising edges.
UpdateIrq(p, m) ==
    /\ pending' = p
    /\ mode' = m
    /\ level' = Levels(p, m)
    /\ irr' = irr \cup (Levels(p, m) \ level)

\* Data has been put into the queues, which are now k and m.
Announce(k, m) ==
    UpdateIrq(pending \cup (IF Len(k) > Len(kq) THEN {"KBD"} ELSE {})
                      \cup (IF Len(m) > Len(mq) THEN {"AUX"} ELSE {}), mode)

Count == events < MaxEvents /\ events' = events + 1

-----------------------------------------------------------------------------
(* Events: ps2_put_keycode and ps2_mouse_event.                            *)

\* A key with a code of its own: a byte that is held back goes first.  The E0
\* of a release counts as queued, full or not.
PutKey(k, down) ==
    LET first == IF k \in Extended THEN E0 ELSE KeyByte(k, down)
        taken == Fits(Flushed, 1, ~down) = 1
    IN  /\ kq' = Queued(Flushed, <<first>>, ~down)
        /\ delay' = IF k \in Extended /\ (taken \/ ~down)
                    THEN [on |-> TRUE, critical |-> ~down, byte |-> KeyByte(k, down)]
                    ELSE NoDelay
        /\ LoseKey(FlushRefused \/ (~down /\ ~taken))
        /\ UNCHANGED torn

\* PrintScreen: four bytes at once, in front of a byte that is held back.
PutSysRq(down) ==
    LET bs == IF down THEN <<E0, Make(FakeShift), E0, Make(SysRq)>>
                      ELSE <<E0, Break(SysRq), E0, Break(FakeShift)>>
        n  == Fits(kq, 4, ~down)
    IN  /\ kq' = Queued(kq, bs, ~down)
        /\ LoseKey(n < 4 /\ (~down \/ n > 0))
        /\ torn' = (torn \/ delay.on)
        /\ UNCHANGED delay

\* A key goes down, repeats or is released.
KeyEvent(k, down) ==
    /\ Count
    /\ ~down => k \in held
    /\ held' = IF down THEN held \cup {k} ELSE held \ {k}
    /\ IF k = "sysrq" THEN PutSysRq(down) ELSE PutKey(k, down)
    /\ Announce(kq', mq)
    /\ UNCHANGED <<mq, mouse, bios, eaten, mangled>>

Packets(n) == [i \in 1 .. 3 * n |-> <<"packet", (i - 1) % 3>>]

\* Mutant: packets are sent whatever room there is, up to the last byte.
MovedAlways(q, owed) == Queued(q, Packets(owed), TRUE)

\* What is owed is sent as soon as an event finds the margin free.
Moved(q, owed) ==
    IF Len(q) < QueueSize - MouseMargin THEN Queued(q, Packets(owed), TRUE) ELSE q

\* A movement that takes n packets to report; in remote mode it is kept.
MouseEvent(n) ==
    /\ Count
    /\ mouse.reports # "off"
    /\ LET owed == mouse.owed + n
           q    == IF mouse.reports = "stream" THEN Moved(mq, owed) ELSE mq
       IN  /\ mq' = q
           /\ mouse' = [mouse EXCEPT !.owed = IF q # mq THEN 0 ELSE owed]
           /\ Lose("AUX", q # mq /\ 3 * owed > MouseMargin)
           /\ Announce(kq, q)
    /\ UNCHANGED <<kq, delay, held, bios, torn, eaten, mangled>>

\* kbd_step, with the delay over or not: both devices are announced again.
KbdStep(due) ==
    LET q == IF due THEN Flushed ELSE kq IN
    /\ due => delay.on
    /\ kq' = q
    /\ delay' = IF due THEN NoDelay ELSE delay
    /\ LoseKey(due /\ FlushRefused)
    /\ UpdateIrq(pending \cup (IF q # <<>> THEN {"KBD"} ELSE {})
                         \cup (IF mq # <<>> THEN {"AUX"} ELSE {}), mode)
    /\ UNCHANGED <<mq, mouse, held, bios, torn, eaten, mangled, events>>

-----------------------------------------------------------------------------
(* The guest: commands, and the two native handlers.                       *)

\* A command to the keyboard or the controller that is answered with n bytes.
KbdReplies(n) ==
    /\ Count
    /\ kq' = Queued(kq, [i \in 1 .. n |-> Reply], TRUE)
    /\ torn' = (torn \/ delay.on)
    /\ Announce(kq', mq)
    /\ UNCHANGED <<mq, delay, mouse, held, bios, lost, eaten, mangled>>

\* A command to the mouse is acknowledged; it may change how the mouse
\* reports, or ask for one packet.
MouseReplies(reports, poll) ==
    /\ Count
    /\ LET bs == IF poll THEN <<Reply>> \o Packets(1) ELSE <<Reply>> IN
         /\ mq' = Queued(mq, bs, TRUE)
         /\ Lose("AUX", poll /\ Fits(mq, 4, TRUE) < 4)
    /\ mouse' = [reports |-> reports,
                 owed    |-> IF poll /\ mouse.owed > 0 THEN mouse.owed - 1 ELSE mouse.owed]
    /\ Announce(kq, mq')
    /\ UNCHANGED <<kq, delay, held, bios, torn, eaten, mangled>>

\* KBD_CCMD_WRITE_MODE, KBD_CCMD_KBD_DISABLE and KBD_CCMD_KBD_ENABLE.
WriteMode(m) ==
    /\ Count
    /\ UpdateIrq(pending, m)
    /\ UNCHANGED <<kq, mq, delay, mouse, held, bios, lost, torn, eaten, mangled>>

\* Mutant: the line stays up while there is more.
ReadDataNoEdge(line, dev, q) ==
    LET p == IF Tail(q) = <<>> THEN pending \ {dev} ELSE pending
    IN  /\ pending' = p
        /\ level' = Levels(p, mode)
        /\ irr' = (irr \ {line}) \cup (Levels(p, mode) \ level)

\* A handler for the line reads a byte of the queue q: the line goes down and,
\* if there is more, up again.
ReadData(line, dev, q) ==
    LET less == Levels(pending \ {dev}, mode)
        p    == IF Tail(q) = <<>> THEN pending \ {dev} ELSE pending
    IN  /\ pending' = p
        /\ level' = Levels(p, mode)
        /\ irr' = (irr \ {line}) \cup (less \ level) \cup (Levels(p, mode) \ less)

\* An interrupt that finds nothing for its handler is acknowledged.
Ignored(line) == irr' = irr \ {line} /\ UNCHANGED <<kq, mq, pending, level, bios, mangled>>

\* bios_09h: a byte is read, unless it is the mouse's or there is none, and
\* INT 15h/4Fh looks at it.
Int09 ==
    /\ 1 \in irr
    /\ bios.byte = <<>>
    /\ IF "KBD" \in pending
       THEN /\ ReadData(1, "KBD", kq)
            /\ kq' = Tail(kq)
            /\ bios' = [bios EXCEPT !.byte = <<Head(kq)>>]
            /\ UNCHANGED <<mq, mangled>>
       ELSE Ignored(1)
    /\ UNCHANGED <<delay, mode, mouse, held, lost, torn, eaten, events>>

\* What becomes of a byte: E0 marks the next one, a fake shift and PrintScreen
\* are no keys, everything else clears the mark.
Decoded(b) ==
    LET id    == <<bios.e0, b[2]>>
        known == bios.e0 => b[2] \notin {FakeShift, SysRq}
    IN  [bios EXCEPT !.byte = <<>>,
                     !.e0 = (b = E0),
                     !.down = CASE b[1] = "make"  /\ known -> @ \cup {id}
                                [] b[1] = "break" /\ known -> @ \ {id}
                                [] OTHER -> @]

\* bios_09h_phase2: the keyboard interface is turned on again.
Int09Phase2 ==
    /\ bios.byte # <<>>
    /\ bios' = Decoded(Head(bios.byte))
    /\ UpdateIrq(pending, mode \ {"disable_kbd"})
    /\ UNCHANGED <<kq, mq, delay, mouse, held, lost, torn, eaten, mangled, events>>

\* bios_74h, which IRQ1 keeps waiting.  Answers are skipped and, between two
\* packets, bytes without bit 3; a first byte has it, another may.
Int74 ==
    /\ irr \cap {1, 12} = {12}
    /\ bios.byte = <<>>
    /\ IF pending = {"AUX"}
       THEN LET b    == Head(mq)
                next == Append(bios.packet, b)
            IN  /\ ReadData(12, "AUX", mq)
                /\ mq' = Tail(mq)
                /\ \/ /\ bios.packet = <<>> /\ b # <<"packet", 0>>
                      /\ UNCHANGED <<bios, mangled>>
                   \/ /\ bios.packet = <<>> => b # Reply
                      /\ bios' = [bios EXCEPT !.packet = IF Len(next) = 3 THEN <<>> ELSE next]
                      /\ mangled' = (mangled \/ (Len(next) = 3 /\ next # Packets(1)))
                /\ UNCHANGED kq
       ELSE Ignored(12)
    /\ UNCHANGED <<delay, mode, mouse, held, lost, torn, eaten, events>>

-----------------------------------------------------------------------------
(* BIOS calls that talk to the mouse, each at one go: they look at the     *)
(* status and read the data register themselves.                           *)

\* What such a call finds, and leaves at every access.
Port == [kq |-> kq, mq |-> mq, pending |-> pending, mode |-> mode, level |-> level, irr |-> irr]

Updated(s, p, m) ==
    [s EXCEPT !.pending = p, !.mode = m, !.level = Levels(p, m),
              !.irr = @ \cup (Levels(p, m) \ s.level)]

\* The keyboard's interface is asked for a byte, the mouse answers with n.
KbdAnswers(s) ==
    IF Len(s.kq) = QueueSize THEN s
    ELSE Updated([s EXCEPT !.kq = Append(@, Reply)], s.pending \cup {"KBD"}, s.mode)
AuxAnswers(s, n) ==
    IF Len(s.mq) = QueueSize THEN s
    ELSE Updated([s EXCEPT !.mq = Queued(@, [i \in 1 .. n |-> Reply], TRUE)],
                 s.pending \cup {"AUX"}, s.mode)

\* kbd_read_data of what there is, if anything: the line goes down and, if there
\* is more, up again.
KbdRead(s) == Updated([s EXCEPT !.kq = Tail(@)], s.pending \ {"KBD"}, s.mode)
AuxRead(s) == Updated([s EXCEPT !.mq = Tail(@)], s.pending \ {"AUX"}, s.mode)
More(s, q, p) == IF q # <<>> THEN Updated(s, p, s.mode) ELSE s
Read(s) ==
    CASE s.pending = {}        -> s
      [] s.pending = {"AUX"}   -> More(AuxRead(s), AuxRead(s).mq, s.pending)
      [] "KBD" \in s.pending -> More(KbdRead(s), KbdRead(s).kq, s.pending)

Leaves(s) ==
    /\ kq' = s.kq /\ mq' = s.mq /\ pending' = s.pending
    /\ mode' = s.mode /\ level' = s.level /\ irr' = s.irr

\* aux_send: the answer is waited for, but what is read is the mouse's first byte.
Sent(s) ==
    LET t == AuxAnswers(s, 1) IN IF t.pending = {"AUX"} THEN Read(t) ELSE t

\* Whether a byte, taken for the controller's mode, disables the keyboard.  An
\* answer may have any value.
Disables(b) ==
    CASE b = Reply -> BOOLEAN
      [] b = E0    -> {FALSE}
      [] OTHER     -> {(b[2] \div 16) % 2 = 1}

\* The queue begins with the rest of a packet.
MidPacket(q) == q # <<>> /\ Head(q) \in {<<"packet", 1>>, <<"packet", 2>>}

\* INT 33h/0000h and 0021h: the mode is asked for, and what is read first is
\* written back with both interrupts on.  The mode itself then stays in the
\* queue.  The mouse is set to stream, and a packet that was begun forgotten.
MouseReset ==
    /\ Count
    /\ \E off \in IF kq = <<>> THEN {"disable_kbd" \in mode} ELSE Disables(Head(kq)) :
         LET asked == Read(KbdAnswers(Port))
             m     == {"kbd_int", "mouse_int"} \cup (IF off THEN {"disable_kbd"} ELSE {})
         IN  Leaves(Sent(Sent(Updated(asked, asked.pending, m))))
    /\ mouse' = [mouse EXCEPT !.reports = "stream"]
    /\ bios' = [bios EXCEPT !.packet = <<>>]
    /\ eaten' = eaten \cup (IF kq # <<>> THEN {"KBD"} ELSE {})
                     \cup (IF MidPacket(mq') THEN {"AUX"} ELSE {})
    /\ UNCHANGED <<delay, held, lost, torn, mangled>>

\* Bytes that may be an acknowledgement, 0FAh, or are taken for one.
MayAck(b) == b \in {Reply, Break(122), <<"packet", 1>>, <<"packet", 2>>}

\* ps2_mouse_cmd, for a command with n bytes of answer: whatever is shown is
\* read, once, or n times when the first byte is an acknowledgement.
MouseCall(reports, n) ==
    /\ Count
    /\ LET s     == AuxAnswers(Port, n)
           first == Head(IF s.pending = {"AUX"} THEN s.mq ELSE s.kq)
           done  == CASE n = 1 -> Read(s)
                      [] n = 2 -> Read(Read(s))
                      [] n = 3 -> Read(Read(Read(s)))
                      [] n = 4 -> Read(Read(Read(Read(s))))
       IN  /\ Leaves(Read(s)) \/ (MayAck(first) /\ Leaves(done))
           /\ eaten' = eaten \cup (IF kq # <<>> THEN {"KBD"} ELSE {})
                   \cup (IF Len(mq') < Len(s.mq) /\ (bios.packet # <<>> \/ MidPacket(mq'))
                         THEN {"AUX"} ELSE {})
    /\ mouse' = [mouse EXCEPT !.reports = reports]
    /\ UNCHANGED <<delay, held, bios, lost, torn, mangled>>

\* INT 15h/C2h: the mouse is turned off or on or set up; it is reset; it is
\* asked for its type or its status.
Int15C2 ==
    \/ \E reports \in {"off", "stream", "remote"} : MouseCall(reports, 1)
    \/ MouseCall("off", 3)
    \/ \E n \in {2, 4} : MouseCall(mouse.reports, n)

-----------------------------------------------------------------------------

GuestSetsUp ==
    \/ \E n \in 1 .. 2 : KbdReplies(n)
    \/ \E reports \in {"off", "stream", "remote"} : MouseReplies(reports, FALSE)
    \/ MouseReplies(mouse.reports, TRUE)
    \/ WriteMode({"kbd_int", "mouse_int"})
    \/ \E m \in {mode \cup {"disable_kbd"}, mode \ {"disable_kbd"}} : WriteMode(m)

BiosCall == MouseReset \/ Int15C2

InputWorks ==
    \/ \E k \in Key \cup {"sysrq"}, down \in BOOLEAN : KeyEvent(k, down)
    \/ \E n \in 1 .. MaxMoves : MouseEvent(n)
    \/ \E due \in BOOLEAN : KbdStep(due)
    \/ Int09 \/ Int09Phase2 \/ Int74

KbdNext == InputWorks \/ GuestSetsUp \/ BiosCall

\* The main loop polls; a latched interrupt is taken, as the guest does not
\* keep interrupts off for ever.
KbdFairness ==
    /\ WF_kbdvars(KbdStep(TRUE))
    /\ WF_kbdvars(Int09) /\ WF_kbdvars(Int09Phase2) /\ WF_kbdvars(Int74)

KbdSpec == KbdInit /\ [][KbdNext]_kbdvars /\ KbdFairness

-----------------------------------------------------------------------------
(* Properties.                                                             *)

Bytes == {E0, Reply} \cup ({"make", "break"} \X (Range(Scan) \cup {FakeShift, SysRq}))
                     \cup ({"packet"} \X (0 .. 2))

\* Types; neither queue is longer than its array.
KbdTypeOK ==
    /\ Len(kq) <= QueueSize /\ Range(kq) \subseteq Bytes
    /\ Len(mq) <= QueueSize /\ Range(mq) \subseteq Bytes
    /\ pending \subseteq {"KBD", "AUX"} /\ level \subseteq {1, 12} /\ irr \subseteq {1, 12}
    /\ mode \subseteq {"kbd_int", "mouse_int", "disable_kbd"}
    /\ delay = NoDelay \/ delay \in [on : {TRUE}, critical : BOOLEAN, byte : Bytes]
    /\ mouse \in [reports : {"off", "stream", "remote"}, owed : Nat]
    /\ held \subseteq Key \cup {"sysrq"} /\ Len(bios.packet) < 3
    /\ lost \subseteq {"KBD", "AUX"} /\ eaten \subseteq {"KBD", "AUX"} /\ events \in 0 .. MaxEvents

\* The status register and the lines say what the queues hold: a byte is
\* announced exactly while there is one, on the line of the device whose byte
\* the next read returns.  No edge is lost: a line that is up is one whose
\* handler has still to come.
StatusTrue ==
    /\ KbdTypeOK
    /\ pending = (IF kq = <<>> THEN {} ELSE {"KBD"}) \cup (IF mq = <<>> THEN {} ELSE {"AUX"})
    /\ level = Levels(pending, mode)
    /\ level \subseteq irr

\* No key stays down in the guest that was released, once every byte has been
\* handled: this is what the reserve is for (i8042.c:522).  It takes a refused
\* release or second byte, an answer or PrintScreen between an E0 and its
\* second byte, or a call to set the mouse up while bytes of the keyboard wait,
\* for one to stay; such a call is harmless at any other time.
NoKeyStuck ==
    kq = <<>> /\ ~delay.on /\ bios.byte = <<>> /\ "KBD" \notin lost \cup eaten /\ ~torn
        => bios.down \subseteq {KbdId(k) : k \in held \ {"sysrq"}}

\* The handler takes bytes of two packets for one only after a queue, full in
\* the middle of a packet, has refused the rest of it: of a movement that
\* takes more packets than the margin holds, or of a packet that was asked for;
\* or after a call that set the mouse up has cut a packet.
PacketsWhole == mangled => "AUX" \in lost \cup eaten

\* A reset of the mouse driver keeps the keyboard's interrupt on
\* (bios_33h.c:445): it does not turn the interface off, and what waits in the
\* keyboard's queue is on line 1.
Irq1KeptOn ==
    [][MouseReset /\ "disable_kbd" \notin mode => (kq' # <<>> => 1 \in level')]_kbdvars

\* With both interrupts on, the handlers empty both queues when there are no
\* more events: no edge is lost.
Drained == <>[](mode = {"kbd_int", "mouse_int"}) => <>[](kq = <<>> /\ mq = <<>>)
=============================================================================
