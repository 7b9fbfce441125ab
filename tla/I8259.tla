------------------------------- MODULE I8259 -------------------------------
(***************************************************************************)
(* The pair of 8259 interrupt controllers (src/src/i8259.c): the slave     *)
(* hangs on the cascade line of the master, requests are latched on rising *)
(* edges, and pic_update_irq is what turns the state of the two into the   *)
(* CPU's intr flag.  intr is only ever set by the controllers and cleared  *)
(* by the CPU when it takes the interrupt (src/src/286/cpu.c).             *)
(*                                                                         *)
(* Left out: irq_base (a vector is the pair <<controller, line>>) and      *)
(* read_reg_select (which register a plain read shows).  `settled' is a    *)
(* history variable: pic_update_irq has run since the last command that    *)
(* can change the active request without calling it.                       *)
(***************************************************************************)
EXTENDS Integers

CONSTANTS
    LineCount,  \* lines of one controller (8)
    DevLine,    \* the lines devices are wired to: pairs <<controller, line>>
    Command,    \* the commands the guest issues (see Guest)
    Mask        \* the interrupt masks it writes

Pic     == {"master", "slave"}
Line    == 0 .. LineCount - 1
Cascade == 2
NoLine  == -1

ASSUME LinesAssumption ==
    /\ LineCount \in Nat /\ LineCount > Cascade
    /\ DevLine \subseteq (Pic \X Line) \ {<<"master", Cascade>>}
    /\ Mask \subseteq SUBSET Line

VARIABLES
    pics,       \* the two PicState records
    intr,       \* cpu->intr
    vec,        \* the last vector handed to the CPU, with a mark if spurious
    settled     \* history, see above

vars == <<pics, intr, vec, settled>>

PicState == [last_irr : SUBSET Line, irr : SUBSET Line,
             imr : SUBSET Line, isr : SUBSET Line,
             priority_add : Line, poll : BOOLEAN, special_mask : BOOLEAN,
             init_state : 0 .. 3, init4 : BOOLEAN, single_mode : BOOLEAN,
             auto_eoi : BOOLEAN, rotate_on_auto_eoi : BOOLEAN,
             special_fully_nested_mode : BOOLEAN]

\* pic_reset.
PicReset == [last_irr |-> {}, irr |-> {}, imr |-> {}, isr |-> {},
             priority_add |-> 0, poll |-> FALSE, special_mask |-> FALSE,
             init_state |-> 0, init4 |-> FALSE, single_mode |-> FALSE,
             auto_eoi |-> FALSE, rotate_on_auto_eoi |-> FALSE,
             special_fully_nested_mode |-> FALSE]

-----------------------------------------------------------------------------
(* The helpers of i8259.c, on a pair p of PicStates.                       *)

\* pic_set_irq1: only a rising edge requests.
PicSetIrq1(s, l, level) ==
    IF level THEN [s EXCEPT !.irr = IF l \in s.last_irr THEN @ ELSE @ \cup {l},
                            !.last_irr = @ \cup {l}]
             ELSE [s EXCEPT !.last_irr = @ \ {l}]

\* The line of priority number pr when the rotation is at `add'.
LineAt(add, pr) == (pr + add) % LineCount

Rotated(s, pr) == LineAt(s.priority_add, pr)

\* The first number whose line is in a (non-empty) mask.
Foremost(add, mask) ==
    CHOOSE pr \in Line : /\ LineAt(add, pr) \in mask
                         /\ \A q \in 0 .. pr - 1 : LineAt(add, q) \notin mask

\* get_priority: LineCount stands for "none".
GetPriority(s, mask) ==
    IF mask = {} THEN LineCount ELSE Foremost(s.priority_add, mask)

\* Mutant: the cascade line is left out without looking at the mode.
InServiceSfnmAlways(p, w) ==
    {l \in p[w].isr : /\ ~(p[w].special_mask /\ l \in p[w].imr)
                      /\ ~(w = "master" /\ l = Cascade)}

\* The lines in service that hold other requests back.
InService(p, w) ==
    {l \in p[w].isr : /\ ~(p[w].special_mask /\ l \in p[w].imr)
                      /\ ~(p[w].special_fully_nested_mode /\ w = "master" /\ l = Cascade)}

\* pic_get_irq.
PicGetIrq(p, w) ==
    LET pr == GetPriority(p[w], p[w].irr \ p[w].imr)
    IN  IF pr # LineCount /\ pr < GetPriority(p[w], InService(p, w))
        THEN Rotated(p[w], pr) ELSE NoLine

Wants(p, w) == PicGetIrq(p, w) # NoLine

Pulse(s, l) == PicSetIrq1(PicSetIrq1(s, l, TRUE), l, FALSE)

\* Mutant: the cascade line is raised and never lowered.
PicUpdateIrqLevel(p) ==
    IF Wants(p, "slave")
    THEN [p EXCEPT !["master"] = PicSetIrq1(@, Cascade, TRUE)]
    ELSE p

\* pic_update_irq: what it does to the controllers; it raises intr when the
\* master then has an active request.
PicUpdateIrq(p) ==
    IF Wants(p, "slave") THEN [p EXCEPT !["master"] = Pulse(@, Cascade)] ELSE p

\* pic_intack.
PicIntack(s, l) ==
    IF s.auto_eoi
    THEN [s EXCEPT !.priority_add = IF s.rotate_on_auto_eoi THEN (l + 1) % LineCount ELSE @,
                   !.irr = @ \ {l}]
    ELSE [s EXCEPT !.isr = @ \cup {l}, !.irr = @ \ {l}]

\* Mutant: the raise test comes before the cascade pulse.
SettleEarly(p) ==
    /\ pics' = PicUpdateIrq(p)
    /\ intr' = (intr \/ Wants(p, "master"))
    /\ settled' = TRUE

\* An operation that leaves the controllers in p and ends in pic_update_irq.
Settle(p) ==
    /\ \E q \in {PicUpdateIrq(p)} : pics' = q /\ intr' = (intr \/ Wants(q, "master"))
    /\ settled' = TRUE

\* One that does not; kept says that no request became active by it.
Quiet(p, kept) ==
    /\ pics' = p
    /\ settled' = (settled /\ kept)
    /\ UNCHANGED intr

-----------------------------------------------------------------------------
(* Devices and CPU.                                                        *)

\* i8259_init and pic_reset.
Init ==
    /\ pics = [w \in Pic |-> PicReset]
    /\ intr = FALSE
    /\ vec = [pic |-> "none", line |-> NoLine, spurious |-> FALSE]
    /\ settled = TRUE

\* i8259_set_irq.
SetIrq(w, l, level) ==
    /\ Settle([pics EXCEPT ![w] = PicSetIrq1(@, l, level)])
    /\ UNCHANGED vec

\* The controllers and the vector after the acknowledge of i8259_read_irq.
Acknowledged(p) ==
    LET irq  == PicGetIrq(p, "master")
        q    == [p EXCEPT !["master"] = PicIntack(@, irq)]
        irq2 == PicGetIrq(q, "slave")
    IN  IF irq = NoLine
        THEN [p |-> p, vec |-> [pic |-> "master", line |-> LineCount - 1, spurious |-> TRUE]]
        ELSE IF irq # Cascade
        THEN [p |-> q, vec |-> [pic |-> "master", line |-> irq, spurious |-> FALSE]]
        ELSE IF irq2 = NoLine
        THEN [p |-> q, vec |-> [pic |-> "slave", line |-> LineCount - 1, spurious |-> TRUE]]
        ELSE [p   |-> [q EXCEPT !["slave"] = PicIntack(@, irq2)],
              vec |-> [pic |-> "slave", line |-> irq2, spurious |-> FALSE]]

\* Mutant: intr stays set over the acknowledge.
TakeInterruptKeepsIntr ==
    LET a == Acknowledged(pics)
    IN  /\ intr
        /\ pics' = PicUpdateIrq(a.p)
        /\ vec' = a.vec
        /\ settled' = TRUE
        /\ UNCHANGED intr

\* The CPU with IF set: it clears intr and calls i8259_read_irq.
TakeInterrupt ==
    /\ intr
    /\ \E a \in {Acknowledged(pics)} : \E q \in {PicUpdateIrq(a.p)} :
          /\ pics' = q
          /\ intr' = Wants(q, "master")
          /\ vec' = a.vec
    /\ settled' = TRUE

-----------------------------------------------------------------------------
(* Guest commands: pic_ioport_write and pic_poll_read.                     *)

EndService(w, l) == [pics EXCEPT ![w].isr = @ \ {l}]

EndServiceRotating(w, l) ==
    [pics EXCEPT ![w].isr = @ \ {l}, ![w].priority_add = (l + 1) % LineCount]

\* The line a non-specific EOI ends.
TopInService(w) == Rotated(pics[w], GetPriority(pics[w], pics[w].isr))

\* OCW2 1 and 5: end of interrupt, the second with rotation.
NonSpecificEoi(w, rotate) ==
    /\ IF pics[w].isr = {} THEN UNCHANGED <<pics, intr, settled>>
       ELSE IF rotate THEN Settle(EndServiceRotating(w, TopInService(w)))
       ELSE Settle(EndService(w, TopInService(w)))
    /\ UNCHANGED vec

\* OCW2 3 and 7: end of interrupt of line l.
SpecificEoi(w, l, rotate) ==
    /\ Settle(IF rotate THEN EndServiceRotating(w, l) ELSE EndService(w, l))
    /\ UNCHANGED vec

\* OCW2 6: line l becomes the lowest priority.
SetPriority(w, l) ==
    /\ Settle([pics EXCEPT ![w].priority_add = (l + 1) % LineCount])
    /\ UNCHANGED vec

\* OCW2 0 and 4.
RotateOnAutoEoi(w, on) ==
    /\ Quiet([pics EXCEPT ![w].rotate_on_auto_eoi = on], TRUE)
    /\ UNCHANGED vec

\* OCW3: the poll bit and the special mask mode.
Ocw3(w, poll, mode) ==
    /\ Quiet([pics EXCEPT ![w].poll = @ \/ poll,
                          ![w].special_mask = IF mode = "keep" THEN @ ELSE mode = "set"],
             mode = "keep")
    /\ UNCHANGED vec

\* ICW1.
Icw1(w, init4, single) ==
    /\ Quiet([pics EXCEPT ![w] = [PicReset EXCEPT !.init_state = 1, !.init4 = init4,
                                                  !.single_mode = single]], FALSE)
    /\ UNCHANGED vec

\* ICW2 and ICW3 advance the initialisation only.
Icw23(w) ==
    LET s == pics[w]
    IN  /\ s.init_state \in {1, 2}
        /\ Quiet([pics EXCEPT ![w].init_state =
                    IF s.init_state = 1 /\ ~s.single_mode THEN 2
                    ELSE IF s.init4 THEN 3 ELSE 0], TRUE)
        /\ UNCHANGED vec

\* ICW4.
Icw4(w, sfnm, aeoi) ==
    /\ pics[w].init_state = 3
    /\ Quiet([pics EXCEPT ![w].special_fully_nested_mode = sfnm, ![w].auto_eoi = aeoi,
                          ![w].init_state = 0], FALSE)
    /\ UNCHANGED vec

\* OCW1.
Ocw1(w, mask) ==
    /\ pics[w].init_state = 0
    /\ Settle([pics EXCEPT ![w].imr = mask])
    /\ UNCHANGED vec

Withdraw(s, l) == [s EXCEPT !.irr = @ \ {l}, !.isr = @ \ {l}]

\* A read in poll mode.  Polling the slave also clears the cascade request
\* of the master; polling the master for it leaves the update to that.
PollRead(w) ==
    LET l == PicGetIrq(pics, w)
        p == [pics EXCEPT ![w].poll = FALSE]
        q == IF w = "slave" THEN [p EXCEPT !["master"] = Withdraw(@, Cascade)] ELSE p
        r == [q EXCEPT ![w] = Withdraw(@, l)]
    IN  /\ pics[w].poll
        /\ IF l = NoLine THEN Settle(p)
           ELSE IF w = "master" /\ l = Cascade THEN Quiet(r, FALSE)
           ELSE Settle(r)
        /\ UNCHANGED vec

Guest(w, commands) ==
    \/ "eoi" \in commands /\ NonSpecificEoi(w, FALSE)
    \/ "seoi" \in commands /\ \E l \in Line : SpecificEoi(w, l, FALSE)
    \/ "rotate" \in commands /\ \/ NonSpecificEoi(w, TRUE)
                                \/ \E l \in Line : SpecificEoi(w, l, TRUE) \/ SetPriority(w, l)
                                \/ \E on \in BOOLEAN : RotateOnAutoEoi(w, on)
    \/ "ocw1" \in commands /\ \E mask \in Mask : Ocw1(w, mask)
    \/ "ocw3" \in commands /\ \E mode \in {"keep", "set", "reset"} : Ocw3(w, FALSE, mode)
    \/ "poll" \in commands /\ (Ocw3(w, TRUE, "keep") \/ PollRead(w))
    \/ "icw" \in commands /\ \/ \E init4, single \in BOOLEAN : Icw1(w, init4, single)
                             \/ Icw23(w)
                             \/ \E sfnm, aeoi \in BOOLEAN : Icw4(w, sfnm, aeoi)

Device == \E d \in DevLine, level \in BOOLEAN : SetIrq(d[1], d[2], level)

Next == Device \/ TakeInterrupt \/ \E w \in Pic : Guest(w, Command)

Spec == Init /\ [][Next]_vars

-----------------------------------------------------------------------------
(* Properties.                                                             *)

\* Type invariant: the fields of PicState.
TypeOK ==
    /\ pics \in [Pic -> PicState]
    /\ intr \in BOOLEAN
    /\ settled \in BOOLEAN

\* Once pic_update_irq has run, an active request of the master is on the
\* CPU's intr flag: no interrupt waits in the controllers for an unrelated
\* later event.
Signalled == settled /\ Wants(pics, "master") => intr

\* Once pic_update_irq has run, a request the slave wants delivered is
\* pending on the master's cascade line, however the edges on the slave, the
\* acknowledges and the EOIs of the two controllers interleave.
CascadeKept == settled /\ Wants(pics, "slave") => Cascade \in pics["master"].irr
=============================================================================
