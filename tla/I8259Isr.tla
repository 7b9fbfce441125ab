------------------------------ MODULE I8259Isr ------------------------------
(***************************************************************************)
(* The interrupt controllers under preemption.  The timer interrupt of     *)
(* core 0 (timer_callback_core0 in src/src/main.c, 44100 times a second)   *)
(* pulses the PIT and RTC lines through i8259_set_irq while the emulation  *)
(* loop it interrupts may be in the middle of its own i8259_set_irq or     *)
(* port write.  Only the CPU's acknowledge disables interrupts, so every   *)
(* "irr |= mask" of the main context is here a load and a later store.     *)
(*                                                                         *)
(* The other registers are not at risk: imr and isr are written by the     *)
(* main context only, and a pulse leaves last_irr as it found it.          *)
(***************************************************************************)
EXTENDS I8259

CONSTANT IsrLine    \* lines pulsed from the timer interrupt

ASSUME IsrLineAssumption == IsrLine \subseteq (Pic \X Line) \ {<<"master", Cascade>>}

VARIABLES
    job,    \* where the main context is in its operation
    owed    \* history: pulsed lines latched in irr and not yet acknowledged

isrVars == <<pics, intr, vec, settled, job, owed>>

Idle == job.at = "idle"

IsrInit == Init /\ job = [at |-> "idle"] /\ owed = {}

-----------------------------------------------------------------------------
(* The main context.                                                       *)

\* A device raises its line: on an edge irr is loaded, to be stored later.
RaiseLine(w, l) ==
    /\ Idle
    /\ IF l \in pics[w].last_irr
       THEN job' = [at |-> "update"]
       ELSE job' = [at |-> "store", pic |-> w, line |-> l, irr |-> pics[w].irr]
    /\ settled' = FALSE
    /\ UNCHANGED <<pics, intr, vec, owed>>

\* Mutant: irr is assigned instead of or-ed.
StoreRequestAssign ==
    /\ job.at = "store"
    /\ pics' = [pics EXCEPT ![job.pic].irr = {job.line},
                            ![job.pic].last_irr = @ \cup {job.line}]
    /\ job' = [at |-> "update"]
    /\ UNCHANGED <<intr, vec, settled, owed>>

StoreRequest ==
    /\ job.at = "store"
    /\ pics' = [pics EXCEPT ![job.pic].irr = job.irr \cup {job.line},
                            ![job.pic].last_irr = @ \cup {job.line}]
    /\ job' = [at |-> "update"]
    /\ UNCHANGED <<intr, vec, settled, owed>>

LowerLine(w, l) ==
    /\ Idle
    /\ pics' = [pics EXCEPT ![w] = PicSetIrq1(@, l, FALSE)]
    /\ job' = [at |-> "update"]
    /\ settled' = FALSE
    /\ UNCHANGED <<intr, vec, owed>>

\* A non-specific EOI (with nothing in service it does not reach the update).
EndInterrupt(w) ==
    /\ Idle
    /\ pics[w].isr # {}
    /\ pics' = EndService(w, TopInService(w))
    /\ job' = [at |-> "update"]
    /\ settled' = FALSE
    /\ UNCHANGED <<intr, vec, owed>>

WriteMask(w, mask) ==
    /\ Idle
    /\ pics' = [pics EXCEPT ![w].imr = mask]
    /\ job' = [at |-> "update"]
    /\ settled' = FALSE
    /\ UNCHANGED <<intr, vec, owed>>

\* Mutant: the slave is not looked at.
UpdateSlaveSkipped ==
    /\ job.at = "update"
    /\ job' = [at |-> "raise"]
    /\ UNCHANGED <<pics, intr, vec, settled, owed>>

\* pic_update_irq of the main context, up to the load of the master's irr.
UpdateSlave ==
    /\ job.at = "update"
    /\ job' = IF Wants(pics, "slave")
              THEN [at |-> "cascade", irr |-> pics["master"].irr]
              ELSE [at |-> "raise"]
    /\ UNCHANGED <<pics, intr, vec, settled, owed>>

\* Mutant: the cascade request replaces the others.
StoreCascadeAssign ==
    /\ job.at = "cascade"
    /\ pics' = [pics EXCEPT !["master"].irr = {Cascade}]
    /\ job' = [at |-> "raise"]
    /\ UNCHANGED <<intr, vec, settled, owed>>

\* The pulse stores the loaded irr with the cascade request added.
StoreCascade ==
    /\ job.at = "cascade"
    /\ pics' = [pics EXCEPT !["master"].irr = job.irr \cup {Cascade}]
    /\ job' = [at |-> "raise"]
    /\ UNCHANGED <<intr, vec, settled, owed>>

RaiseIntr ==
    /\ job.at = "raise"
    /\ intr' = (intr \/ Wants(pics, "master"))
    /\ job' = [at |-> "idle"]
    /\ settled' = TRUE
    /\ UNCHANGED <<pics, vec, owed>>

\* The acknowledge runs with interrupts disabled.
Acknowledge ==
    /\ Idle
    /\ TakeInterrupt
    /\ owed' = owed \ {<<vec'.pic, vec'.line>>}
    /\ UNCHANGED job

-----------------------------------------------------------------------------
(* The timer interrupt: i8259_set_irq with 1 and with 0, at any point.     *)

Lowered(p, w, l) == [p EXCEPT ![w] = PicSetIrq1(@, l, FALSE)]

Tick(w, l) ==
    LET p == PicUpdateIrq([pics EXCEPT ![w] = PicSetIrq1(@, l, TRUE)])
        q == PicUpdateIrq(Lowered(p, w, l))
    IN  /\ pics' = q
        /\ intr' = (intr \/ Wants(p, "master") \/ Wants(q, "master"))
        /\ owed' = owed \cup {<<w, l>>}
        /\ UNCHANGED <<vec, settled, job>>

Main ==
    \/ \E d \in DevLine : RaiseLine(d[1], d[2]) \/ LowerLine(d[1], d[2])
    \/ \E w \in Pic : EndInterrupt(w) \/ \E mask \in Mask : WriteMask(w, mask)
    \/ StoreRequest \/ UpdateSlave \/ StoreCascade \/ RaiseIntr
    \/ Acknowledge

IsrNext == Main \/ \E d \in IsrLine : Tick(d[1], d[2])

IsrSpec == IsrInit /\ [][IsrNext]_isrVars

-----------------------------------------------------------------------------
(* Properties.                                                             *)

Latched(d) == d[2] \in pics[d[1]].irr

\* The comment of pic_set_irq1, "If an edge is detected, then the IRR is set
\* to 1": a pulsed line stays requested until the CPU acknowledges it.
TickLatched == \A d \in owed : Latched(d)

\* What the race costs: a pulsed request disappears only when it is
\* acknowledged or when it arrived between a load and a store of irr.
OnlyWindowsLoseTicks ==
    [][\A d \in owed : Latched(d) /\ ~Latched(d)' =>
            \/ d \notin owed'
            \/ job.at \in {"store", "cascade"} /\ d[2] \notin job.irr]_isrVars

\* The race costs nothing else: whenever the main context is between two
\* operations every active request is signalled and the cascade is pending
\* for a slave that wants delivery, whatever the timer interrupt cut into.
IdleConsistent ==
    Idle => /\ Wants(pics, "master") => intr
            /\ Wants(pics, "slave") => Cascade \in pics["master"].irr

\* A request a device raised from the main context is never lost.
DeviceRequestKept ==
    [][\A d \in DevLine \ IsrLine : Latched(d) /\ ~Latched(d)' =>
            <<vec'.pic, vec'.line>> = d /\ ~vec'.spurious]_isrVars
=============================================================================
