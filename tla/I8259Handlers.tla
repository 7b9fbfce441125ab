--------------------------- MODULE I8259Handlers ---------------------------
(***************************************************************************)
(* The interrupt controllers under a guest that keeps the usual protocol   *)
(* (the native BIOS handlers of src/src/bios do): a handler ends with a    *)
(* non-specific EOI, to the slave first when its line is there, and then   *)
(* to the master; the handlers nest because they run with interrupts on.   *)
(* A non-specific EOI does not say which line it ends: the controllers     *)
(* must find the one of the handler that issues it.                        *)
(***************************************************************************)
EXTENDS I8259, Sequences

CONSTANT MaxEdges   \* bound: edges each device line makes

VARIABLES
    handlers,   \* the handlers running, the innermost first
    edges       \* edges made so far, per device line

guestVars == <<pics, intr, vec, settled, handlers, edges>>

GuestInit ==
    /\ Init
    /\ handlers = <<>>
    /\ edges = [d \in DevLine |-> 0]

High(d) == d[2] \in pics[d[1]].last_irr

\* A device raises or lowers its line (i8259_set_irq).
Raise(d) ==
    /\ ~High(d) /\ edges[d] < MaxEdges
    /\ SetIrq(d[1], d[2], TRUE)
    /\ edges' = [edges EXCEPT ![d] = @ + 1]
    /\ UNCHANGED handlers

Lower(d) ==
    /\ High(d)
    /\ SetIrq(d[1], d[2], FALSE)
    /\ UNCHANGED <<handlers, edges>>

Enter ==
    /\ TakeInterrupt
    /\ handlers' = <<[pic |-> vec'.pic, line |-> vec'.line, slaveDone |-> vec'.pic = "master"]>>
                   \o handlers
    /\ UNCHANGED edges

SlaveEoi ==
    /\ handlers # <<>> /\ ~Head(handlers).slaveDone
    /\ NonSpecificEoi("slave", FALSE)
    /\ handlers' = [handlers EXCEPT ![1].slaveDone = TRUE]
    /\ UNCHANGED edges

MasterEoi ==
    /\ handlers # <<>> /\ Head(handlers).slaveDone
    /\ NonSpecificEoi("master", FALSE)
    /\ handlers' = Tail(handlers)
    /\ UNCHANGED edges

GuestNext == Enter \/ SlaveEoi \/ MasterEoi \/ \E d \in DevLine : Raise(d) \/ Lower(d)

\* The CPU takes pending interrupts and handlers run to their end.
GuestSpec ==
    /\ GuestInit /\ [][GuestNext]_guestVars
    /\ WF_guestVars(Enter) /\ WF_guestVars(SlaveEoi) /\ WF_guestVars(MasterEoi)

-----------------------------------------------------------------------------
\* Each EOI ends exactly the line its handler was entered for, on the slave
\* and, as the cascade line, on the master, however the handlers nest.
EoiEndsOwnLine ==
    [][\A w \in Pic : LET ended == pics[w].isr \ pics'[w].isr
                          h     == Head(handlers)
                      IN  ended # {} => ended = {IF h.pic = w THEN h.line ELSE Cascade}]_guestVars

\* The lines of one controller are served strictly nested: a handler is
\* entered only over handlers of lower priority of the same controller.
NestedService ==
    [][\A w \in Pic : \A l \in pics'[w].isr \ pics[w].isr : \A m \in pics[w].isr : l < m]_guestVars

\* Every edge a device makes reaches the CPU, on master and slave.
EveryEdgeDelivered ==
    \A d \in DevLine : d[2] \in pics[d[1]].irr ~> vec.pic = d[1] /\ vec.line = d[2]
=============================================================================
