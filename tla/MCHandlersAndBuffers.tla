------------------------ MODULE MCHandlersAndBuffers ------------------------
(***************************************************************************)
(* Two parts of the system that do not touch each other, in one run: the   *)
(* interrupt controllers with the guest's nested handlers, and the sector  *)
(* cache of DOS. A behaviour is one of the one or one of the other.        *)
(***************************************************************************)
EXTENDS I8259Handlers, BufferCache, FiniteSets

\* A line below the cascade on the master and two lines on the slave.
Wired == {<<"master", 3>>, <<"slave", 0>>, <<"slave", 1>>}

VARIABLE part

PartsInit == GuestInit /\ BufInit /\ part \in {"handlers", "buffers"}

PartsNext ==
    /\ \/ part = "handlers" /\ GuestNext /\ UNCHANGED bufvars
       \/ part = "buffers" /\ BufNext /\ UNCHANGED guestVars
    /\ UNCHANGED part

\* The CPU takes pending interrupts and handlers run to their end.
PartsSpec ==
    /\ PartsInit /\ [][PartsNext]_<<guestVars, bufvars, part>>
    /\ WF_guestVars(Enter) /\ WF_guestVars(SlaveEoi) /\ WF_guestVars(MasterEoi)

\* Bounds of the buffers: at most one sector hit by an error and at most one
\* sector that does not hold zeroes.
FewFaults == Cardinality(suspect) <= 1
FewContents == Cardinality({q \in Unit \X Block : want[q[1]][q[2]] # 0}) <= 1
=============================================================================
