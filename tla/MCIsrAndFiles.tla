---------------------------- MODULE MCIsrAndFiles ----------------------------
(* Two parts of the system that do not touch each other, in one run: the   *)
(* interrupt controllers as the host's contexts reach them, and the files  *)
(* of DOS. A behaviour is one of the one or one of the other.              *)
EXTENDS MCI8259Isr, FatFiles

VARIABLE part

PartVars == <<isrVars, fatvars, part>>

PartsInit == IsrInit /\ FatInit /\ part \in {"pics", "files"} /\ (part = "pics" => ~seeded)

\* The guest need not ask for anything more: only a call that cannot go on is
\* a deadlock.
PartsNext ==
    /\ \/ part = "pics"  /\ IsrNext /\ UNCHANGED fatvars
       \/ part = "files" /\ FatNext /\ UNCHANGED isrVars
       \/ part = "files" /\ BetweenCalls /\ UNCHANGED <<isrVars, fatvars>>
    /\ UNCHANGED part

PartsSpec == PartsInit /\ [][PartsNext]_PartVars
=============================================================================
