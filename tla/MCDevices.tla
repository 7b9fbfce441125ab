----------------------------- MODULE MCDevices -----------------------------
(***************************************************************************)
(* Three devices that share no state, in one run: in each behaviour one of *)
(* them works and the others stay as they are.                             *)
(***************************************************************************)
EXTENDS MCI8042, Sb16Dma, I8254

VARIABLE part  \* the device that works

devvars == <<part, kbdvars, sbvars, pitvars>>

\* The guest sets the controller up with commands of its own, or the BIOS's calls
\* talk to the mouse: together they only multiply the answers that are queued.
DevicesInit == KbdInit /\ SbInit /\ PitInit /\ part \in {"commands", "calls", "sound", "timer"}

DevicesNext ==
    /\ \/ part = "commands" /\ (InputWorks \/ GuestSetsUp) /\ UNCHANGED <<sbvars, pitvars>>
       \/ part = "calls" /\ (InputWorks \/ BiosCall) /\ events' < MaxEvents
          /\ UNCHANGED <<sbvars, pitvars>>
       \/ part = "sound" /\ SbNext /\ UNCHANGED <<kbdvars, pitvars>>
       \/ part = "timer" /\ PitNext /\ UNCHANGED <<kbdvars, sbvars>>
    /\ UNCHANGED part

DevicesSpec == DevicesInit /\ [][DevicesNext]_devvars /\ KbdFairness /\ SbFairness
=============================================================================
