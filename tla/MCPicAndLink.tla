--------------------------- MODULE MCPicAndLink ---------------------------
(***************************************************************************)
(* Two parts of the system that do not touch each other, in one run: the   *)
(* interrupt controllers under the commands of the guest, and the sector   *)
(* cache in the memory of the second chip.                                 *)
(***************************************************************************)
EXTENDS I8259, DiskCache

\* Wiring: a line below the cascade on the master and one on the slave.
Wired == {<<"master", 3>>, <<"slave", 1>>}

\* The commands of one behaviour, chosen at the start: masks and special mask
\* mode; specific EOIs, rotation and polling; initialisation in every mode. Or
\* else it is the cache that works.
VARIABLE menu

Menus == {{"eoi", "ocw1", "ocw3"}, {"eoi", "seoi", "rotate", "poll"}, {"eoi", "icw"}}
Link  == {"link"}

PicNext == Device \/ TakeInterrupt \/ \E w \in Pic : Guest(w, menu \cap Command)

\* A cache that is off, or has lost a word, may stay so for good: only a call
\* that cannot go on is a deadlock.
AtRest == (~on \/ lost) /\ UNCHANGED dcvars

\* It is written to, whatever it holds at first.
Card == [s \in Sector |-> CHOOSE c \in Content : TRUE]

MCInit == Init /\ DcInit /\ card = Card /\ menu \in Menus \cup {Link}
MCNext ==
    /\ \/ menu # Link /\ PicNext /\ UNCHANGED dcvars
       \/ menu = Link /\ (DcNext \/ AtRest) /\ UNCHANGED vars
    /\ UNCHANGED menu
MCSpec == MCInit /\ [][MCNext]_<<vars, dcvars, menu>>
=============================================================================
