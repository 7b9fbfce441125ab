---------------------------- MODULE MCGuestBlock ----------------------------
EXTENDS GuestBlock, FiniteSets

\* What one behaviour does, chosen at the start: mixing everything only
\* multiplies the cache states a transfer begins in.
VARIABLE menu

Menus == {{"read", "find"}, {"write", "moveup", "movedown"}, {"move", "fmemcpy"}, {"access"}}

MCInit == BlockInit /\ menu \in Menus
MCNext ==
    /\ \/ GuestStore \/ Start(menu \cap Ops) \/ Step
       \/ "access" \in menu /\ (Access \/ Pointer) /\ UNCHANGED blk
    /\ UNCHANGED <<medium, menu>>
MCSpec == MCInit /\ [][MCNext]_<<bvars, menu>>

\* Bound: between transfers at most one byte of guest RAM is not 0 and at most
\* one page was ever written back; a transfer in progress is followed to its
\* end.
FewBytes ==
    Idle => /\ Cardinality({a \in Addr : Image(c)[a] # 0}) <= 1
            /\ Cardinality(c.backing_valid) <= 1
=============================================================================
