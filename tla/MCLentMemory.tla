---------------------------- MODULE MCLentMemory ----------------------------
EXTENDS LentMemory, TLC

MCArenaLines == [a \in 0 .. 2 |-> IF a = 1 THEN {0, 1} ELSE {}]
MCOwnerLines == {}
Contents     == Permutations(Value)
=============================================================================
