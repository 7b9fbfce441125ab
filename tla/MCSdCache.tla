----------------------------- MODULE MCSdCache -----------------------------
(* Two sectors with two contents that can be exchanged, two arenas of one  *)
(* line, two lines of L2, and owners that leave plausible lines behind.    *)
EXTENDS SdCache, TLC

MCArenaLines == [a \in 0 .. 2 |-> IF a = 0 THEN {0} ELSE {0, 1}]
MCOwnerLines == [tag : {0}, epoch : {1}, data : Value]
Contents     == Permutations(Value)
=============================================================================
