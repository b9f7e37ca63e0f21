---------------------------- MODULE MCSharedMap -----------------------------
(* SharedMap for TLC: keys and values that need no allocation and such that *)
(* need one or two blocks.                                                  *)
EXTENDS SharedMap, TLC

CONSTANTS p1, p2, k1, k2, short, long

MCKeyBlocks == [k \in Keys |-> IF k = k2 THEN 1 ELSE 0]
MCValBlocks == [v \in Vals |-> IF v = long THEN 2 ELSE 0]

=============================================================================
