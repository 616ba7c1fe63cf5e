------------------------------- MODULE MCLoot -------------------------------
(***************************************************************************)
(* Two loot_files ids, which a full restore hands out again, and three     *)
(* large objects; two contents, interchangeable, as the two workers are.   *)
(***************************************************************************)
EXTENDS Loot, TLC

CONSTANTS c1, c2, w1, w2

MCContents == {c1, c2}
MCWorkers == {w1, w2}
Symmetric == Permutations(MCContents) \cup Permutations(MCWorkers)
=============================================================================
