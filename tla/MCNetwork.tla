----------------------------- MODULE MCNetwork ------------------------------
(***************************************************************************)
(* Three nodes: a path has two ends, and an edit needs a third to move one *)
(* to.  One path, one service, one kill chain entry, two workers.          *)
(***************************************************************************)
EXTENDS Network, TLC

CONSTANTS n1, n2, n3, w1, w2

MCNodes == {n1, n2, n3}
MCWorkers == {w1, w2}
Symmetric == Permutations(MCNodes) \cup Permutations(MCWorkers)
=============================================================================
