--------------------------- MODULE MCCredentials ----------------------------
(***************************************************************************)
(* One credential, two submissions, two workers, and a key for each time   *)
(* the file can be created: once, or once per worker that found none.      *)
(***************************************************************************)
EXTENDS Credentials, TLC

CONSTANTS s1, s2, w1, w2, k1, k2

MCSubmissions == {s1, s2}
MCWorkers == {w1, w2}
MCKeys == {k1, k2}
Symmetric == Permutations(MCSubmissions) \cup Permutations(MCWorkers) \cup Permutations(MCKeys)
=============================================================================
