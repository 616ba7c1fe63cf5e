----------------------------- MODULE MCEvidence -----------------------------
(***************************************************************************)
(* Two threads, and one row of each kind: a finding that links the three   *)
(* others, an entry that links the loot file, one mapping, a technique and *)
(* its sub-technique.  Rows are created once.                              *)
(***************************************************************************)
EXTENDS Evidence, TLC

CONSTANTS w1, w2, tech, sub

MCThreads == {w1, w2}

\* Threads are interchangeable.
Symmetric == Permutations(MCThreads)

MCTechniques == {tech, sub}
MCParent == (sub :> tech)

\* A release may list both techniques, or the one without its sub-technique, or
\* the sub-technique without its parent.
MCReleases == {[lists |-> l, placed |-> l] : l \in {{tech, sub}, {sub}, {tech}}}
=============================================================================
