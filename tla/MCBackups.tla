----------------------------- MODULE MCBackups -----------------------------
(***************************************************************************)
(* Backups with two threads: a request, a run or a restore meets one other. *)
(***************************************************************************)
EXTENDS Backups, TLC

CONSTANTS w1, w2

MCFrequencies == {"manual", "hourly"}
MCWorkers == {w1, w2}

\* Threads are interchangeable.
Symmetric == Permutations(MCWorkers)

\* Everything; what a scheduled run meets; what a run from the form meets.
AllOps == {"create", "edit", "delete", "record", "run", "run_now", "restore"}
ScheduledOps == {"create", "delete", "run", "restore"}
RunNowOps == {"create", "run_now", "restore"}
=============================================================================
