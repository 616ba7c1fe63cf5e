----------------------------- MODULE TaskBoard ------------------------------
(***************************************************************************)
(* What an engagement's checklist promises, with every request a single    *)
(* step on a single task.  Who works on a task and whether it is done are  *)
(* two independent facts: taking or giving a task never finishes it, and   *)
(* finishing or reopening it never changes its owner.  A removed task      *)
(* stays removed.                                                          *)
(***************************************************************************)
CONSTANTS Tasks, Users, Nobody, Unborn, Deleted

VARIABLE tasks

OnBoard(t) == tasks[t] \notin {Unborn, Deleted}

Init == tasks = [t \in Tasks |-> Unborn]

Post(t) == /\ tasks[t] = Unborn
           /\ tasks' = [tasks EXCEPT ![t] = [owner |-> Nobody, done |-> FALSE]]

Take(t, u) == OnBoard(t) /\ tasks' = [tasks EXCEPT ![t].owner = u]

Give(t) == OnBoard(t) /\ tasks' = [tasks EXCEPT ![t].owner = Nobody]

Finish(t) == OnBoard(t) /\ tasks' = [tasks EXCEPT ![t].done = TRUE]

Reopen(t) == OnBoard(t) /\ tasks' = [tasks EXCEPT ![t].done = FALSE]

Remove(t) == OnBoard(t) /\ tasks' = [tasks EXCEPT ![t] = Deleted]

Next == \E t \in Tasks : \/ Post(t) \/ Give(t) \/ Finish(t) \/ Reopen(t) \/ Remove(t)
                         \/ \E u \in Users : Take(t, u)

Spec == Init /\ [][Next]_tasks
=============================================================================
