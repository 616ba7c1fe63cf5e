--------------------------- MODULE MCEngagements ---------------------------
(***************************************************************************)
(* Instances of Engagements: one engagement (every condition is about one  *)
(* engagement), two kill chain models with one shared stage and one stage  *)
(* only one of them has, two admins and one operator.                      *)
(***************************************************************************)
EXTENDS Engagements, TLC

CONSTANTS a1, a2, w1, w2

MCStagesOf == [lmckc |-> {"delivery"}, ukc |-> {"delivery", "impact"}]
MCModels == DOMAIN MCStagesOf
MCStages == UNION {MCStagesOf[m] : m \in MCModels}
MCAdmins == {a1, a2}
MCWorkers == {w1, w2}
MCStatuses == {"backlog", "active"}

\* Admins and workers are interchangeable.
Symmetric == Permutations(MCAdmins) \cup Permutations(MCWorkers)

\* Every request there is, and the ones the deletion is about.
AllOps == {"create", "edit", "status", "archive", "annotate", "add", "restage",
           "remove", "request", "cancel", "approve"}
DeletionOps == {"create", "annotate", "request", "cancel", "approve"}
ApprovalOps == {"create", "request", "cancel", "approve"}
=============================================================================
