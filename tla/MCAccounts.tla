----------------------------- MODULE MCAccounts -----------------------------
(***************************************************************************)
(* Accounts on small sets: two users, two threads, every request.          *)
(***************************************************************************)
EXTENDS Accounts, TLC

CONSTANTS u1, u2, w1, w2, e1

MCUsers == {u1, u2}
MCWorkers == {w1, w2}
MCEngagements == {e1}

Symmetric == Permutations(MCUsers) \cup Permutations(MCWorkers)

\* A role that may do everything and one that may only look.
MCRoles == {"admin", "blueteam"}
StaffRoles == {"admin", "operator"}

\* What the clients send: everything, and what a forced password change hangs
\* on.
AllOps == {"setup", "create", "edit", "deactivate", "reset", "change", "login"}
ReturnOps == {"setup", "create", "reset", "change"}
=============================================================================
