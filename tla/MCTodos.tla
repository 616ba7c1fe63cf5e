------------------------------ MODULE MCTodos -------------------------------
(***************************************************************************)
(* One todo (no handler reads two), one API key, two users who may claim   *)
(* from each other, two workers.                                           *)
(***************************************************************************)
EXTENDS Todos, TLC

CONSTANTS u1, u2, w1, w2

MCUsers == {u1, u2}
MCHolders == {u1}
MCVisitors == {u2}
MCWorkers == {w1, w2}
=============================================================================
