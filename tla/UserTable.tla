----------------------------- MODULE UserTable ------------------------------
(***************************************************************************)
(* What the users table promises, with every request a single step:        *)
(*   - the first account is an active admin, and a later one comes only    *)
(*     where some account is there already;                                *)
(*   - an account once created stays, and one step changes one account;    *)
(*   - who edits roles never touches a password, and who sets a password   *)
(*     never touches a role or revives an account.                         *)
(* How a reset and a change of the same password interleave is left open:  *)
(* mustChange may keep its value in either.                                *)
(***************************************************************************)
EXTENDS UserRows

VARIABLE users

Init == users = [u \in Users |-> NoUser]

Found(u) == /\ \A v \in Users : users[v] = NoUser
            /\ users' = [users EXCEPT ![u] = NewUser("admin")]

Enrol(u) == /\ users[u] = NoUser
            /\ \E v \in Users : users[v] # NoUser
            /\ \E r \in Roles : users' = [users EXCEPT ![u] = NewUser(r)]

Reassign(u) ==
    /\ users[u] # NoUser
    /\ \E r \in Roles, a \in BOOLEAN :
          users' = [users EXCEPT ![u] = [@ EXCEPT !.role = r, !.active = a]]

Reset(u) ==
    /\ users[u] # NoUser
    /\ \E m \in {users[u].mustChange, TRUE} :
          users' = [users EXCEPT ![u] = [@ EXCEPT !.password = "temporary",
                                                  !.mustChange = m]]

Choose(u) ==
    /\ users[u] # NoUser
    /\ \E m \in {users[u].mustChange, FALSE} :
          users' = [users EXCEPT ![u] = [@ EXCEPT !.password = "chosen",
                                                  !.mustChange = m]]

Next == \E u \in Users : Found(u) \/ Enrol(u) \/ Reassign(u) \/ Reset(u) \/ Choose(u)

Spec == Init /\ [][Next]_users
=============================================================================
