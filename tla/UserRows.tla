------------------------------ MODULE UserRows ------------------------------
(***************************************************************************)
(* A row of the users table, with the columns the handlers' conditions     *)
(* read.  A password hash is kept as who chose the password: its owner (or *)
(* whoever created the account), or an admin who reset it.                 *)
(***************************************************************************)
CONSTANTS Users,   \* usernames: unique in the table, rows are never deleted
          Roles,   \* the roles the forms can carry
          NoUser   \* no row with that username

Passwords == {"chosen", "temporary"}

User == [role : Roles, active : BOOLEAN,
         password : Passwords, mustChange : BOOLEAN]

\* Slip: a new row without the column's default.
NewUserWithoutDefault(r) == [role |-> "NULL", active |-> TRUE,
                             password |-> "chosen", mustChange |-> FALSE]

NewUser(r) == [role |-> r, active |-> TRUE,
               password |-> "chosen", mustChange |-> FALSE]

IsActiveAdmin(row) == row # NoUser /\ row.role = "admin" /\ row.active

ASSUME RolesAssumption == "admin" \in Roles
ASSUME NoUserAssumption == NoUser \notin User /\ NoUser \notin Users
=============================================================================
