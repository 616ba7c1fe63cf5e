------------------------------ MODULE Accounts ------------------------------
(***************************************************************************)
(* The users table of the vault and every request that writes it, on the   *)
(* worker threads of one gunicorn process (Dockerfile: --workers 1         *)
(* --threads 4).  A request is a sequence of steps of one worker:          *)
(*                                                                         *)
(*   gate   - the before_request hooks and the route's decorator           *)
(*   load   - the handler reads the row it is about                        *)
(*   check  - the handler reads what its conditions need                   *)
(*   commit - one transaction, merged column by column (OrmSession)        *)
(*                                                                         *)
(* Other workers run between any two of them.  Column values keep only     *)
(* what the guards tell apart; a password hash is who chose the password.  *)
(***************************************************************************)
EXTENDS UserRows, OrmSession

CONSTANTS Engagements,  \* engagements a blueteam user can be assigned to
          Workers,      \* threads of the process
          Operations    \* the kinds of request the clients send

VARIABLES users,          \* the users table
          assigned,       \* engagement_assignments: <<user, engagement>>
          setting,        \* the app_settings singleton exists
          setupComplete,  \* app.config["SETUP_COMPLETE"], per process
          req,            \* what each worker is doing
          stale,          \* history: the tables changed since the worker read
          raced           \* history: a worker has committed while stale

tables == <<users, assigned, setting>>
vars == <<users, assigned, setting, setupComplete, req, stale, raced>>

-----------------------------------------------------------------------------
Exists(u) == users[u] # NoUser

ActiveAdmins == {u \in Users : IsActiveAdmin(users[u])}

\* Slip: the count forgets to leave the edited user out.
AnyActiveAdmins(u) == ActiveAdmins # {}

\* _other_active_admins_exist
OtherActiveAdmins(u) == \E v \in Users \ {u} : IsActiveAdmin(users[v])

\* Steps of a request, and what the worker remembers of it.  `seen` is the
\* loaded row, `want` the row after the handler's assignments, `held` and
\* `asked` the assignments it read and those the form asks for.
Steps == {"idle", "gated", "loaded", "checked", "synced"}

Request == [op : {"none", "setup", "create", "edit", "reset", "deactivate",
                  "change", "login"},
            step : Steps, target : Users \cup {NoUser},
            seen : User \cup {NoUser}, want : User \cup {NoUser},
            held : SUBSET Engagements, asked : SUBSET Engagements]

Idle == [op |-> "none", step |-> "idle", target |-> NoUser,
         seen |-> NoUser, want |-> NoUser, held |-> {}, asked |-> {}]

At(w, o, s) == req[w].op = o /\ req[w].step = s

Moves(w, r) == req' = [req EXCEPT ![w] = r]

Init == /\ users = [u \in Users |-> NoUser]
        /\ assigned = {}
        /\ setting = FALSE
        /\ setupComplete = FALSE
        /\ req = [w \in Workers |-> Idle]
        /\ stale = [w \in Workers |-> FALSE]
        /\ raced = FALSE

\* A step that reads; the tables stay as they are.
Reads == UNCHANGED <<tables, stale, raced>>

\* The request ends without a write: a refusal, or a transaction the database
\* rolls back (error 500).
Ends(w) == /\ Moves(w, Idle)
           /\ stale' = [stale EXCEPT ![w] = FALSE]
           /\ UNCHANGED <<tables, raced>>

\* The transaction of worker w commits.  Workers that had read the tables are
\* stale from here on; a write on stale reads is a race.
Commits(w) ==
    /\ Moves(w, Idle)
    /\ stale' = [v \in Workers |->
                    /\ v # w
                    /\ req[v].step \notin {"idle", "gated"}
                    /\ stale[v] \/ tables' # tables]
    /\ raced' = (raced \/ (stale[w] /\ tables' # tables))

-----------------------------------------------------------------------------
(* The setup wizard: not behind any gate, it counts the users itself.      *)

WizardCheck(w) ==
    /\ "setup" \in Operations
    /\ req[w] = Idle
    /\ \A u \in Users : ~Exists(u)
    /\ \E u \in Users :
          Moves(w, [Idle EXCEPT !.op = "setup", !.step = "checked",
                                !.target = u, !.want = NewUser("admin")])
    /\ Reads
    /\ UNCHANGED setupComplete

\* Slip: a settings row whose key is not fixed never conflicts.
NameTaken(u) == Exists(u)

\* The two inserts of the wizard, the user and the settings row with id = 1,
\* meet a unique key that is taken.
WizardConflict(u) == Exists(u) \/ setting

\* One transaction: both rows or none.
WizardCommit(w) ==
    LET r == req[w] IN
    /\ At(w, "setup", "checked")
    /\ IF WizardConflict(r.target)
       THEN Ends(w) /\ UNCHANGED setupComplete
       ELSE /\ users' = [users EXCEPT ![r.target] = r.want]
            /\ setting' = TRUE
            /\ setupComplete' = TRUE
            /\ UNCHANGED assigned
            /\ Commits(w)

-----------------------------------------------------------------------------
(* The gates.  The setup gate lets a request pass once a user exists, the  *)
(* revocation check wants an active account whose role is the token's, the *)
(* password gate turns away whoever must change the password, and          *)
(* role_required_csrf wants an admin.                                      *)

AdminGate(w) ==
    /\ req[w] = Idle
    /\ \E actor \in Users : /\ IsActiveAdmin(users[actor])
                            /\ ~users[actor].mustChange
    /\ \E o \in Operations \cap {"create", "edit", "reset", "deactivate"} :
          Moves(w, [Idle EXCEPT !.op = o, !.step = "gated"])
    /\ setupComplete' = TRUE
    /\ Reads

\* POST /account/password is exempt from the password gate, but the blueteam
\* gate refuses every POST outside the auth blueprint.
AccountGate(w, u) ==
    /\ "change" \in Operations
    /\ req[w] = Idle
    /\ Exists(u)
    /\ users[u].active
    /\ users[u].role # "blueteam"
    /\ Moves(w, [Idle EXCEPT !.op = "change", !.step = "gated", !.target = u])
    /\ setupComplete' = TRUE
    /\ Reads

\* POST /auth/login loads the row by username; only an active account goes on.
LoginLoad(w, u) ==
    /\ "login" \in Operations
    /\ req[w] = Idle
    /\ Exists(u)
    /\ users[u].active
    /\ Moves(w, [Idle EXCEPT !.op = "login", !.step = "loaded",
                             !.target = u, !.seen = users[u]])
    /\ setupComplete' = TRUE
    /\ Reads
-----------------------------------------------------------------------------
(* POST /admin/users                                                       *)

CreateCheck(w) ==
    /\ At(w, "create", "gated")
    /\ \E u \in Users, r \in Roles :
          /\ ~Exists(u)
          /\ Moves(w, [req[w] EXCEPT !.step = "checked", !.target = u,
                                     !.want = NewUser(r)])
    /\ Reads
    /\ UNCHANGED setupComplete

\* The unique index on username has the last word.
CreateCommit(w) ==
    LET r == req[w] IN
    /\ At(w, "create", "checked")
    /\ IF Exists(r.target)
       THEN Ends(w)
       ELSE /\ users' = [users EXCEPT ![r.target] = r.want]
            /\ UNCHANGED <<assigned, setting>>
            /\ Commits(w)
    /\ UNCHANGED setupComplete

-----------------------------------------------------------------------------
(* Requests about an existing account.                                     *)

\* User.query.get_or_404: an admin's form names any row, a password change
\* the caller's own.
Load(w) ==
    /\ req[w].step = "gated" /\ req[w].op # "create"
    /\ \E u \in Users :
          /\ Exists(u)
          /\ req[w].op = "change" => u = req[w].target
          /\ Moves(w, [req[w] EXCEPT !.step = "loaded", !.target = u,
                                     !.seen = users[u]])
    /\ Reads
    /\ UNCHANGED setupComplete

\* Another request has flushed changes of this row and not committed yet: it
\* holds the row's lock.
Locked(u, w) ==
    \E v \in Workers \ {w} : /\ req[v].step = "synced"
                             /\ req[v].target = u
                             /\ Dirty(req[v].seen, req[v].want)

\* The loaded row after the handler's assignments, merged into the table.
Merged(cur, seen, want) ==
    [role       |-> Column(cur.role, seen.role, want.role),
     active     |-> Column(cur.active, seen.active, want.active),
     password   |-> cur.password,
     mustChange |-> Column(cur.mustChange, seen.mustChange, want.mustChange)]

\* POST /admin/users/<id>/edit, up to the assignments: role and is_active from
\* the form, refused when this would leave no active admin.
EditCheck(w) ==
    LET r == req[w] IN
    /\ At(w, "edit", "loaded")
    /\ \E role \in Roles, active \in BOOLEAN, asked \in SUBSET Engagements :
          LET demotes == /\ r.seen.role = "admin"
                         /\ role # "admin" \/ ~active
          IN /\ role # "blueteam" => asked = {}
             /\ demotes => OtherActiveAdmins(r.target)
             /\ Moves(w, [r EXCEPT !.step = "checked", !.asked = asked,
                                   !.want = [r.seen EXCEPT !.role = role,
                                                           !.active = active]])
    /\ Reads
    /\ UNCHANGED setupComplete

\* For a blueteam user the handler reads the assignments.  That query first
\* flushes the assignments made so far, which takes the row's lock.
EditSync(w) ==
    LET r == req[w] IN
    /\ At(w, "edit", "checked")
    /\ r.want.role = "blueteam"
    /\ Dirty(r.seen, r.want) => ~Locked(r.target, w)
    /\ Moves(w, [r EXCEPT !.step = "synced",
                          !.held = {e \in Engagements :
                                       <<r.target, e>> \in assigned}])
    /\ Reads
    /\ UNCHANGED setupComplete

\* The assignments the handler inserts and those it deletes.
Added(r) == {r.target} \X (r.asked \ r.held)

\* Slip: unticked engagements stay assigned.
NoneDropped(r) == {}

Dropped(r) == {r.target} \X (r.held \ r.asked)

\* uq_engagement_assignment aborts the whole transaction when an assignment
\* to be added exists by now; deleting one that is gone is only a warning.
EditCommit(w) ==
    LET r == req[w] IN
    /\ r.op = "edit"
    /\ r.step = IF r.want # NoUser /\ r.want.role = "blueteam"
                THEN "synced" ELSE "checked"
    /\ Dirty(r.seen, r.want) => ~Locked(r.target, w)
    /\ IF Added(r) \cap assigned # {}
       THEN Ends(w)
       ELSE /\ users' = [users EXCEPT ![r.target] = Merged(@, r.seen, r.want)]
            /\ assigned' = (assigned \ Dropped(r)) \cup Added(r)
            /\ UNCHANGED setting
            /\ Commits(w)
    /\ UNCHANGED setupComplete

\* POST /admin/users/<id>/deactivate
DeactivateCheck(w) ==
    LET r == req[w] IN
    /\ At(w, "deactivate", "loaded")
    /\ r.seen.role = "admin" => OtherActiveAdmins(r.target)
    /\ Moves(w, [r EXCEPT !.step = "checked",
                          !.want = [r.seen EXCEPT !.active = FALSE]])
    /\ Reads
    /\ UNCHANGED setupComplete

DeactivateCommit(w) ==
    LET r == req[w] IN
    /\ At(w, "deactivate", "checked")
    /\ Dirty(r.seen, r.want) => ~Locked(r.target, w)
    /\ users' = [users EXCEPT ![r.target] = Merged(@, r.seen, r.want)]
    /\ UNCHANGED <<assigned, setting>>
    /\ Commits(w)
    /\ UNCHANGED setupComplete
-----------------------------------------------------------------------------
(* Passwords and sign-in.                                                  *)

\* Slip: the admin's reset leaves the flag alone, the user's change too.
FlagForgotten(row) == row

AfterReset(row) == [row EXCEPT !.mustChange = TRUE]

AfterChange(row) == [row EXCEPT !.mustChange = FALSE]

\* POST /admin/users/<id>/reset-password: a fresh hash is always written, the
\* flag only when the loaded row did not carry it yet.
ResetCommit(w) ==
    LET r == req[w] IN
    /\ At(w, "reset", "loaded")
    /\ ~Locked(r.target, w)
    /\ users' = [users EXCEPT ![r.target] =
                    [Merged(@, r.seen, AfterReset(r.seen))
                         EXCEPT !.password = "temporary"]]
    /\ UNCHANGED <<assigned, setting, setupComplete>>
    /\ Commits(w)

\* POST /account/password, once the current password matched the loaded hash.
ChangePasswordCommit(w) ==
    LET r == req[w] IN
    /\ At(w, "change", "loaded")
    /\ ~Locked(r.target, w)
    /\ users' = [users EXCEPT ![r.target] =
                    [Merged(@, r.seen, AfterChange(r.seen))
                         EXCEPT !.password = "chosen"]]
    /\ UNCHANGED <<assigned, setting, setupComplete>>
    /\ Commits(w)

\* POST /auth/login, once the password matched: last_login_at is the only
\* column assigned, and it is not among those kept here.
LoginCommit(w) ==
    LET r == req[w] IN
    /\ At(w, "login", "loaded")
    /\ ~Locked(r.target, w)
    /\ users' = [users EXCEPT ![r.target] = Merged(@, r.seen, r.seen)]
    /\ UNCHANGED <<assigned, setting, setupComplete>>
    /\ Commits(w)

-----------------------------------------------------------------------------
\* The handler refuses: unknown row, name taken, short or wrong password, the
\* last remaining admin.
Refuse(w) ==
    /\ req[w].step \in {"gated", "loaded"}
    /\ Ends(w)
    /\ UNCHANGED setupComplete

\* The process restarts (crash, deploy): requests in flight are gone, their
\* transactions rolled back, and the cached flag with them.
Restart ==
    /\ req' = [w \in Workers |-> Idle]
    /\ stale' = [w \in Workers |-> FALSE]
    /\ setupComplete' = FALSE
    /\ UNCHANGED <<tables, raced>>

Step(w) == \/ WizardCheck(w) \/ WizardCommit(w)
           \/ AdminGate(w) \/ Load(w)
           \/ CreateCheck(w) \/ CreateCommit(w)
           \/ EditCheck(w) \/ EditSync(w) \/ EditCommit(w)
           \/ DeactivateCheck(w) \/ DeactivateCommit(w)
           \/ ResetCommit(w)
           \/ \E u \in Users : AccountGate(w, u) \/ LoginLoad(w, u)
           \/ ChangePasswordCommit(w) \/ LoginCommit(w)
           \/ Refuse(w)

Next == Restart \/ \E w \in Workers : Step(w)

Spec == Init /\ [][Next]_vars

\* For liveness: a thread that has a request goes on with it, and whoever must
\* change the password keeps submitting the form, at times with valid input and
\* no restart in between.  Admins and restarts are as frequent as they like.
Continues(w) == req[w] # Idle /\ Step(w)
Submits(u) == \E w \in Workers : AccountGate(w, u)
Reloads(u) == \E w \in Workers : req[w].op = "change" /\ req[w].target = u /\ Load(w)
Finishes(u) == \E w \in Workers : req[w].target = u /\ ChangePasswordCommit(w)

FairSpec == /\ Spec
            /\ \A w \in Workers : WF_vars(Continues(w))
            /\ \A u \in Users : /\ SF_vars(Submits(u))
                               /\ SF_vars(Reloads(u))
                               /\ SF_vars(Finishes(u))

-----------------------------------------------------------------------------
(* Properties.                                                             *)

\* Every variable keeps its shape, and a worker that is past its load still
\* knows the row it loaded (the handlers dereference it without a check).
TypeOK ==
    /\ users \in [Users -> User \cup {NoUser}]
    /\ assigned \subseteq Users \X Engagements
    /\ setting \in BOOLEAN
    /\ setupComplete \in BOOLEAN
    /\ req \in [Workers -> Request]
    /\ stale \in [Workers -> BOOLEAN]
    /\ raced \in BOOLEAN

\* "Cannot demote or deactivate the last remaining admin."  Once the vault is
\* set up an active admin remains, whatever the admins do to each other.
AdminRemains == setting => ActiveAdmins # {}

\* The same, as far as the code's check reaches: it can fail only after some
\* request committed on reads another commit had overtaken.
AdminRemainsUnlessRaced == AdminRemains \/ raced

\* "Forces a user whose password was reset by an admin to set a new password":
\* whoever still signs in with an admin's temporary password is marked.
TemporaryIsForced ==
    \A u \in Users : Exists(u) /\ users[u].password = "temporary"
                        => users[u].mustChange

\* The same without a commit on overtaken reads.
TemporaryIsForcedUnlessRaced == TemporaryIsForced \/ raced

\* Every commit is one of the table's promised steps: the first account is an
\* admin, an account stays, and one commit changes one account, in the columns
\* its request is about, whatever the row it loaded earlier said.
Table == INSTANCE UserTable
ImplementsUserTable == Table!Spec

\* "independently re-check": however many browsers have the wizard open, one of
\* them creates the first account, and no later commit of the wizard another.
WizardFoundsOnce ==
    [][\A w \in Workers :
          /\ At(w, "setup", "checked") /\ ~At(w, "setup", "checked")'
          /\ users' # users
          => \A u \in Users : ~Exists(u)
      ]_vars

\* Becoming blueteam and getting the requested scope is one transaction, and a
\* later scope is that of one form again: it has the engagements the form ticks
\* anew and none of those it unticks, however many edits overlap, and is exactly
\* what the form asked for unless the edit's reads were overtaken.
ScopeOf(u) == {e \in Engagements : <<u, e>> \in assigned}

ScopeIsAsAsked ==
    [][\A u \in Users :
          /\ Exists(u) /\ users'[u].role = "blueteam"
          /\ users[u].role # "blueteam" \/ ScopeOf(u)' # ScopeOf(u)
          => \E w \in Workers :
                LET r == req[w] IN
                /\ r.op = "edit" /\ r.target = u
                /\ r.asked \ r.held \subseteq ScopeOf(u)'
                /\ ScopeOf(u)' \cap (r.held \ r.asked) = {}
                /\ ScopeOf(u)' = r.asked \/ stale[w]
      ]_vars

\* "to set a new password before reaching anywhere else in the app": whoever is
\* forced to change the password gets to do it.
ForcedUserReturns ==
    \A u \in Users : (Exists(u) /\ users[u].mustChange)
                        ~> (Exists(u) /\ ~users[u].mustChange)
=============================================================================
