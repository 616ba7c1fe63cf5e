--------------------------- MODULE AccountsProofs ---------------------------
(***************************************************************************)
(* Theorems about Accounts, for any number of users, roles and threads.    *)
(***************************************************************************)
EXTENDS AccountsInv, TLAPS

\* Shorthands of the handlers that are always read through.
USE DEF AfterReset, AfterChange, WizardConflict

-----------------------------------------------------------------------------
(* The column merge.                                                       *)

\* A column nobody assigned, or assigned its loaded value, keeps what the
\* table has now, and one that is still as loaded gets the new value.
LEMMA ColumnMerge ==
    ASSUME NEW cur, NEW seen, NEW new
    PROVE  /\ Column(cur, seen, seen) = cur
           /\ Column(cur, cur, new) = new
           /\ Column(cur, seen, new) \in {cur, new}
BY DEF Column

\* A merged row is a row, whatever the handler had loaded.
LEMMA MergedIsUser ==
    ASSUME NEW cur \in User, NEW seen \in User, NEW want \in User
    PROVE  /\ Merged(cur, seen, want) \in User
           /\ Merged(cur, seen, want).role \in {cur.role, want.role}
BY DEF Merged, Column, User

-----------------------------------------------------------------------------
(* Type correctness.                                                       *)

\* One step moves one request at most; the others see the tables grow only.
LEMMA AwareStep ==
    ASSUME TypeInv, NEW w \in Workers, NEW r \in Request, Moves(w, r),
           \A u \in Users : Exists(u) => users'[u] # NoUser,
           Aware(w)'
    PROVE  \A v \in Workers : Aware(v)'
BY DEF TypeInv, TypeOK, Aware, Moves, Exists, Request

LEMMA IdleIsRequest == Idle \in Request
BY DEF Idle, Request, Steps

\* A step that only reads keeps the invariant if the worker's new request is
\* well-formed.
LEMMA ReadsKeepType ==
    ASSUME TypeInv, NEW w \in Workers, NEW r \in Request, Moves(w, r), Reads,
           setupComplete' \in BOOLEAN, Aware(w)'
    PROVE  TypeInv'
<1>1. \A u \in Users : Exists(u) => users'[u] # NoUser
  BY DEF Reads, tables, Exists
<1>2. \A v \in Workers : Aware(v)'
  BY <1>1, AwareStep
<1>3. TypeOK'
  BY DEF TypeInv, TypeOK, Moves, Reads, tables
<1> QED BY <1>2, <1>3 DEF TypeInv

\* A request that ends without a write.
LEMMA EndsKeepType ==
    ASSUME TypeInv, NEW w \in Workers, Ends(w), setupComplete' \in BOOLEAN
    PROVE  TypeInv'
<1>1. \A u \in Users : Exists(u) => users'[u] # NoUser
  BY DEF Ends, tables, Exists
<1>2. Aware(w)'
  BY DEF Ends, Moves, Aware, Idle, TypeInv, TypeOK
<1>3. \A v \in Workers : Aware(v)'
  BY <1>1, <1>2, AwareStep, IdleIsRequest DEF Ends
<1>4. TypeOK'
  BY IdleIsRequest DEF TypeInv, TypeOK, Moves, Ends, tables
<1> QED BY <1>3, <1>4 DEF TypeInv

\* A transaction that replaces one row by a row and keeps the rest typed.
LEMMA CommitsKeepType ==
    ASSUME TypeInv, NEW w \in Workers, Commits(w),
           NEW t \in Users, NEW row \in User,
           users' = [users EXCEPT ![t] = row],
           assigned' \subseteq Users \X Engagements,
           setting' \in BOOLEAN, setupComplete' \in BOOLEAN
    PROVE  TypeInv'
<1>1. \A u \in Users : Exists(u) => users'[u] # NoUser
  BY NoUserAssumption DEF Exists, TypeInv, TypeOK
<1>2. Aware(w)'
  BY DEF Commits, Moves, Aware, Idle, TypeInv, TypeOK
<1>3. \A v \in Workers : Aware(v)'
  BY <1>1, <1>2, AwareStep, IdleIsRequest DEF Commits
<1>4. users' \in [Users -> User \cup {NoUser}]
  BY DEF TypeInv, TypeOK
<1>5. req' \in [Workers -> Request]
  BY IdleIsRequest DEF TypeInv, TypeOK, Commits, Moves
<1>6. stale' \in [Workers -> BOOLEAN] /\ raced' \in BOOLEAN
  BY DEF TypeInv, TypeOK, Commits
<1> QED BY <1>3, <1>4, <1>5, <1>6 DEF TypeInv, TypeOK
\* The rows the handlers insert and the merged rows they write are rows.
LEMMA NewAdminIsUser == NewUser("admin") \in User
BY RolesAssumption DEF NewUser, User, Passwords

LEMMA InitType == Init => TypeInv
<1> SUFFICES ASSUME Init PROVE TypeInv
  OBVIOUS
<1>1. TypeOK
  BY IdleIsRequest DEF Init, TypeOK
<1>2. \A w \in Workers : Aware(w)
  BY DEF Init, Aware, Idle
<1> QED BY <1>1, <1>2 DEF TypeInv

LEMMA RestartType == TypeInv /\ Restart => TypeInv'
<1> SUFFICES ASSUME TypeInv, Restart PROVE TypeInv'
  OBVIOUS
<1>1. TypeOK'
  BY IdleIsRequest DEF TypeInv, TypeOK, Restart, tables
<1>2. \A w \in Workers : Aware(w)'
  BY DEF Aware, Idle, Restart
<1> QED BY <1>1, <1>2 DEF TypeInv

LEMMA StepType ==
    ASSUME TypeInv, NEW w \in Workers, Step(w)
    PROVE  TypeInv'
<1> DEFINE r == req[w]
<1>t. r \in Request /\ setupComplete \in BOOLEAN /\ Aware(w)
  BY DEF TypeInv, TypeOK
<1>1. CASE WizardCheck(w)
  <2>1. PICK u \in Users :
          Moves(w, [Idle EXCEPT !.op = "setup", !.step = "checked",
                                !.target = u, !.want = NewUser("admin")])
    BY <1>1 DEF WizardCheck
  <2> DEFINE n == [Idle EXCEPT !.op = "setup", !.step = "checked",
                               !.target = u, !.want = NewUser("admin")]
  <2>2. n \in Request
    BY NewAdminIsUser DEF Idle, Request, Steps
  <2>3. Aware(w)'
    BY <2>1, NewAdminIsUser DEF Aware, Moves, Idle, TypeInv, TypeOK
  <2> QED BY <1>1, <1>t, <2>1, <2>2, <2>3, ReadsKeepType DEF WizardCheck
<1>2. CASE WizardCommit(w)
  <2>1. CASE Ends(w) /\ UNCHANGED setupComplete
    BY <1>t, <2>1, EndsKeepType
  <2>2. CASE ~(Ends(w) /\ UNCHANGED setupComplete)
    <3>1. r.target \in Users /\ r.want \in User
      BY <1>2, <1>t DEF WizardCommit, At, Aware
    <3> QED BY <1>2, <2>2, <3>1, CommitsKeepType DEF WizardCommit, TypeInv, TypeOK
  <2> QED BY <2>1, <2>2
<1>3. CASE AdminGate(w)
  <2>1. PICK o \in {"create", "edit", "reset", "deactivate"} :
          Moves(w, [Idle EXCEPT !.op = o, !.step = "gated"])
    BY <1>3 DEF AdminGate
  <2>2. [Idle EXCEPT !.op = o, !.step = "gated"] \in Request
    BY DEF Idle, Request, Steps
  <2>3. Aware(w)'
    BY <2>1 DEF Aware, Moves, Idle, TypeInv, TypeOK
  <2> QED BY <1>3, <2>1, <2>2, <2>3, ReadsKeepType DEF AdminGate
<1>4. CASE Load(w)
  <2>1. PICK u \in Users :
          /\ Exists(u)
          /\ Moves(w, [r EXCEPT !.step = "loaded", !.target = u, !.seen = users[u]])
    BY <1>4 DEF Load
  <2>2. users[u] \in User
    BY <2>1 DEF Exists, TypeInv, TypeOK
  <2>3. [r EXCEPT !.step = "loaded", !.target = u, !.seen = users[u]] \in Request
    BY <1>t, <2>2 DEF Request, Steps
  <2>4. Aware(w)'
    BY <1>4, <1>t, <2>1, <2>2 DEF Aware, Moves, Request, TypeInv, TypeOK, Load, Reads, tables, Exists
  <2> QED BY <1>4, <1>t, <2>1, <2>3, <2>4, ReadsKeepType DEF Load
<1>5. CASE CreateCheck(w)
  <2>1. PICK u \in Users, role \in Roles :
          Moves(w, [r EXCEPT !.step = "checked", !.target = u, !.want = NewUser(role)])
    BY <1>5 DEF CreateCheck
  <2>2. NewUser(role) \in User
    BY DEF NewUser, User, Passwords
  <2>3. [r EXCEPT !.step = "checked", !.target = u, !.want = NewUser(role)] \in Request
    BY <1>t, <2>2 DEF Request, Steps
  <2>4. Aware(w)'
    BY <1>5, <1>t, <2>1, <2>2 DEF Aware, Moves, Request, TypeInv, TypeOK, CreateCheck, At
  <2> QED BY <1>5, <1>t, <2>1, <2>3, <2>4, ReadsKeepType DEF CreateCheck
<1>6. CASE CreateCommit(w)
  <2>1. CASE Exists(r.target)
    BY <1>6, <1>t, <2>1, EndsKeepType DEF CreateCommit
  <2>2. CASE ~Exists(r.target)
    <3>1. r.target \in Users /\ r.want \in User
      BY <1>6, <1>t DEF CreateCommit, At, Aware
    <3> QED BY <1>6, <2>2, <3>1, CommitsKeepType DEF CreateCommit, TypeInv, TypeOK
  <2> QED BY <2>1, <2>2
<1>7. CASE EditCheck(w)
  <2>1. PICK role \in Roles, active \in BOOLEAN, asked \in SUBSET Engagements :
          Moves(w, [r EXCEPT !.step = "checked", !.asked = asked,
                             !.want = [r.seen EXCEPT !.role = role, !.active = active]])
    BY <1>7 DEF EditCheck
  <2>2. /\ r.op = "edit" /\ r.step = "loaded"
        /\ r.target \in Users /\ Exists(r.target) /\ r.seen \in User
    BY <1>7, <1>t DEF EditCheck, At, Aware
  <2>3. [r.seen EXCEPT !.role = role, !.active = active] \in User
    BY <2>2 DEF User
  <2>4. [r EXCEPT !.step = "checked", !.asked = asked,
                  !.want = [r.seen EXCEPT !.role = role, !.active = active]] \in Request
    BY <1>t, <2>3 DEF Request, Steps
  <2>5. Aware(w)'
    BY <1>7, <1>t, <2>1, <2>2, <2>3
    DEF Aware, Moves, Request, TypeInv, TypeOK, EditCheck, Reads, tables, Exists
  <2> QED BY <1>7, <1>t, <2>1, <2>4, <2>5, ReadsKeepType DEF EditCheck
<1>8. CASE EditSync(w)
  <2> DEFINE held == {e \in Engagements : <<r.target, e>> \in assigned}
  <2>1. [r EXCEPT !.step = "synced", !.held = held] \in Request
    BY <1>t DEF Request, Steps
  <2>2. Aware(w)'
    BY <1>8, <1>t DEF EditSync, At, Aware, Moves, Request, TypeInv, TypeOK, Reads, tables, Exists
  <2> QED BY <1>8, <1>t, <2>1, <2>2, ReadsKeepType DEF EditSync
<1>9. CASE EditCommit(w)
  <2> DEFINE added == Added(r)
  <2>1. CASE added \cap assigned # {}
    BY <1>9, <1>t, <2>1, EndsKeepType DEF EditCommit
  <2>2. CASE added \cap assigned = {}
    <3>1. r.target \in Users /\ Exists(r.target) /\ r.seen \in User /\ r.want \in User
      BY <1>9, <1>t DEF EditCommit, Aware
    <3>2. users[r.target] \in User
      BY <3>1 DEF Exists, TypeInv, TypeOK
    <3>3. Merged(users[r.target], r.seen, r.want) \in User
      BY <3>1, <3>2, MergedIsUser
    <3>4. added \subseteq Users \X Engagements
      BY <1>t, <3>1 DEF Request, Added
    <3>5. users' = [users EXCEPT ![r.target] = Merged(users[r.target], r.seen, r.want)]
      BY <1>9, <2>2, <3>1 DEF EditCommit, TypeInv, TypeOK
    <3>6. assigned' \subseteq Users \X Engagements /\ setting' = setting /\ Commits(w)
          /\ setupComplete' = setupComplete
      BY <1>9, <2>2, <3>4 DEF EditCommit, TypeInv, TypeOK
    <3> QED BY <1>t, <3>1, <3>3, <3>5, <3>6, CommitsKeepType DEF TypeInv, TypeOK
  <2> QED BY <2>1, <2>2
<1>10. CASE DeactivateCheck(w)
  <2>1. /\ r.op = "deactivate" /\ r.step = "loaded"
        /\ r.target \in Users /\ Exists(r.target) /\ r.seen \in User
    BY <1>10, <1>t DEF DeactivateCheck, At, Aware
  <2>2. [r.seen EXCEPT !.active = FALSE] \in User
    BY <2>1 DEF User
  <2>3. [r EXCEPT !.step = "checked", !.want = [r.seen EXCEPT !.active = FALSE]] \in Request
    BY <1>t, <2>2 DEF Request, Steps
  <2>4. Aware(w)'
    BY <1>10, <1>t, <2>1, <2>2
    DEF Aware, Moves, Request, TypeInv, TypeOK, DeactivateCheck, Reads, tables, Exists
  <2> QED BY <1>10, <1>t, <2>3, <2>4, ReadsKeepType DEF DeactivateCheck
<1>11. CASE DeactivateCommit(w)
  <2>1. r.target \in Users /\ Exists(r.target) /\ r.seen \in User /\ r.want \in User
    BY <1>11, <1>t DEF DeactivateCommit, At, Aware
  <2>2. Merged(users[r.target], r.seen, r.want) \in User
    BY <2>1, MergedIsUser DEF Exists, TypeInv, TypeOK
  <2> QED BY <1>11, <1>t, <2>1, <2>2, CommitsKeepType DEF DeactivateCommit, TypeInv, TypeOK
<1>12. CASE ResetCommit(w)
  <2>1. r.target \in Users /\ Exists(r.target) /\ r.seen \in User
    BY <1>12, <1>t DEF ResetCommit, At, Aware
  <2> DEFINE want == AfterReset(r.seen)
             row == Merged(users[r.target], r.seen, want)
  <2>2. want \in User /\ users[r.target] \in User
    BY <2>1 DEF User, Exists, TypeInv, TypeOK
  <2>3. row \in User
    BY <2>1, <2>2, MergedIsUser
  <2>4. [row EXCEPT !.password = "temporary"] \in User
    BY <2>3 DEF User, Passwords
  <2> QED BY <1>12, <1>t, <2>1, <2>4, CommitsKeepType DEF ResetCommit, TypeInv, TypeOK
<1>13. ASSUME NEW u \in Users, AccountGate(w, u) PROVE TypeInv'
  <2>1. [Idle EXCEPT !.op = "change", !.step = "gated", !.target = u] \in Request
    BY DEF Idle, Request, Steps
  <2>2. Aware(w)'
    BY <1>13 DEF AccountGate, Aware, Moves, Idle, TypeInv, TypeOK
  <2> QED BY <1>13, <2>1, <2>2, ReadsKeepType DEF AccountGate
<1>14. ASSUME NEW u \in Users, LoginLoad(w, u) PROVE TypeInv'
  <2>1. users[u] \in User
    BY <1>14 DEF LoginLoad, Exists, TypeInv, TypeOK
  <2>2. [Idle EXCEPT !.op = "login", !.step = "loaded",
                     !.target = u, !.seen = users[u]] \in Request
    BY <2>1 DEF Idle, Request, Steps
  <2>3. Aware(w)'
    BY <1>14, <2>1
    DEF LoginLoad, Aware, Moves, Idle, TypeInv, TypeOK, Reads, tables, Exists
  <2> QED BY <1>14, <2>2, <2>3, ReadsKeepType DEF LoginLoad
<1>15. CASE ChangePasswordCommit(w)
  <2>1. r.target \in Users /\ Exists(r.target) /\ r.seen \in User
    BY <1>15, <1>t DEF ChangePasswordCommit, At, Aware
  <2> DEFINE want == AfterChange(r.seen)
             row == Merged(users[r.target], r.seen, want)
  <2>2. want \in User /\ users[r.target] \in User
    BY <2>1 DEF User, Exists, TypeInv, TypeOK
  <2>3. row \in User
    BY <2>1, <2>2, MergedIsUser
  <2>4. [row EXCEPT !.password = "chosen"] \in User
    BY <2>3 DEF User, Passwords
  <2> QED BY <1>15, <1>t, <2>1, <2>4, CommitsKeepType
          DEF ChangePasswordCommit, TypeInv, TypeOK
<1>16. CASE LoginCommit(w)
  <2>1. r.target \in Users /\ Exists(r.target) /\ r.seen \in User
    BY <1>16, <1>t DEF LoginCommit, At, Aware
  <2>2. Merged(users[r.target], r.seen, r.seen) \in User
    BY <2>1, MergedIsUser DEF Exists, TypeInv, TypeOK
  <2> QED BY <1>16, <1>t, <2>1, <2>2, CommitsKeepType DEF LoginCommit, TypeInv, TypeOK
<1>17. CASE Refuse(w)
  BY <1>17, <1>t, EndsKeepType DEF Refuse
<1> QED
  BY <1>1, <1>2, <1>3, <1>4, <1>5, <1>6, <1>7, <1>8, <1>9, <1>10, <1>11, <1>12,
     <1>13, <1>14, <1>15, <1>16, <1>17 DEF Step

\* A request never meets a row that vanished or a value of the wrong kind:
\* every handler's dereference of the row it loaded is safe.
THEOREM TypeCorrect == Spec => []TypeOK
<1>1. Init => TypeInv
  BY InitType
<1>2. TypeInv /\ [Next]_vars => TypeInv'
  <2> SUFFICES ASSUME TypeInv, [Next]_vars PROVE TypeInv'
    OBVIOUS
  <2>1. CASE Restart
    BY <2>1, RestartType
  <2>2. ASSUME NEW w \in Workers, Step(w) PROVE TypeInv'
    BY <2>2, StepType
  <2>3. CASE UNCHANGED vars
    BY <2>3 DEF vars, TypeInv, TypeOK, Aware, Exists
  <2> QED BY <2>1, <2>2, <2>3 DEF Next
<1>3. TypeInv => TypeOK
  BY DEF TypeInv
<1> QED BY <1>1, <1>2, <1>3, PTL DEF Spec
-----------------------------------------------------------------------------
(* The inductive invariant.                                                *)

\* The part of IInv about single requests.
Requests == \A w \in Workers : Founded(w) /\ (raced \/ stale[w] \/ Fresh(w))

LEMMA InitInv == Init => IInv
<1> SUFFICES ASSUME Init PROVE IInv
  OBVIOUS
<1>1. TypeInv
  BY InitType
<1>2. \A u \in Users : ~Exists(u)
  BY DEF Init, Exists
<1>3. SettingComesFirst /\ AdminRemainsUnlessRaced /\ TemporaryIsForcedUnlessRaced
  BY <1>2 DEF Init, SettingComesFirst, AdminRemainsUnlessRaced, AdminRemains,
              TemporaryIsForcedUnlessRaced, TemporaryIsForced
<1>4. \A w \in Workers : Founded(w) /\ Fresh(w)
  BY DEF Init, Idle, Founded, Fresh
<1> QED BY <1>1, <1>3, <1>4 DEF IInv

\* Idle requests rely on nothing.
LEMMA IdleRelies ==
    ASSUME NEW w \in Workers, req'[w] = Idle
    PROVE  Founded(w)' /\ Fresh(w)'
BY DEF Idle, Founded, Fresh

LEMMA ReadsKeepInv ==
    ASSUME IInv, NEW w \in Workers, NEW r \in Request, Moves(w, r), Reads,
           TypeInv', Founded(w)', raced \/ stale[w] \/ Fresh(w)'
    PROVE  IInv'
<1>1. UNCHANGED <<users, setting, stale, raced>>
  BY DEF Reads, tables
<1>2. (SettingComesFirst /\ AdminRemainsUnlessRaced /\ TemporaryIsForcedUnlessRaced)'
  BY <1>1 DEF IInv, SettingComesFirst, AdminRemainsUnlessRaced, AdminRemains, ActiveAdmins,
              TemporaryIsForcedUnlessRaced, TemporaryIsForced, Exists
<1>3. ASSUME NEW v \in Workers PROVE Founded(v)' /\ (raced \/ stale[v] \/ Fresh(v))'
  <2>1. CASE v = w
    BY <1>1, <2>1
  <2>2. CASE v # w
    <3>1. req'[v] = req[v]
      BY <2>2 DEF Moves, IInv, TypeInv, TypeOK
    <3> QED BY <1>1, <3>1 DEF IInv, Founded, Fresh, OtherActiveAdmins, Exists
  <2> QED BY <2>1, <2>2
<1> QED BY <1>2, <1>3 DEF IInv

LEMMA EndsKeepInv ==
    ASSUME IInv, NEW w \in Workers, Ends(w), TypeInv'
    PROVE  IInv'
<1>1. UNCHANGED <<users, setting, raced>>
  BY DEF Ends, tables
<1>2. (SettingComesFirst /\ AdminRemainsUnlessRaced /\ TemporaryIsForcedUnlessRaced)'
  BY <1>1 DEF IInv, SettingComesFirst, AdminRemainsUnlessRaced, AdminRemains, ActiveAdmins,
              TemporaryIsForcedUnlessRaced, TemporaryIsForced, Exists
<1>3. ASSUME NEW v \in Workers PROVE Founded(v)' /\ (raced \/ stale[v] \/ Fresh(v))'
  <2>1. CASE v = w
    BY <2>1, IdleRelies DEF Ends, Moves, IInv, TypeInv, TypeOK
  <2>2. CASE v # w
    <3>1. req'[v] = req[v] /\ stale'[v] = stale[v]
      BY <2>2 DEF Ends, Moves, IInv, TypeInv, TypeOK
    <3> QED BY <1>1, <3>1 DEF IInv, Founded, Fresh, OtherActiveAdmins, Exists
  <2> QED BY <2>1, <2>2
<1> QED BY <1>2, <1>3 DEF IInv

LEMMA CommitsKeepRequests ==
    ASSUME IInv, NEW w \in Workers, Commits(w),
           NEW t \in Users, NEW row \in User, users' = [users EXCEPT ![t] = row]
    PROVE  Requests'
<1> SUFFICES ASSUME NEW v \in Workers
             PROVE  Founded(v)' /\ (raced' \/ stale'[v] \/ Fresh(v)')
  BY DEF Requests
<1>1. CASE v = w
  BY <1>1, IdleRelies DEF Commits, Moves, IInv, TypeInv, TypeOK
<1>2. CASE v # w
  <2>1. req'[v] = req[v]
    BY <1>2 DEF Commits, Moves, IInv, TypeInv, TypeOK
  <2>2. \A u \in Users : Exists(u) => Exists(u)'
    BY NoUserAssumption DEF Exists, IInv, TypeInv, TypeOK
  <2>3. Founded(v)'
    BY <2>1, <2>2 DEF IInv, Founded
  <2>4. CASE req[v].step \in {"idle", "gated"}
    BY <2>1, <2>3, <2>4 DEF Fresh
  <2>5. CASE req[v].step \notin {"idle", "gated"} /\ tables' # tables
    BY <1>2, <2>3, <2>5 DEF Commits
  <2>6. CASE req[v].step \notin {"idle", "gated"} /\ tables' = tables
    <3>1. users' = users /\ (stale[v] => stale'[v]) /\ (raced => raced')
      BY <1>2, <2>6 DEF Commits, tables, IInv, TypeInv, TypeOK
    <3>2. Fresh(v) => Fresh(v)'
      BY <2>1, <3>1 DEF Fresh, OtherActiveAdmins
    <3> QED BY <2>3, <3>1, <3>2 DEF IInv
  <2> QED BY <2>4, <2>5, <2>6
<1> QED BY <1>1, <1>2
\* A commit that replaces one row keeps an active admin if it takes none away
\* or another one is there, and keeps temporary passwords marked if its row is.
LEMMA CommitsKeepInv ==
    ASSUME IInv, NEW w \in Workers, Commits(w), TypeInv',
           NEW t \in Users, NEW row \in User, users' = [users EXCEPT ![t] = row],
           setting \/ \E u \in Users : Exists(u), setting' = setting,
           raced \/ stale[w] \/
              /\ IsActiveAdmin(users[t]) => IsActiveAdmin(row) \/ OtherActiveAdmins(t)
              /\ row.password = "temporary" =>
                    row.mustChange \/ (users[t] # NoUser
                                       /\ users[t].password = "temporary"
                                       /\ row.mustChange = users[t].mustChange)
    PROVE  IInv'
<1>1. Requests'
  BY CommitsKeepRequests
<1>2. SettingComesFirst'
  BY DEF IInv, SettingComesFirst, Exists
<1>3. raced' \/ (AdminRemains /\ TemporaryIsForced
                    => AdminRemains' /\ TemporaryIsForced')
  <2>1. CASE raced
    BY <2>1 DEF Commits
  <2>2. CASE stale[w] /\ tables' # tables
    BY <2>2 DEF Commits
  <2>3. CASE tables' = tables
    BY <2>3 DEF tables, AdminRemains, ActiveAdmins, TemporaryIsForced, Exists
  <2>4. CASE ~raced /\ ~stale[w]
    <3>1. users[t] \in User \cup {NoUser} /\ row # NoUser
      BY NoUserAssumption DEF IInv, TypeInv, TypeOK
    <3>2. users'[t] = row /\ \A u \in Users \ {t} : users'[u] = users[u]
      BY DEF IInv, TypeInv, TypeOK
    <3>3. AdminRemains => AdminRemains'
      BY <2>4, <3>2 DEF AdminRemains, ActiveAdmins, OtherActiveAdmins
    <3>4. TemporaryIsForced => TemporaryIsForced'
      BY <2>4, <3>1, <3>2 DEF TemporaryIsForced, Exists
    <3> QED BY <3>3, <3>4
  <2> QED BY <2>1, <2>2, <2>3, <2>4
<1>4. raced => raced'
  BY DEF Commits
<1>5. (AdminRemainsUnlessRaced /\ TemporaryIsForcedUnlessRaced)'
  BY <1>3, <1>4 DEF IInv, AdminRemainsUnlessRaced, TemporaryIsForcedUnlessRaced
<1> QED BY <1>1, <1>2, <1>5 DEF IInv, Requests

LEMMA RestartInv == IInv /\ Restart => IInv'
<1> SUFFICES ASSUME IInv, Restart PROVE IInv'
  OBVIOUS
<1>1. UNCHANGED <<users, setting, raced>> /\ TypeInv'
  BY RestartType DEF Restart, tables, IInv
<1>2. (SettingComesFirst /\ AdminRemainsUnlessRaced /\ TemporaryIsForcedUnlessRaced)'
  BY <1>1 DEF IInv, SettingComesFirst, AdminRemainsUnlessRaced, AdminRemains, ActiveAdmins,
              TemporaryIsForcedUnlessRaced, TemporaryIsForced, Exists
<1>3. \A w \in Workers : Founded(w)' /\ Fresh(w)'
  BY IdleRelies DEF Restart
<1> QED BY <1>1, <1>2, <1>3 DEF IInv
\* The wizard's own account is the active admin that the vault starts with.
LEMMA WizardCommitInv ==
    ASSUME IInv, NEW w \in Workers, WizardCommit(w), TypeInv'
    PROVE  IInv'
<1> DEFINE r == req[w]
<1>1. CASE Ends(w)
  BY <1>1, EndsKeepInv
<1>2. CASE ~Ends(w)
  <2>1. /\ users' = [users EXCEPT ![r.target] = r.want]
        /\ setting' = TRUE /\ ~Exists(r.target)
        /\ Commits(w)
    BY <1>2 DEF WizardCommit
  <2>2. r.target \in Users /\ r.want \in User /\ r.want = NewUser("admin")
    BY DEF WizardCommit, At, IInv, TypeInv, Aware, Founded
  <2>3. users'[r.target] = NewUser("admin")
        /\ \A u \in Users \ {r.target} : users'[u] = users[u]
    BY <2>1, <2>2 DEF IInv, TypeInv, TypeOK
  <2>4. AdminRemains'
    BY <2>2, <2>3, NoUserAssumption
    DEF AdminRemains, ActiveAdmins, IsActiveAdmin, NewUser
  <2>5. TemporaryIsForced => TemporaryIsForced'
    BY <2>3 DEF TemporaryIsForced, NewUser, Exists
  <2>6. raced => raced'
    BY <2>1 DEF Commits
  <2>7. (AdminRemainsUnlessRaced /\ TemporaryIsForcedUnlessRaced)'
    BY <2>4, <2>5, <2>6 DEF IInv, AdminRemainsUnlessRaced, TemporaryIsForcedUnlessRaced
  <2>8. Requests'
    BY <2>1, <2>2, CommitsKeepRequests
  <2>9. SettingComesFirst'
    BY <2>1 DEF SettingComesFirst
  <2> QED BY <2>7, <2>8, <2>9 DEF IInv, Requests
<1> QED BY <1>1, <1>2

LEMMA StepInv ==
    ASSUME IInv, NEW w \in Workers, Step(w)
    PROVE  IInv'
<1> DEFINE r == req[w]
<1>t. TypeInv' /\ r \in Request /\ Aware(w) /\ Founded(w) /\ TypeOK
  BY StepType DEF IInv, TypeInv, TypeOK
<1>f. raced \/ stale[w] \/ Fresh(w)
  BY DEF IInv
<1>1. CASE WizardCheck(w)
  <2>1. PICK u \in Users :
          Moves(w, [Idle EXCEPT !.op = "setup", !.step = "checked",
                                !.target = u, !.want = NewUser("admin")])
    BY <1>1 DEF WizardCheck
  <2> DEFINE n == [Idle EXCEPT !.op = "setup", !.step = "checked",
                               !.target = u, !.want = NewUser("admin")]
  <2>2. n \in Request
    BY NewAdminIsUser DEF Idle, Request, Steps
  <2>3. req'[w] = n
    BY <2>1, <1>t DEF Moves, TypeOK
  <2>4. Founded(w)' /\ Fresh(w)'
    BY <2>3 DEF Founded, Fresh, Idle
  <2> QED BY <1>1, <1>t, <2>1, <2>2, <2>4, ReadsKeepInv DEF WizardCheck
<1>2. CASE WizardCommit(w)
  BY <1>2, <1>t, WizardCommitInv
<1>3. CASE AdminGate(w)
  <2>1. PICK o \in {"create", "edit", "reset", "deactivate"} :
          Moves(w, [Idle EXCEPT !.op = o, !.step = "gated"])
    BY <1>3 DEF AdminGate
  <2> DEFINE n == [Idle EXCEPT !.op = o, !.step = "gated"]
  <2>2. n \in Request
    BY DEF Idle, Request, Steps
  <2>3. req'[w] = n /\ users' = users
    BY <1>3, <2>1, <1>t DEF Moves, TypeOK, AdminGate, Reads, tables
  <2>4. \E u \in Users : Exists(u)'
    BY <1>3, <2>3 DEF AdminGate, IsActiveAdmin, Exists
  <2>5. Founded(w)' /\ Fresh(w)'
    BY <2>3, <2>4 DEF Founded, Fresh, Idle
  <2> QED BY <1>3, <1>t, <2>1, <2>2, <2>5, ReadsKeepInv DEF AdminGate
<1>4. CASE Load(w)
  <2>1. PICK u \in Users :
          /\ Exists(u)
          /\ Moves(w, [r EXCEPT !.step = "loaded", !.target = u, !.seen = users[u]])
    BY <1>4 DEF Load
  <2> DEFINE n == [r EXCEPT !.step = "loaded", !.target = u, !.seen = users[u]]
  <2>2. n \in Request
    BY <1>t, <2>1 DEF Request, Steps, Exists, TypeOK
  <2>3. req'[w] = n /\ users' = users /\ r.step = "gated"
    BY <1>4, <2>1, <1>t DEF Moves, TypeOK, Load, Reads, tables
  <2>4. Founded(w)'
    BY <1>t, <2>2, <2>3 DEF Founded, Request
  <2>5. Fresh(w)'
    BY <1>t, <2>2, <2>3 DEF Fresh, Request
  <2> QED BY <1>4, <1>t, <2>1, <2>2, <2>4, <2>5, ReadsKeepInv DEF Load
<1>5. CASE CreateCheck(w)
  <2>1. PICK u \in Users, role \in Roles :
          Moves(w, [r EXCEPT !.step = "checked", !.target = u, !.want = NewUser(role)])
    BY <1>5 DEF CreateCheck
  <2> DEFINE n == [r EXCEPT !.step = "checked", !.target = u, !.want = NewUser(role)]
  <2>2. NewUser(role) \in User
    BY DEF NewUser, User, Passwords
  <2>3. n \in Request
    BY <1>t, <2>2 DEF Request, Steps
  <2>4. req'[w] = n /\ users' = users /\ r.op = "create" /\ r.step = "gated"
    BY <1>5, <2>1, <1>t DEF Moves, TypeOK, CreateCheck, At, Reads, tables
  <2>5. Founded(w)'
    BY <1>t, <2>4 DEF Founded, Request, Exists
  <2>6. Fresh(w)'
    BY <1>t, <2>4 DEF Fresh, Request
  <2> QED BY <1>5, <1>t, <2>1, <2>3, <2>5, <2>6, ReadsKeepInv DEF CreateCheck
<1>6. CASE CreateCommit(w)
  <2>1. CASE Exists(r.target)
    BY <1>6, <1>t, <2>1, EndsKeepInv DEF CreateCommit
  <2>2. CASE ~Exists(r.target)
    <3>1. /\ r.target \in Users /\ r.want \in User
          /\ \E u \in Users : Exists(u)
          /\ \E role \in Roles : r.want = NewUser(role)
      BY <1>6, <1>t DEF CreateCommit, At, Aware, Founded
    <3>3. r.want.password = "chosen"
      BY <3>1 DEF NewUser
    <3>2. users[r.target] = NoUser
      BY <2>2 DEF Exists
    <3> QED BY <1>6, <1>t, <2>2, <3>1, <3>2, <3>3, CommitsKeepInv
            DEF CreateCommit, IsActiveAdmin
  <2> QED BY <2>1, <2>2
<1>7. CASE EditCheck(w)
  <2>1. PICK role \in Roles, active \in BOOLEAN, asked \in SUBSET Engagements :
          /\ (r.seen.role = "admin" /\ (role # "admin" \/ ~active))
                => OtherActiveAdmins(r.target)
          /\ Moves(w, [r EXCEPT !.step = "checked", !.asked = asked,
                                !.want = [r.seen EXCEPT !.role = role, !.active = active]])
    BY <1>7 DEF EditCheck
  <2> DEFINE want == [r.seen EXCEPT !.role = role, !.active = active]
             n == [r EXCEPT !.step = "checked", !.asked = asked, !.want = want]
  <2>2. r.op = "edit" /\ r.step = "loaded" /\ r.seen \in User
    BY <1>7, <1>t DEF EditCheck, At, Aware
  <2>3. /\ want \in User /\ want.role = role /\ want.active = active
        /\ want.password = r.seen.password /\ want.mustChange = r.seen.mustChange
    BY <2>2 DEF User
  <2>4. n \in Request /\ req'[w] = n /\ users' = users
    BY <1>7, <1>t, <2>1, <2>3 DEF Request, Steps, Moves, TypeOK, EditCheck, Reads, tables
  <2>5. /\ req'[w].op = "edit" /\ req'[w].step = "checked" /\ req'[w].want = want
        /\ req'[w].seen = r.seen /\ req'[w].target = r.target
    BY <1>t, <2>2, <2>4 DEF Request
  <2>6. Founded(w)'
    BY <2>3, <2>5 DEF Founded
  <2>7. Fresh(w) => Fresh(w)'
    BY <2>1, <2>2, <2>3, <2>4, <2>5 DEF Fresh, OtherActiveAdmins
  <2> QED BY <1>7, <1>t, <1>f, <2>1, <2>4, <2>6, <2>7, ReadsKeepInv DEF EditCheck
<1>8. CASE EditSync(w)
  <2> DEFINE n == [r EXCEPT !.step = "synced",
                            !.held = {e \in Engagements : <<r.target, e>> \in assigned}]
  <2>1. n \in Request /\ req'[w] = n /\ users' = users
    BY <1>8, <1>t DEF Request, Steps, Moves, TypeOK, EditSync, Reads, tables
  <2>2. /\ r.op = "edit" /\ r.step = "checked"
        /\ req'[w].op = "edit" /\ req'[w].step = "synced" /\ req'[w].want = r.want
        /\ req'[w].seen = r.seen /\ req'[w].target = r.target
    BY <1>8, <1>t, <2>1 DEF Request, EditSync, At
  <2>3. Founded(w)'
    BY <1>t, <2>2 DEF Founded
  <2>4. Fresh(w) => Fresh(w)'
    BY <2>1, <2>2 DEF Fresh, OtherActiveAdmins
  <2> QED BY <1>8, <1>t, <1>f, <2>1, <2>3, <2>4, ReadsKeepInv DEF EditSync
<1>9. CASE EditCommit(w)
  <2> DEFINE added == Added(r)
             row == Merged(users[r.target], r.seen, r.want)
  <2>1. CASE added \cap assigned # {}
    BY <1>9, <1>t, <2>1, EndsKeepInv DEF EditCommit
  <2>2. CASE added \cap assigned = {}
    <3>1. /\ r.target \in Users /\ Exists(r.target) /\ r.seen \in User /\ r.want \in User
          /\ r.op = "edit" /\ r.step \in {"checked", "synced"}
      BY <1>9, <1>t DEF EditCommit, Aware
    <3>2. users[r.target] \in User
      BY <1>t, <3>1 DEF Exists, TypeOK
    <3>3. row \in User
      BY <3>1, <3>2, MergedIsUser
    <3>4. users' = [users EXCEPT ![r.target] = row] /\ setting' = setting /\ Commits(w)
      BY <1>9, <1>t, <2>2, <3>1 DEF EditCommit, TypeOK
    <3>5. row.password = users[r.target].password
          /\ row.mustChange = users[r.target].mustChange
      BY <1>t, <3>1 DEF Founded, Merged, Column
    <3>6. Fresh(w) => (IsActiveAdmin(users[r.target])
                          => IsActiveAdmin(row) \/ OtherActiveAdmins(r.target))
      <4>1. SUFFICES ASSUME Fresh(w), IsActiveAdmin(users[r.target]), ~IsActiveAdmin(row)
                     PROVE  OtherActiveAdmins(r.target)
        OBVIOUS
      <4>2. users[r.target] = r.seen
        BY <4>1, <3>1 DEF Fresh
      <4>3. row.role = r.want.role /\ row.active = r.want.active
        BY <4>2 DEF Merged, Column
      <4> QED BY <4>1, <4>2, <4>3, <3>1, <3>3, NoUserAssumption DEF Fresh, IsActiveAdmin
    <3> QED BY <1>t, <1>f, <3>1, <3>2, <3>3, <3>4, <3>5, <3>6, CommitsKeepInv,
               NoUserAssumption DEF Exists
  <2> QED BY <2>1, <2>2
<1>10. CASE DeactivateCheck(w)
  <2> DEFINE want == [r.seen EXCEPT !.active = FALSE]
             n == [r EXCEPT !.step = "checked", !.want = want]
  <2>1. r.op = "deactivate" /\ r.step = "loaded" /\ r.seen \in User
        /\ (r.seen.role = "admin" => OtherActiveAdmins(r.target))
    BY <1>10, <1>t DEF DeactivateCheck, At, Aware
  <2>2. /\ want \in User
        /\ want.password = r.seen.password /\ want.mustChange = r.seen.mustChange
    BY <2>1 DEF User
  <2>3. n \in Request /\ req'[w] = n /\ users' = users
    BY <1>10, <1>t, <2>2 DEF Request, Steps, Moves, TypeOK, DeactivateCheck, Reads, tables
  <2>4. /\ req'[w].op = "deactivate" /\ req'[w].step = "checked" /\ req'[w].want = want
        /\ req'[w].seen = r.seen /\ req'[w].target = r.target
    BY <1>t, <2>1, <2>3 DEF Request
  <2>5. Founded(w)'
    BY <2>2, <2>4 DEF Founded
  <2>6. Fresh(w) => Fresh(w)'
    BY <2>1, <2>3, <2>4 DEF Fresh, OtherActiveAdmins
  <2> QED BY <1>10, <1>t, <1>f, <2>3, <2>5, <2>6, ReadsKeepInv DEF DeactivateCheck
<1>11. CASE DeactivateCommit(w)
  <2> DEFINE row == Merged(users[r.target], r.seen, r.want)
  <2>1. /\ r.target \in Users /\ Exists(r.target) /\ r.seen \in User /\ r.want \in User
        /\ r.op = "deactivate" /\ r.step = "checked"
    BY <1>11, <1>t DEF DeactivateCommit, At, Aware
  <2>2. users[r.target] \in User /\ row \in User
    BY <1>t, <2>1, MergedIsUser DEF Exists, TypeOK
  <2>3. users' = [users EXCEPT ![r.target] = row] /\ setting' = setting /\ Commits(w)
    BY <1>11, <1>t, <2>1 DEF DeactivateCommit, TypeOK
  <2>4. row.password = users[r.target].password
        /\ row.mustChange = users[r.target].mustChange
    BY <1>t, <2>1 DEF Founded, Merged, Column
  <2>5. Fresh(w) => (IsActiveAdmin(users[r.target])
                        => IsActiveAdmin(row) \/ OtherActiveAdmins(r.target))
    <3>1. SUFFICES ASSUME Fresh(w), IsActiveAdmin(users[r.target]), ~IsActiveAdmin(row)
                   PROVE  OtherActiveAdmins(r.target)
      OBVIOUS
    <3>2. users[r.target] = r.seen
      BY <3>1, <2>1 DEF Fresh
    <3>3. row.role = r.want.role /\ row.active = r.want.active
      BY <3>2 DEF Merged, Column
    <3> QED BY <3>1, <3>2, <3>3, <2>1, <2>2, NoUserAssumption DEF Fresh, IsActiveAdmin
  <2> QED BY <1>t, <1>f, <2>1, <2>2, <2>3, <2>4, <2>5, CommitsKeepInv,
             NoUserAssumption DEF Exists
<1>12. CASE ResetCommit(w)
  <2> DEFINE want == AfterReset(r.seen)
             cur == users[r.target]
             row == [Merged(cur, r.seen, want) EXCEPT !.password = "temporary"]
  <2>1. /\ r.target \in Users /\ Exists(r.target) /\ r.seen \in User
        /\ r.op = "reset" /\ r.step = "loaded"
    BY <1>12, <1>t DEF ResetCommit, At, Aware
  <2>2. want \in User /\ cur \in User /\ want.role = r.seen.role
        /\ want.active = r.seen.active /\ want.mustChange = TRUE
    BY <1>t, <2>1 DEF User, Exists, TypeOK
  <2>3. row \in User /\ row.role = cur.role /\ row.active = cur.active
    BY <2>1, <2>2, MergedIsUser DEF Merged, Column, User, Passwords
  <2>4. users' = [users EXCEPT ![r.target] = row] /\ setting' = setting /\ Commits(w)
    BY <1>12, <1>t, <2>1 DEF ResetCommit, TypeOK
  <2>5. Fresh(w) => row.mustChange
    BY <2>1, <2>2 DEF Fresh, Merged, Column, User
  <2>6. IsActiveAdmin(cur) => IsActiveAdmin(row)
    BY <2>3, NoUserAssumption DEF IsActiveAdmin
  <2> QED BY <1>t, <1>f, <2>1, <2>3, <2>4, <2>5, <2>6, CommitsKeepInv
<1>13. ASSUME NEW u \in Users, AccountGate(w, u) PROVE IInv'
  <2> DEFINE n == [Idle EXCEPT !.op = "change", !.step = "gated", !.target = u]
  <2>1. n \in Request /\ req'[w] = n /\ users' = users
    BY <1>13, <1>t DEF Idle, Request, Steps, AccountGate, Moves, TypeOK, Reads, tables
  <2>2. Founded(w)' /\ Fresh(w)'
    BY <1>13, <2>1 DEF AccountGate, Founded, Fresh, Idle, Exists
  <2> QED BY <1>13, <1>t, <2>1, <2>2, ReadsKeepInv DEF AccountGate
<1>14. ASSUME NEW u \in Users, LoginLoad(w, u) PROVE IInv'
  <2> DEFINE n == [Idle EXCEPT !.op = "login", !.step = "loaded",
                               !.target = u, !.seen = users[u]]
  <2>1. users[u] \in User
    BY <1>14, <1>t DEF LoginLoad, Exists, TypeOK
  <2>2. n \in Request /\ req'[w] = n
    BY <1>14, <1>t, <2>1 DEF Idle, Request, Steps, LoginLoad, Moves, TypeOK
  <2>3. Founded(w)' /\ Fresh(w)'
    BY <2>2 DEF Founded, Fresh, Idle
  <2> QED BY <1>14, <1>t, <2>2, <2>3, ReadsKeepInv DEF LoginLoad
<1>15. CASE ChangePasswordCommit(w)
  <2> DEFINE want == AfterChange(r.seen)
             cur == users[r.target]
             row == [Merged(cur, r.seen, want) EXCEPT !.password = "chosen"]
  <2>1. r.target \in Users /\ Exists(r.target) /\ r.seen \in User
    BY <1>15, <1>t DEF ChangePasswordCommit, At, Aware
  <2>2. want \in User /\ cur \in User /\ want.role = r.seen.role
        /\ want.active = r.seen.active
    BY <1>t, <2>1 DEF User, Exists, TypeOK
  <2>3. /\ row \in User /\ row.role = cur.role /\ row.active = cur.active
        /\ row.password = "chosen"
    BY <2>1, <2>2, MergedIsUser DEF Merged, Column, User, Passwords
  <2>4. users' = [users EXCEPT ![r.target] = row] /\ setting' = setting /\ Commits(w)
    BY <1>15, <1>t, <2>1 DEF ChangePasswordCommit, TypeOK
  <2>5. IsActiveAdmin(cur) => IsActiveAdmin(row)
    BY <2>3, NoUserAssumption DEF IsActiveAdmin
  <2> QED BY <1>t, <2>1, <2>3, <2>4, <2>5, CommitsKeepInv
<1>16. CASE LoginCommit(w)
  <2> DEFINE cur == users[r.target]
             row == Merged(cur, r.seen, r.seen)
  <2>1. r.target \in Users /\ Exists(r.target) /\ r.seen \in User
    BY <1>16, <1>t DEF LoginCommit, At, Aware
  <2>2. cur \in User
    BY <1>t, <2>1 DEF Exists, TypeOK
  <2>3. row \in User /\ row = cur
    BY <2>1, <2>2, MergedIsUser DEF Merged, Column, User
  <2>4. users' = [users EXCEPT ![r.target] = row] /\ setting' = setting /\ Commits(w)
    BY <1>16, <1>t, <2>1 DEF LoginCommit, TypeOK
  <2> QED BY <1>t, <2>1, <2>2, <2>3, <2>4, CommitsKeepInv, NoUserAssumption
<1>17. CASE Refuse(w)
  BY <1>17, <1>t, EndsKeepInv DEF Refuse
<1> QED
  BY <1>1, <1>2, <1>3, <1>4, <1>5, <1>6, <1>7, <1>8, <1>9, <1>10, <1>11, <1>12,
     <1>13, <1>14, <1>15, <1>16, <1>17 DEF Step

LEMMA InvariantHolds == Spec => []IInv
<1>1. IInv /\ [Next]_vars => IInv'
  <2> SUFFICES ASSUME IInv, [Next]_vars PROVE IInv'
    OBVIOUS
  <2>1. CASE Restart
    BY <2>1, RestartInv
  <2>2. ASSUME NEW w \in Workers, Step(w) PROVE IInv'
    BY <2>2, StepInv
  <2>3. CASE UNCHANGED vars
    BY <2>3 DEF vars, IInv, TypeInv, TypeOK, Aware, Founded, Fresh, SettingComesFirst,
                AdminRemainsUnlessRaced, AdminRemains, ActiveAdmins, OtherActiveAdmins,
                TemporaryIsForcedUnlessRaced, TemporaryIsForced, Exists
  <2> QED BY <2>1, <2>2, <2>3 DEF Next
<1> QED BY InitInv, <1>1, PTL DEF Spec

\* A vault that is set up keeps an active admin for as long as no request has
\* committed on reads that another commit had overtaken: the check before
\* "Cannot demote or deactivate the last remaining admin" is sound serially.
THEOREM LastAdminCheckIsSound == Spec => []AdminRemainsUnlessRaced
<1>1. IInv => AdminRemainsUnlessRaced
  BY DEF IInv
<1> QED BY InvariantHolds, <1>1, PTL

\* Without such a commit, whoever signs in with an admin's temporary password
\* is marked for the password gate.
THEOREM ResetForcesChange == Spec => []TemporaryIsForcedUnlessRaced
<1>1. IInv => TemporaryIsForcedUnlessRaced
  BY DEF IInv
<1> QED BY InvariantHolds, <1>1, PTL
-----------------------------------------------------------------------------
(* Every commit is a step of UserTable.                                    *)

\* A row that agrees on role and active is the old one with a password set.
LEMMA OnlyPassword ==
    ASSUME NEW cur \in User, NEW row \in User,
           row.role = cur.role, row.active = cur.active
    PROVE  row = [cur EXCEPT !.password = row.password, !.mustChange = row.mustChange]
BY DEF User

LEMMA StepRefines ==
    ASSUME IInv, NEW w \in Workers, Step(w)
    PROVE  [Table!Next]_users
<1> USE DEF Table!Next
<1> DEFINE r == req[w]
<1>t. Aware(w) /\ Founded(w) /\ TypeOK
  BY DEF IInv, TypeInv
<1> SUFFICES ASSUME users' # users
             PROVE  \E u \in Users : \/ Table!Found(u) \/ Table!Enrol(u)
                                     \/ Table!Reassign(u) \/ Table!Reset(u)
                                     \/ Table!Choose(u)
  OBVIOUS
<1>1. CASE WizardCommit(w)
  <2>1. ~Ends(w)
    BY DEF Ends, tables
  <2>2. /\ ~setting /\ r.target \in Users /\ r.want = NewUser("admin")
        /\ users' = [users EXCEPT ![r.target] = r.want]
    BY <1>1, <1>t, <2>1 DEF WizardCommit, At, Aware, Founded, TypeOK
  <2>3. \A v \in Users : users[v] = NoUser
    BY <2>2 DEF IInv, SettingComesFirst, Exists
  <2> QED BY <2>2, <2>3 DEF Table!Found, Table!NewUser, NewUser
<1>2. CASE CreateCommit(w)
  <2>1. ~Ends(w)
    BY DEF Ends, tables
  <2>2. /\ ~Exists(r.target) /\ r.target \in Users
        /\ users' = [users EXCEPT ![r.target] = r.want]
    BY <1>2, <1>t, <2>1 DEF CreateCommit, At, Aware
  <2>3. (\E u \in Users : Exists(u)) /\ (\E role \in Roles : r.want = NewUser(role))
    BY <1>2, <1>t DEF CreateCommit, At, Founded
  <2> QED BY <2>2, <2>3 DEF Table!Enrol, Table!NewUser, NewUser, Exists
<1>3. CASE EditCommit(w) \/ DeactivateCommit(w)
  <2> DEFINE row == Merged(users[r.target], r.seen, r.want)
  <2>1. /\ r.target \in Users /\ Exists(r.target) /\ r.seen \in User /\ r.want \in User
        /\ r.op \in {"edit", "deactivate"} /\ r.step \in {"checked", "synced"}
    BY <1>3, <1>t DEF EditCommit, DeactivateCommit, At, Aware
  <2>2. ~Ends(w)
    BY DEF Ends, tables
  <2>3. users' = [users EXCEPT ![r.target] = row]
    BY <1>3, <1>t, <2>1, <2>2 DEF EditCommit, DeactivateCommit, TypeOK
  <2>4. users[r.target] \in User /\ row \in User
    BY <1>t, <2>1, MergedIsUser DEF Exists, TypeOK
  <2>5. row.password = users[r.target].password
        /\ row.mustChange = users[r.target].mustChange
    BY <1>t, <2>1 DEF Founded, Merged, Column
  <2>6. row = [users[r.target] EXCEPT !.role = row.role, !.active = row.active]
    BY <2>4, <2>5 DEF User
  <2>7. row.role \in Roles /\ row.active \in BOOLEAN
    BY <2>4 DEF User
  <2>8. users' = [users EXCEPT ![r.target] =
                     [users[r.target] EXCEPT !.role = row.role, !.active = row.active]]
    BY <2>3, <2>6
  <2>9. Table!Reassign(r.target)
    BY <2>1, <2>7, <2>8 DEF Table!Reassign, Exists
  <2> QED BY <2>1, <2>9
<1>4. CASE ResetCommit(w)
  <2> DEFINE want == AfterReset(r.seen)
             cur == users[r.target]
             row == [Merged(cur, r.seen, want) EXCEPT !.password = "temporary"]
  <2>1. r.target \in Users /\ Exists(r.target) /\ r.seen \in User
    BY <1>4, <1>t DEF ResetCommit, At, Aware
  <2>2. want \in User /\ cur \in User
    BY <1>t, <2>1 DEF User, Exists, TypeOK
  <2>3. users' = [users EXCEPT ![r.target] = row]
    BY <1>4, <1>t, <2>1 DEF ResetCommit, TypeOK
  <2>4. /\ row \in User /\ row.role = cur.role /\ row.active = cur.active
        /\ row.password = "temporary" /\ row.mustChange \in {cur.mustChange, TRUE}
    BY <2>1, <2>2, MergedIsUser DEF Merged, Column, User, Passwords
  <2> HIDE DEF row
  <2>5. row = [cur EXCEPT !.password = "temporary", !.mustChange = row.mustChange]
    BY <2>2, <2>4, OnlyPassword
  <2>6. Table!Reset(r.target)
    BY <2>1, <2>3, <2>4, <2>5 DEF Table!Reset, Exists
  <2> QED BY <2>1, <2>6
<1>5. CASE ChangePasswordCommit(w)
  <2> DEFINE want == AfterChange(r.seen)
             cur == users[r.target]
             row == [Merged(cur, r.seen, want) EXCEPT !.password = "chosen"]
  <2>1. r.target \in Users /\ Exists(r.target) /\ r.seen \in User
    BY <1>5, <1>t DEF ChangePasswordCommit, At, Aware
  <2>2. want \in User /\ cur \in User
    BY <1>t, <2>1 DEF User, Exists, TypeOK
  <2>3. users' = [users EXCEPT ![r.target] = row]
    BY <1>5, <1>t, <2>1 DEF ChangePasswordCommit, TypeOK
  <2>4. /\ row \in User /\ row.role = cur.role /\ row.active = cur.active
        /\ row.password = "chosen" /\ row.mustChange \in {cur.mustChange, FALSE}
    BY <2>1, <2>2, MergedIsUser DEF Merged, Column, User, Passwords
  <2> HIDE DEF row
  <2>5. row = [cur EXCEPT !.password = "chosen", !.mustChange = row.mustChange]
    BY <2>2, <2>4, OnlyPassword
  <2>6. Table!Choose(r.target)
    BY <2>1, <2>3, <2>4, <2>5 DEF Table!Choose, Exists
  <2> QED BY <2>1, <2>6
<1>6. CASE LoginCommit(w)
  <2>1. r.target \in Users /\ Exists(r.target) /\ r.seen \in User
    BY <1>6, <1>t DEF LoginCommit, At, Aware
  <2>2. Merged(users[r.target], r.seen, r.seen) = users[r.target]
    BY <1>t, <2>1 DEF Merged, Column, User, Exists, TypeOK
  <2> QED BY <1>6, <1>t, <2>1, <2>2 DEF LoginCommit, TypeOK
<1>7. CASE Refuse(w)
  BY <1>7 DEF Refuse, Ends, tables
<1>8. CASE Reads
  BY <1>8 DEF Reads, tables
<1> QED
  BY <1>1, <1>2, <1>3, <1>4, <1>5, <1>6, <1>7, <1>8
  DEF Step, WizardCheck, AdminGate, Load, CreateCheck, EditCheck, EditSync,
      DeactivateCheck, AccountGate, LoginLoad

\* However requests interleave, the table only ever takes UserTable's steps:
\* the first account is an admin, an account stays, and a commit keeps the
\* columns that its request is not about.
THEOREM TableRefinement == Spec => ImplementsUserTable
<1>1. Init => Table!Init
  BY DEF Init, Table!Init
<1>2. IInv /\ [Next]_vars => [Table!Next]_users
  <2> SUFFICES ASSUME IInv, [Next]_vars PROVE [Table!Next]_users
    OBVIOUS
  <2>1. CASE Restart
    BY <2>1 DEF Restart, tables
  <2>2. ASSUME NEW w \in Workers, Step(w) PROVE [Table!Next]_users
    BY <2>2, StepRefines
  <2>3. CASE UNCHANGED vars
    BY <2>3 DEF vars
  <2> QED BY <2>1, <2>2, <2>3 DEF Next
<1> QED BY InvariantHolds, <1>1, <1>2, PTL DEF Spec, ImplementsUserTable, Table!Spec

-----------------------------------------------------------------------------
(* The wizard.                                                             *)

\* A step of one worker leaves the others' requests alone.
LEMMA StepMovesOne ==
    ASSUME TypeOK, NEW v \in Workers, Step(v), NEW w \in Workers \ {v}
    PROVE  req'[w] = req[w]
<1>1. \A r : Moves(v, r) => req'[w] = req[w]
  BY DEF Moves, TypeOK
<1>2. (Ends(v) \/ Commits(v)) => req'[w] = req[w]
  BY <1>1 DEF Ends, Commits
<1>3. CASE WizardCheck(v) \/ AdminGate(v) \/ Load(v) \/ CreateCheck(v)
  BY <1>1, <1>3 DEF WizardCheck, AdminGate, Load, CreateCheck
<1>4. CASE EditCheck(v) \/ EditSync(v) \/ DeactivateCheck(v)
  BY <1>1, <1>4 DEF EditCheck, EditSync, DeactivateCheck
<1>5. CASE \E u \in Users : AccountGate(v, u) \/ LoginLoad(v, u)
  BY <1>1, <1>5 DEF AccountGate, LoginLoad
<1>6. CASE WizardCommit(v) \/ CreateCommit(v) \/ EditCommit(v) \/ Refuse(v)
  BY <1>2, <1>6 DEF WizardCommit, CreateCommit, EditCommit, Refuse
<1>7. CASE DeactivateCommit(v) \/ ResetCommit(v) \/ ChangePasswordCommit(v) \/ LoginCommit(v)
  BY <1>2, <1>7 DEF DeactivateCommit, ResetCommit, ChangePasswordCommit, LoginCommit
<1> QED BY <1>3, <1>4, <1>5, <1>6, <1>7 DEF Step

\* A wizard that has passed its count of the users only commits or is lost.
LEMMA WizardOnlyCommits ==
    ASSUME NEW w \in Workers, At(w, "setup", "checked"), Step(w)
    PROVE  WizardCommit(w)
<1>1. req[w].op = "setup" /\ req[w].step = "checked" /\ req[w] # Idle
  BY DEF At, Idle
<1> QED
  BY <1>1 DEF Step, At, WizardCheck, AdminGate, Load, CreateCheck, CreateCommit,
              EditCheck, EditSync, EditCommit, DeactivateCheck, DeactivateCommit,
              ResetCommit, AccountGate, LoginLoad, ChangePasswordCommit, LoginCommit,
              Refuse

\* Two browsers with the wizard open found the vault once: the first commit
\* leaves the settings row, on whose key the second one fails.
THEOREM VaultIsFoundedOnce == Spec => WizardFoundsOnce
<1>1. ASSUME IInv, [Next]_vars, NEW w \in Workers, At(w, "setup", "checked"),
             ~At(w, "setup", "checked")', users' # users
      PROVE  \A u \in Users : ~Exists(u)
  <2>1. ~Restart /\ ~UNCHANGED vars
    BY <1>1 DEF Restart, tables, vars
  <2>2. PICK v \in Workers : Step(v)
    BY <1>1, <2>1 DEF Next
  <2>3. v = w
    BY <1>1, <2>2, StepMovesOne DEF IInv, TypeInv, At
  <2>4. WizardCommit(w)
    BY <1>1, <2>2, <2>3, WizardOnlyCommits
  <2>5. ~setting
    BY <1>1, <2>4 DEF WizardCommit, Ends, tables
  <2> QED BY <1>1, <2>5 DEF IInv, SettingComesFirst
<1>2. IInv /\ [Next]_vars =>
        [\A w \in Workers :
            /\ At(w, "setup", "checked") /\ ~At(w, "setup", "checked")'
            /\ users' # users
            => \A u \in Users : ~Exists(u)]_vars
  BY <1>1
<1> QED BY InvariantHolds, <1>2, PTL DEF Spec, WizardFoundsOnce

-----------------------------------------------------------------------------
(* Roles and scopes.                                                       *)

\* A deactivation sends no role; the assignments are read by a blueteam edit only,
\* which knows them at its commit unless its reads were overtaken; any other edit
\* asks for none.
Scoped(w) ==
    LET r == req[w] IN
    /\ r.op = "deactivate" /\ r.step = "checked" => r.want.role = r.seen.role
    /\ r.step # "synced" => r.held = {}
    /\ r.op = "edit" /\ r.step = "checked" /\ r.want.role # "blueteam" => r.asked = {}
    /\ r.op = "edit" /\ r.step = "synced" => stale[w] \/ r.held = ScopeOf(r.target)

\* Every step of a worker reads, ends its request or commits.
LEMMA StepKinds ==
    ASSUME NEW v \in Workers, Step(v)
    PROVE  Reads \/ Ends(v) \/ Commits(v)
<1>1. CASE WizardCheck(v) \/ AdminGate(v) \/ Load(v) \/ CreateCheck(v)
  BY <1>1 DEF WizardCheck, AdminGate, Load, CreateCheck
<1>2. CASE EditCheck(v) \/ EditSync(v) \/ DeactivateCheck(v)
  BY <1>2 DEF EditCheck, EditSync, DeactivateCheck
<1>3. CASE \E u \in Users : AccountGate(v, u) \/ LoginLoad(v, u)
  BY <1>3 DEF AccountGate, LoginLoad
<1>4. CASE WizardCommit(v) \/ CreateCommit(v) \/ EditCommit(v) \/ Refuse(v)
  BY <1>4 DEF WizardCommit, CreateCommit, EditCommit, Refuse
<1>5. CASE DeactivateCommit(v) \/ ResetCommit(v) \/ ChangePasswordCommit(v) \/ LoginCommit(v)
  BY <1>5 DEF DeactivateCommit, ResetCommit, ChangePasswordCommit, LoginCommit
<1> QED BY <1>1, <1>2, <1>3, <1>4, <1>5 DEF Step

\* What the other workers know stays true, or they are stale.
LEMMA OthersStayScoped ==
    ASSUME TypeOK, NEW v \in Workers, Step(v), NEW w \in Workers \ {v}, Scoped(w)
    PROVE  Scoped(w)'
<1>1. req'[w] = req[w]
  BY StepMovesOne
<1>2. CASE Reads \/ Ends(v)
  <2>1. stale'[w] = stale[w] /\ assigned' = assigned
    BY <1>2 DEF Reads, Ends, tables, TypeOK
  <2> QED BY <1>1, <2>1 DEF Scoped, ScopeOf
<1>3. CASE Commits(v)
  <2>1. req[w].step = "synced" => (stale'[w] <=> (stale[w] \/ tables' # tables))
    BY <1>3 DEF Commits
  <2>2. tables' = tables => assigned' = assigned
    BY DEF tables
  <2> QED BY <1>1, <2>1, <2>2 DEF Scoped, ScopeOf
<1> QED BY <1>2, <1>3, StepKinds

LEMMA SelfStaysScoped ==
    ASSUME TypeInv, NEW v \in Workers, Scoped(v), Step(v)
    PROVE  Scoped(v)'
<1> USE DEF TypeInv
<1>1. \A r : Moves(v, r) => req'[v] = r
  BY DEF Moves, TypeOK
<1>0. req[v] \in Request
  BY DEF TypeOK
<1>2. ASSUME Ends(v) \/ Commits(v) PROVE Scoped(v)'
  BY <1>1, <1>2 DEF Ends, Commits, Scoped, Idle
<1>3. ASSUME NEW s \in {"gated", "loaded"}, req'[v].step = s, req'[v].held = {} PROVE Scoped(v)'
  BY <1>3 DEF Scoped
<1>4. CASE WizardCheck(v)
  <2>1. req'[v].op = "setup" /\ req'[v].held = {}
    BY <1>1, <1>4 DEF WizardCheck, Idle
  <2> QED BY <2>1 DEF Scoped
<1>5. CASE AdminGate(v)
  <2>1. req'[v].step = "gated" /\ req'[v].held = {}
    BY <1>1, <1>5 DEF AdminGate, Idle
  <2> QED BY <1>3, <2>1
<1>6. CASE Load(v)
  <2>1. req[v].held = {}
    BY <1>6 DEF Load, Scoped
  <2>2. PICK u \in Users :
           req'[v] = [req[v] EXCEPT !.step = "loaded", !.target = u, !.seen = users[u]]
    BY <1>1, <1>6 DEF Load
  <2>3. req'[v].step = "loaded" /\ req'[v].held = {}
    BY <1>0, <2>1, <2>2 DEF Request
  <2> QED BY <1>3, <2>3
<1>7. CASE CreateCheck(v)
  <2>0. req[v].held = {}
    BY <1>7 DEF CreateCheck, At, Scoped
  <2>1. req'[v].op = "create" /\ req'[v].step = "checked" /\ req'[v].held = {}
    BY <1>0, <1>1, <1>7, <2>0 DEF CreateCheck, At, Request
  <2> QED BY <2>1 DEF Scoped
<1>8. CASE EditCheck(v)
  <2>1. PICK role \in Roles, active \in BOOLEAN, asked \in SUBSET Engagements :
           /\ role # "blueteam" => asked = {}
           /\ Moves(v, [req[v] EXCEPT !.step = "checked", !.asked = asked,
                                      !.want = [req[v].seen EXCEPT !.role = role,
                                                                   !.active = active]])
    BY <1>8 DEF EditCheck
  <2> DEFINE want == [req[v].seen EXCEPT !.role = role, !.active = active]
  <2>0. req[v].op = "edit" /\ req[v].held = {}
    BY <1>8 DEF EditCheck, At, Scoped
  <2>2. req[v].seen \in User
    BY <1>8 DEF EditCheck, At, Aware
  <2>3. want.role = role
    BY <2>2 DEF User
  <2>4. /\ req'[v].op = "edit" /\ req'[v].step = "checked" /\ req'[v].held = {}
        /\ req'[v].asked = asked /\ req'[v].want = want
    BY <1>0, <1>1, <2>0, <2>1 DEF Request
  <2> HIDE DEF want
  <2> QED BY <2>1, <2>3, <2>4 DEF Scoped
<1>9. CASE EditSync(v)
  <2>1. /\ req'[v].op = "edit" /\ req'[v].step = "synced" /\ req'[v].target = req[v].target
        /\ req'[v].held = ScopeOf(req[v].target)
    BY <1>0, <1>1, <1>9 DEF EditSync, At, Request, ScopeOf
  <2>2. assigned' = assigned
    BY <1>9 DEF EditSync, Reads, tables
  <2> QED BY <2>1, <2>2 DEF Scoped, ScopeOf
<1>10. CASE DeactivateCheck(v)
  <2> DEFINE want == [req[v].seen EXCEPT !.active = FALSE]
  <2>0. req[v].op = "deactivate" /\ req[v].held = {}
    BY <1>10 DEF DeactivateCheck, At, Scoped
  <2>1. /\ req'[v].op = "deactivate" /\ req'[v].want = want /\ req'[v].seen = req[v].seen
        /\ req'[v].step = "checked" /\ req'[v].held = {}
    BY <1>0, <1>1, <1>10, <2>0 DEF DeactivateCheck, At, Request
  <2>2. req[v].seen \in User
    BY <1>10 DEF DeactivateCheck, At, Aware
  <2>3. want.role = req[v].seen.role
    BY <2>2 DEF User
  <2> QED BY <2>1, <2>3 DEF Scoped
<1>11. CASE \E u \in Users : AccountGate(v, u) \/ LoginLoad(v, u)
  <2>1. PICK u \in Users : AccountGate(v, u) \/ LoginLoad(v, u)
    BY <1>11
  <2>2. CASE AccountGate(v, u)
    <3>1. req'[v].step = "gated" /\ req'[v].held = {}
      BY <1>1, <2>2 DEF AccountGate, Idle
    <3> QED BY <1>3, <3>1
  <2>3. CASE LoginLoad(v, u)
    <3>1. req'[v].step = "loaded" /\ req'[v].held = {}
      BY <1>1, <2>3 DEF LoginLoad, Idle
    <3> QED BY <1>3, <3>1
  <2> QED BY <2>1, <2>2, <2>3
<1>12. CASE WizardCommit(v) \/ CreateCommit(v) \/ EditCommit(v) \/ Refuse(v)
  BY <1>2, <1>12 DEF WizardCommit, CreateCommit, EditCommit, Refuse
<1>13. CASE DeactivateCommit(v) \/ ResetCommit(v) \/ ChangePasswordCommit(v) \/ LoginCommit(v)
  BY <1>2, <1>13 DEF DeactivateCommit, ResetCommit, ChangePasswordCommit, LoginCommit
<1> QED BY <1>4, <1>5, <1>6, <1>7, <1>8, <1>9, <1>10, <1>11, <1>12, <1>13 DEF Step

LEMMA AllScoped == Spec => [](\A w \in Workers : Scoped(w))
<1>1. Init => \A w \in Workers : Scoped(w)
  BY DEF Init, Idle, Scoped
<1>2. ASSUME IInv, \A w \in Workers : Scoped(w), [Next]_vars, NEW w \in Workers
      PROVE  Scoped(w)'
  <2>1. CASE Restart
    BY <2>1 DEF Restart, Idle, Scoped
  <2>2. CASE UNCHANGED vars
    BY <1>2, <2>2 DEF vars, Scoped, ScopeOf
  <2>3. ASSUME NEW v \in Workers, Step(v) PROVE Scoped(w)'
    BY <1>2, <2>3, OthersStayScoped, SelfStaysScoped DEF IInv, TypeInv
  <2> QED BY <1>2, <2>1, <2>2, <2>3 DEF Next
<1>3. IInv /\ (\A w \in Workers : Scoped(w)) /\ [Next]_vars => (\A w \in Workers : Scoped(w))'
  BY <1>2
<1> QED BY InvariantHolds, <1>1, <1>3, PTL DEF Spec

\* What the commit of an edit leaves of the scope of its account.
Leaves(w, u) ==
    LET r == req[w] IN
    /\ r.op = "edit" /\ r.target = u
    /\ r.asked \ r.held \subseteq ScopeOf(u)'
    /\ ScopeOf(u)' \cap (r.held \ r.asked) = {}
    /\ ScopeOf(u)' = r.asked \/ stale[w]

\* An account becomes blueteam by the commit of an edit only.
LEMMA BlueteamByEdit ==
    ASSUME IInv, NEW w \in Workers, Scoped(w), Step(w), NEW u \in Users, Exists(u),
           users[u].role # "blueteam", users'[u].role = "blueteam"
    PROVE  /\ EditCommit(w) /\ ~Ends(w)
           /\ req[w].target = u /\ req[w].step = "synced"
<1> DEFINE r == req[w]
<1>1. /\ users \in [Users -> User \cup {NoUser}] /\ users[u] \in User
      /\ r \in Request /\ users'[u] # users[u] /\ users' # users
  BY DEF IInv, TypeInv, TypeOK, Exists
<1>2. ~Reads /\ ~Ends(w)
  BY <1>1 DEF Reads, Ends, tables
<1>3. ASSUME NEW t, NEW row, users' = [users EXCEPT ![t] = row] PROVE t = u /\ row.role = "blueteam"
  BY <1>1, <1>3
<1>4. ~WizardCommit(w) /\ ~CreateCommit(w)
  <2>1. (WizardCommit(w) \/ CreateCommit(w)) => ~Exists(r.target) /\ users' = [users EXCEPT ![r.target] = r.want]
    BY <1>2 DEF WizardCommit, CreateCommit, WizardConflict
  <2> QED BY <1>3, <2>1
<1>5. ASSUME NEW want, NEW pw, Column(users[u].role, r.seen.role, want.role) # "blueteam",
             \/ users' = [users EXCEPT ![r.target] = Merged(@, r.seen, want)]
             \/ users' = [users EXCEPT ![r.target] = [Merged(@, r.seen, want) EXCEPT !.password = pw]]
      PROVE  FALSE
  <2>1. r.target = u
    BY <1>3, <1>5
  <2>2. /\ Merged(users[u], r.seen, want).role # "blueteam"
        /\ [Merged(users[u], r.seen, want) EXCEPT !.password = pw].role # "blueteam"
    BY <1>5 DEF Merged
  <2> QED BY <1>1, <1>5, <2>1, <2>2
<1>6. ~ResetCommit(w) /\ ~ChangePasswordCommit(w) /\ ~LoginCommit(w) /\ ~DeactivateCommit(w)
  <2>1. r.step = "loaded" => /\ AfterReset(r.seen).role = r.seen.role
                             /\ AfterChange(r.seen).role = r.seen.role
    BY DEF IInv, TypeInv, Aware, AfterReset, AfterChange, User
  <2>2. \A want : want.role = r.seen.role => Column(users[u].role, r.seen.role, want.role) # "blueteam"
    BY DEF Column
  <2>3. ~ResetCommit(w)
    <3> SUFFICES ASSUME ResetCommit(w) PROVE FALSE
      OBVIOUS
    <3> DEFINE want == AfterReset(r.seen)
    <3>1. users' = [users EXCEPT ![r.target] = [Merged(@, r.seen, want) EXCEPT !.password = "temporary"]]
      BY DEF ResetCommit
    <3>2. Column(users[u].role, r.seen.role, want.role) # "blueteam"
      BY <2>1, <2>2 DEF ResetCommit, At
    <3> HIDE DEF want
    <3> QED BY <1>5, <3>1, <3>2
  <2>4. ~ChangePasswordCommit(w)
    <3> SUFFICES ASSUME ChangePasswordCommit(w) PROVE FALSE
      OBVIOUS
    <3> DEFINE want == AfterChange(r.seen)
    <3>1. users' = [users EXCEPT ![r.target] = [Merged(@, r.seen, want) EXCEPT !.password = "chosen"]]
      BY DEF ChangePasswordCommit
    <3>2. Column(users[u].role, r.seen.role, want.role) # "blueteam"
      BY <2>1, <2>2 DEF ChangePasswordCommit, At
    <3> HIDE DEF want
    <3> QED BY <1>5, <3>1, <3>2
  <2>5. ~LoginCommit(w)
    BY <1>5, <2>2 DEF LoginCommit, At
  <2>6. ~DeactivateCommit(w)
    BY <1>5, <2>2 DEF DeactivateCommit, At, Scoped
  <2> QED BY <2>3, <2>4, <2>5, <2>6
<1>7. EditCommit(w)
  BY <1>2, <1>4, <1>6 DEF Step, WizardCheck, AdminGate, Load, CreateCheck, EditCheck, EditSync,
     DeactivateCheck, AccountGate, LoginLoad, Refuse
<1>8. users' = [users EXCEPT ![r.target] = Merged(@, r.seen, r.want)]
  BY <1>2, <1>7 DEF EditCommit
<1>9. r.target = u /\ Merged(users[u], r.seen, r.want).role = "blueteam"
  BY <1>1, <1>3, <1>8
<1>10. r.want.role = "blueteam"
  BY <1>1, <1>9 DEF Merged, Column
<1>11. r.want \in User
  BY <1>7 DEF EditCommit, IInv, TypeInv, Aware
<1> QED BY <1>2, <1>7, <1>9, <1>10, <1>11, NoUserAssumption DEF EditCommit

\* So does a scope change.
LEMMA ScopeByEdit ==
    ASSUME IInv, NEW w \in Workers, Scoped(w), Step(w), NEW u \in Users,
           ScopeOf(u)' # ScopeOf(u)
    PROVE  EditCommit(w) /\ ~Ends(w) /\ req[w].target = u /\ req[w].step = "synced"
<1> DEFINE r == req[w]
<1>1. assigned' # assigned
  BY DEF ScopeOf
<1>2. ~Reads /\ ~Ends(w)
  BY <1>1 DEF Reads, Ends, tables
<1>3. EditCommit(w)
  BY <1>1, <1>2 DEF Step, WizardCheck, AdminGate, Load, CreateCheck, EditCheck, EditSync,
     DeactivateCheck, AccountGate, LoginLoad, Refuse, WizardCommit, CreateCommit,
     DeactivateCommit, ResetCommit, ChangePasswordCommit, LoginCommit
<1>4. assigned' = (assigned \ Dropped(r)) \cup Added(r)
  BY <1>2, <1>3 DEF EditCommit
<1>5. ASSUME r.target # u PROVE FALSE
  <2>1. \A e : <<u, e>> \in assigned' <=> <<u, e>> \in assigned
    BY <1>4, <1>5 DEF Dropped, Added
  <2> QED BY <2>1 DEF ScopeOf
<1>6. ASSUME r.step # "synced" PROVE FALSE
  <2>1. r.op = "edit" /\ r.step = "checked" /\ r.want \in User /\ r.want.role # "blueteam"
    BY <1>3, <1>6, NoUserAssumption DEF EditCommit, IInv, TypeInv, Aware
  <2>2. r.held = {} /\ r.asked = {}
    BY <2>1 DEF Scoped
  <2> QED BY <1>1, <1>4, <2>2 DEF Dropped, Added
<1> QED BY <1>2, <1>3, <1>5, <1>6

LEMMA EditLeaves ==
    ASSUME IInv, NEW w \in Workers, Scoped(w), NEW u \in Users,
           EditCommit(w), ~Ends(w), req[w].target = u, req[w].step = "synced"
    PROVE  Leaves(w, u)
<1> DEFINE r == req[w]
<1>1. r \in Request /\ r.held \subseteq Engagements /\ r.asked \subseteq Engagements
  BY DEF IInv, TypeInv, TypeOK, Request
<1>2. /\ r.op = "edit"
      /\ assigned' = (assigned \ Dropped(r)) \cup Added(r)
  BY DEF EditCommit
<1>3. \A e : <<u, e>> \in Added(r) <=> e \in r.asked \ r.held
  BY DEF Added
<1>4. \A e : <<u, e>> \in Dropped(r) <=> e \in r.held \ r.asked
  BY DEF Dropped
<1>5. ScopeOf(u)' = (ScopeOf(u) \ (r.held \ r.asked)) \cup (r.asked \ r.held)
  BY <1>1, <1>2, <1>3, <1>4 DEF ScopeOf
<1>6. stale[w] \/ r.held = ScopeOf(u)
  BY <1>2 DEF Scoped
<1> QED BY <1>2, <1>5, <1>6 DEF Leaves

\* An account that becomes blueteam, or gets another scope as one, gets what one
\* form asked for: what it ticks anew comes, what it unticks goes, and the rest
\* is as it asked too unless the edit's reads were overtaken.
THEOREM ScopesAreAsAsked == Spec => ScopeIsAsAsked
<1>1. ASSUME IInv, \A w \in Workers : Scoped(w), [Next]_vars,
             NEW u \in Users, Exists(u), users'[u].role = "blueteam",
             users[u].role # "blueteam" \/ ScopeOf(u)' # ScopeOf(u)
      PROVE  \E w \in Workers : Leaves(w, u)
  <2>1. ~Restart /\ ~UNCHANGED vars
    BY <1>1 DEF Restart, tables, vars, ScopeOf
  <2>2. PICK w \in Workers : Step(w)
    BY <1>1, <2>1 DEF Next
  <2>3. EditCommit(w) /\ ~Ends(w) /\ req[w].target = u /\ req[w].step = "synced"
    BY <1>1, <2>2, BlueteamByEdit, ScopeByEdit
  <2> QED BY <1>1, <2>3, EditLeaves
<1>2. IInv /\ (\A w \in Workers : Scoped(w)) /\ [Next]_vars =>
        [\A u \in Users :
            /\ Exists(u) /\ users'[u].role = "blueteam"
            /\ users[u].role # "blueteam" \/ ScopeOf(u)' # ScopeOf(u)
            => \E w \in Workers : Leaves(w, u)]_vars
  BY <1>1
<1> QED BY InvariantHolds, AllScoped, <1>2, PTL DEF Spec, ScopeIsAsAsked, Leaves
=============================================================================
