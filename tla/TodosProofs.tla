---------------------------- MODULE TodosProofs -----------------------------
(***************************************************************************)
(* Theorems about Todos, for any number of todos, keys, users and workers: *)
(* whatever the requests in flight had loaded, the table behaves like the  *)
(* abstract checklist, and a revoked key stays revoked.                    *)
(***************************************************************************)
EXTENDS Todos, TLAPS

-----------------------------------------------------------------------------
(* The inductive invariant.                                                *)

\* What a request holds between its load and its commit.  The todo it loaded
\* was in the table, where rows only change or go; what it wants is what its
\* handler assigns to the row it loaded, checked as that row then was.
RequestFits(w) ==
    LET r == req[w] IN
    /\ r.op # "none" => r.todo \in Todos /\ todos[r.todo] # Unborn
    /\ r.op \notin {"none", "delete"} => r.seen \in Row
    /\ r.op = "claim" => /\ MayChangeHands(r.seen)
                         /\ \E u \in Users : r.want = Claimed(r.seen, u)
    /\ r.op = "handoff" => /\ MayChangeHands(r.seen)
                           /\ \E n \in BOOLEAN : r.want = HandedOff(r.seen, n)
    /\ r.op = "complete" => \E u \in Users : r.want = Completed(r.seen, u)
    /\ r.op = "reopen" => r.want = Reopened(r.seen)

\* What a worker holds of the key it was shown: it was not revoked then.
CallerFits(w) ==
    LET c == caller[w] IN
    /\ c.step \in {"presented", "revoking"} => /\ c.key \in Keys /\ keys[c.key] # Unissued
                                               /\ c.seen \in Key /\ ~c.seen.revoked
    /\ c.step = "admitted" => c.user \in Users
    /\ c.step # "none" => c.user \in Users

Fits(w) == RequestFits(w) /\ CallerFits(w)

IInv == TypeOK /\ \A w \in Workers : Fits(w)

-----------------------------------------------------------------------------
(* What no step does to the tables.                                        *)

\* A row handed out is never taken back, so a request that holds its id fits.
TodosSteady == \A t \in Todos : todos[t] # Unborn => todos'[t] # Unborn
KeysSteady ==
    \A k \in Keys : keys[k] # Unissued =>
        /\ keys'[k] # Unissued
        /\ keys[k].revoked => keys'[k].revoked

LEMMA IdleIsRequest == Idle \in Request
BY DEF Idle, Request

LEMMA NoCallerIsCaller == NoCaller \in Caller
BY DEF NoCaller, Caller

LEMMA IdleFits == ASSUME NEW w \in Workers, req[w] = Idle PROVE RequestFits(w)
BY DEF Idle, RequestFits

LEMMA NobodyFits == ASSUME NEW w \in Workers, caller[w] = NoCaller PROVE CallerFits(w)
BY DEF NoCaller, CallerFits

\* A worker that takes no part in a step fits after it as before.
LEMMA StillFits ==
    ASSUME TodosSteady, KeysSteady, NEW v \in Workers, Fits(v),
           req'[v] = req[v], caller'[v] = caller[v]
    PROVE  Fits(v)'
<1>1. RequestFits(v)'
  BY DEF Fits, RequestFits, TodosSteady
<1>2. CallerFits(v)'
  BY DEF Fits, CallerFits, KeysSteady
<1> QED BY <1>1, <1>2 DEF Fits

LEMMA StepFits ==
    ASSUME IInv, TypeOK', TodosSteady, KeysSteady, NEW w \in Workers, Fits(w)',
           \A v \in Workers \ {w} : req'[v] = req[v] /\ caller'[v] = caller[v]
    PROVE  IInv'
<1>1. ASSUME NEW v \in Workers PROVE Fits(v)'
  <2>1. CASE v = w
    BY <2>1
  <2>2. CASE v # w
    BY <2>2, StillFits DEF IInv
  <2> QED BY <2>1, <2>2
<1> QED BY <1>1 DEF IInv

\* A step that touches no worker.
LEMMA StepAside ==
    ASSUME IInv, TypeOK', TodosSteady, KeysSteady, UNCHANGED <<req, caller>>
    PROVE  IInv'
<1>1. ASSUME NEW v \in Workers PROVE Fits(v)'
  BY StillFits DEF IInv
<1> QED BY <1>1 DEF IInv

LEMMA TypesOfCall ==
    ASSUME TypeOK, NEW w \in Workers, NEW c \in Caller, Calls(w, c)
    PROVE  /\ caller' \in [Workers -> Caller] /\ caller'[w] = c
           /\ \A v \in Workers \ {w} : caller'[v] = caller[v]
BY DEF Calls, TypeOK, KeysTypeOK

LEMMA TypesOfRequest ==
    ASSUME TypeOK, NEW w \in Workers, NEW r \in Request, req' = [req EXCEPT ![w] = r]
    PROVE  /\ req' \in [Workers -> Request] /\ req'[w] = r
           /\ \A v \in Workers \ {w} : req'[v] = req[v]
BY DEF TypeOK

-----------------------------------------------------------------------------
(* The keys and their gate.                                                *)

LEMMA AdministerKeeps ==
    ASSUME IInv, NEW u \in Holders, Administer(u), UNCHANGED board
    PROVE  IInv' /\ KeysSteady
<1>1. TypeOK'
  BY DEF Administer, board, IInv, TypeOK, KeysTypeOK
<1>2. TodosSteady /\ KeysSteady
  BY DEF Administer, board, TodosSteady, KeysSteady
<1> QED BY <1>1, <1>2, StepAside DEF Administer, board

LEMMA IssueKeeps ==
    ASSUME IInv, NEW u \in Holders, NEW k \in Keys, Issue(u, k), UNCHANGED board
    PROVE  IInv' /\ KeysSteady
<1>1. TypeOK'
  BY DEF Issue, board, IInv, TypeOK, KeysTypeOK, NewKey, Key
<1>2. TodosSteady /\ KeysSteady
  BY DEF Issue, board, TodosSteady, KeysSteady, IInv, TypeOK, KeysTypeOK
<1> QED BY <1>1, <1>2, StepAside DEF Issue, board

\* A worker with no request of its own loads a key.
LEMMA KeyLoadKeeps ==
    ASSUME IInv, NEW w \in Workers, NEW k \in Keys, NEW s \in {"presented", "revoking"},
           caller[w] = NoCaller, IsActive(k), UNCHANGED <<keys, standing>>, UNCHANGED board,
           Calls(w, [step |-> s, key |-> k, user |-> keys[k].owner, seen |-> keys[k]])
    PROVE  IInv' /\ KeysSteady
<1> DEFINE c == [step |-> s, key |-> k, user |-> keys[k].owner, seen |-> keys[k]]
<1>1. keys[k] \in Key /\ keys[k] # Unissued /\ ~keys[k].revoked /\ keys[k].owner \in Users
  BY HoldersAssumption DEF IsActive, IInv, TypeOK, KeysTypeOK, Key
<1>2. c \in Caller
  BY <1>1 DEF Caller
<1>3. /\ caller' \in [Workers -> Caller] /\ caller'[w] = c
      /\ \A v \in Workers \ {w} : caller'[v] = caller[v]
  <2> HIDE DEF c
  <2> QED BY <1>2, TypesOfCall DEF IInv, c
<1>4. req[w] = Idle
  BY DEF IInv, TypeOK, NoCaller
<1>5. TypeOK'
  BY <1>3, <1>4 DEF board, IInv, TypeOK, KeysTypeOK
<1>6. RequestFits(w)'
  BY <1>4, IdleFits DEF board, RequestFits, Idle
<1>7. CallerFits(w)'
  BY <1>1, <1>3 DEF CallerFits
<1>8. TodosSteady /\ KeysSteady
  BY DEF board, TodosSteady, KeysSteady
<1> QED BY <1>3, <1>5, <1>6, <1>7, <1>8, StepFits DEF Fits, board

\* The gate's commit and the revocation's: the row keeps its owner, and no
\* revoked_at is ever cleared, for the row loaded had none.
LEMMA KeyWritten ==
    ASSUME IInv, NEW w \in Workers, NEW s \in BOOLEAN,
           caller[w].step \in {"presented", "revoking"},
           keys' = [keys EXCEPT ![caller[w].key] =
                       KeyAfter(@, caller[w].seen, [caller[w].seen EXCEPT !.revoked = s])]
    PROVE  keys' \in [Keys -> Key \cup {Unissued}] /\ KeysSteady
<1> DEFINE c == caller[w]
           new == KeyAfter(keys[c.key], c.seen, [c.seen EXCEPT !.revoked = s])
<1>1. c.key \in Keys /\ keys[c.key] # Unissued /\ c.seen \in Key /\ ~c.seen.revoked
  BY DEF IInv, Fits, CallerFits
<1>2. keys \in [Keys -> Key \cup {Unissued}] /\ keys[c.key] \in Key
  BY <1>1 DEF IInv, TypeOK, KeysTypeOK
<1>3. keys' = [keys EXCEPT ![c.key] = new]
  BY <1>1, <1>2
<1>4. new \in Key /\ (keys[c.key].revoked => new.revoked)
  BY <1>1, <1>2 DEF KeyAfter, Column, Key
<1> HIDE DEF c, new
<1> QED BY <1>1, <1>2, <1>3, <1>4, KeyNullsAssumption DEF KeysSteady

LEMMA KeyCommitKeeps ==
    ASSUME IInv, NEW w \in Workers, NEW s \in BOOLEAN, NEW c \in Caller,
           caller[w].step \in {"presented", "revoking"},
           keys' = [keys EXCEPT ![caller[w].key] =
                       KeyAfter(@, caller[w].seen, [caller[w].seen EXCEPT !.revoked = s])],
           Calls(w, c), c.step \in {"none", "admitted"}, c.step = "none" \/ c.user \in Users,
           UNCHANGED standing, UNCHANGED board
    PROVE  IInv' /\ KeysSteady
<1>1. keys' \in [Keys -> Key \cup {Unissued}] /\ KeysSteady
  BY KeyWritten
<1>2. /\ caller' \in [Workers -> Caller] /\ caller'[w] = c
      /\ \A v \in Workers \ {w} : caller'[v] = caller[v]
  BY TypesOfCall DEF IInv
<1>3. req[w] = Idle
  BY DEF IInv, TypeOK
<1>4. TypeOK'
  BY <1>1, <1>2, <1>3 DEF board, IInv, TypeOK, KeysTypeOK
<1>5. RequestFits(w)'
  BY <1>3 DEF board, RequestFits, Idle
<1>6. CallerFits(w)'
  BY <1>2 DEF CallerFits
<1>7. TodosSteady
  BY DEF board, TodosSteady
<1> QED BY <1>1, <1>2, <1>4, <1>5, <1>6, <1>7, StepFits DEF Fits, board

LEMMA RevokeCommitKeeps ==
    ASSUME IInv, NEW w \in Workers, RevokeCommit(w), UNCHANGED board
    PROVE  IInv' /\ KeysSteady
BY NoCallerIsCaller, KeyCommitKeeps DEF RevokeCommit, HangsUp, NoCaller

LEMMA AdmitKeeps ==
    ASSUME IInv, NEW w \in Workers, Admit(w), UNCHANGED board
    PROVE  IInv' /\ KeysSteady
<1> DEFINE c == caller[w]
           d == [c EXCEPT !.step = "admitted", !.seen = Unissued]
<1>1. c.step = "presented" /\ c \in Caller /\ c.seen \in Key /\ ~c.seen.revoked /\ c.user \in Users
  BY DEF Admit, IInv, TypeOK, KeysTypeOK, Fits, CallerFits
<1>2. c.seen = [c.seen EXCEPT !.revoked = FALSE]
  BY <1>1 DEF Key
<1>3. d \in Caller /\ d.step = "admitted" /\ d.user \in Users
  BY <1>1 DEF Caller
<1>4. keys' = [keys EXCEPT ![caller[w].key] =
                  KeyAfter(@, caller[w].seen, [caller[w].seen EXCEPT !.revoked = FALSE])]
  BY <1>2 DEF Admit
<1>5. CASE HangsUp(w)
  BY <1>1, <1>4, <1>5, NoCallerIsCaller, KeyCommitKeeps DEF Admit, HangsUp, NoCaller
<1>6. CASE Calls(w, d)
  <2> HIDE DEF d
  <2> QED BY <1>1, <1>3, <1>4, <1>6, KeyCommitKeeps DEF Admit
<1> QED BY <1>5, <1>6 DEF Admit

LEMMA KeysNextKeeps == ASSUME IInv, KeysNext, UNCHANGED board PROVE IInv' /\ KeysSteady
<1>1. ASSUME NEW w \in Workers, NEW k \in Keys, RevokeLoad(w, k) PROVE IInv' /\ KeysSteady
  BY <1>1, KeyLoadKeeps DEF RevokeLoad
<1>2. ASSUME NEW w \in Workers, NEW k \in Keys, Present(w, k) PROVE IInv' /\ KeysSteady
  BY <1>2, KeyLoadKeeps DEF Present
<1> QED BY <1>1, <1>2, AdministerKeeps, IssueKeeps, RevokeCommitKeeps, AdmitKeeps
        DEF KeysNext, KeysStep

-----------------------------------------------------------------------------
(* The todos.                                                              *)

LEMMA CallersAreAdmitted ==
    ASSUME IInv, NEW w \in Workers, NEW o, NEW c \in Callers(w, o)
    PROVE  c \in Caller /\ c.step = "admitted" /\ c.user \in Users
<1>1. CASE caller[w] = NoCaller
  <2>1. PICK u \in Visitors : c = SignedIn(u)
    BY <1>1 DEF Callers
  <2> QED BY <2>1, HoldersAssumption DEF SignedIn, NoCaller, Caller
<1>2. CASE caller[w] # NoCaller
  BY <1>2 DEF Callers, IInv, TypeOK, KeysTypeOK, Fits, CallerFits
<1> QED BY <1>1, <1>2

\* A handler that has loaded a todo, for caller c.
LEMMA LoadKeeps ==
    ASSUME IInv, NEW w \in Workers, NEW o, NEW c \in Callers(w, o), Calls(w, c),
           NEW r \in Request, req' = [req EXCEPT ![w] = r],
           UNCHANGED <<todos, keys, standing>>, RequestFits(w)'
    PROVE  IInv' /\ KeysSteady
<1>1. c \in Caller /\ c.step = "admitted" /\ c.user \in Users
  BY CallersAreAdmitted
<1>2. /\ caller' \in [Workers -> Caller] /\ caller'[w] = c
      /\ \A v \in Workers \ {w} : caller'[v] = caller[v]
  BY <1>1, TypesOfCall DEF IInv
<1>3. /\ req' \in [Workers -> Request] /\ req'[w] = r
      /\ \A v \in Workers \ {w} : req'[v] = req[v]
  BY TypesOfRequest DEF IInv
<1>4. TypeOK'
  BY <1>1, <1>2, <1>3 DEF IInv, TypeOK, KeysTypeOK
<1>5. CallerFits(w)'
  BY <1>1, <1>2 DEF CallerFits
<1>6. TodosSteady /\ KeysSteady
  BY DEF TodosSteady, KeysSteady
<1> QED BY <1>2, <1>3, <1>4, <1>5, <1>6, StepFits DEF Fits

\* The four handlers that assign columns.
LEMMA AssignKeeps ==
    ASSUME IInv, NEW w \in Workers, NEW t \in Todos, Live(t),
           NEW o \in {"claim", "handoff", "complete", "reopen"},
           NEW c \in Callers(w, o), NEW new \in Row, Loads(w, c, t, o, new),
           o \in {"claim", "handoff"} => MayChangeHands(todos[t]),
           o = "claim" => new = Claimed(todos[t], c.user),
           o = "handoff" => \E n \in BOOLEAN : new = HandedOff(todos[t], n),
           o = "complete" => new = Completed(todos[t], c.user),
           o = "reopen" => new = Reopened(todos[t])
    PROVE  IInv' /\ KeysSteady
<1> DEFINE r == [op |-> o, todo |-> t, seen |-> todos[t], want |-> new]
<1>1. todos[t] \in Row /\ todos[t] # Unborn /\ c.user \in Users
  BY CallersAreAdmitted DEF Live, IInv, TypeOK
<1>2. r \in Request
  BY <1>1 DEF Request
<1>3. req' = [req EXCEPT ![w] = r] /\ Calls(w, c) /\ UNCHANGED <<todos, keys, standing>>
  BY DEF Loads
<1>4. req'[w] = r
  BY <1>3 DEF IInv, TypeOK
<1>5. RequestFits(w)'
  BY <1>1, <1>3, <1>4 DEF RequestFits
<1> HIDE DEF r
<1> QED BY <1>2, <1>3, <1>5, LoadKeeps

LEMMA LoadsKeep ==
    ASSUME IInv, NEW w \in Workers, NEW t \in Todos,
           Claim(w, t) \/ Handoff(w, t) \/ Complete(w, t) \/ Reopen(w, t)
    PROVE  IInv' /\ KeysSteady
<1>1. Live(t) /\ todos[t] \in Row
  BY DEF Claim, Handoff, Complete, Reopen, Live, IInv, TypeOK
<1>2. CASE Claim(w, t)
  <2>1. PICK c \in Callers(w, "claim") : Loads(w, c, t, "claim", Claimed(todos[t], c.user))
    BY <1>2 DEF Claim
  <2>2. Claimed(todos[t], c.user) \in Row
    BY <1>1, CallersAreAdmitted DEF Claimed, Row
  <2> QED BY <1>1, <1>2, <2>1, <2>2, AssignKeeps DEF Claim
<1>3. CASE Handoff(w, t)
  <2>1. PICK c \in Callers(w, "handoff"), n \in BOOLEAN :
           Loads(w, c, t, "handoff", HandedOff(todos[t], n))
    BY <1>3 DEF Handoff
  <2>2. HandedOff(todos[t], n) \in Row
    BY <1>1 DEF HandedOff, Row
  <2> QED BY <1>1, <1>3, <2>1, <2>2, AssignKeeps DEF Handoff
<1>4. CASE Complete(w, t)
  <2>1. PICK c \in Callers(w, "complete") :
           Loads(w, c, t, "complete", Completed(todos[t], c.user))
    BY <1>4 DEF Complete
  <2>2. Completed(todos[t], c.user) \in Row
    BY <1>1, CallersAreAdmitted DEF Completed, Row, Statuses
  <2> QED BY <1>1, <2>1, <2>2, AssignKeeps
<1>5. CASE Reopen(w, t)
  <2>1. PICK c \in Callers(w, "reopen") : Loads(w, c, t, "reopen", Reopened(todos[t]))
    BY <1>5 DEF Reopen
  <2>2. Reopened(todos[t]) \in Row
    BY <1>1 DEF Reopened, Row, Statuses
  <2> QED BY <1>1, <2>1, <2>2, AssignKeeps
<1> QED BY <1>2, <1>3, <1>4, <1>5

LEMMA DeleteKeeps ==
    ASSUME IInv, NEW w \in Workers, NEW t \in Todos, Delete(w, t)
    PROVE  IInv' /\ KeysSteady
<1> DEFINE r == [Idle EXCEPT !.op = "delete", !.todo = t]
<1>1. PICK c \in Callers(w, "delete") : Calls(w, c)
  BY DEF Delete
<1>2. r \in Request /\ r.op = "delete" /\ r.todo = t
  BY DEF Idle, Request
<1>3. req' = [req EXCEPT ![w] = r] /\ UNCHANGED <<todos, keys, standing>>
  BY DEF Delete
<1>4. req'[w] = r /\ todos'[t] # Unborn
  BY <1>3 DEF Delete, Live, IInv, TypeOK
<1>5. RequestFits(w)'
  BY <1>2, <1>4 DEF RequestFits
<1> HIDE DEF r
<1> QED BY <1>1, <1>2, <1>3, <1>5, LoadKeeps

\* A request that ends, whatever it has written.
LEMMA AnswerKeeps ==
    ASSUME IInv, NEW w \in Workers, Answers(w), TodosSteady,
           todos' \in [Todos -> Row \cup {Unborn, Deleted}]
    PROVE  IInv' /\ KeysSteady
<1>1. /\ caller' \in [Workers -> Caller] /\ caller'[w] = NoCaller
      /\ \A v \in Workers \ {w} : caller'[v] = caller[v]
  BY NoCallerIsCaller, TypesOfCall DEF Answers, HangsUp, IInv
<1>2. /\ req' \in [Workers -> Request] /\ req'[w] = Idle
      /\ \A v \in Workers \ {w} : req'[v] = req[v]
  BY IdleIsRequest, TypesOfRequest DEF Answers, IInv
<1>3. TypeOK'
  BY <1>1, <1>2 DEF Answers, IInv, TypeOK, KeysTypeOK
<1>4. RequestFits(w)' /\ CallerFits(w)'
  BY <1>1, <1>2 DEF RequestFits, Idle, CallerFits, NoCaller
<1>5. KeysSteady
  BY DEF Answers, KeysSteady
<1> QED BY <1>1, <1>2, <1>3, <1>4, <1>5, StepFits DEF Fits

-----------------------------------------------------------------------------
(* The commits.                                                            *)

\* The row a commit leaves: a claim or a hand-off keeps all that says whether
\* the todo is done, and was checked while it was not; a completion or a
\* reopening keeps the owner.
WritesRow(w) ==
    LET r == req[w]
        cur == todos[r.todo]
        new == RowAfter(cur, r)
    IN /\ r.op \notin {"none", "delete"} /\ r.todo \in Todos
       /\ Live(r.todo) /\ cur \in Row /\ new \in Row
       /\ todos' = [todos EXCEPT ![r.todo] = new]
       /\ \/ /\ r.op \in {"claim", "handoff"} /\ r.seen.status = "open"
             /\ new.status = cur.status /\ new.at = cur.at /\ new.by = cur.by
          \/ /\ r.op \in {"complete", "reopen"}
             /\ new.assignee = cur.assignee
             /\ r.seen.status = cur.status /\ Signed(r.seen) /\ Signed(cur) => Signed(new)

LEMMA CommitWritesRow ==
    ASSUME IInv, NEW w \in Workers, req[w].op \notin {"none", "delete"}, Live(req[w].todo),
           todos' = [todos EXCEPT ![req[w].todo] = RowAfter(@, req[w])]
    PROVE  WritesRow(w)
<1> DEFINE r == req[w]
           cur == todos[r.todo]
           new == RowAfter(cur, r)
<1>1. r \in Request /\ r.todo \in Todos /\ cur \in Row /\ r.seen \in Row
  BY DEF IInv, TypeOK, Fits, RequestFits, Live
<1>2. todos' = [todos EXCEPT ![r.todo] = new]
  BY <1>1 DEF IInv, TypeOK
<1>3. CASE r.op = "claim"
  <2>1. MayChangeHands(r.seen) /\ \E u \in Users : r.want = Claimed(r.seen, u)
    BY <1>3 DEF IInv, Fits, RequestFits
  <2>2. /\ new \in Row /\ r.seen.status = "open"
        /\ new.status = cur.status /\ new.at = cur.at /\ new.by = cur.by
    BY <1>1, <1>3, <2>1 DEF RowAfter, Column, Row, Claimed, MayChangeHands
  <2> QED BY <1>1, <1>2, <1>3, <2>2 DEF WritesRow
<1>4. CASE r.op = "handoff"
  <2>1. MayChangeHands(r.seen) /\ \E n \in BOOLEAN : r.want = HandedOff(r.seen, n)
    BY <1>4 DEF IInv, Fits, RequestFits
  <2>2. /\ new \in Row /\ r.seen.status = "open"
        /\ new.status = cur.status /\ new.at = cur.at /\ new.by = cur.by
    BY <1>1, <1>4, <2>1 DEF RowAfter, Column, Row, HandedOff, MayChangeHands
  <2> QED BY <1>1, <1>2, <1>4, <2>2 DEF WritesRow
<1>5. CASE r.op = "complete"
  <2>1. PICK u \in Users : r.want = Completed(r.seen, u)
    BY <1>5 DEF IInv, Fits, RequestFits
  <2>2. new \in Row /\ new.assignee = cur.assignee
    BY <1>1, <1>5, <2>1 DEF RowAfter, Column, Row, Completed, Statuses
  <2>3. new.at = TRUE /\ new.status = (IF r.seen.status = "done" THEN cur.status ELSE "done")
    BY <1>1, <1>5, <2>1 DEF RowAfter, Column, Row, Completed, Statuses
  <2>4. new.by = (IF r.seen.by = u THEN cur.by ELSE u) /\ u # Nobody
    BY <1>1, <2>1, KeyNullsAssumption DEF RowAfter, Column, Row, Completed
  <2>5. ASSUME r.seen.status = cur.status, Signed(r.seen), Signed(cur) PROVE Signed(new)
    <3>1. new.status = "done"
      BY <2>3, <2>5
    <3>2. new.by # Nobody
      BY <2>4, <2>5 DEF Signed
    <3> HIDE DEF new
    <3> QED BY <2>3, <3>1, <3>2 DEF Signed
  <2> QED BY <1>1, <1>2, <1>5, <2>2, <2>5 DEF WritesRow
<1>6. CASE r.op = "reopen"
  <2>1. r.want = Reopened(r.seen)
    BY <1>6 DEF IInv, Fits, RequestFits
  <2>2. new \in Row /\ new.assignee = cur.assignee
    BY <1>1, <1>6, <2>1 DEF RowAfter, Column, Row, Reopened, Statuses
  <2>3. r.seen.status = cur.status /\ Signed(r.seen) /\ Signed(cur) => Signed(new)
    BY <1>1, <1>6, <2>1 DEF RowAfter, Column, Row, Reopened, Statuses, Signed
  <2> QED BY <1>1, <1>2, <1>6, <2>2, <2>3 DEF WritesRow
<1> QED BY <1>1, <1>3, <1>4, <1>5, <1>6 DEF Request

\* Everything a step may do to the table.
TodosStep ==
    \/ UNCHANGED todos
    \/ \E t \in Todos : todos[t] = Unborn /\ todos' = [todos EXCEPT ![t] = NewTodo]
    \/ \E t \in Todos : todos[t] # Unborn /\ todos' = [todos EXCEPT ![t] = Deleted]
    \/ \E w \in Workers : WritesRow(w)

LEMMA TodosStepTyped ==
    ASSUME TypeOK, TodosStep
    PROVE  todos' \in [Todos -> Row \cup {Unborn, Deleted}] /\ TodosSteady
<1>1. CASE UNCHANGED todos
  BY <1>1 DEF TypeOK, TodosSteady
<1>2. ASSUME NEW t \in Todos, todos' = [todos EXCEPT ![t] = NewTodo]
      PROVE  todos' \in [Todos -> Row \cup {Unborn, Deleted}] /\ TodosSteady
  <2>1. NewTodo \in Row
    BY DEF NewTodo, Row, Statuses
  <2> QED BY <1>2, <2>1, TodoNullsAssumption DEF TypeOK, TodosSteady
<1>3. ASSUME NEW t \in Todos, todos' = [todos EXCEPT ![t] = Deleted]
      PROVE  todos' \in [Todos -> Row \cup {Unborn, Deleted}] /\ TodosSteady
  BY <1>3, TodoNullsAssumption DEF TypeOK, TodosSteady
<1>4. ASSUME NEW w \in Workers, WritesRow(w)
      PROVE  todos' \in [Todos -> Row \cup {Unborn, Deleted}] /\ TodosSteady
  BY <1>4, TodoNullsAssumption DEF TypeOK, TodosSteady, WritesRow
<1> QED BY <1>1, <1>2, <1>3, <1>4 DEF TodosStep

LEMMA FinishWrites == ASSUME IInv, NEW w \in Workers, Finish(w) PROVE TodosStep /\ Answers(w)
<1>1. CASE Refuse(w) \/ Vanished(w)
  BY <1>1 DEF Refuse, Vanished, TodosStep
<1>2. CASE Commit(w)
  <2>1. CASE Sends(req[w])
    BY <1>2, <2>1, CommitWritesRow DEF Commit, TodosStep
  <2>2. CASE ~Sends(req[w])
    BY <1>2, <2>2 DEF Commit, TodosStep, IInv, TypeOK
  <2> QED BY <1>2, <2>1, <2>2 DEF Commit
<1>3. CASE CommitDelete(w)
  BY <1>3 DEF CommitDelete, TodosStep, IInv, Fits, RequestFits
<1> QED BY <1>1, <1>2, <1>3 DEF Finish

LEMMA FinishKeeps == ASSUME IInv, NEW w \in Workers, Finish(w) PROVE IInv' /\ KeysSteady
BY FinishWrites, TodosStepTyped, AnswerKeeps DEF IInv

LEMMA CreateKeeps ==
    ASSUME IInv, NEW w \in Workers, NEW t \in Todos, Create(w, t)
    PROVE  IInv' /\ KeysSteady /\ TodosStep
<1>1. TodosStep /\ Answers(w)
  BY DEF Create, TodosStep
<1> QED BY <1>1, TodosStepTyped, AnswerKeeps DEF IInv

LEMMA RestartKeeps == ASSUME IInv, Restart PROVE IInv' /\ KeysSteady
<1>1. TypeOK'
  BY IdleIsRequest, NoCallerIsCaller DEF Restart, IInv, TypeOK, KeysTypeOK
<1>2. ASSUME NEW w \in Workers PROVE Fits(w)'
  BY DEF Restart, Fits, RequestFits, Idle, CallerFits, NoCaller
<1>3. KeysSteady
  BY DEF Restart, KeysSteady
<1> QED BY <1>1, <1>2, <1>3 DEF IInv

LEMMA StepKeeps == ASSUME IInv, [Next]_vars PROVE IInv' /\ KeysSteady /\ TodosStep
<1>1. CASE UNCHANGED vars
  <2>1. TypeOK' /\ TodosStep /\ KeysSteady
    BY <1>1 DEF vars, board, gate, IInv, TypeOK, KeysTypeOK, TodosStep, KeysSteady
  <2>2. TodosSteady
    BY <1>1 DEF vars, board, TodosSteady
  <2> QED BY <1>1, <2>1, <2>2, StepAside DEF vars, board, gate
<1>2. CASE KeysNext /\ UNCHANGED board
  BY <1>2, KeysNextKeeps DEF board, TodosStep
<1>3. ASSUME NEW w \in Workers, NEW t \in Todos,
             Claim(w, t) \/ Handoff(w, t) \/ Complete(w, t) \/ Reopen(w, t)
      PROVE  IInv' /\ KeysSteady /\ TodosStep
  BY <1>3, LoadsKeep DEF Claim, Handoff, Complete, Reopen, Loads, TodosStep
<1>4. ASSUME NEW w \in Workers, NEW t \in Todos, Delete(w, t)
      PROVE  IInv' /\ KeysSteady /\ TodosStep
  BY <1>4, DeleteKeeps DEF Delete, TodosStep
<1>5. ASSUME NEW w \in Workers, Finish(w) PROVE IInv' /\ KeysSteady /\ TodosStep
  BY <1>5, FinishWrites, FinishKeeps
<1>6. CASE Restart
  BY <1>6, RestartKeeps DEF Restart, TodosStep
<1> QED BY <1>1, <1>2, <1>3, <1>4, <1>5, <1>6, CreateKeeps DEF Next

LEMMA InitInv == Init => IInv
<1> SUFFICES ASSUME Init PROVE IInv
  OBVIOUS
<1>1. TypeOK
  BY IdleIsRequest, NoCallerIsCaller DEF Init, KeysInit, TypeOK, KeysTypeOK, Standing
<1>2. ASSUME NEW w \in Workers PROVE Fits(w)
  BY DEF Init, KeysInit, Fits, RequestFits, Idle, CallerFits, NoCaller
<1> QED BY <1>1, <1>2 DEF IInv

-----------------------------------------------------------------------------
(* The theorems.                                                           *)

\* The inductive invariant holds of every behaviour.
THEOREM TodosInvariant == Spec => []IInv
<1>1. IInv /\ [Next]_vars => IInv'
  BY StepKeeps
<1> QED BY InitInv, <1>1, PTL DEF Spec

\* The tables and the requests keep their types; in particular a request is
\* only ever served for a caller the gate or a cookie has admitted.
THEOREM TodosTypeCorrect == Spec => []TypeOK
<1>1. IInv => TypeOK
  BY DEF IInv
<1> QED BY <1>1, TodosInvariant, PTL

\* However many requests had loaded a key before it was revoked, none of their
\* commits clears revoked_at.
THEOREM RevokedKeysStayRevoked == Spec => RevocationIsFinal
<1>1. ASSUME IInv, [Next]_vars PROVE \A k \in Keys : Revoked(k) => Revoked(k)'
  BY <1>1, StepKeeps DEF KeysSteady, Revoked
<1>2. IInv /\ [Next]_vars => [\A k \in Keys : Revoked(k) => Revoked(k)']_vars
  BY <1>1
<1> QED BY <1>2, TodosInvariant, PTL DEF Spec, RevocationIsFinal

DonePassed == \A t \in Todos :
    /\ Live(t) /\ todos[t].status = "done" /\ Live(t)'
    /\ todos[t].assignee # todos'[t].assignee
    => \E w \in Workers : /\ req[w].todo = t /\ req[w].op \in {"claim", "handoff"}
                          /\ req[w].seen.status = "open"

\* Only a claim or hand-off that had found the todo open moves a done one.
THEOREM DoneStays == Spec => DoneStaysWithItsOwner
<1>1. ASSUME IInv, [Next]_vars PROVE DonePassed
  <2> SUFFICES ASSUME NEW t \in Todos, Live(t), Live(t)',
                      todos[t].assignee # todos'[t].assignee
               PROVE  \E w \in Workers : /\ req[w].todo = t /\ req[w].op \in {"claim", "handoff"}
                                         /\ req[w].seen.status = "open"
    BY DEF DonePassed
  <2>1. TodosStep /\ todos \in [Todos -> Row \cup {Unborn, Deleted}]
    BY <1>1, StepKeeps DEF IInv, TypeOK
  <2>2. PICK w \in Workers : WritesRow(w)
    BY <2>1 DEF TodosStep, Live
  <2> QED BY <2>1, <2>2 DEF WritesRow
<1>2. IInv /\ [Next]_vars => [DonePassed]_vars
  BY <1>1
<1> QED BY <1>2, TodosInvariant, PTL DEF Spec, DoneStaysWithItsOwner, DonePassed

Torn == \A t \in Todos : Live(t) /\ Signed(todos[t]) /\ (Live(t) /\ ~Signed(todos[t]))' =>
    \E w \in Workers : /\ req[w].todo = t
                       /\ req[w].op \in {"complete", "reopen"}
                       /\ \/ req[w].seen.status # todos[t].status
                          \/ ~Signed(req[w].seen)

\* A completed todo says when and by whom, unless a completion or a reopening
\* commits that had loaded another status, or a row already torn.
THEOREM OnlyCrossingsTear == Spec => OnlyACrossedCompletionTears
<1>1. ASSUME IInv, [Next]_vars PROVE Torn
  <2> SUFFICES ASSUME NEW t \in Todos, Live(t), Signed(todos[t]), Live(t)', ~Signed(todos'[t])
               PROVE  \E w \in Workers : /\ req[w].todo = t
                                         /\ req[w].op \in {"complete", "reopen"}
                                         /\ \/ req[w].seen.status # todos[t].status
                                            \/ ~Signed(req[w].seen)
    BY DEF Torn
  <2>1. TodosStep /\ todos \in [Todos -> Row \cup {Unborn, Deleted}]
    BY <1>1, StepKeeps DEF IInv, TypeOK
  <2>2. PICK w \in Workers : WritesRow(w)
    BY <2>1 DEF TodosStep, Live
  <2>3. req[w].todo = t
    BY <2>1, <2>2 DEF WritesRow
  <2>4. req[w].op \in {"complete", "reopen"}
    BY <2>1, <2>2, <2>3 DEF WritesRow, Signed
  <2> QED BY <2>1, <2>2, <2>3, <2>4 DEF WritesRow
<1>2. IInv /\ [Next]_vars => [Torn]_vars
  BY <1>1
<1> QED BY <1>2, TodosInvariant, PTL DEF Spec, OnlyACrossedCompletionTears, Torn

-----------------------------------------------------------------------------
(* The refinement.                                                         *)

Shown(row) == [owner |-> row.assignee, done |-> row.status = "done"]

LEMMA ShownIsTask == ASSUME NEW row \in Row PROVE Shown(row) \in Task
BY DEF Shown, Task, Row

LEMMA ShownAs ==
    ASSUME NEW row, NEW b \in BOOLEAN, b <=> row.status = "done"
    PROVE  Shown(row) = [owner |-> row.assignee, done |-> b]
<1>1. (row.status = "done") = b
  OBVIOUS
<1> QED BY <1>1 DEF Shown

LEMMA ShownChanges ==
    ASSUME NEW cur, NEW new
    PROVE  /\ new.assignee = cur.assignee =>
                 \/ Shown(new) = [Shown(cur) EXCEPT !.done = TRUE]
                 \/ Shown(new) = [Shown(cur) EXCEPT !.done = FALSE]
           /\ new.status = cur.status => Shown(new) = [Shown(cur) EXCEPT !.owner = new.assignee]
<1>1. PICK b \in BOOLEAN : b <=> new.status = "done"
  OBVIOUS
<1>2. PICK c \in BOOLEAN : c <=> cur.status = "done"
  OBVIOUS
<1>3. Shown(new) = [owner |-> new.assignee, done |-> b]
  BY <1>1, ShownAs
<1>4. Shown(cur) = [owner |-> cur.assignee, done |-> c]
  BY <1>2, ShownAs
<1>5. new.status = cur.status => b = c
  BY <1>1, <1>2
<1>6. [Shown(cur) EXCEPT !.owner = new.assignee] = [owner |-> new.assignee, done |-> c]
  BY <1>4
<1>7. [Shown(cur) EXCEPT !.done = b] = [owner |-> cur.assignee, done |-> b]
  BY <1>4
<1>8. b = TRUE \/ b = FALSE
  OBVIOUS
<1> HIDE DEF Shown
<1> QED BY <1>3, <1>5, <1>6, <1>7, <1>8

\* What the checklist shows of a row that is in the table, and of no row.
LEMMA ChecklistShows ==
    ASSUME TypeOK, NEW t \in Todos
    PROVE  /\ Live(t) => Checklist[t] = Shown(todos[t]) /\ Board!OnBoard(t)
           /\ ~Live(t) => Checklist[t] = todos[t]
<1>1. Live(t) => Shown(todos[t]) \notin {Unborn, Deleted}
  BY ShownIsTask, TodoNullsAssumption DEF Live, TypeOK
<1> QED BY <1>1 DEF Checklist, Shown, Live, Board!OnBoard

LEMMA ChecklistAfter ==
    ASSUME TypeOK, NEW t \in Todos, NEW x \in Row \cup {Deleted},
           todos' = [todos EXCEPT ![t] = x]
    PROVE  Checklist' = [Checklist EXCEPT ![t] = IF x = Deleted THEN x ELSE Shown(x)]
<1>1. x = Deleted <=> x \in {Unborn, Deleted}
  BY TodoNullsAssumption
<1>2. todos'[t] = x /\ \A s \in Todos \ {t} : todos'[s] = todos[s]
  BY DEF TypeOK
<1> QED BY <1>1, <1>2 DEF Checklist, Live, Shown

\* Only one of owner and done changes in a commit.
LEMMA WriteImplements ==
    ASSUME TypeOK, NEW w \in Workers, WritesRow(w)
    PROVE  [Board!Next]_Checklist
<1> DEFINE r == req[w]
           t == r.todo
           cur == todos[t]
           new == RowAfter(cur, r)
<1>1. /\ t \in Todos /\ Live(t) /\ cur \in Row /\ new \in Row
      /\ todos' = [todos EXCEPT ![t] = new]
      /\ new.status = cur.status \/ new.assignee = cur.assignee
  BY DEF WritesRow
<1> HIDE DEF new
<1>2. new # Deleted
  BY <1>1, TodoNullsAssumption
<1>3. Checklist' = [Checklist EXCEPT ![t] = Shown(new)]
  BY <1>1, <1>2, ChecklistAfter
<1>4. Checklist[t] = Shown(cur) /\ Board!OnBoard(t)
  BY <1>1, ChecklistShows
<1>5. CASE new.assignee = cur.assignee
  <2>1. \/ Shown(new) = [Checklist[t] EXCEPT !.done = TRUE]
        \/ Shown(new) = [Checklist[t] EXCEPT !.done = FALSE]
    BY <1>4, <1>5, ShownChanges
  <2> QED BY <1>1, <1>3, <1>4, <2>1 DEF Board!Next, Board!Finish, Board!Reopen
<1>6. CASE new.status = cur.status
  <2>1. Shown(new) = [Checklist[t] EXCEPT !.owner = new.assignee]
    BY <1>4, <1>6, ShownChanges
  <2>2. new.assignee = Nobody \/ new.assignee \in Users
    BY <1>1 DEF Row
  <2> QED BY <1>1, <1>3, <1>4, <2>1, <2>2 DEF Board!Next, Board!Take, Board!Give
<1> QED BY <1>1, <1>5, <1>6

LEMMA StepImplements == ASSUME TypeOK, TodosStep PROVE [Board!Next]_Checklist
<1>1. CASE UNCHANGED todos
  BY <1>1 DEF Checklist, Live
<1>2. ASSUME NEW t \in Todos, todos[t] = Unborn, todos' = [todos EXCEPT ![t] = NewTodo]
      PROVE  [Board!Next]_Checklist
  <2>0. NewTodo \in Row
    BY DEF NewTodo, Row, Statuses
  <2>1. NewTodo \in Row /\ NewTodo # Deleted
    BY <2>0, TodoNullsAssumption
  <2>2. Checklist' = [Checklist EXCEPT ![t] = Shown(NewTodo)] /\ Checklist[t] = Unborn
    BY <1>2, <2>1, ChecklistAfter, ChecklistShows DEF Live
  <2>3. Shown(NewTodo) = [owner |-> Nobody, done |-> FALSE]
    BY DEF Shown, NewTodo
  <2> QED BY <2>2, <2>3 DEF Board!Next, Board!Post
<1>3. ASSUME NEW t \in Todos, todos[t] # Unborn, todos' = [todos EXCEPT ![t] = Deleted]
      PROVE  [Board!Next]_Checklist
  <2>1. CASE Live(t)
    <3>1. Checklist' = [Checklist EXCEPT ![t] = Deleted] /\ Board!OnBoard(t)
      BY <1>3, <2>1, ChecklistAfter, ChecklistShows
    <3> QED BY <3>1 DEF Board!Next, Board!Remove
  <2>2. CASE ~Live(t)
    BY <1>3, <2>2 DEF Live, TypeOK, Checklist
  <2> QED BY <2>1, <2>2
<1>4. ASSUME NEW w \in Workers, WritesRow(w) PROVE [Board!Next]_Checklist
  BY <1>4, WriteImplements
<1> QED BY <1>1, <1>2, <1>3, <1>4 DEF TodosStep

\* The table of todos, under any number of interleaved requests, implements the
\* abstract checklist: ownership and completion never disturb each other, and a
\* deleted task never comes back.
THEOREM TodosImplementTaskBoard == Spec => ImplementsTaskBoard
<1>1. Init => Board!Init
  BY DEF Init, Board!Init, Checklist, Live
<1>2. IInv /\ [Next]_vars => [Board!Next]_Checklist
  BY StepKeeps, StepImplements DEF IInv
<1> QED BY <1>1, <1>2, TodosInvariant, PTL DEF Spec, ImplementsTaskBoard, Board!Spec
=============================================================================
