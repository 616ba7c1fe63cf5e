------------------------------- MODULE Todos --------------------------------
(***************************************************************************)
(* The todos of an engagement under the requests of several workers, HTML  *)
(* routes or /api/v1.  An API request first passes the gate of ApiKeys.    *)
(* Each handler loads the row, checks it, assigns columns and commits; no  *)
(* handler locks the row it has loaded.                                    *)
(***************************************************************************)
EXTENDS ApiKeys

CONSTANTS Todos,
          KeyOperations,   \* bound: what the clients of /api/v1 ask for
          Unborn, Deleted

VARIABLES todos,    \* the todos table
          req       \* the todo each worker has loaded, and what for

board == <<todos, req>>
gate == <<keys, standing, caller>>
vars == <<board, gate>>

Statuses == {"open", "done"}

\* notes: handoff_notes is set; at: completed_at is set; by: completed_by_id.
Row == [assignee : Users \cup {Nobody}, notes : BOOLEAN, status : Statuses,
        at : BOOLEAN, by : Users \cup {Nobody}]

\* What the checklist shows of a row.
Task == [owner : Users \cup {Nobody}, done : BOOLEAN]

ASSUME TodoNullsAssumption ==
    /\ {Unborn, Deleted} \cap (Row \cup Task) = {}
    /\ Unborn # Deleted

\* Slip: a new row without the column's default.
NewTodoWithoutDefault == [assignee |-> Nobody, notes |-> FALSE, status |-> "NULL",
                          at |-> FALSE, by |-> Nobody]

NewTodo == [assignee |-> Nobody, notes |-> FALSE, status |-> "open",
            at |-> FALSE, by |-> Nobody]

Live(t) == todos[t] \notin {Unborn, Deleted}

Request == [op : {"none", "claim", "handoff", "complete", "reopen", "delete"},
            todo : Todos \cup {Unborn}, seen : Row \cup {Unborn},
            want : Row \cup {Unborn}]

Idle == [op |-> "none", todo |-> Unborn, seen |-> Unborn, want |-> Unborn]

TypeOK == /\ KeysTypeOK
          /\ todos \in [Todos -> Row \cup {Unborn, Deleted}]
          /\ req \in [Workers -> Request]
          /\ \A w \in Workers : req[w] # Idle => caller[w].step = "admitted"

Init == /\ KeysInit
        /\ todos = [t \in Todos |-> Unborn]
        /\ req = [w \in Workers |-> Idle]

-----------------------------------------------------------------------------
(* What a handler assigns.                                                 *)

Claimed(row, u) == [row EXCEPT !.assignee = u, !.notes = FALSE]

HandedOff(row, n) == [row EXCEPT !.assignee = Nobody, !.notes = n]

Completed(row, u) == [row EXCEPT !.status = "done", !.at = TRUE, !.by = u]

\* Slip: reopening forgets who had completed the todo.
ReopenedInName(row) == [row EXCEPT !.status = "open"]

Reopened(row) == [row EXCEPT !.status = "open", !.at = FALSE, !.by = Nobody]

\* Slip: a claim or hand-off of a completed todo is not refused.
AnyTodo(row) == TRUE

\* Claims and hand-offs are for open todos.
MayChangeHands(row) == row.status = "open"

\* Slip: the commit writes the row as the handler saw it.
RowAsWanted(cur, r) == r.want

\* The row after the commit.  A completion always sends completed_at, which is
\* a new time; the other columns are sent when they differ from the row loaded.
RowAfter(cur, r) ==
    [assignee |-> Column(cur.assignee, r.seen.assignee, r.want.assignee),
     notes |-> Column(cur.notes, r.seen.notes, r.want.notes),
     status |-> Column(cur.status, r.seen.status, r.want.status),
     at |-> IF r.op = "complete" THEN TRUE
                                 ELSE Column(cur.at, r.seen.at, r.want.at),
     by |-> Column(cur.by, r.seen.by, r.want.by)]

\* The session has something to send.
Sends(r) == r.op = "complete" \/ Dirty(r.seen, r.want)

-----------------------------------------------------------------------------
\* The request of worker w ends, with its transaction committed or not.
Answers(w) == /\ HangsUp(w)
              /\ req' = [req EXCEPT ![w] = Idle]
              /\ UNCHANGED <<keys, standing>>

\* For whom a handler may start: whoever the gate admitted, or a visitor.
Callers(w, o) ==
    IF caller[w] = NoCaller THEN {SignedIn(u) : u \in Visitors}
    ELSE {c \in {caller[w]} : /\ c.step = "admitted" /\ req[w] = Idle
                              /\ o \in KeyOperations}

\* POST .../todos: an open todo without an assignee.
Create(w, t) ==
    /\ Callers(w, "create") # {}
    /\ todos[t] = Unborn
    /\ todos' = [todos EXCEPT ![t] = NewTodo]
    /\ Answers(w)

\* The handler's first_or_404, and the assignments of caller c.
Loads(w, c, t, o, new) ==
    /\ Calls(w, c)
    /\ req' = [req EXCEPT ![w] = [op |-> o, todo |-> t,
                                  seen |-> todos[t], want |-> new]]
    /\ UNCHANGED <<todos, keys, standing>>

Claim(w, t) == /\ Live(t) /\ MayChangeHands(todos[t])
               /\ \E c \in Callers(w, "claim") :
                     Loads(w, c, t, "claim", Claimed(todos[t], c.user))

Handoff(w, t) == /\ Live(t) /\ MayChangeHands(todos[t])
                 /\ \E c \in Callers(w, "handoff"), n \in BOOLEAN :
                       Loads(w, c, t, "handoff", HandedOff(todos[t], n))

Complete(w, t) == /\ Live(t)
                  /\ \E c \in Callers(w, "complete") :
                        Loads(w, c, t, "complete", Completed(todos[t], c.user))

Reopen(w, t) == /\ Live(t)
                /\ \E c \in Callers(w, "reopen") :
                      Loads(w, c, t, "reopen", Reopened(todos[t]))

\* Of a row to delete, the id is all that matters.
Delete(w, t) == /\ Live(t)
                /\ \E c \in Callers(w, "delete") : Calls(w, c)
                /\ req' = [req EXCEPT ![w] = [Idle EXCEPT !.op = "delete", !.todo = t]]
                /\ UNCHANGED <<todos, keys, standing>>

\* Not found, a done todo, a blank title, or a write with nothing to do.
Refuse(w) == /\ caller[w].step = "admitted" /\ req[w] = Idle
             /\ Answers(w)
             /\ UNCHANGED todos

\* An UPDATE that finds its row deleted is an error, and the log row with it.
Vanished(w) ==
    /\ req[w].op \notin {"none", "delete"}
    /\ Sends(req[w]) /\ ~Live(req[w].todo)
    /\ Answers(w)
    /\ UNCHANGED todos

\* The log row is written even when no column of the todo is sent.
Commit(w) ==
    /\ req[w].op \notin {"none", "delete"}
    /\ Sends(req[w]) => Live(req[w].todo)
    /\ LET r == req[w]
       IN /\ todos' = [todos EXCEPT ![r.todo] = IF Sends(r) THEN RowAfter(@, r) ELSE @]
          /\ Answers(w)

\* A DELETE that finds its row gone already is only a warning.
CommitDelete(w) ==
    /\ req[w].op = "delete"
    /\ todos' = [todos EXCEPT ![req[w].todo] = Deleted]
    /\ Answers(w)

\* The process is restarted: what was not committed is gone.
Restart == /\ \E w \in Workers : caller[w] # NoCaller
           /\ caller' = [w \in Workers |-> NoCaller]
           /\ req' = [w \in Workers |-> Idle]
           /\ UNCHANGED <<todos, keys, standing>>

Finish(w) == Refuse(w) \/ Vanished(w) \/ Commit(w) \/ CommitDelete(w)

Next == \/ KeysNext /\ UNCHANGED board
        \/ \E w \in Workers, t \in Todos :
              \/ Create(w, t) \/ Claim(w, t) \/ Handoff(w, t)
              \/ Complete(w, t) \/ Reopen(w, t) \/ Delete(w, t)
        \/ \E w \in Workers : Finish(w)
        \/ Restart

Spec == Init /\ [][Next]_vars

\* A thread goes on with the request it has.
FairSpec == /\ Spec
            /\ \A w \in Workers : /\ WF_vars(KeysStep(w) /\ UNCHANGED board)
                                  /\ WF_vars(Finish(w))

-----------------------------------------------------------------------------
(* Properties.                                                             *)

Signed(row) == /\ (row.status = "done") = row.at
               /\ (row.status = "done") = (row.by # Nobody)

\* A done todo says when and by whom it was completed, and an open one says
\* neither.  Only a completion or a reopening that loaded another status than
\* the row has by now, or a row already broken, breaks that: a completion of a
\* done todo, say, that a reopening overtakes, does not send the status again.
OnlyACrossedCompletionTears ==
    [][\A t \in Todos : Live(t) /\ Signed(todos[t]) /\ (Live(t) /\ ~Signed(todos[t]))' =>
          \E w \in Workers : /\ req[w].todo = t
                             /\ req[w].op \in {"complete", "reopen"}
                             /\ \/ req[w].seen.status # todos[t].status
                                \/ ~Signed(req[w].seen)]_vars

\* A done todo does not change hands, except by a claim or hand-off that was
\* checked while it was open.
DoneStaysWithItsOwner ==
    [][\A t \in Todos :
          /\ Live(t) /\ todos[t].status = "done" /\ Live(t)'
          /\ todos[t].assignee # todos'[t].assignee
          => \E w \in Workers : /\ req[w].todo = t /\ req[w].op \in {"claim", "handoff"}
                                /\ req[w].seen.status = "open"]_vars

\* Ownership and completion of a task are independent facts, and a deleted task
\* never comes back, whatever the requests in flight had loaded.
Checklist == [t \in Todos |-> IF Live(t) THEN [owner |-> todos[t].assignee,
                                               done |-> todos[t].status = "done"]
                                         ELSE todos[t]]

Board == INSTANCE TaskBoard WITH Tasks <- Todos, tasks <- Checklist

ImplementsTaskBoard == Board!Spec

\* No request that had loaded a key before it was revoked brings it back, though
\* the gate commits the key's row after reading it.
RevocationIsFinal ==
    [][\A k \in Keys : Revoked(k) => Revoked(k)']_vars

\* Requests that passed the gate before a key was revoked, or its owner was
\* deactivated or became blueteam, still write; but while one of the three
\* lasts, no handler writes under the key any more from some point on.
SilencedKeyStopsWriting ==
    \A k \in Keys, h \in Holders :
        (\/ <>[]Revoked(k)
         \/ <>[](OwnedBy(k, h) /\ ~standing[h].active)
         \/ <>[](OwnedBy(k, h) /\ standing[h].blueteam))
           => <>[](\A w \in Workers : req[w] # Idle => caller[w].key # k)
=============================================================================
