---------------------------- MODULE Engagements ----------------------------
(***************************************************************************)
(* The engagements table with its kill chain entries and its deletion      *)
(* requests, and every request that writes them, HTML route or /api/v1, on *)
(* the worker threads of one process.  A request loads the rows it is      *)
(* about, some handlers read more, and one commit ends it; other workers   *)
(* run in between.                                                         *)
(*                                                                         *)
(* Every handler writes an activity row in the transaction of its change   *)
(* (activity_service.log_activity).  That row is a child of the engagement *)
(* as links, findings or todos are: its foreign key aborts a transaction   *)
(* whose engagement is gone, and aborts a deletion that does not know it.  *)
(***************************************************************************)
EXTENDS Naturals, OrmSession

CONSTANTS Engagements,   \* engagement ids, never reused
          Entries,       \* kill chain entry ids, never reused
          Models,        \* kill chain models
          Stages,        \* stage slugs
          StagesOf,      \* stages_for_model
          Statuses,      \* engagement statuses
          Admins, Operators,   \* who may sign in and write
          Home,          \* engagements app_settings.engagement_id refers to
          MaxTickets,    \* bound: deletion requests ever made
          Workers,       \* threads of the process
          Operations,    \* the kinds of request the clients send
          Unborn, Deleted, NoTicket, NoEntry, NoStage, Nobody

VARIABLES engagements,  \* the engagements table
          entries,      \* the kill chain entries
          pending,      \* engagement_deletion_requests, unique per engagement
          issued,       \* how many deletion requests were ever inserted
          logged,       \* the newest status and archive rows of the activity log
          req,          \* what each worker is doing
          uncollected,  \* w's deletion does not know some child of its target
          stale,        \* history: the tables changed since the worker read
          raced         \* history: a worker has committed while stale

tables == <<engagements, entries, pending, issued, logged>>
vars == <<tables, req, uncollected, stale, raced>>

ASSUME StagesAssumption == StagesOf \in [Models -> SUBSET Stages]
ASSUME StatusAssumption == {"backlog", "active"} \subseteq Statuses
ASSUME HomeAssumption == Home \subseteq Engagements
ASSUME TicketAssumption == MaxTickets \in Nat

-----------------------------------------------------------------------------
Row == [model : Models, status : Statuses, archived : BOOLEAN]
Entry == [of : Engagements, stage : Stages]
Ticket == [by : Admins, no : 1 .. MaxTickets]

ASSUME NullsAssumption == /\ {Unborn, Deleted} \cap (Row \cup Entry) = {}
                          /\ Unborn # Deleted
                          /\ NoTicket \notin Ticket
                          /\ NoEntry \notin Entries
                          /\ NoStage \notin Stages
                          /\ Nobody \notin Admins \cup Operators

Live(e) == engagements[e] \notin {Unborn, Deleted}
LiveEngagements == {e \in Engagements : Live(e)}
Present(x) == entries[x] \notin {Unborn, Deleted}
EntriesOf(e) == {x \in Entries : Present(x) /\ entries[x].of = e}

\* Slip: a new row without the columns' defaults.
NewEngagementWithoutDefaults(m) ==
    [model |-> m, status |-> "NULL", archived |-> FALSE]

NewEngagement(m) == [model |-> m, status |-> "backlog", archived |-> FALSE]

\* What a worker remembers of its request: the engagement row it loaded and
\* the row after its assignments, the deletion request it loaded, the entry,
\* the stage it loaded and the stage the form asks for, and the entries a
\* deletion has collected.
Request == [op : {"none", "edit", "status", "archive", "annotate", "add",
                  "restage", "remove", "request", "cancel", "approve"},
            step : {"idle", "loaded", "checked", "flushed", "collected"},
            target : Engagements \cup {Unborn},
            actor : Admins \cup Operators \cup {Nobody},
            seen : Row \cup {Unborn}, want : Row \cup {Unborn},
            ticket : Ticket \cup {NoTicket}, entry : Entries \cup {NoEntry},
            was : Stages \cup {NoStage}, asks : Stages \cup {NoStage},
            known : SUBSET Entries]

Idle == [op |-> "none", step |-> "idle", target |-> Unborn, actor |-> Nobody,
         seen |-> Unborn, want |-> Unborn, ticket |-> NoTicket,
         entry |-> NoEntry, was |-> NoStage, asks |-> NoStage,
         known |-> {}]

At(w, o, s) == req[w].op = o /\ req[w].step = s
Moves(w, r) == req' = [req EXCEPT ![w] = r]

\* The wizard has created the engagement app_settings refers to, if any.  A log
\* without a row of a kind counts as the value the engagement was created with.
Init == /\ \E m \in Models :
              engagements = [e \in Engagements |->
                  IF e \in Home THEN [NewEngagement(m) EXCEPT !.status = "active"]
                                ELSE Unborn]
        /\ entries = [x \in Entries |-> Unborn]
        /\ pending = [e \in Engagements |-> NoTicket]
        /\ issued = 0
        /\ logged = [e \in Engagements |->
                        [status |-> IF e \in Home THEN "active" ELSE "backlog",
                         archived |-> FALSE]]
        /\ req = [w \in Workers |-> Idle]
        /\ uncollected = [w \in Workers |-> FALSE]
        /\ stale = [w \in Workers |-> FALSE]
        /\ raced = FALSE

-----------------------------------------------------------------------------
(* How a step ends.                                                        *)

Reads == UNCHANGED <<tables, uncollected, stale, raced>>

\* A refusal, or a transaction the database rolls back (error 500).
Ends(w) == /\ Moves(w, Idle)
           /\ uncollected' = [uncollected EXCEPT ![w] = FALSE]
           /\ stale' = [stale EXCEPT ![w] = FALSE]
           /\ UNCHANGED <<tables, raced>>

\* The transaction of worker w commits; workers that had read are stale.
Commits(w) ==
    /\ Moves(w, Idle)
    /\ stale' = [v \in Workers |->
                    /\ v # w
                    /\ req[v].step # "idle"
                    /\ stale[v] \/ tables' # tables]
    /\ raced' = (raced \/ (stale[w] /\ tables' # tables))

\* ... with an activity row for engagement e, which a deletion of e that has
\* already collected the children does not know.
CommitsLogged(w, e) ==
    /\ Commits(w)
    /\ uncollected' = [v \in Workers |->
                          /\ v # w
                          /\ uncollected[v] \/ (/\ At(v, "approve", "collected")
                                                /\ req[v].target = e)]

\* Another request has flushed an UPDATE of this row and not committed yet.
Locked(e, w) == \E v \in Workers \ {w} : /\ req[v].step = "flushed"
                                         /\ req[v].target = e

\* The gates and the first query of a handler: someone whose role may use the
\* route names an engagement that exists.  Who it is matters to deletions only.
Opens(w, o, e, r) ==
    /\ o \in Operations
    /\ req[w] = Idle
    /\ Live(e)
    /\ Moves(w, [r EXCEPT !.op = o, !.step = "loaded", !.target = e,
                          !.seen = engagements[e], !.want = engagements[e]])
    /\ Reads

-----------------------------------------------------------------------------
(* Engagements.                                                            *)

\* POST /engagements: one transaction that reads nothing.
CreateEngagement(w) ==
    /\ "create" \in Operations
    /\ req[w] = Idle
    /\ \E e \in Engagements, m \in Models :
          /\ engagements[e] = Unborn
          /\ engagements' = [engagements EXCEPT ![e] = NewEngagement(m)]
          /\ logged' = [logged EXCEPT ![e] = [status |-> "backlog", archived |-> FALSE]]
          /\ UNCHANGED <<entries, pending, issued>>
          /\ CommitsLogged(w, e)

\* POST /edit, PATCH; /status; /archive; links and the other children.
Open(w) == \E e \in Engagements, o \in {"edit", "status", "archive", "annotate"} :
              Opens(w, o, e, Idle)

\* Slip: the model is assigned whatever entries there are.
MayChangeModelAlways(e) == TRUE

\* `if not engagement.killchain_entries`
MayChangeModel(e) == EntriesOf(e) = {}

\* The edit form, up to the assignments.  Reading the entries first flushes the
\* columns assigned so far, if one of them differs: the UPDATE takes the row's
\* lock, or finds the row gone.
EditCheck(w) ==
    LET r == req[w] IN
    /\ At(w, "edit", "loaded")
    /\ \E flushes \in BOOLEAN, m \in Models :
          /\ flushes => Live(r.target) /\ ~Locked(r.target, w)
          /\ Moves(w, [r EXCEPT
                 !.step = IF flushes THEN "flushed" ELSE "checked",
                 !.want.model = IF MayChangeModel(r.target) THEN m ELSE @])
    /\ Reads

\* Writes the columns that differ and the activity row; both need the row.
EditCommit(w) ==
    LET r == req[w] IN
    /\ r.op = "edit" /\ r.step \in {"checked", "flushed"}
    /\ IF ~Live(r.target)
       THEN Ends(w)
       ELSE /\ Dirty(r.seen, r.want) => ~Locked(r.target, w)
            /\ engagements' = [engagements EXCEPT ![r.target].model =
                                  Column(@, r.seen.model, r.want.model)]
            /\ UNCHANGED <<entries, pending, issued, logged>>
            /\ CommitsLogged(w, r.target)

\* Slip: the log row is worded before the assignment.
LoadedStatus(seen, s) == seen.status

\* What the log row says.
SaidStatus(seen, s) == s

StatusCommit(w) ==
    LET r == req[w] IN
    /\ At(w, "status", "loaded")
    /\ IF ~Live(r.target)
       THEN Ends(w)
       ELSE \E s \in Statuses :
              /\ Dirty(r.seen.status, s) => ~Locked(r.target, w)
              /\ engagements' = [engagements EXCEPT ![r.target].status =
                                    Column(@, r.seen.status, s)]
              /\ logged' = [logged EXCEPT ![r.target].status = SaidStatus(r.seen, s)]
              /\ UNCHANGED <<entries, pending, issued>>
              /\ CommitsLogged(w, r.target)

\* Slip: the route archives instead of toggling, and the log still toggles.
AlwaysArchived(seen) == TRUE

\* `not engagement.is_archived`, of the row the handler loaded.
Toggled(seen) == ~seen.archived

ArchiveCommit(w) ==
    LET r == req[w] IN
    /\ At(w, "archive", "loaded")
    /\ ~Locked(r.target, w)
    /\ IF ~Live(r.target)
       THEN Ends(w)
       ELSE /\ engagements' = [engagements EXCEPT ![r.target].archived =
                                  Column(@, r.seen.archived, Toggled(r.seen))]
            /\ logged' = [logged EXCEPT ![r.target].archived = ~r.seen.archived]
            /\ UNCHANGED <<entries, pending, issued>>
            /\ CommitsLogged(w, r.target)

\* Links, and whatever else an engagement owns: a child row and its activity
\* row, nothing this module's conditions read.
AnnotateCommit(w) ==
    LET r == req[w] IN
    /\ At(w, "annotate", "loaded")
    /\ IF ~Live(r.target)
       THEN Ends(w)
       ELSE UNCHANGED tables /\ CommitsLogged(w, r.target)

-----------------------------------------------------------------------------
(* Kill chain entries.                                                     *)

\* What the handlers accept: a stage of the loaded engagement's model.
Offered(m) == StagesOf[m]

AddLoad(w) ==
    \E e \in LiveEngagements : \E s \in Offered(engagements[e].model) :
        Opens(w, "add", e, [Idle EXCEPT !.asks = s])

AddCommit(w) ==
    LET r == req[w] IN
    /\ At(w, "add", "loaded")
    /\ IF ~Live(r.target)
       THEN Ends(w)
       ELSE /\ \E x \in Entries :
                  /\ entries[x] = Unborn
                  /\ entries' = [entries EXCEPT ![x] = [of |-> r.target, stage |-> r.asks]]
            /\ UNCHANGED <<engagements, pending, issued, logged>>
            /\ CommitsLogged(w, r.target)

\* The edit form names a stage of the model; a PATCH may leave the stage alone.
RestageLoad(w) ==
    \E x \in Entries :
        /\ Present(x)
        /\ \E s \in Offered(engagements[entries[x].of].model) \cup {entries[x].stage} :
              Opens(w, "restage", entries[x].of,
                    [Idle EXCEPT !.entry = x, !.was = entries[x].stage, !.asks = s])

\* An UPDATE of an entry that is gone fails; without one only the activity row
\* is written.
RestageCommit(w) ==
    LET r == req[w] IN
    /\ At(w, "restage", "loaded")
    /\ IF \/ ~Live(r.target)
          \/ Dirty(r.was, r.asks) /\ ~Present(r.entry)
       THEN Ends(w)
       ELSE /\ entries' = IF Present(r.entry)
                          THEN [entries EXCEPT ![r.entry].stage =
                                   Column(@, r.was, r.asks)]
                          ELSE entries
            /\ UNCHANGED <<engagements, pending, issued, logged>>
            /\ CommitsLogged(w, r.target)

RemoveLoad(w) ==
    \E x \in Entries :
        /\ Present(x)
        /\ Opens(w, "remove", entries[x].of, [Idle EXCEPT !.entry = x])

\* Deleting an entry that is gone is only a warning.
RemoveCommit(w) ==
    LET r == req[w] IN
    /\ At(w, "remove", "loaded")
    /\ IF ~Live(r.target)
       THEN Ends(w)
       ELSE /\ entries' = [entries EXCEPT ![r.entry] = Deleted]
            /\ UNCHANGED <<engagements, pending, issued, logged>>
            /\ CommitsLogged(w, r.target)

-----------------------------------------------------------------------------
(* Deletion takes two people: an admin requests it, another admin or an    *)
(* operator approves it, an admin may cancel it before.                    *)

RequestLoad(w) ==
    \E e \in Engagements, actor \in Admins :
        /\ pending[e] = NoTicket
        /\ Opens(w, "request", e, [Idle EXCEPT !.actor = actor])

\* One request per engagement: the unique key aborts the second.
RequestCommit(w) ==
    LET r == req[w] IN
    /\ At(w, "request", "loaded")
    /\ IF ~Live(r.target) \/ pending[r.target] # NoTicket
       THEN Ends(w)
       ELSE /\ issued < MaxTickets
            /\ issued' = issued + 1
            /\ pending' = [pending EXCEPT ![r.target] = [by |-> r.actor, no |-> issued']]
            /\ UNCHANGED <<engagements, entries, logged>>
            /\ CommitsLogged(w, r.target)

CancelLoad(w) ==
    \E e \in Engagements :
        /\ pending[e] # NoTicket
        /\ Opens(w, "cancel", e, [Idle EXCEPT !.ticket = pending[e]])

\* Deletes the request it loaded, by its key; a newer one stays.
CancelCommit(w) ==
    LET r == req[w] IN
    /\ At(w, "cancel", "loaded")
    /\ IF ~Live(r.target)
       THEN Ends(w)
       ELSE /\ pending' = [pending EXCEPT ![r.target] =
                              IF @ = r.ticket THEN NoTicket ELSE @]
            /\ UNCHANGED <<engagements, entries, issued, logged>>
            /\ CommitsLogged(w, r.target)

\* Whom the gates let through.
Staff == Admins \cup Operators

\* Slip: nobody compares the approver with the requester.
AnyoneApproves(t) == Staff

Approvers(t) == Staff \ {t.by}

ApproveLoad(w) ==
    \E e \in Engagements :
        /\ pending[e] # NoTicket
        /\ \E actor \in Approvers(pending[e]) :
              Opens(w, "approve", e, [Idle EXCEPT !.actor = actor, !.ticket = pending[e]])

\* session.delete walks the cascades and loads every child there is now, but
\* keeps the deletion request the handler already loaded.
ApproveCollect(w) ==
    /\ At(w, "approve", "loaded")
    /\ Moves(w, [req[w] EXCEPT !.step = "collected",
                               !.known = EntriesOf(req[w].target)])
    /\ Reads

\* Slips: no foreign key objects; a kind of child no relationship cascades to.
NothingRefers(w, e) == FALSE
ChildWithoutCascade(w, e) == TRUE

\* A foreign key refers to the engagement from a row the deletion does not
\* know: a later child, a newer deletion request, or the settings row.
StillReferred(w, e) == \/ uncollected[w]
                       \/ pending[e] \notin {NoTicket, req[w].ticket}
                       \/ e \in Home

\* If the engagement is gone already, the deletes only warn.
ApproveCommit(w) ==
    LET r == req[w] IN
    /\ At(w, "approve", "collected")
    /\ ~Locked(r.target, w)
    /\ IF ~Live(r.target) \/ StillReferred(w, r.target)
       THEN Ends(w)
       ELSE /\ engagements' = [engagements EXCEPT ![r.target] = Deleted]
            /\ entries' = [x \in Entries |-> IF x \in r.known THEN Deleted ELSE entries[x]]
            /\ pending' = [pending EXCEPT ![r.target] =
                              IF @ = r.ticket THEN NoTicket ELSE @]
            /\ UNCHANGED <<issued, logged, uncollected>>
            /\ Commits(w)

-----------------------------------------------------------------------------
\* The handler refuses after its load: an invalid choice, a blank name, a model
\* that can no longer change.
Refuse(w) == req[w].step = "loaded" /\ req[w].op # "approve" /\ Ends(w)

\* The process restarts: requests in flight are gone, nothing of them is kept.
Restart == /\ req' = [w \in Workers |-> Idle]
           /\ uncollected' = [w \in Workers |-> FALSE]
           /\ stale' = [w \in Workers |-> FALSE]
           /\ UNCHANGED <<tables, raced>>

Step(w) == \/ CreateEngagement(w) \/ Open(w)
           \/ EditCheck(w) \/ EditCommit(w)
           \/ StatusCommit(w) \/ ArchiveCommit(w) \/ AnnotateCommit(w)
           \/ AddLoad(w) \/ AddCommit(w)
           \/ RestageLoad(w) \/ RestageCommit(w)
           \/ RemoveLoad(w) \/ RemoveCommit(w)
           \/ RequestLoad(w) \/ RequestCommit(w)
           \/ CancelLoad(w) \/ CancelCommit(w)
           \/ ApproveLoad(w) \/ ApproveCollect(w) \/ ApproveCommit(w)
           \/ Refuse(w)

Next == Restart \/ \E w \in Workers : Step(w)

Spec == Init /\ [][Next]_vars

\* For liveness: a thread goes on with the request it has, and whoever may
\* approve keeps trying, at times without a restart in between.  Nothing is
\* assumed of how an attempt ends, nor of the other writers.
Continues(w) == req[w] # Idle /\ Step(w)
Approval(e) == \E w \in Workers : ApproveLoad(w) /\ req'[w].target = e
Collection(e) == \E w \in Workers : req[w].target = e /\ ApproveCollect(w)
Verdict(e) == \E w \in Workers : req[w].target = e /\ ApproveCommit(w)

FairSpec == /\ Spec
            /\ \A w \in Workers : WF_vars(Continues(w))
            /\ \A e \in Engagements : /\ SF_vars(Approval(e))
                                     /\ SF_vars(Collection(e))
                                     /\ SF_vars(Verdict(e))

-----------------------------------------------------------------------------
(* What the pages show: a column for each stage of the model the engagement *)
(* has now.  The other stages' entries are grouped too, and not drawn.      *)

Columns(e) == [s \in Stages |-> {x \in EntriesOf(e) : entries[x].stage = s}]
Timeline(e) == UNION {Columns(e)[s] : s \in StagesOf[engagements[e].model]}
Report(e) == UNION {Columns(e)[s] : s \in StagesOf[engagements[e].model]}

-----------------------------------------------------------------------------
(* Properties.                                                             *)

TypeOK ==
    /\ engagements \in [Engagements -> Row \cup {Unborn, Deleted}]
    /\ entries \in [Entries -> Entry \cup {Unborn, Deleted}]
    /\ pending \in [Engagements -> Ticket \cup {NoTicket}]
    /\ issued \in 0 .. MaxTickets
    /\ logged \in [Engagements -> [status : Statuses, archived : BOOLEAN]]
    /\ req \in [Workers -> Request]
    /\ uncollected \in [Workers -> BOOLEAN]
    /\ stale \in [Workers -> BOOLEAN]
    /\ raced \in BOOLEAN

\* A deleted engagement leaves nothing behind, and nothing joins it later: an
\* entry or a deletion request belongs to an engagement that exists, whatever
\* was in flight when it was deleted.
NoOrphans ==
    /\ \A x \in Entries : Present(x) => Live(entries[x].of)
    /\ \A e \in Engagements : pending[e] # NoTicket => Live(e)

\* "The deletion must be approved by a different admin or operator than the one
\* who requested it": whoever makes an engagement disappear is not the author of
\* the request that goes with it, even if the request was cancelled and made
\* anew while the approval was on its way; an engagement without a request can
\* disappear only when the cancellation overtook the approval.
DeletionIsAgreed ==
    [][\A e \in Engagements : Live(e) /\ engagements'[e] = Deleted =>
          \E w \in Workers :
             /\ At(w, "approve", "collected") /\ req[w].target = e
             /\ pending[e] = NoTicket => stale[w]
             /\ pending[e] # NoTicket => req[w].actor # pending[e].by
      ]_vars

\* Every entry is shown on its engagement's timeline and in its report.
StagesFit ==
    \A x \in Entries : Present(x) =>
        x \in Timeline(entries[x].of) \cap Report(entries[x].of)

\* The same, unless some request committed on overtaken reads.
StagesFitUnlessRaced == StagesFit \/ raced

\* The newest archive row of the activity log says whether the engagement is
\* archived, however toggles overlap.
ArchivedAsLogged ==
    \A e \in Engagements : Live(e) => engagements[e].archived = logged[e].archived

\* The newest status row of the log tells the status, unless some request
\* committed on overtaken reads: a status that is assigned the value it was
\* loaded with is logged and not written.
StatusAsLoggedUnlessRaced ==
    \/ \A e \in Engagements : Live(e) => engagements[e].status = logged[e].status
    \/ raced

\* A deletion of e is on its way that a row joined after its collection.
Crossed(e) == \E w \in Workers : req[w].target = e /\ uncollected[w]

\* "It needs approval from another admin or operator before it takes effect":
\* a deletion request that keeps being approved comes to an end, because a
\* refused attempt leaves nothing behind and the next one collects the rows that
\* joined -- unless rows go on joining for ever just when a deletion has made its
\* collection, which nothing in the code prevents.
DeletionHappensUnlessCrossed ==
    \A e \in Engagements :
        \/ []<>Crossed(e)
        \/ pending[e] # NoTicket ~> pending[e] = NoTicket
=============================================================================
