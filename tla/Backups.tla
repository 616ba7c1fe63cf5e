------------------------------ MODULE Backups -------------------------------
(***************************************************************************)
(* Backup destinations, the in-process scheduler that runs them, the runs  *)
(* themselves and the restore that replaces the whole database.  Workers   *)
(* are the web threads and the scheduler's pool.                           *)
(*                                                                         *)
(* A transaction holds every table it has read until it ends; a restore    *)
(* (TRUNCATE) wants all tables to itself and makes whoever starts a        *)
(* transaction meanwhile wait behind it.  "Run now" holds the request's    *)
(* transaction while the run opens a second one of its own.                *)
(***************************************************************************)
EXTENDS Integers, OrmSession

CONSTANTS MaxId,        \* bound: destination ids the sequence hands out
          Frequencies,  \* "manual" and the scheduled ones
          Workers,      \* web threads and pool threads
          Operations,   \* the kinds of request the clients send
          NoRow, NoJob, NoArchive

ASSUME FrequencyAssumption == "manual" \in Frequencies
ASSUME IdAssumption == MaxId \in Nat

Ids == 1 .. MaxId
Outcomes == {"success", "failed"}
Row == [frequency : Frequencies, active : BOOLEAN, status : Outcomes \cup {"none"}]

ASSUME BackupNullsAssumption == NoRow \notin Row /\ NoJob \notin Frequencies

VARIABLES dests,    \* backup_destinations
          newest,   \* the status of each destination's newest backup_run_logs row
          nextId,   \* the sequence of destination ids
          jobs,     \* the scheduler's jobs: destination id to interval
          archive,  \* the database export an admin would restore, if any
          req,      \* what each worker is doing
          stale,    \* history: what the worker read has changed since
          raced,    \* history: an outcome recorded while stale, or a torn restore
          drifted   \* history: since the start, a restore, or a sync while stale

tables == <<dests, newest, nextId>>
vars == <<tables, jobs, archive, req, stale, raced, drifted>>

Request == [op : {"none", "create", "edit", "delete", "record", "run", "run_now",
                  "restore"},
            step : {"idle", "loaded", "committed", "looking", "removing", "adding",
                    "fired", "copying", "uploaded", "failed", "refetched", "waits"},
            id : Ids \cup {0}, seen : Row \cup {NoRow},
            job : Frequencies \cup {NoJob},       \* the job a sync is to add
            copy : [Ids -> Row \cup {NoRow}]]     \* the destinations a run exported

NoRows == [d \in Ids |-> NoRow]

Idle == [op |-> "none", step |-> "idle", id |-> 0, seen |-> NoRow, job |-> NoJob,
         copy |-> NoRows]

At(w, o, s) == req[w].op = o /\ req[w].step = s
Syncs(w) == req[w].op \in {"create", "edit", "delete"}
Runs(w) == req[w].op \in {"run", "run_now"}
Moves(w, r) == req' = [req EXCEPT ![w] = r]

Exists(d) == dests[d] # NoRow

\* What _schedule_job makes of a row: nothing for a manual frequency.
Scheduled(row) == IF row # NoRow /\ row.active /\ row.frequency # "manual"
                  THEN row.frequency ELSE NoJob

Init == /\ dests = NoRows
        /\ newest = [d \in Ids |-> "none"]
        /\ nextId = 1
        /\ jobs = [d \in Ids |-> NoJob]
        /\ archive = NoArchive
        /\ req = [w \in Workers |-> Idle]
        /\ stale = [w \in Workers |-> FALSE]
        /\ raced = FALSE
        /\ drifted = FALSE

-----------------------------------------------------------------------------
(* Transactions.                                                           *)

\* A restore is waiting for the tables: a new transaction queues behind it.
Queued(w) == \E v \in Workers \ {w} : At(v, "restore", "waits")

\* Slip: a request or run keeps its transaction from first to last step.
HoldsThroughout(w) == req[w] # Idle

\* Worker w has read tables in a transaction that is still open.
Holds(w) == \/ req[w].step \in {"loaded", "copying", "uploaded", "refetched", "waits"}
            \/ req[w].op \in {"create", "edit"} /\ req[w].step \in {"looking", "removing", "adding"}
            \/ req[w].op = "run_now"

\* w's writes make whoever has read stale: rows for all, jobs for who syncs.
Overtakes(w) ==
    stale' = [v \in Workers |->
                 /\ v # w
                 /\ req[v].step \notin {"idle", "fired", "failed", "committed"}
                 /\ \/ stale[v]
                    \/ tables' # tables
                    \/ jobs' # jobs /\ Syncs(v)]

Reads == UNCHANGED <<tables, jobs, archive, stale, raced, drifted>>

\* The request ends with nothing more written: refused, or rolled back.
Ends(w) == /\ Moves(w, Idle)
           /\ stale' = [stale EXCEPT ![w] = FALSE]
           /\ UNCHANGED <<tables, jobs, archive, raced>>

\* POST edit, delete, record-run and run-now: get_or_404.  An edit and a
\* recorded run use the loaded columns.
Load(w) ==
    /\ req[w] = Idle
    /\ ~Queued(w)
    /\ \E o \in Operations \cap {"edit", "delete", "record", "run_now"}, d \in Ids :
          /\ Exists(d)
          /\ Moves(w, [Idle EXCEPT !.op = o, !.id = d,
                                   !.step = IF o = "run_now" THEN "fired" ELSE "loaded",
                                   !.seen = IF o \in {"edit", "record"} THEN dests[d] ELSE @])
    /\ Reads

-----------------------------------------------------------------------------
(* Destinations.                                                           *)

CreateCommit(w) ==
    /\ "create" \in Operations
    /\ req[w] = Idle
    /\ ~Queued(w)
    /\ nextId \in Ids
    /\ \E f \in Frequencies, a \in BOOLEAN :
          dests' = [dests EXCEPT ![nextId] =
                       [frequency |-> f, active |-> a, status |-> "none"]]
    /\ nextId' = nextId + 1
    /\ UNCHANGED <<newest, jobs, archive, raced, drifted>>
    /\ Moves(w, [Idle EXCEPT !.op = "create", !.step = "committed", !.id = nextId])
    /\ Overtakes(w)

\* Nothing differs: no UPDATE.  Otherwise an UPDATE of a row that is gone fails.
EditCommit(w) ==
    LET r == req[w] IN
    /\ At(w, "edit", "loaded")
    /\ \E f \in Frequencies, a \in BOOLEAN :
          LET want == [r.seen EXCEPT !.frequency = f, !.active = a] IN
          IF Dirty(r.seen, want) /\ ~Exists(r.id)
          THEN Ends(w) /\ UNCHANGED drifted
          ELSE /\ dests' = IF Exists(r.id)
                           THEN [dests EXCEPT
                                   ![r.id].frequency = Column(@, r.seen.frequency, f),
                                   ![r.id].active = Column(@, r.seen.active, a)]
                           ELSE dests
               /\ UNCHANGED <<newest, nextId, jobs, archive, raced, drifted>>
               /\ Moves(w, [r EXCEPT !.step = "committed", !.seen = NoRow])
               /\ Overtakes(w)

\* The log rows go with the destination; deleting a row that is gone only warns.
DeleteCommit(w) ==
    LET r == req[w] IN
    /\ At(w, "delete", "loaded")
    /\ dests' = [dests EXCEPT ![r.id] = NoRow]
    /\ newest' = [newest EXCEPT ![r.id] = "none"]
    /\ UNCHANGED <<nextId, jobs, archive, raced, drifted>>
    /\ Moves(w, [r EXCEPT !.step = "looking", !.seen = NoRow])
    /\ Overtakes(w)

\* Slips: every row is scheduled, or every row with an interval.
EveryRow(row) == row.frequency

AlwaysScheduled(row) == IF row.frequency = "manual" THEN NoJob ELSE row.frequency

\* The job sync_job adds after the removal, for the row as it read it.
JobAfter(row) == Scheduled(row)

\* sync_job's first look at the destination refreshes the row the commit has
\* expired, in a new transaction; a row that is gone ends the request.
SyncRead(w) ==
    LET r == req[w] IN
    /\ r.step = "committed"
    /\ ~Queued(w)
    /\ IF Exists(r.id)
       THEN Moves(w, [r EXCEPT !.step = "looking", !.job = JobAfter(dests[r.id])]) /\ Reads
       ELSE Ends(w) /\ UNCHANGED drifted

\* The last step of sync_job or remove_job: worker w leaves `job` in the table.
Settles(w, job) ==
    /\ jobs' = [jobs EXCEPT ![req[w].id] = job]
    /\ drifted' = (drifted \/ stale[w])
    /\ Moves(w, Idle)
    /\ UNCHANGED <<tables, archive, raced>>
    /\ Overtakes(w)

\* get_job
Look(w) ==
    LET r == req[w] IN
    /\ r.step = "looking"
    /\ Moves(w, [r EXCEPT !.step = IF jobs[r.id] # NoJob THEN "removing" ELSE "adding"])
    /\ Reads

\* remove_job; a job that another thread has removed meanwhile is a
\* JobLookupError, and nothing is added.
Remove(w) ==
    LET r == req[w] IN
    /\ r.step = "removing"
    /\ IF jobs[r.id] = NoJob
       THEN Settles(w, NoJob)
       ELSE /\ jobs' = [jobs EXCEPT ![r.id] = NoJob]
            /\ Moves(w, [r EXCEPT !.step = "adding"])
            /\ stale' = [v \in Workers |-> stale[v] \/ (v # w /\ Syncs(v)
                             /\ req[v].step \in {"looking", "removing", "adding"})]
            /\ UNCHANGED <<tables, archive, raced, drifted>>

\* add_job, if the row says so; delete_backup is done.
Add(w) ==
    LET r == req[w] IN
    /\ r.step = "adding"
    /\ Settles(w, IF r.job # NoJob THEN r.job ELSE jobs[r.id])

-----------------------------------------------------------------------------
(* Runs.                                                                   *)

\* The interval trigger fires; max_instances=1 skips a job that still runs.
Fire(w) ==
    /\ "run" \in Operations
    /\ req[w] = Idle
    /\ \E d \in Ids :
          /\ jobs[d] # NoJob
          /\ \A v \in Workers : ~(req[v].op = "run" /\ req[v].id = d)
          /\ Moves(w, [Idle EXCEPT !.op = "run", !.step = "fired", !.id = d])
    /\ Reads

\* run_backup opens an application context of its own, so a session and a
\* transaction of its own, and reads the destination in it; build_archive then
\* reads one table after the other, the destinations before their log rows.
RunBegin(w) ==
    LET r == req[w] IN
    /\ r.step = "fired"
    /\ ~Queued(w)
    /\ IF Exists(r.id)
       THEN Moves(w, [r EXCEPT !.step = "copying", !.seen = dests[r.id], !.copy = dests])
            /\ Reads
       ELSE Ends(w) /\ UNCHANGED drifted

\* Under READ COMMITTED each SELECT sees what is committed by then: the export
\* is torn if another transaction committed between the two.
Export(w) == [dests |-> req[w].copy, newest |-> newest, torn |-> stale[w]]

\* The rest of build_archive, and upload: the export may become the one an
\* admin restores (not while a restore works from the one before), or something
\* fails and the transaction is rolled back.
RunUpload(w) ==
    /\ req[w].step = "copying"
    /\ \/ /\ Moves(w, [req[w] EXCEPT !.step = "uploaded", !.copy = NoRows])
          /\ \/ archive' = Export(w) /\ \A v \in Workers : req[v].op # "restore"
             \/ UNCHANGED archive
          /\ UNCHANGED stale
       \/ /\ Moves(w, [req[w] EXCEPT !.step = "failed", !.seen = NoRow, !.copy = NoRows])
          /\ stale' = [stale EXCEPT ![w] = FALSE]
          /\ UNCHANGED archive
    /\ UNCHANGED <<tables, jobs, raced, drifted>>

\* Slip: the handler records a success whatever happened.
AlwaysSuccess(o) == "success"

\* What the snapshot columns are assigned.
Recorded(o) == o

\* The outcome goes to the destination's snapshot, as far as it differs from
\* the status loaded when the run began, and to a new log row.
Records(w, o) ==
    LET r == req[w] IN
    /\ dests' = [dests EXCEPT ![r.id].status = Column(@, r.seen.status, Recorded(o))]
    /\ newest' = [newest EXCEPT ![r.id] = o]
    /\ raced' = (raced \/ stale[w])
    /\ UNCHANGED <<nextId, jobs, archive, drifted>>
    /\ Moves(w, Idle)
    /\ Overtakes(w)

RunRecord(w) ==
    LET r == req[w] IN
    /\ r.step = "uploaded"
    /\ IF Exists(r.id)
       THEN Records(w, "success")
       ELSE /\ Moves(w, [r EXCEPT !.step = "failed", !.seen = NoRow])
            /\ stale' = [stale EXCEPT ![w] = FALSE]
            /\ UNCHANGED <<tables, jobs, archive, raced, drifted>>

\* The except branch reads the destination again, in a new transaction.
RunRefetch(w) ==
    LET r == req[w] IN
    /\ r.step = "failed"
    /\ ~Queued(w)
    /\ IF Exists(r.id)
       THEN Moves(w, [r EXCEPT !.step = "refetched", !.seen = dests[r.id]]) /\ Reads
       ELSE Ends(w) /\ UNCHANGED drifted

RunFailed(w) ==
    /\ req[w].step = "refetched"
    /\ IF Exists(req[w].id)
       THEN Records(w, "failed")
       ELSE Ends(w) /\ UNCHANGED drifted

\* POST /backups/<id>/record-run
RecordCommit(w) ==
    /\ At(w, "record", "loaded")
    /\ IF Exists(req[w].id)
       THEN \E o \in Outcomes : Records(w, o)
       ELSE Ends(w) /\ UNCHANGED drifted

-----------------------------------------------------------------------------
(* Restore.                                                                *)

\* The form is a page of some destination: get_or_404.
RestoreLoad(w) ==
    /\ "restore" \in Operations
    /\ req[w] = Idle
    /\ ~Queued(w)
    /\ archive # NoArchive
    /\ \E d \in Ids : Exists(d)
    /\ Moves(w, [Idle EXCEPT !.op = "restore", !.step = "loaded"])
    /\ Reads

\* TRUNCATE asks for every table.
RestoreQueue(w) ==
    /\ At(w, "restore", "loaded")
    /\ Moves(w, [req[w] EXCEPT !.step = "waits"])
    /\ Reads

\* Slip: RESTART IDENTITY without setval.
FirstId(rows) == 1

\* RESTART IDENTITY, then setval to the greatest id if there is one.
IdAfter(rows) == CHOOSE n \in 1 .. MaxId + 1 :
                    /\ \A d \in Ids : d >= n => rows[d] = NoRow
                    /\ n > 1 => rows[n - 1] # NoRow

\* A log row's destination is in the export too.
Loadable(a) == \A d \in Ids : a.newest[d] # "none" => a.dests[d] # NoRow

\* All tables are replaced; the scheduler hears nothing of it.  A log row
\* without its destination fails the foreign key, and nothing is restored.
RestoreCommit(w) ==
    /\ At(w, "restore", "waits")
    /\ \A v \in Workers \ {w} : ~Holds(v)
    /\ IF ~Loadable(archive)
       THEN Ends(w) /\ UNCHANGED drifted
       ELSE /\ dests' = archive.dests
            /\ newest' = archive.newest
            /\ nextId' = IdAfter(archive.dests)
            /\ drifted' = TRUE
            /\ raced' = (raced \/ archive.torn)
            /\ UNCHANGED <<jobs, archive>>
            /\ Moves(w, Idle)
            /\ Overtakes(w)

\* Two restores wait for each other: the database fails one of them.
RestoreVictim(w) ==
    /\ At(w, "restore", "waits")
    /\ Queued(w)
    /\ Ends(w)
    /\ UNCHANGED drifted

-----------------------------------------------------------------------------
\* The handler refuses: a blank name, an invalid choice, a wrong phrase.
Refuse(w) == req[w].step = "loaded" /\ Ends(w) /\ UNCHANGED drifted

\* The process restarts: init_scheduler schedules every active destination.
Restart == /\ req' = [w \in Workers |-> Idle]
           /\ stale' = [w \in Workers |-> FALSE]
           /\ jobs' = [d \in Ids |-> Scheduled(dests[d])]
           /\ drifted' = FALSE
           /\ UNCHANGED <<tables, archive, raced>>

Step(w) == \/ Load(w) \/ Refuse(w)
           \/ CreateCommit(w) \/ EditCommit(w) \/ DeleteCommit(w)
           \/ SyncRead(w) \/ Look(w) \/ Remove(w) \/ Add(w)
           \/ Fire(w) \/ RunBegin(w) \/ RunUpload(w) \/ RunRecord(w)
           \/ RunRefetch(w) \/ RunFailed(w) \/ RecordCommit(w)
           \/ RestoreLoad(w) \/ RestoreQueue(w) \/ RestoreCommit(w) \/ RestoreVictim(w)

Next == Restart \/ \E w \in Workers : Step(w)

Spec == Init /\ [][Next]_vars

\* For liveness: a thread goes on with what it has begun.  Strong fairness, as
\* the database serves its lock queue in order: whoever waits behind a restore
\* is served before the restore that comes next.
Continues(w) == req[w] # Idle /\ Step(w)
FairSpec == Spec /\ \A w \in Workers : SF_vars(Continues(w))

-----------------------------------------------------------------------------
(* Properties.                                                             *)

TypeOK ==
    /\ dests \in [Ids -> Row \cup {NoRow}]
    /\ newest \in [Ids -> Outcomes \cup {"none"}]
    /\ nextId \in 1 .. MaxId + 1
    /\ jobs \in [Ids -> (Frequencies \ {"manual"}) \cup {NoJob}]
    /\ archive = NoArchive \/ (/\ archive.dests \in [Ids -> Row \cup {NoRow}]
                               /\ archive.newest \in [Ids -> Outcomes \cup {"none"}]
                               /\ archive.torn \in BOOLEAN)
    /\ req \in [Workers -> Request]
    /\ stale \in [Workers -> BOOLEAN]
    /\ raced \in BOOLEAN
    /\ drifted \in BOOLEAN

\* No request is between its commit and the end of its sync.
Settled == \A w \in Workers :
              ~(Syncs(w) /\ req[w].step \in {"committed", "looking", "removing", "adding"})

\* "Call this right after any create/edit so the running schedule matches the
\* database": once every request has finished, the jobs are the active rows.
ScheduleMatches == Settled => \A d \in Ids : jobs[d] = Scheduled(dests[d])

\* The same, as far as sync_job reaches: unless a restore replaced the rows or
\* two syncs overlapped since the process started.
ScheduleMatchesUnlessDrifted == ScheduleMatches \/ drifted

\* run_backup "records the outcome (both on the destination's last-run snapshot
\* and as a BackupRunLog row)": the snapshot tells the newest log row's status.
SnapshotIsNewest == \A d \in Ids : Exists(d) => dests[d].status = newest[d]

\* The same, unless a run recorded its outcome over rows changed since it began,
\* or a restore loaded an export that another transaction had torn.
SnapshotIsNewestUnlessRaced == SnapshotIsNewest \/ raced

\* The sequence stays ahead of the ids in the table, across restores: the next
\* destination never collides with one that exists.
SequenceAhead == \A d \in Ids : Exists(d) => d < nextId

\* A run the scheduler started comes to its end, restores waiting or not, as
\* long as nobody uses the form's run (RunNowEnds says why).
ScheduledRunEnds ==
    \A w \in Workers : req[w].op = "run" ~> req[w].op # "run"

\* "Safe to call directly for a manual Run Now (inside a request's app
\* context)": a run from the form comes to its end too.
RunNowEnds ==
    \A w \in Workers : req[w].op = "run_now" ~> req[w].op # "run_now"
=============================================================================
