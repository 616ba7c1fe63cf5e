--------------------------- MODULE BackupsProofs ----------------------------
(***************************************************************************)
(* Theorems about Backups, for any number of destinations, intervals and   *)
(* threads: the sequence stays ahead of the table, the jobs are the active *)
(* rows unless two syncs overlapped or a restore came, and the snapshot    *)
(* tells the newest log row unless a run recorded over changed rows.       *)
(***************************************************************************)
EXTENDS Backups, WellFoundedInduction, TLAPS

-----------------------------------------------------------------------------
(* The inductive invariant.                                                *)

\* Which steps a request takes, and what it is about.
Shape(w) ==
    LET r == req[w] IN
    \/ r.op = "none" /\ r.step = "idle"
    \/ /\ r.op \in {"create", "edit"} /\ r.id \in Ids
       /\ r.step \in {"loaded", "committed", "looking", "removing", "adding"}
    \/ /\ r.op = "delete" /\ r.id \in Ids /\ r.job = NoJob
       /\ r.step \in {"loaded", "looking", "removing", "adding"}
    \/ r.op = "record" /\ r.id \in Ids /\ r.step = "loaded"
    \/ /\ r.op \in {"run", "run_now"} /\ r.id \in Ids
       /\ r.step \in {"fired", "copying", "uploaded", "failed", "refetched"}
    \/ r.op = "restore" /\ r.step \in {"loaded", "waits"} /\ archive # NoArchive

Recording(w) == req[w].op = "record" \/ req[w].step \in {"copying", "uploaded", "refetched"}

InSync(w) == req[w].step \in {"looking", "removing", "adding"}

\* While nothing it read has changed, a request knows the tables and the jobs.
Knows(w) ==
    LET r == req[w] IN
    /\ Recording(w) => Exists(r.id) /\ r.seen.status = dests[r.id].status
    /\ r.step = "copying" => r.copy = dests
    /\ InSync(w) => r.job = Scheduled(dests[r.id])
    /\ r.step = "removing" => jobs[r.id] # NoJob
    /\ r.step = "adding" => jobs[r.id] = NoJob

Fits(w) == Shape(w) /\ req[w].job # "manual" /\ (stale[w] \/ Knows(w))

TablesTypeOK == /\ dests \in [Ids -> Row \cup {NoRow}]
                /\ newest \in [Ids -> Outcomes \cup {"none"}]
                /\ nextId \in 1 .. MaxId + 1

\* The log rows go with their destination.
TablesOK == /\ TablesTypeOK /\ SequenceAhead
            /\ \A d \in Ids : ~Exists(d) => newest[d] = "none"

JobsOK == jobs \in [Ids -> (Frequencies \ {"manual"}) \cup {NoJob}]

ArchiveOK ==
    /\ archive = NoArchive \/ (/\ archive.dests \in [Ids -> Row \cup {NoRow}]
                               /\ archive.newest \in [Ids -> Outcomes \cup {"none"}]
                               /\ archive.torn \in BOOLEAN)
    /\ \/ archive = NoArchive \/ archive.torn \/ raced
       \/ \A d \in Ids : archive.dests[d] # NoRow => archive.dests[d].status = archive.newest[d]

\* Some request is about to settle the job of d.
Syncing(w, d) == /\ Syncs(w) /\ req[w].id = d
                 /\ InSync(w) \/ (req[w].step = "committed" /\ Exists(d))

Covered(d) == jobs[d] = Scheduled(dests[d]) \/ \E w \in Workers : Syncing(w, d)

IInv == /\ TypeOK /\ TablesOK /\ ArchiveOK
        /\ SnapshotIsNewestUnlessRaced
        /\ drifted \/ \A d \in Ids : Covered(d)
        /\ \A w \in Workers : Fits(w)

-----------------------------------------------------------------------------
(* The sequence after a restore.                                           *)

Below == {p \in Nat \X Nat : p[1] < p[2]}

LEMMA BelowWellFounded == IsWellFoundedOn(Below, Nat)
BY NatLessThanWellFounded DEF OpToRel, Below

LEMMA LeastNumber ==
    ASSUME NEW T \in SUBSET Nat, T # {}
    PROVE  \E n \in T : \A m \in T : n <= m
<1>1. PICK n \in T : \A m \in T : <<m, n>> \notin Below
  BY BelowWellFounded, WFMin, Zenon
<1>2. ASSUME NEW m \in T PROVE n <= m
  <2>1. m \in Nat /\ n \in Nat /\ <<m, n>> \notin Below
    BY <1>1
  <2>2. ~(m < n)
    BY <2>1 DEF Below
  <2> QED BY <2>1, <2>2
<1> QED BY <1>2

\* setval: the next id comes after every id in the table.
LEMMA IdAfterIsAhead ==
    ASSUME NEW r \in [Ids -> Row \cup {NoRow}]
    PROVE  /\ IdAfter(r) \in 1 .. MaxId + 1
           /\ \A d \in Ids : r[d] # NoRow => d < IdAfter(r)
<1> DEFINE T == {n \in 1 .. MaxId + 1 : \A d \in Ids : d >= n => r[d] = NoRow}
<1>1. T \in SUBSET Nat /\ MaxId + 1 \in T
  BY IdAssumption DEF Ids
<1>2. PICK n \in T : \A m \in T : n <= m
  BY <1>1, LeastNumber
<1>3. n \in 1 .. MaxId + 1 /\ \A d \in Ids : d >= n => r[d] = NoRow
  OBVIOUS
<1>4. ASSUME n > 1 PROVE r[n - 1] # NoRow
  <2>1. n - 1 \in 1 .. MaxId /\ n - 1 \notin T
    BY <1>2, <1>3, <1>4, IdAssumption
  <2>2. PICK d \in Ids : d >= n - 1 /\ r[d] # NoRow
    BY <2>1, IdAssumption
  <2>3. d = n - 1
    BY <1>3, <2>1, <2>2 DEF Ids
  <2> QED BY <2>2, <2>3
<1>5. /\ IdAfter(r) \in 1 .. MaxId + 1
      /\ \A d \in Ids : d >= IdAfter(r) => r[d] = NoRow
  BY <1>3, <1>4 DEF IdAfter
<1>6. \A d \in Ids : d \in Int
  BY DEF Ids
<1> QED BY <1>5, <1>6, IdAssumption

-----------------------------------------------------------------------------
(* What every step does to the others' requests and to the jobs.           *)

\* v takes no part: what it read is as it was, or it is stale.
Bystander(v) ==
    /\ req'[v] = req[v]
    /\ archive # NoArchive => archive' # NoArchive \/ req[v].op # "restore"
    /\ Recording(v) \/ InSync(v) =>
          stale'[v] \/ (~stale[v] /\ dests' = dests /\ (InSync(v) => jobs' = jobs))

LEMMA StillFits == ASSUME NEW v \in Workers, Bystander(v), Fits(v) PROVE Fits(v)'
<1>1. Shape(v)'
  BY DEF Bystander, Fits, Shape
<1>2. stale'[v] \/ Knows(v)'
  BY DEF Bystander, Fits, Knows, Recording, InSync, Exists
<1> QED BY <1>1, <1>2 DEF Bystander, Fits

LEMMA IdleFits == ASSUME NEW w \in Workers, req[w] = Idle PROVE Fits(w)
BY FrequencyAssumption, BackupNullsAssumption DEF Idle, Fits, Shape, Knows, Recording, InSync

LEMMA IdleIsRequest == Idle \in Request
BY DEF Idle, Request, NoRows

LEMMA StillCovered ==
    ASSUME NEW w \in Workers, NEW d \in Ids, \A v \in Workers \ {w} : req'[v] = req[v],
           jobs'[d] = jobs[d], Scheduled(dests'[d]) = Scheduled(dests[d]),
           Exists(d) => dests'[d] # NoRow, Syncing(w, d) => Syncing(w, d)', Covered(d)
    PROVE  Covered(d)'
<1>1. ASSUME NEW v \in Workers, Syncing(v, d) PROVE Syncing(v, d)'
  BY <1>1 DEF Syncing, Syncs, InSync, Exists
<1> QED BY <1>1 DEF Covered

LEMMA MovesOwn ==
    ASSUME TypeOK, NEW w \in Workers, NEW r \in Request, Moves(w, r)
    PROVE  /\ req' \in [Workers -> Request] /\ req'[w] = r
           /\ \A v \in Workers \ {w} : req'[v] = req[v]
BY DEF Moves, TypeOK

\* A step that reads.
LEMMA ReadKeeps ==
    ASSUME IInv, NEW w \in Workers, NEW r \in Request, Moves(w, r), Reads, Fits(w)',
           \A d \in Ids : Syncing(w, d) => Syncing(w, d)'
    PROVE  IInv'
<1>1. /\ req' \in [Workers -> Request] /\ \A v \in Workers \ {w} : req'[v] = req[v]
      /\ UNCHANGED <<dests, newest, nextId, jobs, archive, stale, raced, drifted>>
  BY MovesOwn DEF IInv, Reads, tables
<1>2. TypeOK' /\ TablesOK' /\ ArchiveOK' /\ SnapshotIsNewestUnlessRaced'
  BY <1>1 DEF IInv, TypeOK, TablesOK, TablesTypeOK, SequenceAhead, Exists, ArchiveOK,
     SnapshotIsNewestUnlessRaced, SnapshotIsNewest
<1>3. drifted' \/ \A d \in Ids : Covered(d)'
  BY <1>1, StillCovered DEF IInv, Exists
<1>4. ASSUME NEW v \in Workers, v # w PROVE Fits(v)'
  BY <1>1, <1>4, StillFits DEF IInv, Bystander
<1> QED BY <1>2, <1>3, <1>4 DEF IInv

\* A request that ends with nothing written, before it has a job to settle.
LEMMA EndsKeeps ==
    ASSUME IInv, NEW w \in Workers, Ends(w), UNCHANGED drifted, \A d \in Ids : ~Syncing(w, d)
    PROVE  IInv'
<1>1. /\ req' \in [Workers -> Request] /\ req'[w] = Idle
      /\ \A v \in Workers \ {w} : req'[v] = req[v]
      /\ UNCHANGED <<dests, newest, nextId, jobs, archive, raced, drifted>>
  BY MovesOwn, IdleIsRequest DEF IInv, Ends, tables
<1>2. /\ stale' \in [Workers -> BOOLEAN]
      /\ \A v \in Workers \ {w} : stale'[v] = stale[v]
  BY DEF IInv, TypeOK, Ends
<1>3. TypeOK' /\ TablesOK' /\ ArchiveOK' /\ SnapshotIsNewestUnlessRaced'
  BY <1>1, <1>2 DEF IInv, TypeOK, TablesOK, TablesTypeOK, SequenceAhead, Exists, ArchiveOK,
     SnapshotIsNewestUnlessRaced, SnapshotIsNewest
<1>4. drifted' \/ \A d \in Ids : Covered(d)'
  BY <1>1, StillCovered DEF IInv, Exists
<1>5. ASSUME NEW v \in Workers, v # w PROVE Fits(v)'
  BY <1>1, <1>2, <1>5, StillFits DEF IInv, Bystander
<1>6. Fits(w)'
  BY <1>1, FrequencyAssumption, BackupNullsAssumption
  DEF Idle, Fits, Shape, Knows, Recording, InSync
<1> QED BY <1>3, <1>4, <1>5, <1>6 DEF IInv

\* A step that writes tables or jobs.
LEMMA WriteKeeps ==
    ASSUME IInv, NEW w \in Workers, NEW r \in Request, Moves(w, r), Overtakes(w),
           UNCHANGED archive, TablesOK', JobsOK', raced' \in BOOLEAN, drifted' \in BOOLEAN,
           raced => raced', SnapshotIsNewestUnlessRaced',
           drifted' \/ \A d \in Ids : Covered(d)',
           Fits(w)'
    PROVE  IInv'
<1>1. /\ req' \in [Workers -> Request] /\ \A v \in Workers \ {w} : req'[v] = req[v]
  BY MovesOwn DEF IInv
<1>2. /\ stale' \in [Workers -> BOOLEAN]
      /\ \A v \in Workers \ {w} : Recording(v) \/ InSync(v) =>
            stale'[v] \/ (~stale[v] /\ tables' = tables /\ (InSync(v) => jobs' = jobs))
  <2>1. \A v \in Workers : Recording(v) \/ InSync(v) =>
           /\ req[v].step \notin {"idle", "fired", "failed", "committed"}
           /\ InSync(v) => Syncs(v)
    BY DEF Recording, InSync, Syncs, IInv, Fits, Shape
  <2> QED BY <2>1 DEF Overtakes, IInv, TypeOK
<1>3. ArchiveOK'
  BY DEF IInv, ArchiveOK
<1>4. TypeOK'
  BY <1>1, <1>2 DEF IInv, TypeOK, TablesOK, TablesTypeOK, JobsOK
<1>5. ASSUME NEW v \in Workers, v # w PROVE Fits(v)'
  <2>1. Bystander(v)
    BY <1>1, <1>2, <1>5 DEF Bystander, tables
  <2> QED BY <2>1, StillFits DEF IInv
<1> QED BY <1>3, <1>4, <1>5 DEF IInv

-----------------------------------------------------------------------------
(* Requests that load, and syncs.                                          *)

LEMMA LoadKeeps == ASSUME IInv, NEW w \in Workers, Load(w) PROVE IInv'
<1>1. PICK o \in {"edit", "delete", "record", "run_now"}, d \in Ids :
         /\ Exists(d)
         /\ Moves(w, [Idle EXCEPT !.op = o, !.id = d,
                                  !.step = IF o = "run_now" THEN "fired" ELSE "loaded",
                                  !.seen = IF o \in {"edit", "record"} THEN dests[d] ELSE @])
  BY DEF Load
<1> DEFINE at == IF o = "run_now" THEN "fired" ELSE "loaded"
           seen == IF o \in {"edit", "record"} THEN dests[d] ELSE Idle.seen
           r == [Idle EXCEPT !.op = o, !.id = d, !.step = at, !.seen = seen]
<1>2. Moves(w, r) /\ Reads /\ req[w] = Idle
  BY <1>1 DEF Load
<1>3. /\ r \in Request /\ r.op = o /\ r.id = d /\ r.step = at /\ r.seen = seen /\ r.job = NoJob
  BY DEF Idle, Request, NoRows, IInv, TypeOK
<1> HIDE DEF r
<1>4. req'[w] = r
  BY <1>2, <1>3, MovesOwn DEF IInv
<1>5. UNCHANGED <<dests, jobs, stale>>
  BY <1>2 DEF Reads, tables
<1>6. Fits(w)'
  BY <1>1, <1>3, <1>4, <1>5, FrequencyAssumption, BackupNullsAssumption
  DEF Fits, Shape, Knows, Recording, InSync, Exists
<1>7. \A e \in Ids : ~Syncing(w, e)
  BY <1>2 DEF Syncing, Syncs, Idle
<1> QED BY <1>2, <1>3, <1>6, <1>7, ReadKeeps

LEMMA CreateKeeps == ASSUME IInv, NEW w \in Workers, CreateCommit(w) PROVE IInv'
<1>1. PICK f \in Frequencies, a \in BOOLEAN :
         dests' = [dests EXCEPT ![nextId] = [frequency |-> f, active |-> a, status |-> "none"]]
  BY DEF CreateCommit
<1> DEFINE row == [frequency |-> f, active |-> a, status |-> "none"]
           d == nextId
           r == [Idle EXCEPT !.op = "create", !.step = "committed", !.id = d]
<1>2. /\ d \in Ids /\ nextId' = d + 1 /\ UNCHANGED <<newest, jobs, archive, raced, drifted>>
      /\ Moves(w, r) /\ Overtakes(w) /\ req[w] = Idle
  BY DEF CreateCommit
<1>3. row \in Row /\ row.status = "none" /\ row # NoRow
  BY BackupNullsAssumption DEF Row
<1>4. dests' = [dests EXCEPT ![d] = row]
  BY <1>1
<1> HIDE DEF row
<1>5. /\ r \in Request /\ r.op = "create" /\ r.step = "committed" /\ r.id = d
      /\ r.job = NoJob
  BY <1>2 DEF Idle, Request, NoRows
<1> HIDE DEF r
<1>6. req'[w] = r /\ \A v \in Workers \ {w} : req'[v] = req[v]
  BY <1>2, <1>5, MovesOwn DEF IInv
<1>7. TablesOK
  BY DEF IInv
<1>8. dests'[d] = row /\ \A e \in Ids \ {d} : dests'[e] = dests[e]
  BY <1>2, <1>4, <1>7 DEF TablesOK, TablesTypeOK
<1>9. ~Exists(d) /\ newest[d] = "none" /\ d \in Nat
  BY <1>2, <1>7 DEF TablesOK, SequenceAhead, Ids
<1>10. TablesTypeOK'
  BY <1>2, <1>3, <1>4, <1>7, IdAssumption DEF TablesOK, TablesTypeOK, Ids
<1>11. SequenceAhead'
  BY <1>2, <1>7, <1>8 DEF TablesOK, SequenceAhead, Exists, Ids
<1>12. TablesOK'
  BY <1>2, <1>3, <1>7, <1>8, <1>10, <1>11 DEF TablesOK, Exists
<1>13. SnapshotIsNewestUnlessRaced'
  BY <1>2, <1>3, <1>8, <1>9 DEF IInv, SnapshotIsNewestUnlessRaced, SnapshotIsNewest, Exists
<1>14. ASSUME NEW e \in Ids, Covered(e) PROVE Covered(e)'
  <2>1. CASE e = d
    BY <1>3, <1>5, <1>6, <1>8, <2>1 DEF Covered, Syncing, Syncs, Exists
  <2>2. CASE e # d
    <3>1. ~Syncing(w, e)
      BY <1>2 DEF Syncing, Syncs, Idle
    <3> QED BY <1>2, <1>6, <1>8, <1>14, <2>2, <3>1, StillCovered DEF Exists
  <2> QED BY <2>1, <2>2
<1>15. Fits(w)'
  BY <1>2, <1>5, <1>6, FrequencyAssumption, BackupNullsAssumption
  DEF Fits, Shape, Knows, Recording, InSync
<1>16. JobsOK' /\ raced' \in BOOLEAN /\ drifted' \in BOOLEAN
  BY <1>2 DEF IInv, TypeOK, JobsOK
<1> HIDE DEF d
<1> QED BY <1>2, <1>5, <1>12, <1>13, <1>14, <1>15, <1>16, WriteKeeps DEF IInv

\* A commit of an edit or a deletion whose row the sync will look at.
LEMMA EditCommitKeeps == ASSUME IInv, NEW w \in Workers, EditCommit(w) PROVE IInv'
<1> DEFINE d == req[w].id
           r == [req[w] EXCEPT !.step = "committed", !.seen = NoRow]
<1>1. /\ req[w].op = "edit" /\ req[w].step = "loaded" /\ d \in Ids /\ req[w] \in Request
      /\ req[w].job # "manual"
  BY DEF EditCommit, At, IInv, Fits, Shape, TypeOK
<1>2. CASE Ends(w) /\ UNCHANGED drifted
  BY <1>1, <1>2, EndsKeeps DEF Syncing, InSync
<1>3. CASE ~(Ends(w) /\ UNCHANGED drifted)
  <2>1. PICK f \in Frequencies, a \in BOOLEAN :
           /\ dests' = IF Exists(d)
                       THEN [dests EXCEPT ![d].frequency = Column(@, req[w].seen.frequency, f),
                                          ![d].active = Column(@, req[w].seen.active, a)]
                       ELSE dests
           /\ UNCHANGED <<newest, nextId, jobs, archive, raced, drifted>>
           /\ Moves(w, r) /\ Overtakes(w)
    BY <1>3 DEF EditCommit
  <2>2. /\ r \in Request /\ r.op = "edit" /\ r.step = "committed" /\ r.id = d
        /\ r.job = req[w].job
    BY <1>1 DEF Request
  <2> HIDE DEF r
  <2>3. req'[w] = r /\ \A v \in Workers \ {w} : req'[v] = req[v]
    BY <2>1, <2>2, MovesOwn DEF IInv
  <2>4. TablesOK
    BY DEF IInv
  <2>5. /\ dests' \in [Ids -> Row \cup {NoRow}]
        /\ \A e \in Ids \ {d} : dests'[e] = dests[e]
        /\ Exists(d) => dests'[d] \in Row /\ dests'[d].status = dests[d].status
        /\ ~Exists(d) => dests' = dests
    <3>1. CASE ~Exists(d)
      BY <2>1, <2>4, <3>1 DEF TablesOK, TablesTypeOK
    <3>2. CASE Exists(d)
      <4> DEFINE row == [dests[d] EXCEPT !.frequency = Column(@, req[w].seen.frequency, f),
                                         !.active = Column(@, req[w].seen.active, a)]
      <4>1. dests[d] \in Row
        BY <1>1, <2>4, <3>2 DEF TablesOK, TablesTypeOK, Exists
      <4>2. row \in Row /\ row.status = dests[d].status
        BY <4>1 DEF Row, Column
      <4>3. dests' = [dests EXCEPT ![d] = row]
        BY <1>1, <2>1, <2>4, <3>2 DEF TablesOK, TablesTypeOK
      <4> HIDE DEF row
      <4> QED BY <1>1, <2>4, <3>2, <4>2, <4>3 DEF TablesOK, TablesTypeOK
    <3> QED BY <3>1, <3>2
  <2>6. \A e \in Ids : Exists(e) <=> dests'[e] # NoRow
    BY <1>1, <2>5, BackupNullsAssumption DEF Exists
  <2>7. TablesOK'
    BY <2>1, <2>4, <2>5, <2>6 DEF TablesOK, TablesTypeOK, SequenceAhead, Exists
  <2>8. SnapshotIsNewestUnlessRaced'
    BY <2>1, <2>5, <2>6 DEF IInv, SnapshotIsNewestUnlessRaced, SnapshotIsNewest, Exists
  <2>9. ASSUME NEW e \in Ids, Covered(e) PROVE Covered(e)'
    <3>1. CASE e = d /\ Exists(d)
      BY <1>1, <2>2, <2>3, <2>6, <3>1 DEF Covered, Syncing, Syncs, Exists
    <3>2. CASE e # d \/ ~Exists(d)
      <4>1. ~Syncing(w, e) /\ dests'[e] = dests[e]
        BY <1>1, <2>5, <3>2 DEF Syncing, InSync
      <4> QED BY <2>1, <2>3, <2>9, <4>1, StillCovered DEF Exists
    <3> QED BY <3>1, <3>2
  <2>10. Fits(w)'
    BY <1>1, <2>2, <2>3 DEF Fits, Shape, Knows, Recording, InSync
  <2>11. JobsOK' /\ raced' \in BOOLEAN /\ drifted' \in BOOLEAN
    BY <2>1 DEF IInv, TypeOK, JobsOK
  <2> QED BY <2>1, <2>2, <2>7, <2>8, <2>9, <2>10, <2>11, WriteKeeps DEF IInv
<1> QED BY <1>2, <1>3

LEMMA DeleteCommitKeeps == ASSUME IInv, NEW w \in Workers, DeleteCommit(w) PROVE IInv'
<1> DEFINE d == req[w].id
           r == [req[w] EXCEPT !.step = "looking", !.seen = NoRow]
<1>1. /\ req[w].op = "delete" /\ req[w].step = "loaded" /\ d \in Ids /\ req[w] \in Request
      /\ req[w].job = NoJob
  BY DEF DeleteCommit, At, IInv, Fits, Shape, TypeOK
<1>2. /\ dests' = [dests EXCEPT ![d] = NoRow] /\ newest' = [newest EXCEPT ![d] = "none"]
      /\ UNCHANGED <<nextId, jobs, archive, raced, drifted>> /\ Moves(w, r) /\ Overtakes(w)
  BY DEF DeleteCommit
<1>3. r \in Request /\ r.op = "delete" /\ r.step = "looking" /\ r.id = d /\ r.job = NoJob
  BY <1>1 DEF Request
<1> HIDE DEF r
<1>4. req'[w] = r /\ \A v \in Workers \ {w} : req'[v] = req[v]
  BY <1>2, <1>3, MovesOwn DEF IInv
<1>5. TablesOK
  BY DEF IInv
<1>6. /\ dests'[d] = NoRow /\ newest'[d] = "none"
      /\ \A e \in Ids \ {d} : dests'[e] = dests[e] /\ newest'[e] = newest[e]
  BY <1>1, <1>2, <1>5 DEF TablesOK, TablesTypeOK
<1>7. TablesOK'
  BY <1>2, <1>5, <1>6 DEF TablesOK, TablesTypeOK, SequenceAhead, Exists
<1>8. SnapshotIsNewestUnlessRaced'
  BY <1>2, <1>6 DEF IInv, SnapshotIsNewestUnlessRaced, SnapshotIsNewest, Exists
<1>9. ASSUME NEW e \in Ids, Covered(e) PROVE Covered(e)'
  <2>1. CASE e = d
    BY <1>3, <1>4, <2>1 DEF Covered, Syncing, Syncs, InSync
  <2>2. CASE e # d
    BY <1>2, <1>4, <1>6, <1>9, <2>2, StillCovered DEF Exists, Syncing
  <2> QED BY <2>1, <2>2
<1>10. Fits(w)'
  BY <1>1, <1>3, <1>4, <1>6, FrequencyAssumption, BackupNullsAssumption
  DEF Fits, Shape, Knows, Recording, InSync, Scheduled
<1>11. JobsOK' /\ raced' \in BOOLEAN /\ drifted' \in BOOLEAN
  BY <1>2 DEF IInv, TypeOK, JobsOK
<1> QED BY <1>2, <1>3, <1>7, <1>8, <1>9, <1>10, <1>11, WriteKeeps DEF IInv

LEMMA SyncReadKeeps == ASSUME IInv, NEW w \in Workers, SyncRead(w) PROVE IInv'
<1> DEFINE d == req[w].id
           job == Scheduled(dests[d])
           r == [req[w] EXCEPT !.step = "looking", !.job = job]
<1>1. /\ req[w].op \in {"create", "edit"} /\ req[w].step = "committed" /\ d \in Ids
      /\ req[w] \in Request
  BY DEF SyncRead, IInv, Fits, Shape, TypeOK
<1>2. CASE ~Exists(d)
  BY <1>1, <1>2, EndsKeeps DEF SyncRead, Syncing, InSync
<1>3. CASE Exists(d)
  <2>1. Moves(w, r) /\ Reads
    BY <1>3 DEF SyncRead, JobAfter
  <2>2. job \in (Frequencies \ {"manual"}) \cup {NoJob} /\ job # "manual"
    BY <1>1, <1>3, FrequencyAssumption, BackupNullsAssumption
    DEF Scheduled, IInv, TypeOK, Exists, Row
  <2>3. UNCHANGED <<dests, jobs, stale>>
    BY <2>1 DEF Reads, tables
  <2> HIDE DEF job
  <2>4. r \in Request /\ r.op = req[w].op /\ r.step = "looking" /\ r.id = d /\ r.job = job
    BY <1>1, <2>2 DEF Request
  <2> HIDE DEF r
  <2>5. req'[w] = r
    BY <2>1, <2>4, MovesOwn DEF IInv
  <2>6. r.job = Scheduled(dests'[d])
    BY <2>3, <2>4 DEF job
  <2>7. Fits(w)'
    BY <1>1, <2>2, <2>4, <2>5, <2>6 DEF Fits, Shape, Knows, Recording, InSync
  <2>8. \A e \in Ids : Syncing(w, e) => Syncing(w, e)'
    BY <1>1, <2>4, <2>5 DEF Syncing, Syncs, InSync
  <2> QED BY <2>1, <2>4, <2>7, <2>8, ReadKeeps
<1> QED BY <1>2, <1>3

\* The job is settled: by w alone, as its row asks, or the schedule has drifted.
LEMMA SettlesKeeps ==
    ASSUME IInv, NEW w \in Workers, InSync(w), Syncs(w),
           NEW job \in (Frequencies \ {"manual"}) \cup {NoJob}, Settles(w, job),
           stale[w] \/ job = Scheduled(dests[req[w].id])
    PROVE  IInv'
<1> DEFINE d == req[w].id
<1>1. /\ jobs' = [jobs EXCEPT ![d] = job] /\ drifted' = (drifted \/ stale[w])
      /\ Moves(w, Idle) /\ UNCHANGED <<dests, newest, nextId, archive, raced>> /\ Overtakes(w)
  BY DEF Settles, tables
<1>2. d \in Ids
  BY DEF InSync, IInv, Fits, Shape
<1>3. req'[w] = Idle /\ \A v \in Workers \ {w} : req'[v] = req[v]
  BY <1>1, MovesOwn, IdleIsRequest DEF IInv
<1>4. /\ JobsOK' /\ jobs'[d] = job /\ \A e \in Ids \ {d} : jobs'[e] = jobs[e]
      /\ raced' \in BOOLEAN /\ drifted' \in BOOLEAN
  BY <1>1, <1>2 DEF IInv, TypeOK, JobsOK
<1>5. TablesOK' /\ SnapshotIsNewestUnlessRaced'
  BY <1>1 DEF IInv, TablesOK, TablesTypeOK, SequenceAhead, Exists, SnapshotIsNewestUnlessRaced,
     SnapshotIsNewest
<1>6. ASSUME ~drifted', NEW e \in Ids PROVE Covered(e)'
  <2>1. CASE e = d
    BY <1>1, <1>4, <1>6, <2>1 DEF Covered, IInv, TypeOK
  <2>2. CASE e # d
    <3>1. Covered(e)
      BY <1>1, <1>6 DEF IInv, TypeOK
    <3> QED BY <1>1, <1>3, <1>4, <2>2, <3>1, StillCovered DEF Exists, Syncing
  <2> QED BY <2>1, <2>2
<1>7. Fits(w)'
  BY <1>3, FrequencyAssumption, BackupNullsAssumption
  DEF Idle, Fits, Shape, Knows, Recording, InSync
<1> HIDE DEF d
<1> QED BY <1>1, <1>4, <1>5, <1>6, <1>7, IdleIsRequest, WriteKeeps DEF IInv

LEMMA LookKeeps == ASSUME IInv, NEW w \in Workers, Look(w) PROVE IInv'
<1> DEFINE d == req[w].id
           at == IF jobs[d] # NoJob THEN "removing" ELSE "adding"
           r == [req[w] EXCEPT !.step = at]
<1>1. /\ req[w] \in Request /\ req[w].step = "looking" /\ Moves(w, r) /\ Reads
      /\ Shape(w) /\ req[w].job # "manual" /\ (stale[w] \/ Knows(w))
  BY DEF Look, IInv, TypeOK, Fits
<1>2. /\ r \in Request /\ r.step = at /\ r.op = req[w].op /\ r.id = d /\ r.job = req[w].job
  BY <1>1 DEF Request
<1> HIDE DEF r
<1>3. req'[w] = r /\ UNCHANGED <<dests, jobs, stale>>
  BY <1>1, <1>2, MovesOwn DEF IInv, Reads, tables
<1>4. Shape(w)'
  BY <1>1, <1>2, <1>3 DEF Shape
<1>5. stale'[w] \/ Knows(w)'
  BY <1>1, <1>2, <1>3, <1>4 DEF Knows, Recording, InSync, Shape
<1>6. \A e \in Ids : Syncing(w, e) => Syncing(w, e)'
  BY <1>1, <1>2, <1>3 DEF Syncing, Syncs, InSync
<1> QED BY <1>1, <1>2, <1>3, <1>4, <1>5, <1>6, ReadKeeps DEF Fits

LEMMA RemoveKeeps == ASSUME IInv, NEW w \in Workers, Remove(w) PROVE IInv'
<1> DEFINE d == req[w].id
           r == [req[w] EXCEPT !.step = "adding"]
<1>1. /\ req[w] \in Request /\ req[w].step = "removing" /\ InSync(w) /\ Syncs(w) /\ d \in Ids
      /\ Shape(w) /\ req[w].job # "manual" /\ (stale[w] \/ Knows(w))
  BY DEF Remove, IInv, TypeOK, Fits, Shape, InSync, Syncs
<1>2. CASE jobs[d] = NoJob
  <2>1. stale[w] /\ Settles(w, NoJob)
    BY <1>1, <1>2 DEF Knows, Remove
  <2> QED BY <1>1, <2>1, SettlesKeeps
<1>3. CASE jobs[d] # NoJob
  <2>1. /\ jobs' = [jobs EXCEPT ![d] = NoJob] /\ Moves(w, r)
        /\ stale' = [v \in Workers |-> stale[v] \/ (v # w /\ Syncs(v)
                         /\ req[v].step \in {"looking", "removing", "adding"})]
        /\ UNCHANGED <<dests, newest, nextId, archive, raced, drifted>>
    BY <1>3 DEF Remove, tables
  <2>2. r \in Request /\ r.step = "adding" /\ r.op = req[w].op /\ r.id = d /\ r.job = req[w].job
    BY <1>1 DEF Request
  <2> HIDE DEF r
  <2>3. /\ req' \in [Workers -> Request] /\ req'[w] = r
        /\ \A v \in Workers \ {w} : req'[v] = req[v]
    BY <2>1, <2>2, MovesOwn DEF IInv
  <2>4. JobsOK' /\ jobs'[d] = NoJob /\ \A e \in Ids \ {d} : jobs'[e] = jobs[e]
    BY <1>1, <2>1 DEF IInv, TypeOK, JobsOK
  <2>5. /\ stale' \in [Workers -> BOOLEAN] /\ (stale[w] => stale'[w])
        /\ \A v \in Workers \ {w} : stale[v] \/ (Syncs(v) /\ InSync(v)) => stale'[v]
    BY <2>1 DEF IInv, TypeOK, InSync
  <2>6. TypeOK' /\ TablesOK' /\ ArchiveOK' /\ SnapshotIsNewestUnlessRaced'
    BY <2>1, <2>3, <2>4, <2>5 DEF IInv, TypeOK, JobsOK, TablesOK, TablesTypeOK, SequenceAhead,
       Exists, ArchiveOK, SnapshotIsNewestUnlessRaced, SnapshotIsNewest
  <2>7. ASSUME NEW e \in Ids, Covered(e) PROVE Covered(e)'
    <3>1. CASE e = d
      BY <1>1, <2>2, <2>3, <3>1 DEF Covered, Syncing, Syncs, InSync
    <3>2. CASE e # d
      BY <2>1, <2>3, <2>4, <2>7, <3>2, StillCovered DEF Exists, Syncing
    <3> QED BY <3>1, <3>2
  <2>8. ASSUME NEW v \in Workers, v # w PROVE Fits(v)'
    <3>1. Bystander(v)
      BY <2>1, <2>3, <2>5, <2>8 DEF Bystander, IInv, Fits, Shape, InSync, Recording, Syncs
    <3> QED BY <3>1, StillFits DEF IInv
  <2>9. Fits(w)'
    BY <1>1, <2>1, <2>2, <2>3, <2>4, <2>5 DEF Fits, Shape, Knows, Recording, InSync
  <2> QED BY <2>1, <2>6, <2>7, <2>8, <2>9 DEF IInv
<1> QED BY <1>2, <1>3

LEMMA AddKeeps == ASSUME IInv, NEW w \in Workers, Add(w) PROVE IInv'
<1> DEFINE d == req[w].id
           job == IF req[w].job # NoJob THEN req[w].job ELSE jobs[d]
<1>1. /\ req[w] \in Request /\ req[w].step = "adding" /\ InSync(w) /\ Syncs(w) /\ d \in Ids
      /\ req[w].job # "manual" /\ (stale[w] \/ Knows(w)) /\ Settles(w, job)
  BY DEF Add, IInv, TypeOK, Fits, Shape, InSync, Syncs
<1>2. job \in (Frequencies \ {"manual"}) \cup {NoJob}
  BY <1>1 DEF Request, IInv, TypeOK
<1>3. stale[w] \/ job = Scheduled(dests[d])
  BY <1>1 DEF Knows
<1> HIDE DEF job
<1> QED BY <1>1, <1>2, <1>3, SettlesKeeps

-----------------------------------------------------------------------------
(* Runs.                                                                   *)

LEMMA FireKeeps == ASSUME IInv, NEW w \in Workers, Fire(w) PROVE IInv'
<1>1. PICK d \in Ids : Moves(w, [Idle EXCEPT !.op = "run", !.step = "fired", !.id = d])
  BY DEF Fire
<1> DEFINE r == [Idle EXCEPT !.op = "run", !.step = "fired", !.id = d]
<1>2. r \in Request /\ r.op = "run" /\ r.step = "fired" /\ r.id = d /\ r.job = NoJob
  BY DEF Idle, Request, NoRows
<1>3. Moves(w, r) /\ Reads /\ req[w] = Idle
  BY <1>1 DEF Fire
<1> HIDE DEF r
<1>4. req'[w] = r
  BY <1>2, <1>3, MovesOwn DEF IInv
<1>5. Fits(w)'
  BY <1>2, <1>4, FrequencyAssumption, BackupNullsAssumption
  DEF Fits, Shape, Knows, Recording, InSync
<1>6. \A e \in Ids : ~Syncing(w, e)
  BY <1>3 DEF Syncing, Syncs, Idle
<1> QED BY <1>2, <1>3, <1>5, <1>6, ReadKeeps

LEMMA RunBeginKeeps == ASSUME IInv, NEW w \in Workers, RunBegin(w) PROVE IInv'
<1> DEFINE d == req[w].id
           r == [req[w] EXCEPT !.step = "copying", !.seen = dests[d], !.copy = dests]
<1>1. /\ req[w] \in Request /\ req[w].step = "fired" /\ Runs(w) /\ d \in Ids
      /\ req[w].job # "manual"
  BY DEF RunBegin, IInv, TypeOK, Fits, Shape, Runs
<1>2. \A e \in Ids : ~Syncing(w, e)
  BY <1>1 DEF Syncing, InSync
<1>3. CASE ~Exists(d)
  BY <1>2, <1>3, EndsKeeps DEF RunBegin
<1>4. CASE Exists(d)
  <2>1. Moves(w, r) /\ Reads
    BY <1>4 DEF RunBegin
  <2>2. /\ r \in Request /\ r.op = req[w].op /\ r.step = "copying" /\ r.id = d
        /\ r.seen = dests[d] /\ r.copy = dests /\ r.job = req[w].job
    BY <1>1 DEF Request, IInv, TypeOK
  <2> HIDE DEF r
  <2>3. req'[w] = r /\ UNCHANGED dests
    BY <2>1, <2>2, MovesOwn DEF IInv, Reads, tables
  <2>4. Fits(w)'
    BY <1>1, <1>4, <2>2, <2>3 DEF Fits, Shape, Knows, Recording, InSync, Runs, Exists
  <2> QED BY <1>2, <2>1, <2>2, <2>4, ReadKeeps
<1> QED BY <1>3, <1>4

\* The export is whole if nothing was written between its two reads.
LEMMA RunUploadKeeps == ASSUME IInv, NEW w \in Workers, RunUpload(w) PROVE IInv'
<1> DEFINE q == req[w]
           done == [q EXCEPT !.step = "uploaded", !.copy = NoRows]
           lost == [q EXCEPT !.step = "failed", !.seen = NoRow, !.copy = NoRows]
<1>1. /\ q \in Request /\ q.step = "copying" /\ Runs(w) /\ q.id \in Ids
      /\ q.job # "manual" /\ (stale[w] \/ Knows(w))
  BY DEF RunUpload, IInv, TypeOK, Fits, Shape, Runs
<1>2. /\ done \in Request /\ done.op = q.op /\ done.step = "uploaded" /\ done.id = q.id
      /\ done.job = q.job /\ done.seen = q.seen
  BY <1>1 DEF Request, NoRows
<1>3. /\ lost \in Request /\ lost.op = q.op /\ lost.step = "failed" /\ lost.id = q.id
      /\ lost.job = q.job
  BY <1>1 DEF Request, NoRows
<1>4. PICK r \in {done, lost} :
         /\ Moves(w, r)
         /\ r = done => UNCHANGED stale
         /\ r = lost => stale' = [stale EXCEPT ![w] = FALSE]
         /\ archive' = archive
            \/ (archive' = Export(w) /\ \A v \in Workers : req[v].op # "restore")
  <2>1. done # lost
    BY <1>2, <1>3
  <2> HIDE DEF done, lost
  <2>2. \/ /\ Moves(w, done) /\ UNCHANGED stale
           /\ archive' = archive
              \/ (archive' = Export(w) /\ \A v \in Workers : req[v].op # "restore")
        \/ Moves(w, lost) /\ stale' = [stale EXCEPT ![w] = FALSE] /\ archive' = archive
    BY DEF RunUpload, done, lost
  <2> QED BY <2>1, <2>2
<1>5. UNCHANGED <<dests, newest, nextId, jobs, raced, drifted>>
  BY DEF RunUpload, tables
<1> HIDE DEF done, lost
<1>6. /\ r \in Request /\ r.op = q.op /\ r.id = q.id /\ r.job = q.job
      /\ r.step = "failed" \/ (r.step = "uploaded" /\ r.seen = q.seen /\ stale' = stale)
  BY <1>2, <1>3, <1>4
<1>7. /\ req' \in [Workers -> Request] /\ req'[w] = r
      /\ \A v \in Workers \ {w} : req'[v] = req[v]
  BY <1>4, <1>6, MovesOwn DEF IInv
<1>8. stale' \in [Workers -> BOOLEAN] /\ \A v \in Workers \ {w} : stale'[v] = stale[v]
  BY <1>4 DEF IInv, TypeOK
<1>9. ArchiveOK'
  <2>1. CASE archive' = archive
    BY <1>5, <2>1 DEF IInv, ArchiveOK
  <2>2. CASE archive' = Export(w)
    <3>1. archive'.dests = q.copy /\ archive'.newest = newest /\ archive'.torn = stale[w]
      BY <2>2 DEF Export
    <3>2. /\ archive'.dests \in [Ids -> Row \cup {NoRow}] /\ archive'.torn \in BOOLEAN
          /\ archive'.newest \in [Ids -> Outcomes \cup {"none"}]
      BY <1>1, <3>1 DEF Request, IInv, TypeOK
    <3>3. ASSUME ~stale[w], ~raced, NEW d \in Ids, archive'.dests[d] # NoRow
          PROVE  archive'.dests[d].status = archive'.newest[d]
      BY <1>1, <3>1, <3>3 DEF Knows, IInv, SnapshotIsNewestUnlessRaced, SnapshotIsNewest, Exists
    <3> QED BY <1>5, <3>1, <3>2, <3>3 DEF ArchiveOK
  <2> QED BY <1>4, <2>1, <2>2
<1>10. TypeOK' /\ TablesOK' /\ SnapshotIsNewestUnlessRaced'
  BY <1>5, <1>7, <1>8, <1>9 DEF IInv, TypeOK, ArchiveOK, TablesOK, TablesTypeOK, SequenceAhead,
     Exists, SnapshotIsNewestUnlessRaced, SnapshotIsNewest
<1>11. ASSUME NEW d \in Ids, Covered(d) PROVE Covered(d)'
  <2>1. ~Syncing(w, d)
    BY <1>1 DEF Syncing, InSync
  <2> QED BY <1>5, <1>7, <1>11, <2>1, StillCovered DEF Exists
<1>12. ASSUME NEW v \in Workers, v # w PROVE Fits(v)'
  <2>1. Bystander(v)
    BY <1>4, <1>5, <1>7, <1>8, <1>12 DEF Bystander, IInv, TypeOK
  <2> QED BY <2>1, StillFits DEF IInv
<1>13. Fits(w)'
  BY <1>1, <1>5, <1>6, <1>7 DEF Fits, Shape, Knows, Recording, InSync, Runs, Exists
<1> QED BY <1>5, <1>9, <1>10, <1>11, <1>12, <1>13 DEF IInv

\* An outcome goes to the snapshot and to the newest log row: the same in both,
\* or the run was stale.
LEMMA RecordsKeeps ==
    ASSUME IInv, NEW w \in Workers, NEW o \in Outcomes, Records(w, o), Recording(w),
           Exists(req[w].id)
    PROVE  IInv'
<1> DEFINE d == req[w].id
           row == [dests[d] EXCEPT !.status = Column(@, req[w].seen.status, o)]
<1>1. d \in Ids /\ (stale[w] \/ Knows(w)) /\ ~Syncs(w)
  BY DEF Recording, IInv, Fits, Shape, Syncs
<1>2. /\ newest' = [newest EXCEPT ![d] = o] /\ raced' = (raced \/ stale[w])
      /\ UNCHANGED <<nextId, jobs, archive, drifted>> /\ Moves(w, Idle) /\ Overtakes(w)
  BY DEF Records
<1>3. dests[d] \in Row /\ TablesOK
  BY <1>1 DEF Exists, IInv, TypeOK
<1>4. dests' = [dests EXCEPT ![d] = row]
  BY <1>1 DEF Records, Recorded, IInv, TypeOK
<1>5. /\ row \in Row /\ row.frequency = dests[d].frequency /\ row.active = dests[d].active
      /\ row.status = IF o = req[w].seen.status THEN dests[d].status ELSE o
  BY <1>3 DEF Row, Column
<1> HIDE DEF row
<1>6. /\ dests'[d] = row /\ newest'[d] = o
      /\ \A e \in Ids \ {d} : dests'[e] = dests[e] /\ newest'[e] = newest[e]
  BY <1>1, <1>2, <1>3, <1>4 DEF TablesOK, TablesTypeOK
<1>7. \A e \in Ids : /\ Exists(e) <=> dests'[e] # NoRow
                     /\ Scheduled(dests'[e]) = Scheduled(dests[e])
  BY <1>3, <1>5, <1>6, BackupNullsAssumption DEF Exists, Scheduled
<1>8. TablesTypeOK'
  BY <1>2, <1>3, <1>4, <1>5 DEF TablesOK, TablesTypeOK, Outcomes
<1>9. TablesOK'
  BY <1>2, <1>3, <1>6, <1>7, <1>8 DEF TablesOK, SequenceAhead, Exists
<1>10. stale[w] \/ row.status = o
  BY <1>1, <1>5 DEF Knows
<1>11. SnapshotIsNewestUnlessRaced'
  BY <1>2, <1>6, <1>7, <1>10
  DEF IInv, TypeOK, SnapshotIsNewestUnlessRaced, SnapshotIsNewest, Exists
<1>12. req'[w] = Idle /\ \A v \in Workers \ {w} : req'[v] = req[v]
  BY <1>2, MovesOwn, IdleIsRequest DEF IInv
<1>13. ASSUME NEW e \in Ids, Covered(e) PROVE Covered(e)'
  BY <1>1, <1>2, <1>7, <1>12, <1>13, StillCovered DEF Syncing
<1>14. JobsOK' /\ raced' \in BOOLEAN /\ drifted' \in BOOLEAN /\ (raced => raced')
  BY <1>2 DEF IInv, TypeOK, JobsOK
<1>15. Fits(w)'
  BY <1>12, FrequencyAssumption, BackupNullsAssumption
  DEF Idle, Fits, Shape, Knows, Recording, InSync
<1> HIDE DEF d
<1> QED BY <1>2, <1>9, <1>11, <1>13, <1>14, <1>15, IdleIsRequest, WriteKeeps DEF IInv

LEMMA RunRecordKeeps == ASSUME IInv, NEW w \in Workers, RunRecord(w) PROVE IInv'
<1> DEFINE d == req[w].id
           r == [req[w] EXCEPT !.step = "failed", !.seen = NoRow]
<1>1. /\ req[w] \in Request /\ req[w].step = "uploaded" /\ Runs(w) /\ d \in Ids
      /\ req[w].job # "manual"
  BY DEF RunRecord, IInv, TypeOK, Fits, Shape, Runs
<1>2. CASE Exists(d)
  BY <1>1, <1>2, RecordsKeeps DEF RunRecord, Recording, Outcomes
<1>3. CASE ~Exists(d)
  <2>1. /\ Moves(w, r) /\ stale' = [stale EXCEPT ![w] = FALSE]
        /\ UNCHANGED <<dests, newest, nextId, jobs, archive, raced, drifted>>
    BY <1>3 DEF RunRecord, tables
  <2>2. /\ r \in Request /\ r.op = req[w].op /\ r.step = "failed" /\ r.id = d
        /\ r.job = req[w].job
    BY <1>1 DEF Request
  <2> HIDE DEF r
  <2>3. /\ req' \in [Workers -> Request] /\ req'[w] = r
        /\ \A v \in Workers \ {w} : req'[v] = req[v]
    BY <2>1, <2>2, MovesOwn DEF IInv
  <2>4. stale' \in [Workers -> BOOLEAN] /\ \A v \in Workers \ {w} : stale'[v] = stale[v]
    BY <2>1 DEF IInv, TypeOK
  <2>5. TypeOK' /\ TablesOK' /\ ArchiveOK' /\ SnapshotIsNewestUnlessRaced'
    BY <2>1, <2>3, <2>4 DEF IInv, TypeOK, TablesOK, TablesTypeOK, SequenceAhead, Exists,
       ArchiveOK, SnapshotIsNewestUnlessRaced, SnapshotIsNewest
  <2>6. ASSUME NEW e \in Ids, Covered(e) PROVE Covered(e)'
    <3>1. ~Syncing(w, e)
      BY <1>1 DEF Syncing, InSync
    <3> QED BY <2>1, <2>3, <2>6, <3>1, StillCovered DEF Exists
  <2>7. ASSUME NEW v \in Workers, v # w PROVE Fits(v)'
    BY <2>1, <2>3, <2>4, <2>7, StillFits DEF IInv, Bystander
  <2>8. Fits(w)'
    BY <1>1, <2>2, <2>3 DEF Fits, Shape, Knows, Recording, InSync, Runs
  <2> QED BY <2>1, <2>5, <2>6, <2>7, <2>8 DEF IInv
<1> QED BY <1>2, <1>3

LEMMA RunRefetchKeeps == ASSUME IInv, NEW w \in Workers, RunRefetch(w) PROVE IInv'
<1> DEFINE d == req[w].id
           r == [req[w] EXCEPT !.step = "refetched", !.seen = dests[d]]
<1>1. /\ req[w] \in Request /\ req[w].step = "failed" /\ Runs(w) /\ d \in Ids
      /\ req[w].job # "manual"
  BY DEF RunRefetch, IInv, TypeOK, Fits, Shape, Runs
<1>2. \A e \in Ids : ~Syncing(w, e)
  BY <1>1 DEF Syncing, InSync
<1>3. CASE ~Exists(d)
  BY <1>2, <1>3, EndsKeeps DEF RunRefetch
<1>4. CASE Exists(d)
  <2>1. Moves(w, r) /\ Reads
    BY <1>4 DEF RunRefetch
  <2>2. /\ r \in Request /\ r.op = req[w].op /\ r.step = "refetched" /\ r.id = d
        /\ r.seen = dests[d] /\ r.job = req[w].job
    BY <1>1 DEF Request, IInv, TypeOK
  <2> HIDE DEF r
  <2>3. req'[w] = r /\ UNCHANGED dests
    BY <2>1, <2>2, MovesOwn DEF IInv, Reads, tables
  <2>4. Fits(w)'
    BY <1>1, <1>4, <2>2, <2>3 DEF Fits, Shape, Knows, Recording, InSync, Runs, Exists
  <2> QED BY <1>2, <2>1, <2>2, <2>4, ReadKeeps
<1> QED BY <1>3, <1>4

LEMMA RunFailedKeeps == ASSUME IInv, NEW w \in Workers, RunFailed(w) PROVE IInv'
<1>1. req[w].step = "refetched" /\ \A e \in Ids : ~Syncing(w, e)
  BY DEF RunFailed, Syncing, InSync
<1>2. CASE Exists(req[w].id)
  BY <1>1, <1>2, RecordsKeeps DEF RunFailed, Recording, Outcomes
<1>3. CASE ~Exists(req[w].id)
  BY <1>1, <1>3, EndsKeeps DEF RunFailed
<1> QED BY <1>2, <1>3

LEMMA RecordCommitKeeps == ASSUME IInv, NEW w \in Workers, RecordCommit(w) PROVE IInv'
<1>1. req[w].op = "record" /\ \A e \in Ids : ~Syncing(w, e)
  BY DEF RecordCommit, At, Syncing, Syncs
<1>2. CASE Exists(req[w].id)
  <2>1. PICK o \in Outcomes : Records(w, o)
    BY <1>2 DEF RecordCommit
  <2> QED BY <1>1, <1>2, <2>1, RecordsKeeps DEF Recording
<1>3. CASE ~Exists(req[w].id)
  BY <1>1, <1>3, EndsKeeps DEF RecordCommit
<1> QED BY <1>2, <1>3

-----------------------------------------------------------------------------
(* Restores and restarts.                                                  *)

LEMMA RestoreLoadKeeps == ASSUME IInv, NEW w \in Workers, RestoreLoad(w) PROVE IInv'
<1> DEFINE r == [Idle EXCEPT !.op = "restore", !.step = "loaded"]
<1>1. Moves(w, r) /\ Reads /\ req[w] = Idle /\ archive # NoArchive /\ UNCHANGED archive
  BY DEF RestoreLoad, Reads
<1>2. r \in Request /\ r.op = "restore" /\ r.step = "loaded" /\ r.job = NoJob
  BY DEF Idle, Request, NoRows
<1> HIDE DEF r
<1>3. req'[w] = r
  BY <1>1, <1>2, MovesOwn DEF IInv
<1>4. Fits(w)'
  BY <1>1, <1>2, <1>3, FrequencyAssumption, BackupNullsAssumption
  DEF Fits, Shape, Knows, Recording, InSync
<1>5. \A e \in Ids : ~Syncing(w, e)
  BY <1>1 DEF Syncing, Syncs, Idle
<1> QED BY <1>1, <1>2, <1>4, <1>5, ReadKeeps

LEMMA RestoreQueueKeeps == ASSUME IInv, NEW w \in Workers, RestoreQueue(w) PROVE IInv'
<1> DEFINE r == [req[w] EXCEPT !.step = "waits"]
<1>1. /\ req[w] \in Request /\ req[w].op = "restore" /\ Moves(w, r) /\ Reads
      /\ archive # NoArchive /\ UNCHANGED archive /\ req[w].job # "manual"
  BY DEF RestoreQueue, At, Reads, IInv, TypeOK, Fits, Shape
<1>2. r \in Request /\ r.op = "restore" /\ r.step = "waits" /\ r.job = req[w].job
  BY <1>1 DEF Request
<1> HIDE DEF r
<1>3. req'[w] = r
  BY <1>1, <1>2, MovesOwn DEF IInv
<1>4. Fits(w)'
  BY <1>1, <1>2, <1>3 DEF Fits, Shape, Knows, Recording, InSync
<1>5. \A e \in Ids : ~Syncing(w, e)
  BY <1>1 DEF Syncing, Syncs
<1> QED BY <1>1, <1>2, <1>4, <1>5, ReadKeeps

LEMMA RestoreCommitKeeps == ASSUME IInv, NEW w \in Workers, RestoreCommit(w) PROVE IInv'
<1>1. req[w].op = "restore" /\ archive # NoArchive /\ \A e \in Ids : ~Syncing(w, e)
  BY DEF RestoreCommit, At, IInv, Fits, Shape, Syncing, Syncs
<1>2. CASE ~Loadable(archive)
  BY <1>1, <1>2, EndsKeeps DEF RestoreCommit
<1>3. CASE Loadable(archive)
  <2>1. /\ dests' = archive.dests /\ newest' = archive.newest
        /\ nextId' = IdAfter(archive.dests) /\ drifted' = TRUE
        /\ raced' = (raced \/ archive.torn) /\ UNCHANGED <<jobs, archive>>
        /\ Moves(w, Idle) /\ Overtakes(w)
    BY <1>3 DEF RestoreCommit
  <2>2. /\ archive.dests \in [Ids -> Row \cup {NoRow}] /\ archive.torn \in BOOLEAN
        /\ archive.newest \in [Ids -> Outcomes \cup {"none"}]
    BY <1>1 DEF IInv, ArchiveOK
  <2>3. TablesTypeOK' /\ SequenceAhead'
    BY <2>1, <2>2, IdAfterIsAhead DEF TablesTypeOK, SequenceAhead, Exists
  <2>4. TablesOK'
    BY <1>3, <2>1, <2>3 DEF TablesOK, Loadable, Exists
  <2>5. SnapshotIsNewestUnlessRaced'
    BY <1>1, <2>1, <2>2 DEF IInv, TypeOK, ArchiveOK, SnapshotIsNewestUnlessRaced,
       SnapshotIsNewest, Exists
  <2>6. JobsOK' /\ raced' \in BOOLEAN /\ drifted' \in BOOLEAN /\ drifted' /\ (raced => raced')
    BY <2>1, <2>2 DEF IInv, TypeOK, JobsOK
  <2>7. req'[w] = Idle
    BY <2>1, MovesOwn, IdleIsRequest DEF IInv
  <2>8. Fits(w)'
    BY <2>7, FrequencyAssumption, BackupNullsAssumption
    DEF Idle, Fits, Shape, Knows, Recording, InSync
  <2> QED BY <2>1, <2>4, <2>5, <2>6, <2>8, IdleIsRequest, WriteKeeps
<1> QED BY <1>2, <1>3

\* init_scheduler: every job as its row asks.
LEMMA RestartKeeps == ASSUME IInv, Restart PROVE IInv'
<1>1. /\ req' = [w \in Workers |-> Idle] /\ stale' = [w \in Workers |-> FALSE]
      /\ jobs' = [d \in Ids |-> Scheduled(dests[d])] /\ drifted' = FALSE
      /\ UNCHANGED <<dests, newest, nextId, archive, raced>>
  BY DEF Restart, tables
<1>2. \A d \in Ids : Scheduled(dests[d]) \in (Frequencies \ {"manual"}) \cup {NoJob}
  BY DEF Scheduled, IInv, TypeOK, Row
<1>3. TypeOK'
  BY <1>1, <1>2, IdleIsRequest DEF IInv, TypeOK
<1>4. TablesOK' /\ ArchiveOK' /\ SnapshotIsNewestUnlessRaced'
  BY <1>1 DEF IInv, TablesOK, TablesTypeOK, SequenceAhead, Exists, ArchiveOK,
     SnapshotIsNewestUnlessRaced, SnapshotIsNewest
<1>5. \A d \in Ids : Covered(d)'
  BY <1>1 DEF Covered
<1>6. ASSUME NEW w \in Workers PROVE Fits(w)'
  BY <1>1, FrequencyAssumption, BackupNullsAssumption
  DEF Idle, Fits, Shape, Knows, Recording, InSync
<1> QED BY <1>3, <1>4, <1>5, <1>6 DEF IInv

LEMMA StepKeeps == ASSUME IInv, [Next]_vars PROVE IInv'
<1>1. CASE UNCHANGED vars
  <2>1. UNCHANGED <<dests, newest, nextId, jobs, archive, req, stale, raced, drifted>>
    BY <1>1 DEF vars, tables
  <2>2. TypeOK' /\ TablesOK' /\ ArchiveOK' /\ SnapshotIsNewestUnlessRaced'
    BY <2>1 DEF IInv, TypeOK, TablesOK, TablesTypeOK, SequenceAhead, Exists, ArchiveOK,
       SnapshotIsNewestUnlessRaced, SnapshotIsNewest
  <2>3. drifted' \/ \A d \in Ids : Covered(d)'
    BY <2>1 DEF IInv, Covered, Syncing, Syncs, InSync, Exists
  <2>4. \A w \in Workers : Fits(w)'
    BY <2>1, StillFits DEF IInv, Bystander
  <2> QED BY <2>2, <2>3, <2>4 DEF IInv
<1>2. ASSUME NEW w \in Workers, Step(w) PROVE IInv'
  <2>1. CASE Refuse(w) \/ RestoreVictim(w)
    <3>1. Ends(w) /\ UNCHANGED drifted /\ \A d \in Ids : ~Syncing(w, d)
      BY <2>1 DEF Refuse, RestoreVictim, At, Syncing, Syncs, InSync
    <3> QED BY <3>1, EndsKeeps
  <2> QED BY <1>2, <2>1, LoadKeeps, CreateKeeps, EditCommitKeeps, DeleteCommitKeeps,
             SyncReadKeeps, LookKeeps, RemoveKeeps, AddKeeps, FireKeeps, RunBeginKeeps,
             RunUploadKeeps, RunRecordKeeps, RunRefetchKeeps, RunFailedKeeps, RecordCommitKeeps,
             RestoreLoadKeeps, RestoreQueueKeeps, RestoreCommitKeeps
          DEF Step
<1> QED BY <1>1, <1>2, RestartKeeps DEF Next

LEMMA InitInv == ASSUME Init PROVE IInv
<1>1. 1 \in 1 .. MaxId + 1
  BY IdAssumption
<1>2. TypeOK
  BY <1>1, IdleIsRequest DEF Init, TypeOK, NoRows
<1>3. TablesOK /\ ArchiveOK /\ SnapshotIsNewestUnlessRaced
  BY <1>1 DEF Init, NoRows, TablesOK, TablesTypeOK, SequenceAhead, Exists, ArchiveOK,
     SnapshotIsNewestUnlessRaced, SnapshotIsNewest
<1>4. \A d \in Ids : Covered(d)
  BY DEF Init, NoRows, Covered, Scheduled
<1>5. \A w \in Workers : Fits(w)
  BY IdleFits DEF Init
<1> QED BY <1>2, <1>3, <1>4, <1>5 DEF IInv

-----------------------------------------------------------------------------
(* The theorems.                                                           *)

\* In every reachable state a request that nothing has overtaken knows the
\* tables and jobs it works on, an export that is not torn agrees with its log
\* rows, and every job is right, about to be settled, or known to have drifted.
THEOREM BackupsInvariant == Spec => []IInv
<1>1. IInv /\ [Next]_vars => IInv'
  BY StepKeeps
<1> QED BY InitInv, <1>1, PTL DEF Spec

\* Tables, jobs, the export and what a request remembers keep their types: no
\* job is ever scheduled with the manual frequency.
THEOREM BackupsTypeCorrect == Spec => []TypeOK
<1>1. IInv => TypeOK
  BY DEF IInv
<1> QED BY <1>1, BackupsInvariant, PTL

\* Across creations, deletions and restores the sequence never hands out the id
\* of a destination that exists.
THEOREM SequenceStaysAhead == Spec => []SequenceAhead
<1>1. IInv => SequenceAhead
  BY DEF IInv, TablesOK
<1> QED BY <1>1, BackupsInvariant, PTL

\* Once every request has finished, the jobs are the active destinations, unless
\* a restore replaced the rows or a sync worked on something overtaken.
THEOREM ScheduleIsTheTable == Spec => []ScheduleMatchesUnlessDrifted
<1>1. ASSUME IInv, ~drifted, Settled, NEW d \in Ids PROVE jobs[d] = Scheduled(dests[d])
  <2>1. Covered(d)
    BY <1>1 DEF IInv
  <2> QED BY <1>1, <2>1 DEF Covered, Syncing, Settled, InSync
<1>2. IInv => ScheduleMatchesUnlessDrifted
  BY <1>1 DEF ScheduleMatchesUnlessDrifted, ScheduleMatches
<1> QED BY <1>2, BackupsInvariant, PTL

\* A destination's snapshot tells the status of its newest log row, unless a run
\* recorded over rows changed since it began or a torn export was restored.
THEOREM SnapshotsAreNewest == Spec => []SnapshotIsNewestUnlessRaced
<1>1. IInv => SnapshotIsNewestUnlessRaced
  BY DEF IInv
<1> QED BY <1>1, BackupsInvariant, PTL
=============================================================================
