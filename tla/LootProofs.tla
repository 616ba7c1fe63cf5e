----------------------------- MODULE LootProofs -----------------------------
(***************************************************************************)
(* Theorems about Loot, for any number of files, objects and workers: no   *)
(* row points to an object that is gone, orphans come from restores, and   *)
(* until a full restore takes ids back every file delivers the content its *)
(* hash was computed from.                                                 *)
(***************************************************************************)
EXTENDS Loot, FiniteSetTheorems, WellFoundedInduction, TLAPS

-----------------------------------------------------------------------------
(* The inductive invariant.                                                *)

\* Objects have been handed out, rows have ids and objects of their own.
StoreOK ==
    /\ \A i \in Ids : i >= nextId => files[i] = NoFile
    /\ \A o \in Oids : objects[o] # NoObject => o < nextOid
    /\ \A i \in Ids : Stored(i) /\ files[i].oid # 0 => objects[files[i].oid] # NoObject
    /\ \A i, j \in Ids : Stored(i) /\ Stored(j) /\ files[i].oid = files[j].oid =>
                            files[i].oid = 0 \/ i = j
    /\ OrphansComeFromRestores

\* No row but the one it was read from has the object of a loaded row, and as
\* long as nothing was restored that row is as it was or gone.
SeenOK(w) ==
    LET r == req[w] IN
    r.seen # NoFile =>
        /\ r.id \in Ids /\ r.seen.oid < nextOid
        /\ \A j \in Ids : Stored(j) /\ files[j].oid = r.seen.oid => r.seen.oid = 0 \/ j = r.id
        /\ restored \/ (r.id < nextId /\ files[r.id] \in {r.seen, NoFile})

Fits(w) ==
    LET r == req[w] IN
    /\ SeenOK(w)
    /\ r.op \in {"edit", "delete", "download"} <=> r.seen # NoFile
    /\ \A i \in Ids : r.rows[i] # NoFile => r.rows[i].oid < nextOid
    /\ r.op = "backup" => r.scope # "none"
    /\ r.op = "reattach" => \A i \in Ids : r.rows[i] # NoFile => blobs[i] # NoBlob

\* Row f, if it is one, records hash c, and so does its object.
Says(f, c) == f # NoFile => f.sha = c /\ Delivered(f) \in {c, NoObject}

\* h: the content each id was handed out for.  The tables and the archives, ...
Recorded(h) ==
    /\ \A i \in Ids : i >= nextId => h[i] = NoBlob
    /\ \A i \in Ids : Says(files[i], h[i]) /\ blobs[i] \in {h[i], NoBlob}
    /\ vault # NoArchive =>
          \A i \in Ids : /\ vault.rows[i] # NoFile => vault.rows[i].sha = h[i]
                         /\ vault.blobs[i] \in {h[i], NoBlob}

\* ... and what worker w remembers, agree with it.
Remembers(w, h) ==
    LET r == req[w] IN
    /\ \A i \in Ids : /\ Says(r.rows[i], h[i])
                      /\ r.export[i] # NoFile => r.export[i].sha = h[i]
    /\ r.seen # NoFile => Says(r.seen, h[r.id])

Hashes == [Ids -> Contents \cup {NoBlob}]

Told(h) == Recorded(h) /\ \A w \in Workers : Remembers(w, h)

IInv == /\ TypeOK /\ StoreOK /\ FullVaultIsCompleteUnlessTorn
        /\ \A w \in Workers : Fits(w)
        /\ rewound \/ \E h \in Hashes : Told(h)

-----------------------------------------------------------------------------
(* The sequence after a restore.                                           *)

Below == {p \in Nat \X Nat : p[1] < p[2]}

LEMMA BelowWellFounded == IsWellFoundedOn(Below, Nat)
BY NatLessThanWellFounded DEF OpToRel, Below

LEMMA LeastNumber ==
    ASSUME NEW T \in SUBSET Nat, T # {}
    PROVE  \E n \in T : \A m \in T : n <= m
<1>1. PICK n \in T : \A m \in T : <<m, n>> \notin Below
  BY BelowWellFounded, WFMin, Zenon
<1>2. ASSUME NEW m \in T PROVE n <= m
  <2>1. m \in Nat /\ n \in Nat /\ <<m, n>> \notin Below
    BY <1>1
  <2>2. ~(m < n)
    BY <2>1 DEF Below
  <2> QED BY <2>1, <2>2
<1> QED BY <1>2

\* setval: the next id comes after the greatest in the table.
LEMMA IdAfterIsNext ==
    ASSUME NEW r \in [Ids -> File \cup {NoFile}]
    PROVE  /\ IdAfter(r) \in 1 .. MaxId + 1
           /\ \A i \in Ids : i >= IdAfter(r) => r[i] = NoFile
           /\ IdAfter(r) > 1 => r[IdAfter(r) - 1] # NoFile
<1> DEFINE T == {n \in 1 .. MaxId + 1 : \A i \in Ids : i >= n => r[i] = NoFile}
<1>1. T \in SUBSET Nat /\ MaxId + 1 \in T
  BY LootBoundsAssumption DEF Ids
<1>2. PICK n \in T : \A m \in T : n <= m
  BY <1>1, LeastNumber
<1>3. n \in 1 .. MaxId + 1 /\ \A i \in Ids : i >= n => r[i] = NoFile
  OBVIOUS
<1>4. ASSUME n > 1 PROVE r[n - 1] # NoFile
  <2>1. n - 1 \in 1 .. MaxId /\ n - 1 \notin T
    BY <1>2, <1>3, <1>4, LootBoundsAssumption
  <2>2. PICK i \in Ids : i >= n - 1 /\ r[i] # NoFile
    BY <2>1, LootBoundsAssumption
  <2>3. i = n - 1
    BY <1>3, <2>1, <2>2 DEF Ids
  <2> QED BY <2>2, <2>3
<1> QED BY <1>3, <1>4 DEF IdAfter

-----------------------------------------------------------------------------
(* The objects a restore writes.                                           *)

UpTo(S, i) == {j \in S : j <= i}

LEMMA IdsAreFinite == ASSUME NEW S \in SUBSET Ids PROVE IsFiniteSet(S)
<1>1. IsFiniteSet(Ids)
  BY FS_Interval, LootBoundsAssumption DEF Ids
<1> QED BY <1>1, FS_Subset

\* The i of S are counted from 1 to the size of S, ...
LEMMA Counted ==
    ASSUME NEW S \in SUBSET Ids, NEW i \in S
    PROVE  Cardinality(UpTo(S, i)) \in 1 .. Cardinality(S)
<1>1. IsFiniteSet(S) /\ Cardinality(S) \in Nat
  BY IdsAreFinite, FS_CardinalityType
<1>2. UpTo(S, i) \in SUBSET S /\ i \in UpTo(S, i)
  BY LootBoundsAssumption DEF UpTo, Ids
<1>3. IsFiniteSet(UpTo(S, i)) /\ Cardinality(UpTo(S, i)) <= Cardinality(S)
  BY <1>1, <1>2, FS_Subset
<1>4. Cardinality(UpTo(S, i)) \in Nat /\ Cardinality(UpTo(S, i)) # 0
  BY <1>2, <1>3, FS_CardinalityType, FS_EmptySet
<1> QED BY <1>1, <1>3, <1>4

\* ... each once.
LEMMA CountedInOrder ==
    ASSUME NEW S \in SUBSET Ids, NEW i \in S, NEW j \in S, i < j
    PROVE  Cardinality(UpTo(S, i)) < Cardinality(UpTo(S, j))
<1>1. IsFiniteSet(UpTo(S, j))
  <2>1. UpTo(S, j) \in SUBSET Ids
    BY DEF UpTo
  <2> QED BY <2>1, IdsAreFinite
<1>2. UpTo(S, i) \in SUBSET UpTo(S, j) /\ j \in UpTo(S, j) /\ j \notin UpTo(S, i)
  <2>1. i \in Int /\ j \in Int /\ \A k \in S : k \in Int
    BY DEF Ids
  <2>2. \A k \in S : k <= i => k <= j
    BY <2>1
  <2>3. j <= j /\ ~(j <= i)
    BY <2>1
  <2> QED BY <2>2, <2>3 DEF UpTo
<1>3. /\ Cardinality(UpTo(S, i)) <= Cardinality(UpTo(S, j))
      /\ Cardinality(UpTo(S, i)) # Cardinality(UpTo(S, j))
  BY <1>1, <1>2, FS_Subset
<1>4. Cardinality(UpTo(S, i)) \in Nat /\ Cardinality(UpTo(S, j)) \in Nat
  BY Counted, IdsAreFinite, FS_CardinalityType
<1> QED BY <1>3, <1>4

\* A restore writes the content of each i of S to a fresh object of its own,
\* and changes no other.
LEMMA RestoredObjects ==
    ASSUME nextOid \in 1 .. MaxOid + 1, NEW S \in SUBSET Ids, NEW b,
           nextOid + Cardinality(S) <= MaxOid + 1
    PROVE  /\ Cardinality(S) \in Nat
           /\ \A i \in S : /\ NewOid(S, i) \in Oids
                           /\ NewOid(S, i) \in nextOid .. nextOid + Cardinality(S) - 1
                           /\ WithObjects(b, S)[NewOid(S, i)] = b[i]
           /\ \A i, j \in S : NewOid(S, i) = NewOid(S, j) => i = j
           /\ \A o \in Oids : \/ WithObjects(b, S)[o] = objects[o]
                              \/ \E i \in S : o = NewOid(S, i)
<1>0. Cardinality(S) \in Nat
  BY IdsAreFinite, FS_CardinalityType
<1>1. ASSUME NEW i \in S
      PROVE  /\ NewOid(S, i) \in Oids
             /\ NewOid(S, i) \in nextOid .. nextOid + Cardinality(S) - 1
             /\ NewOid(S, i) = nextOid - 1 + Cardinality(UpTo(S, i))
  <2>1. NewOid(S, i) = nextOid - 1 + Cardinality(UpTo(S, i))
    BY DEF NewOid, UpTo
  <2>2. Cardinality(UpTo(S, i)) \in 1 .. Cardinality(S)
    BY Counted
  <2> QED BY <1>0, <2>1, <2>2, LootBoundsAssumption DEF Oids
<1>2. ASSUME NEW i \in S, NEW j \in S, NewOid(S, i) = NewOid(S, j) PROVE i = j
  <2>1. Cardinality(UpTo(S, i)) = Cardinality(UpTo(S, j))
    <3>1. /\ Cardinality(UpTo(S, i)) \in 1 .. Cardinality(S)
          /\ Cardinality(UpTo(S, j)) \in 1 .. Cardinality(S)
      BY Counted
    <3> QED BY <1>0, <1>1, <1>2, <3>1
  <2>2. ~(i < j) /\ ~(j < i)
    <3>1. /\ Cardinality(UpTo(S, i)) \in Int
          /\ Cardinality(UpTo(S, j)) \in Int
      BY <1>0, Counted
    <3> QED BY <2>1, <3>1, CountedInOrder
  <2> QED BY <2>2 DEF Ids
<1>3. ASSUME NEW i \in S PROVE WithObjects(b, S)[NewOid(S, i)] = b[i]
  <2> DEFINE k == CHOOSE k \in S : NewOid(S, i) = NewOid(S, k)
  <2>1. k \in S /\ NewOid(S, i) = NewOid(S, k)
    OBVIOUS
  <2>2. k = i
    BY <1>2, <2>1
  <2> QED BY <1>1, <2>2 DEF WithObjects
<1>4. ASSUME NEW o \in Oids, ~ \E i \in S : o = NewOid(S, i)
      PROVE  WithObjects(b, S)[o] = objects[o]
  BY <1>4 DEF WithObjects
<1> QED BY <1>0, <1>1, <1>2, <1>3, <1>4

-----------------------------------------------------------------------------
(* What every step leaves the other workers.                               *)

\* Objects only go or are new, and no row takes over the object of another; as
\* long as nothing was restored, rows that were there only go.
Follows ==
    /\ nextOid <= nextOid'
    /\ \A o \in Oids : o < nextOid => objects'[o] \in {objects[o], NoObject}
    /\ \A j \in Ids : files'[j] # NoFile =>
          \/ files'[j].oid = 0 \/ files'[j].oid >= nextOid
          \/ Stored(j) /\ files'[j].oid = files[j].oid
    /\ restored' \/ (/\ ~restored /\ nextId <= nextId'
                     /\ \A j \in Ids : j < nextId => files'[j] \in {files[j], NoFile})

LEMMA FollowsWhenUnchanged ==
    ASSUME TypeOK, UNCHANGED <<store, history>>
    PROVE  Follows
BY DEF TypeOK, Follows, store, history, Stored, Oids, Ids

LEMMA Bystander ==
    ASSUME TypeOK, NEW v \in Workers, Fits(v), Follows, req'[v] = req[v],
           nextId' \in Nat, nextOid' \in Nat,
           req[v].op = "reattach" => blobs' = blobs
    PROVE  Fits(v)'
<1> DEFINE r == req[v]
<1>1. r \in Request /\ nextOid \in Int /\ nextId \in Int
  BY DEF TypeOK
<1>2. /\ r.rows \in [Ids -> File \cup {NoFile}] /\ r.seen \in File \cup {NoFile}
      /\ r.id \in {0} \cup Ids
  BY <1>1 DEF Request
<1>3. \A i \in Ids : r.rows[i] # NoFile => r.rows[i].oid < nextOid'
  <2>1. \A i \in Ids : r.rows[i] # NoFile => r.rows[i].oid \in Int
    BY <1>2 DEF File, Oids
  <2> QED BY <1>1, <2>1 DEF Fits, Follows
<1>4. ASSUME r.seen # NoFile
      PROVE  /\ r.id \in Ids /\ r.seen.oid < nextOid'
             /\ \A j \in Ids : files'[j] # NoFile /\ files'[j].oid = r.seen.oid =>
                                  r.seen.oid = 0 \/ j = r.id
             /\ restored' \/ (r.id < nextId' /\ files'[r.id] \in {r.seen, NoFile})
  <2>1. /\ r.id \in Ids /\ r.seen.oid < nextOid
        /\ \A j \in Ids : Stored(j) /\ files[j].oid = r.seen.oid => r.seen.oid = 0 \/ j = r.id
        /\ restored \/ (r.id < nextId /\ files[r.id] \in {r.seen, NoFile})
    BY <1>4 DEF Fits, SeenOK
  <2>2. r.seen.oid \in Int /\ r.id \in Int
    BY <1>2, <1>4, <2>1 DEF File, Oids, Ids
  <2>3. r.seen.oid < nextOid'
    BY <1>1, <2>1, <2>2 DEF Follows
  <2>4. ASSUME NEW j \in Ids, files'[j] # NoFile, files'[j].oid = r.seen.oid,
               r.seen.oid # 0
        PROVE  j = r.id
    <3>1. Stored(j) /\ files'[j].oid = files[j].oid
      BY <1>1, <2>1, <2>2, <2>4 DEF Follows
    <3> QED BY <2>1, <2>4, <3>1
  <2>5. restored' \/ (r.id < nextId' /\ files'[r.id] \in {r.seen, NoFile})
    BY <1>1, <2>1, <2>2 DEF Follows
  <2> QED BY <2>1, <2>3, <2>4, <2>5
<1> QED BY <1>3, <1>4 DEF Fits, SeenOK, Stored

\* What a worker remembers of a row stays true: its object stays or goes.
LEMMA StillRemembers ==
    ASSUME TypeOK, NEW v \in Workers, Fits(v), Follows, req'[v] = req[v],
           NEW h, Remembers(v, h)
    PROVE  Remembers(v, h)'
<1> DEFINE r == req[v]
           After(f) == IF f.oid = 0 THEN NoObject ELSE objects'[f.oid]
<1>1. /\ r.rows \in [Ids -> File \cup {NoFile}] /\ r.seen \in File \cup {NoFile}
  BY DEF TypeOK, Request
<1>2. ASSUME NEW f \in File, f.oid < nextOid, NEW c, Says(f, c), f # NoFile
      PROVE  f.sha = c /\ After(f) \in {c, NoObject}
  <2>1. f.oid = 0 \/ f.oid \in Oids
    BY DEF File
  <2> QED BY <1>2, <2>1 DEF Says, Delivered, Follows
<1>3. ASSUME NEW i \in Ids, r.rows[i] # NoFile
      PROVE  r.rows[i].sha = h[i] /\ After(r.rows[i]) \in {h[i], NoObject}
  <2>1. r.rows[i] \in File /\ r.rows[i].oid < nextOid /\ Says(r.rows[i], h[i])
    BY <1>1, <1>3 DEF Fits, Remembers
  <2> QED BY <1>2, <1>3, <2>1
<1>4. ASSUME r.seen # NoFile
      PROVE  r.seen.sha = h[r.id] /\ After(r.seen) \in {h[r.id], NoObject}
  <2>1. r.seen \in File /\ r.seen.oid < nextOid /\ Says(r.seen, h[r.id])
    BY <1>1, <1>4 DEF Fits, SeenOK, Remembers
  <2> QED BY <1>2, <1>4, <2>1
<1>5. \A i \in Ids : r.export[i] # NoFile => r.export[i].sha = h[i]
  BY DEF Remembers
<1> QED BY <1>3, <1>4, <1>5 DEF Remembers, Says, Delivered

\* A step of w that only reads.
LEMMA ReadKeeps ==
    ASSUME IInv, NEW w \in Workers, NEW r \in Request, Moves(w, r),
           UNCHANGED <<store, vault, blobs, history>>,
           Fits(w)', \A h \in Hashes : Told(h) => Remembers(w, h)'
    PROVE  IInv'
<1> USE DEF IInv
<1>1. /\ req' \in [Workers -> Request] /\ req'[w] = r
      /\ \A v \in Workers : v # w => req'[v] = req[v]
  BY DEF Moves, TypeOK
<1>2. Follows /\ nextId' \in Nat /\ nextOid' \in Nat /\ blobs' = blobs
  BY FollowsWhenUnchanged, LootBoundsAssumption DEF TypeOK, store
<1>3. TypeOK'
  BY <1>1 DEF TypeOK, store, history
<1>4. StoreOK' /\ FullVaultIsCompleteUnlessTorn'
  BY DEF StoreOK, FullVaultIsCompleteUnlessTorn, OrphansComeFromRestores, Stored, store, history
<1>5. \A v \in Workers : Fits(v)'
  BY <1>1, <1>2, Bystander
<1>6. ASSUME ~rewound' PROVE \E h \in Hashes : Told(h)'
  <2>1. PICK h \in Hashes : Told(h)
    BY <1>6 DEF history
  <2>2. Recorded(h)'
    BY <2>1 DEF Told, Recorded, Says, Delivered, store
  <2>3. \A v \in Workers : Remembers(v, h)'
    BY <1>1, <1>2, <2>1, StillRemembers DEF Told
  <2> QED BY <2>2, <2>3 DEF Told
<1> QED BY <1>3, <1>4, <1>5, <1>6

LEMMA IdleIsRequest == Idle \in Request
BY DEF Idle, Request, NoFiles

LEMMA IdleFits ==
    ASSUME NEW w \in Workers, req'[w] = Idle
    PROVE  Fits(w)' /\ \A h : Remembers(w, h)'
BY DEF Fits, SeenOK, Remembers, Idle, NoFiles, Says

LEMMA FailsKeeps == ASSUME IInv, NEW w \in Workers, Fails(w) PROVE IInv'
<1>1. Moves(w, Idle) /\ UNCHANGED <<store, vault, blobs, history>>
  BY DEF Fails, Ends
<1>2. req'[w] = Idle
  BY <1>1 DEF Moves, IInv, TypeOK
<1> QED BY <1>1, <1>2, IdleIsRequest, IdleFits, ReadKeeps

\* A step of w that writes and ends.
LEMMA WriteKeeps ==
    ASSUME IInv, NEW w \in Workers, Ends(w), Follows,
           TypeOK', StoreOK', FullVaultIsCompleteUnlessTorn',
           \A v \in Workers \ {w} : req[v].op = "reattach" => blobs' = blobs,
           rewound => rewound',
           \A h \in Hashes : Told(h) /\ ~rewound' =>
              \E g \in Hashes : /\ Recorded(g)'
                                /\ \A v \in Workers \ {w} : Remembers(v, g)
    PROVE  IInv'
<1> USE DEF IInv
<1>1. /\ req'[w] = Idle
      /\ \A v \in Workers : v # w => req'[v] = req[v]
  BY DEF Ends, Moves, TypeOK
<1>2. nextId' \in Nat /\ nextOid' \in Nat
  BY LootBoundsAssumption DEF TypeOK
<1>3. \A v \in Workers : Fits(v)'
  <2>1. Fits(w)'
    BY <1>1, IdleFits
  <2>2. ASSUME NEW v \in Workers, v # w PROVE Fits(v)'
    BY <1>1, <1>2, <2>2, Bystander
  <2> QED BY <2>1, <2>2
<1>4. ASSUME ~rewound' PROVE \E h \in Hashes : Told(h)'
  <2>1. PICK h \in Hashes : Told(h)
    BY <1>4
  <2>2. PICK g \in Hashes : Recorded(g)' /\ \A v \in Workers \ {w} : Remembers(v, g)
    BY <1>4, <2>1
  <2>3. \A v \in Workers : Remembers(v, g)'
    <3>1. Remembers(w, g)'
      BY <1>1, IdleFits
    <3>2. ASSUME NEW v \in Workers, v # w PROVE Remembers(v, g)'
      BY <1>1, <2>2, <3>2, StillRemembers
    <3> QED BY <3>1, <3>2
  <2> QED BY <2>2, <2>3 DEF Told
<1> QED BY <1>3, <1>4

-----------------------------------------------------------------------------
(* One lemma per action.                                                   *)

LEMMA RowsKnown ==
    ASSUME TypeOK, StoreOK, NEW i \in Ids, Stored(i)
    PROVE  files[i] \in File /\ files[i].oid < nextOid /\ i < nextId
<1>1. files[i] \in File /\ nextOid \in 1 .. MaxOid + 1 /\ nextId \in 1 .. MaxId + 1
  BY DEF TypeOK, Stored
<1>2. files[i].oid = 0 \/ files[i].oid \in Oids
  BY <1>1 DEF File
<1>3. ~(i >= nextId) /\ i \in Int
  BY DEF StoreOK, Stored, Ids
<1> QED BY <1>1, <1>2, <1>3, LootBoundsAssumption DEF StoreOK

LEMMA LoadsKeeps ==
    ASSUME IInv, NEW w \in Workers, NEW o \in {"edit", "delete", "download"},
           NEW i \in Ids, Loads(w, o, i)
    PROVE  IInv'
<1> USE DEF IInv
<1> DEFINE r == [Idle EXCEPT !.op = o, !.step = "loaded", !.id = i, !.seen = files[i]]
<1>1. files[i] \in File /\ files[i].oid < nextOid /\ i < nextId /\ files[i] # NoFile
  BY RowsKnown, LootNullsAssumption DEF Loads, Stored
<1>2. /\ r \in Request /\ r.op = o /\ r.id = i /\ r.seen = files[i]
      /\ r.rows = NoFiles /\ r.export = NoFiles
  BY <1>1, IdleIsRequest DEF Request, Idle
<1> HIDE DEF r
<1>3. Moves(w, r) /\ UNCHANGED <<store, vault, blobs, history>>
  BY DEF Loads, r
<1>4. req'[w] = r
  BY <1>3 DEF Moves, TypeOK
<1>5. Fits(w)'
  <2>1. \A j \in Ids : Stored(j) /\ files[j].oid = r.seen.oid => r.seen.oid = 0 \/ j = i
    BY <1>1, <1>2 DEF StoreOK, Stored
  <2>2. SeenOK(w)'
    BY <1>1, <1>2, <1>3, <1>4, <2>1 DEF SeenOK, Stored, store
  <2>3. \A k \in Ids : r.rows[k] = NoFile
    BY <1>2 DEF NoFiles
  <2> QED BY <1>1, <1>2, <1>4, <2>2, <2>3 DEF Fits
<1>6. ASSUME NEW h \in Hashes, Told(h) PROVE Remembers(w, h)'
  <2>1. Says(files[i], h[i])
    BY <1>6 DEF Told, Recorded
  <2>2. \A k \in Ids : r.rows[k] = NoFile /\ r.export[k] = NoFile
    BY <1>2 DEF NoFiles
  <2> QED BY <1>2, <1>3, <1>4, <2>1, <2>2 DEF Remembers, Says, Delivered, store
<1> QED BY <1>2, <1>3, <1>5, <1>6, ReadKeeps

LEMMA BackupExportKeeps == ASSUME IInv, NEW w \in Workers, BackupExport(w) PROVE IInv'
<1> USE DEF IInv
<1>1. PICK s \in {"full_vault", "database_only"} :
         Moves(w, [Idle EXCEPT !.op = "backup", !.scope = s, !.export = files,
                               !.step = "loaded"])
  BY DEF BackupExport
<1> DEFINE r == [Idle EXCEPT !.op = "backup", !.scope = s, !.export = files,
                             !.step = "loaded"]
<1>2. files \in [Ids -> File \cup {NoFile}]
  BY DEF TypeOK
<1>3. /\ r \in Request /\ r.op = "backup" /\ r.scope = s /\ r.export = files
      /\ r.rows = NoFiles /\ r.seen = NoFile
  BY <1>2, IdleIsRequest DEF Request, Idle, Scopes
<1> HIDE DEF r
<1>4. Moves(w, r) /\ UNCHANGED <<store, vault, blobs, history>>
  BY <1>1 DEF BackupExport, r
<1>5. req'[w] = r /\ \A i \in Ids : r.rows[i] = NoFile
  BY <1>3, <1>4 DEF Moves, TypeOK, NoFiles
<1>6. Fits(w)'
  BY <1>3, <1>5 DEF Fits, SeenOK
<1>7. ASSUME NEW h \in Hashes, Told(h) PROVE Remembers(w, h)'
  BY <1>3, <1>5, <1>7 DEF Remembers, Told, Recorded, Says
<1> QED BY <1>3, <1>4, <1>6, <1>7, ReadKeeps

LEMMA BackupQueryKeeps == ASSUME IInv, NEW w \in Workers, BackupQuery(w) PROVE IInv'
<1> USE DEF IInv
<1>1. /\ files \in [Ids -> File \cup {NoFile}] /\ req[w] \in Request
      /\ UNCHANGED <<store, vault, blobs, history>>
  BY DEF TypeOK, BackupQuery
\* The request that queried agrees with the tables; it remembers what it exported.
<1>2. ASSUME NEW r \in Request, Moves(w, r), r.op = "backup", r.scope # "none",
             r.rows = files, r.seen = NoFile,
             r.export \in {NoFiles, req[w].export}
      PROVE  IInv'
  <2>1. req'[w] = r
    BY <1>2 DEF Moves, TypeOK
  <2>2. \A i \in Ids : files[i] # NoFile => files[i].oid < nextOid
    BY RowsKnown DEF Stored
  <2>3. Fits(w)'
    BY <1>1, <1>2, <2>1, <2>2 DEF Fits, SeenOK, store
  <2>4. ASSUME NEW h \in Hashes, Told(h) PROVE Remembers(w, h)'
    <3>1. \A i \in Ids : r.export[i] # NoFile => r.export[i].sha = h[i]
      BY <1>2, <2>4 DEF Told, Remembers, NoFiles
    <3> QED BY <1>1, <1>2, <2>1, <2>4, <3>1 DEF Remembers, Told, Recorded, Says, Delivered, store
  <2> QED BY <1>1, <1>2, <2>3, <2>4, ReadKeeps
<1>3. CASE /\ At(w, "backup", "loaded") /\ req[w].scope = "full_vault"
           /\ Moves(w, [req[w] EXCEPT !.step = "queried", !.rows = files])
  <2> DEFINE r == [req[w] EXCEPT !.step = "queried", !.rows = files]
  <2>1. r \in Request /\ r.op = "backup" /\ r.scope = "full_vault" /\ r.rows = files
        /\ r.export = req[w].export /\ r.seen = req[w].seen
    BY <1>1, <1>3 DEF Request, At
  <2>2. r.seen = NoFile
    BY <1>3, <2>1 DEF Fits, At
  <2> HIDE DEF r
  <2>3. Moves(w, r)
    BY <1>3 DEF r
  <2> QED BY <1>2, <2>1, <2>2, <2>3
<1>4. CASE Moves(w, [Idle EXCEPT !.op = "backup", !.scope = "loot_files",
                                 !.step = "queried", !.rows = files])
  <2> DEFINE r == [Idle EXCEPT !.op = "backup", !.scope = "loot_files",
                               !.step = "queried", !.rows = files]
  <2>1. r \in Request /\ r.op = "backup" /\ r.scope = "loot_files" /\ r.rows = files
        /\ r.export = NoFiles /\ r.seen = NoFile
    BY <1>1, IdleIsRequest DEF Request, Idle, Scopes
  <2> HIDE DEF r
  <2>2. Moves(w, r)
    BY <1>4 DEF r
  <2> QED BY <1>2, <2>1, <2>2
<1> QED BY <1>3, <1>4 DEF BackupQuery

LEMMA ReattachLoadKeeps == ASSUME IInv, NEW w \in Workers, ReattachLoad(w) PROVE IInv'
<1> USE DEF IInv
<1> DEFINE loaded == [i \in Ids |-> IF Extracted(blobs)[i] # NoBlob THEN files[i] ELSE NoFile]
           r == [Idle EXCEPT !.op = "reattach", !.step = "loaded", !.rows = loaded]
<1>1. /\ loaded \in [Ids -> File \cup {NoFile}]
      /\ \A i \in Ids : loaded[i] # NoFile => loaded[i] = files[i] /\ blobs[i] # NoBlob
  BY DEF TypeOK, Extracted
<1>2. /\ r \in Request /\ r.op = "reattach" /\ r.rows = loaded
      /\ r.export = NoFiles /\ r.seen = NoFile
  BY <1>1, IdleIsRequest DEF Request, Idle
<1>3. Moves(w, r) /\ UNCHANGED <<store, vault, blobs, history>>
  BY DEF ReattachLoad
<1> HIDE DEF r, loaded
<1>4. req'[w] = r
  BY <1>3 DEF Moves, TypeOK
<1>5. \A i \in Ids : files[i] # NoFile => files[i].oid < nextOid
  BY RowsKnown DEF Stored
<1>6. Fits(w)'
  BY <1>1, <1>2, <1>3, <1>4, <1>5 DEF Fits, SeenOK, store
<1>7. ASSUME NEW h \in Hashes, Told(h) PROVE Remembers(w, h)'
  <2>1. \A i \in Ids : r.rows[i] # NoFile =>
           r.rows[i].sha = h[i] /\ Delivered(r.rows[i]) \in {h[i], NoObject}
    BY <1>1, <1>2, <1>7 DEF Told, Recorded, Says
  <2>2. \A i \in Ids : r.export[i] = NoFile
    BY <1>2 DEF NoFiles
  <2> QED BY <1>2, <1>3, <1>4, <2>1, <2>2 DEF Remembers, Says, Delivered, store
<1> QED BY <1>2, <1>3, <1>6, <1>7, ReadKeeps

LEMMA UploadsKeeps == ASSUME IInv, NEW w \in Workers, Uploads(w) PROVE IInv'
<1> USE DEF IInv
<1>1. PICK c \in Contents :
         /\ objects' = Saved(c)
         /\ files' = [files EXCEPT ![nextId] = [oid |-> nextOid, sha |-> c]]
  BY DEF Uploads
<1> DEFINE f == [oid |-> nextOid, sha |-> c]
<1>2. /\ nextId \in Ids /\ nextOid \in Oids /\ nextId' = nextId + 1 /\ nextOid' = nextOid + 1
      /\ nextId \in Int /\ nextOid \in Int
      /\ Ends(w) /\ UNCHANGED <<vault, blobs, history>>
  BY LootBoundsAssumption DEF Uploads, TypeOK, FreshOids, Oids
<1>3. f \in File /\ f # NoFile /\ c # NoObject /\ c # NoBlob /\ f.oid = nextOid /\ f.sha = c
      /\ nextOid # 0
  <2>1. f \in File
    BY <1>2 DEF File
  <2> QED BY <1>2, <2>1, LootNullsAssumption DEF Oids
<1>4. /\ files' \in [Ids -> File \cup {NoFile}] /\ files'[nextId] = f
      /\ \A i \in Ids : i # nextId => files'[i] = files[i]
      /\ files[nextId] = NoFile
  BY <1>1, <1>2, <1>3 DEF TypeOK, StoreOK
<1>5. /\ objects' \in [Oids -> Contents \cup {NoObject}] /\ objects'[nextOid] = c
      /\ \A o \in Oids : o # nextOid => objects'[o] = objects[o]
      /\ objects[nextOid] = NoObject
  BY <1>1, <1>2 DEF TypeOK, StoreOK, Saved
<1> HIDE DEF f
<1>6. /\ \A i \in Ids : i \in Int /\ (files[i] # NoFile => i # nextId /\ files[i].oid < nextOid
                                          /\ files[i].oid \in {0} \cup Oids)
      /\ \A o \in Oids : o \in Int
  BY <1>4, RowsKnown DEF Ids, Oids, File, Stored
<1>7. TypeOK'
  <2>1. req' \in [Workers -> Request]
    BY <1>2, IdleIsRequest DEF Ends, Moves, TypeOK
  <2> QED BY <1>2, <1>4, <1>5, <2>1, LootBoundsAssumption DEF TypeOK, Ids, Oids, history
<1>8. StoreOK'
  <2>1. \A i \in Ids : i >= nextId' => files'[i] = NoFile
    BY <1>2, <1>4, <1>6 DEF StoreOK
  <2>2. \A o \in Oids : objects'[o] # NoObject => o < nextOid'
    BY <1>2, <1>5, <1>6 DEF StoreOK
  <2>3. \A i \in Ids : files'[i] # NoFile /\ files'[i].oid # 0 => objects'[files'[i].oid] # NoObject
    BY <1>3, <1>4, <1>5, <1>6 DEF StoreOK, Stored
  <2>4. \A i, j \in Ids : files'[i] # NoFile /\ files'[j] # NoFile /\ files'[i].oid = files'[j].oid =>
                             files'[i].oid = 0 \/ i = j
    BY <1>3, <1>4, <1>6 DEF StoreOK, Stored
  <2>5. ASSUME ~restored', NEW o \in Oids, objects'[o] # NoObject
        PROVE  \E i \in Ids : files'[i] # NoFile /\ files'[i].oid = o
    <3>1. CASE o = nextOid
      BY <1>2, <1>3, <1>4, <3>1
    <3>2. CASE o # nextOid
      <4>1. PICK i \in Ids : Stored(i) /\ files[i].oid = o
        BY <1>2, <1>5, <2>5, <3>2 DEF StoreOK, OrphansComeFromRestores, history
      <4> QED BY <1>4, <1>6, <4>1 DEF Stored
    <3> QED BY <3>1, <3>2
  <2> QED BY <2>1, <2>2, <2>3, <2>4, <2>5 DEF StoreOK, OrphansComeFromRestores, Stored
<1>9. Follows
  BY <1>2, <1>3, <1>4, <1>5, <1>6 DEF Follows, Stored, history, TypeOK
<1>10. ASSUME NEW h \in Hashes, Told(h)
       PROVE  \E g \in Hashes : Recorded(g)' /\ \A v \in Workers \ {w} : Remembers(v, g)
  <2>1. PICK g \in Hashes : g[nextId] = c /\ \A i \in Ids : i # nextId => g[i] = h[i]
    <3> DEFINE new == [h EXCEPT ![nextId] = c]
    <3>1. new \in Hashes /\ new[nextId] = c /\ \A i \in Ids : i # nextId => new[i] = h[i]
      BY <1>2 DEF Hashes
    <3> HIDE DEF new
    <3> QED BY <3>1
  <2>2. h[nextId] = NoBlob /\ NoBlob \notin Contents
    BY <1>2, <1>10, LootNullsAssumption DEF Told, Recorded
  <2>3. Recorded(g)'
    <3>1. \A i \in Ids : i >= nextId' => g[i] = NoBlob
      BY <1>2, <1>6, <1>10, <2>1 DEF Told, Recorded
    <3>2. \A i \in Ids : Says(files[i], h[i]) /\ blobs[i] \in {h[i], NoBlob}
      BY <1>10 DEF Told, Recorded
    <3>3. ASSUME NEW i \in Ids PROVE Says(files[i], g[i])'
      <4>1. CASE i = nextId
        BY <1>3, <1>4, <1>5, <2>1, <4>1 DEF Says, Delivered
      <4>2. CASE i # nextId
        BY <1>4, <1>5, <1>6, <2>1, <3>2, <4>2 DEF Says, Delivered
      <4> QED BY <4>1, <4>2
    <3>4. \A i \in Ids : blobs[i] \in {g[i], NoBlob}
      BY <2>1, <2>2, <3>2
    <3>5. vault # NoArchive =>
             \A i \in Ids : /\ vault.rows[i] # NoFile => vault.rows[i].sha = g[i]
                            /\ vault.blobs[i] \in {g[i], NoBlob}
      <4> SUFFICES ASSUME vault # NoArchive, NEW i \in Ids
                   PROVE  /\ vault.rows[i] # NoFile => vault.rows[i].sha = g[i]
                          /\ vault.blobs[i] \in {g[i], NoBlob}
        OBVIOUS
      <4>1. /\ vault.rows[i] # NoFile => vault.rows[i].sha = h[i]
            /\ vault.blobs[i] \in {h[i], NoBlob}
        BY <1>10 DEF Told, Recorded
      <4>2. vault.rows[i] # NoFile => vault.rows[i].sha \in Contents
        BY DEF TypeOK, File
      <4> QED BY <2>1, <2>2, <4>1, <4>2
    <3> QED BY <1>2, <3>1, <3>3, <3>4, <3>5 DEF Recorded
  <2>4. ASSUME NEW v \in Workers PROVE Remembers(v, g)
    <3> DEFINE r == req[v]
    <3>1. Remembers(v, h)
      BY <1>10 DEF Told
    <3>2. /\ r.rows \in [Ids -> File \cup {NoFile}] /\ r.seen \in File \cup {NoFile}
          /\ r.export \in [Ids -> File \cup {NoFile}]
      BY DEF TypeOK, Request
    <3>3. \A i \in Ids : /\ r.rows[i] # NoFile => i # nextId
                         /\ r.export[i] # NoFile => i # nextId
      BY <2>2, <3>1, <3>2 DEF Remembers, Says, File
    <3>4. r.seen # NoFile => r.id \in Ids /\ r.id # nextId
      BY <2>2, <3>1, <3>2 DEF Remembers, Says, File, Fits, SeenOK
    <3> QED BY <2>1, <3>1, <3>3, <3>4 DEF Remembers, Says
  <2> QED BY <2>1, <2>3, <2>4
<1>11. FullVaultIsCompleteUnlessTorn' /\ (rewound => rewound')
  BY <1>2 DEF FullVaultIsCompleteUnlessTorn, history
<1> QED BY <1>2, <1>7, <1>8, <1>9, <1>10, <1>11, WriteKeeps

LEMMA UploadFailsKeeps == ASSUME IInv, NEW w \in Workers, UploadFails(w) PROVE IInv'
<1> USE DEF IInv
<1>1. /\ nextOid' = nextOid + 1 /\ objects' = objects /\ Ends(w)
      /\ UNCHANGED <<files, nextId, vault, blobs, history>>
  BY DEF UploadFails, LeftOnFailure
<1>2. /\ nextOid \in Oids /\ nextOid \in Int /\ nextId \in Int
      /\ \A o \in Oids : o \in Int
  BY LootBoundsAssumption DEF UploadFails, FreshOids, Oids, TypeOK
<1>3. TypeOK'
  <2>1. req' \in [Workers -> Request]
    BY <1>1, IdleIsRequest DEF Ends, Moves, TypeOK
  <2> QED BY <1>1, <1>2, <2>1, LootBoundsAssumption DEF TypeOK, Oids, history
<1>4. StoreOK'
  BY <1>1, <1>2 DEF StoreOK, OrphansComeFromRestores, Stored, history
<1>5. Follows
  BY <1>1, <1>2 DEF Follows, Stored, history, TypeOK, Ids
<1>6. FullVaultIsCompleteUnlessTorn' /\ (rewound => rewound')
  BY <1>1 DEF FullVaultIsCompleteUnlessTorn, history
<1>7. ASSUME NEW h \in Hashes, Told(h) PROVE Recorded(h)' /\ \A v \in Workers : Remembers(v, h)
  BY <1>1, <1>7 DEF Told, Recorded, Says, Delivered
<1> QED BY <1>1, <1>3, <1>4, <1>5, <1>6, <1>7, WriteKeeps

\* The form sends neither column: the row keeps its object and its hash.
LEMMA EditCommitKeeps == ASSUME IInv, NEW w \in Workers, EditCommit(w) PROVE IInv'
<1> USE DEF IInv
<1>1. CASE ~Stored(req[w].id)
  BY <1>1, FailsKeeps DEF EditCommit
<1>2. CASE Stored(req[w].id)
  <2>1. /\ files' = [files EXCEPT ![req[w].id] = [oid |-> @.oid, sha |-> @.sha]]
        /\ Ends(w) /\ UNCHANGED <<objects, nextId, nextOid, vault, blobs, history>>
    BY <1>2 DEF EditCommit, Column
  <2>2. files' = files
    <3>1. req[w].id \in Ids
      BY DEF EditCommit, At, Fits, SeenOK
    <3>2. files[req[w].id] \in File
      BY <1>2, <3>1 DEF TypeOK, Stored
    <3>3. [oid |-> files[req[w].id].oid, sha |-> files[req[w].id].sha] = files[req[w].id]
      BY <3>2 DEF File
    <3> QED BY <2>1, <3>3 DEF TypeOK
  <2>3. Moves(w, Idle) /\ UNCHANGED <<store, vault, blobs, history>>
    BY <2>1, <2>2 DEF Ends, store
  <2> QED BY <2>3, FailsKeeps DEF Fails, Ends
<1> QED BY <1>1, <1>2

LEMMA DeleteCommitKeeps == ASSUME IInv, NEW w \in Workers, DeleteCommit(w) PROVE IInv'
<1> USE DEF IInv
<1> DEFINE r == req[w]
<1>1. r \in Request /\ r.seen # NoFile /\ r.seen \in File /\ r.id \in Ids
  BY DEF DeleteCommit, At, Fits, SeenOK, TypeOK, Request
<1>2. /\ r.seen.oid \in {0} \cup Oids /\ \A j \in Ids :
            Stored(j) /\ files[j].oid = r.seen.oid => r.seen.oid = 0 \/ j = r.id
      /\ restored \/ (r.id < nextId /\ files[r.id] \in {r.seen, NoFile})
  BY <1>1 DEF File, Fits, SeenOK
<1>3. CASE r.seen.oid # 0 /\ objects[r.seen.oid] = NoObject
  BY <1>3, FailsKeeps DEF DeleteCommit
<1>4. CASE ~(r.seen.oid # 0 /\ objects[r.seen.oid] = NoObject)
  <2>1. /\ files' = [files EXCEPT ![r.id] = NoFile] /\ objects' = UnlinkedOnDelete(r.seen)
        /\ Ends(w) /\ UNCHANGED <<nextId, nextOid, vault, blobs, history>>
    BY <1>4 DEF DeleteCommit
  <2>2. /\ files' \in [Ids -> File \cup {NoFile}] /\ files'[r.id] = NoFile
        /\ \A i \in Ids : i # r.id => files'[i] = files[i]
    BY <1>1, <2>1 DEF TypeOK
  <2>3. /\ objects' \in [Oids -> Contents \cup {NoObject}]
        /\ \A o \in Oids : objects'[o] = IF o = r.seen.oid THEN NoObject ELSE objects[o]
    <3>1. CASE r.seen.oid = 0
      BY <2>1, <3>1 DEF UnlinkedOnDelete, TypeOK, Oids
    <3>2. CASE r.seen.oid # 0
      BY <1>2, <2>1, <3>2 DEF UnlinkedOnDelete, TypeOK
    <3> QED BY <3>1, <3>2
  <2>4. \A i \in Ids : files'[i] # NoFile => files'[i] = files[i] /\ i # r.id /\ Stored(i)
                                             /\ files[i].oid \in {0} \cup Oids
    BY <2>2 DEF Stored, TypeOK, File
  <2>5. TypeOK'
    <3>1. req' \in [Workers -> Request]
      BY <2>1, IdleIsRequest DEF Ends, Moves, TypeOK
    <3> QED BY <2>1, <2>2, <2>3, <3>1 DEF TypeOK, history
  <2>6. StoreOK'
    <3>1. \A i \in Ids : i >= nextId' => files'[i] = NoFile
      BY <2>1, <2>4 DEF StoreOK, Stored
    <3>2. \A o \in Oids : objects'[o] # NoObject => o < nextOid'
      BY <2>1, <2>3 DEF StoreOK
    <3>3. \A i \in Ids : files'[i] # NoFile /\ files'[i].oid # 0 =>
                            objects'[files'[i].oid] # NoObject
      BY <1>2, <2>3, <2>4 DEF StoreOK
    <3>4. \A i, j \in Ids : files'[i] # NoFile /\ files'[j] # NoFile
                            /\ files'[i].oid = files'[j].oid => files'[i].oid = 0 \/ i = j
      BY <2>4 DEF StoreOK
    <3>5. ASSUME ~restored', NEW o \in Oids, objects'[o] # NoObject
          PROVE  \E i \in Ids : files'[i] # NoFile /\ files'[i].oid = o
      <4>1. PICK i \in Ids : Stored(i) /\ files[i].oid = o
        BY <2>1, <2>3, <3>5 DEF StoreOK, OrphansComeFromRestores, history
      <4>2. i # r.id
        BY <1>2, <2>1, <2>3, <3>5, <4>1 DEF history, Stored
      <4> QED BY <2>2, <4>1, <4>2 DEF Stored
    <3> QED BY <3>1, <3>2, <3>3, <3>4, <3>5 DEF StoreOK, OrphansComeFromRestores, Stored
  <2>7. Follows
    <3>1. nextOid' = nextOid /\ nextId' = nextId /\ nextOid \in Int /\ nextId \in Int
      BY <2>1 DEF TypeOK
    <3>2. \A j \in Ids : files'[j] \in {files[j], NoFile}
      BY <2>2
    <3>3. \A o \in Oids : objects'[o] \in {objects[o], NoObject}
      BY <2>3
    <3> QED BY <2>1, <2>4, <3>1, <3>2, <3>3 DEF Follows, history, TypeOK
  <2>8. FullVaultIsCompleteUnlessTorn' /\ (rewound => rewound')
    BY <2>1 DEF FullVaultIsCompleteUnlessTorn, history
  <2>9. ASSUME NEW h \in Hashes, Told(h)
        PROVE  Recorded(h)' /\ \A v \in Workers : Remembers(v, h)
    <3>1. \A i \in Ids : Says(files[i], h[i])'
      <4> SUFFICES ASSUME NEW i \in Ids, files'[i] # NoFile
                   PROVE  /\ files'[i].sha = h[i]
                          /\ IF files'[i].oid = 0 THEN TRUE
                             ELSE objects'[files'[i].oid] \in {h[i], NoObject}
        BY DEF Says, Delivered
      <4>1. Says(files[i], h[i]) /\ files[i] # NoFile
        BY <2>4, <2>9 DEF Told, Recorded, Stored
      <4> QED BY <2>3, <2>4, <4>1 DEF Says, Delivered
    <3> QED BY <2>1, <2>9, <3>1 DEF Told, Recorded
  <2> QED BY <2>1, <2>5, <2>6, <2>7, <2>8, <2>9, WriteKeeps
<1> QED BY <1>3, <1>4

LEMMA BackupUploadKeeps == ASSUME IInv, NEW w \in Workers, BackupUpload(w) PROVE IInv'
<1> USE DEF IInv
<1> DEFINE r == req[w]
           read == BlobsOf(r.rows)
<1>1. /\ r \in Request /\ r.op = "backup" /\ r.scope \in Scopes
      /\ r.rows \in [Ids -> File \cup {NoFile}] /\ r.export \in [Ids -> File \cup {NoFile}]
  BY DEF BackupUpload, TypeOK, Request, Fits
<1>2. CASE \E i \in Ids : read[i] = NoObject
  BY <1>2, FailsKeeps DEF BackupUpload
<1>3. CASE ~ \E i \in Ids : read[i] = NoObject
  <2>1. Ends(w) /\ UNCHANGED <<store, history>>
    BY <1>3 DEF BackupUpload
  <2>2. ASSUME NEW i \in Ids, r.rows[i] # NoFile, r.rows[i].oid # 0
        PROVE  read[i] = objects[r.rows[i].oid] /\ read[i] \in Contents /\ read[i] # NoBlob
    <3>1. r.rows[i].oid \in Oids
      BY <1>1, <2>2 DEF File
    <3>2. read[i] = objects[r.rows[i].oid]
      BY <2>2 DEF BlobsOf
    <3> QED BY <1>3, <3>1, <3>2, LootNullsAssumption DEF TypeOK
  <2>3. \A i \in Ids : r.rows[i] = NoFile \/ r.rows[i].oid = 0 => read[i] = NoBlob
    BY DEF BlobsOf
  <2>4. read \in [Ids -> Contents \cup {NoBlob}]
    <3>1. \A i \in Ids : read[i] \in Contents \cup {NoBlob}
      BY <2>2, <2>3
    <3>2. read = [i \in Ids |-> read[i]]
      BY DEF BlobsOf
    <3> HIDE DEF read
    <3> QED BY <3>1, <3>2
  <2> DEFINE archive == [scope |-> r.scope, rows |-> r.export, blobs |-> read,
                         torn |-> r.scope = "full_vault" /\ r.rows # r.export]
  <2>5. \/ /\ \A v \in Workers : req[v].op # "reattach"
           /\ blobs' = read /\ UNCHANGED vault
        \/ r.scope # "loot_files" /\ vault' = archive /\ UNCHANGED blobs
    BY <1>3 DEF BackupUpload
  <2>6. /\ archive.scope = r.scope /\ archive.rows = r.export /\ archive.blobs = read
        /\ archive.torn \in BOOLEAN
        /\ r.scope = "full_vault" /\ ~archive.torn => r.rows = r.export
    OBVIOUS
  <2> HIDE DEF archive, read
  <2>7. TypeOK'
    <3>1. req' \in [Workers -> Request]
      BY <2>1, IdleIsRequest DEF Ends, Moves, TypeOK
    <3> QED BY <1>1, <2>1, <2>4, <2>5, <2>6, <3>1 DEF TypeOK, store, history, Scopes
  <2>8. StoreOK'
    BY <2>1 DEF StoreOK, OrphansComeFromRestores, Stored, store, history
  <2>9. FullVaultIsCompleteUnlessTorn'
    <3>1. CASE UNCHANGED vault
      BY <3>1 DEF FullVaultIsCompleteUnlessTorn
    <3>2. CASE vault' = archive
      BY <2>2, <2>3, <2>6, <3>2 DEF FullVaultIsCompleteUnlessTorn
    <3> QED BY <2>5, <3>1, <3>2
  <2>10. Follows
    BY <2>1, FollowsWhenUnchanged
  <2>11. ASSUME NEW h \in Hashes, Told(h)
         PROVE  Recorded(h)' /\ \A v \in Workers : Remembers(v, h)
    <3>1. Recorded(h) /\ \A v \in Workers : Remembers(v, h)
      BY <2>11 DEF Told
    <3>2. \A i \in Ids : read[i] \in {h[i], NoBlob}
      <4> SUFFICES ASSUME NEW i \in Ids, r.rows[i] # NoFile, r.rows[i].oid # 0
                   PROVE  read[i] = h[i]
        BY <2>3
      <4>1. Delivered(r.rows[i]) \in {h[i], NoObject}
        BY <3>1 DEF Remembers, Says
      <4> QED BY <2>2, <4>1, LootNullsAssumption DEF Delivered
    <3>3. \A i \in Ids : r.export[i] # NoFile => r.export[i].sha = h[i]
      BY <3>1 DEF Remembers
    <3>4. \A i \in Ids : blobs'[i] \in {h[i], NoBlob}
      BY <2>5, <3>1, <3>2 DEF Recorded
    <3>5. vault' # NoArchive =>
             \A i \in Ids : /\ vault'.rows[i] # NoFile => vault'.rows[i].sha = h[i]
                            /\ vault'.blobs[i] \in {h[i], NoBlob}
      BY <2>5, <2>6, <3>1, <3>2, <3>3 DEF Recorded
    <3> QED BY <2>1, <3>1, <3>4, <3>5 DEF Recorded, Says, Delivered, store
  <2>12. (rewound => rewound') /\ \A v \in Workers \ {w} : req[v].op = "reattach" => blobs' = blobs
    BY <2>1, <2>5 DEF history
  <2> QED BY <2>1, <2>7, <2>8, <2>9, <2>10, <2>11, <2>12, WriteKeeps
<1> QED BY <1>2, <1>3

\* What both restores do: the files of S get fresh objects with the content of
\* archive b, and no other file but those in kept has an object.
LEMMA RestoreKeeps ==
    ASSUME IInv, NEW w \in Workers, Ends(w),
           NEW S \in SUBSET Ids, NEW b \in [Ids -> Contents \cup {NoBlob}],
           \A i \in S : b[i] # NoBlob,
           nextOid + Cardinality(S) <= MaxOid + 1,
           objects' = WithObjects(b, S), nextOid' = nextOid + Cardinality(S),
           files' \in [Ids -> File \cup {NoFile}], nextId' \in 1 .. MaxId + 1,
           \A i \in Ids : i >= nextId' => files'[i] = NoFile,
           \A i \in Ids : files'[i] # NoFile =>
              \/ i \in S /\ files'[i].oid = NewOid(S, i)
              \/ files'[i].oid = 0
              \/ files'[i] = files[i] /\ Stored(i),
           UNCHANGED <<vault, blobs>>, restored' = TRUE, rewound' \in BOOLEAN,
           rewound => rewound',
           ~rewound' => nextId' = nextId,
           \A h \in Hashes : Told(h) /\ ~rewound' =>
              /\ \A i \in S : b[i] = h[i]
              /\ \A i \in Ids : files'[i] # NoFile => files'[i].sha = h[i]
    PROVE  IInv'
<1> USE DEF IInv
<1>1. /\ nextOid \in 1 .. MaxOid + 1 /\ nextOid \in Int /\ nextId \in Int
      /\ \A o \in Oids : o \in Int
  BY LootBoundsAssumption DEF TypeOK, Oids
<1>2. /\ Cardinality(S) \in Nat
      /\ \A i \in S : /\ NewOid(S, i) \in Oids
                      /\ NewOid(S, i) \in nextOid .. nextOid + Cardinality(S) - 1
                      /\ objects'[NewOid(S, i)] = b[i]
      /\ \A i, j \in S : NewOid(S, i) = NewOid(S, j) => i = j
      /\ \A o \in Oids : objects'[o] = objects[o] \/ \E i \in S : o = NewOid(S, i)
  BY <1>1, RestoredObjects
<1>3. /\ \A i \in S : b[i] \in Contents /\ b[i] # NoObject
      /\ \A i \in S : NewOid(S, i) \in Int /\ NewOid(S, i) >= nextOid
                      /\ NewOid(S, i) < nextOid + Cardinality(S) /\ NewOid(S, i) # 0
  BY <1>1, <1>2, LootBoundsAssumption, LootNullsAssumption
<1>4. objects' \in [Oids -> Contents \cup {NoObject}]
  <2>1. \A o \in Oids : objects'[o] \in Contents \cup {NoObject}
    BY <1>2, <1>3 DEF TypeOK
  <2>2. objects' = [o \in Oids |-> objects'[o]]
    BY DEF WithObjects
  <2> QED BY <2>1, <2>2
<1>5. \A o \in Oids : o < nextOid => objects'[o] = objects[o]
  BY <1>1, <1>2, <1>3
<1>6. \A i \in Ids : Stored(i) => /\ files[i] \in File /\ files[i].oid < nextOid
                                  /\ files[i].oid = 0 \/ files[i].oid \in Oids
  BY RowsKnown DEF File
<1>7. TypeOK'
  <2>1. req' \in [Workers -> Request]
    BY IdleIsRequest DEF Ends, Moves, TypeOK
  <2>2. nextOid' \in 1 .. MaxOid + 1
    BY <1>1, <1>2, LootBoundsAssumption
  <2> QED BY <1>4, <2>1, <2>2 DEF TypeOK
<1>8. StoreOK'
  <2>1. \A o \in Oids : objects'[o] # NoObject => o < nextOid'
    BY <1>1, <1>2, <1>3 DEF StoreOK
  <2>2. ASSUME NEW i \in Ids, files'[i] # NoFile, files'[i].oid # 0
        PROVE  objects'[files'[i].oid] # NoObject
    <3>1. CASE i \in S /\ files'[i].oid = NewOid(S, i)
      BY <1>2, <1>3, <3>1
    <3>2. CASE files'[i] = files[i] /\ Stored(i)
      BY <1>5, <1>6, <2>2, <3>2 DEF StoreOK
    <3> QED BY <2>2, <3>1, <3>2
  <2>3. ASSUME NEW i \in Ids, NEW j \in Ids, files'[i] # NoFile, files'[j] # NoFile,
               files'[i].oid = files'[j].oid, files'[i].oid # 0
        PROVE  i = j
    <3>1. \A k \in Ids : files'[k] # NoFile /\ files'[k].oid # 0 =>
             \/ k \in S /\ files'[k].oid = NewOid(S, k) /\ files'[k].oid >= nextOid
             \/ files'[k] = files[k] /\ Stored(k) /\ ~(files'[k].oid >= nextOid)
      BY <1>1, <1>3, <1>6
    <3> QED BY <1>2, <2>3, <3>1 DEF StoreOK
  <2> QED BY <2>1, <2>2, <2>3 DEF StoreOK, OrphansComeFromRestores, Stored
<1>9. Follows
  BY <1>1, <1>2, <1>3, <1>5, <1>6 DEF Follows
<1>10. FullVaultIsCompleteUnlessTorn'
  BY DEF FullVaultIsCompleteUnlessTorn
<1>11. ASSUME NEW h \in Hashes, Told(h), ~rewound'
       PROVE  Recorded(h)' /\ \A v \in Workers : Remembers(v, h)
  <2>1. Recorded(h) /\ \A v \in Workers : Remembers(v, h)
    BY <1>11 DEF Told
  <2>2. ASSUME NEW i \in Ids, files'[i] # NoFile
        PROVE  /\ files'[i].sha = h[i]
               /\ IF files'[i].oid = 0 THEN TRUE
                  ELSE objects'[files'[i].oid] \in {h[i], NoObject}
    <3>1. files'[i].sha = h[i]
      BY <1>11, <2>2
    <3>2. CASE i \in S /\ files'[i].oid = NewOid(S, i)
      BY <1>2, <1>11, <3>1, <3>2
    <3>3. CASE files'[i] = files[i] /\ Stored(i)
      <4>1. files[i].oid = 0 \/ objects[files[i].oid] \in {h[i], NoObject}
        BY <2>1, <3>3 DEF Recorded, Says, Delivered, Stored
      <4> QED BY <1>5, <1>6, <3>1, <3>3, <4>1
    <3> QED BY <2>2, <3>1, <3>2, <3>3
  <2>3. \A i \in Ids : Says(files[i], h[i])'
    BY <2>2 DEF Says, Delivered
  <2> QED BY <1>11, <2>1, <2>3 DEF Recorded
<1> QED BY <1>7, <1>8, <1>9, <1>10, <1>11, WriteKeeps

LEMMA ReattachCommitKeeps == ASSUME IInv, NEW w \in Workers, ReattachCommit(w) PROVE IInv'
<1> USE DEF IInv
<1>1. PICK S \in SUBSET Ids : S = {i \in Ids : req[w].rows[i] # NoFile}
  OBVIOUS
<1>2. CASE \E i \in S : ~Stored(i)
  BY <1>1, <1>2, FailsKeeps DEF ReattachCommit
<1>3. CASE \A i \in S : Stored(i)
  <2>1. /\ nextOid + Cardinality(S) <= MaxOid + 1
        /\ files' = [i \in Ids |-> IF i \in S THEN [files[i] EXCEPT !.oid = NewOid(S, i)]
                                              ELSE files[i]]
        /\ objects' = WithObjects(blobs, S) /\ nextOid' = nextOid + Cardinality(S)
        /\ restored' = TRUE /\ Ends(w) /\ UNCHANGED <<nextId, vault, blobs, rewound>>
    BY <1>1, <1>3 DEF ReattachCommit, Extracted
  <2>2. PICK b \in [Ids -> Contents \cup {NoBlob}] : b = blobs
    BY DEF TypeOK
  <2>3. \A i \in S : b[i] # NoBlob
    BY <1>1, <2>2 DEF ReattachCommit, At, Fits
  <2>4. \A i \in S : NewOid(S, i) \in Oids
    BY <2>1, RestoredObjects DEF TypeOK
  <2>5. ASSUME NEW i \in S
        PROVE  /\ files[i] \in File /\ files'[i] = [files[i] EXCEPT !.oid = NewOid(S, i)]
               /\ files'[i] \in File /\ files'[i].oid = NewOid(S, i)
               /\ files'[i].sha = files[i].sha
    <3>1. files[i] \in File
      BY <1>3, RowsKnown
    <3>2. files'[i] = [files[i] EXCEPT !.oid = NewOid(S, i)]
      BY <2>1
    <3> QED BY <2>4, <3>1, <3>2 DEF File
  <2>6. \A i \in Ids : i \notin S => files'[i] = files[i]
    BY <2>1
  <2>7. files' \in [Ids -> File \cup {NoFile}]
    <3>1. \A i \in Ids : files'[i] \in File \cup {NoFile}
      BY <2>5, <2>6 DEF TypeOK
    <3>2. files' = [i \in Ids |-> files'[i]]
      BY <2>1
    <3> QED BY <3>1, <3>2
  <2>8. \A i \in Ids : i >= nextId' => files'[i] = NoFile
    BY <1>3, <2>1, <2>6 DEF StoreOK, Stored
  <2>9. \A i \in Ids : files'[i] # NoFile =>
              \/ i \in S /\ files'[i].oid = NewOid(S, i)
              \/ files'[i].oid = 0
              \/ files'[i] = files[i] /\ Stored(i)
    BY <2>5, <2>6 DEF Stored
  <2>10. ASSUME NEW h \in Hashes, Told(h)
         PROVE  /\ \A i \in S : b[i] = h[i]
                /\ \A i \in Ids : files'[i] # NoFile => files'[i].sha = h[i]
    <3>1. \A i \in Ids : b[i] \in {h[i], NoBlob} /\ (Stored(i) => files[i].sha = h[i])
      BY <2>2, <2>10 DEF Told, Recorded, Says, Stored
    <3> QED BY <1>3, <2>3, <2>5, <2>6, <3>1 DEF Stored
  <2>11. /\ nextId' \in 1 .. MaxId + 1 /\ rewound' \in BOOLEAN
         /\ rewound => rewound'
         /\ nextId' = nextId
    BY <2>1 DEF TypeOK
  <2>12. objects' = WithObjects(b, S)
    BY <2>1, <2>2
  <2> QED BY <2>1, <2>3, <2>7, <2>8, <2>9, <2>10, <2>11, <2>12, RestoreKeeps
<1> QED BY <1>2, <1>3

LEMMA FullRestoreKeeps == ASSUME IInv, NEW w \in Workers, FullRestore(w) PROVE IInv'
<1> USE DEF IInv
<1>1. /\ vault # NoArchive
      /\ vault.rows \in [Ids -> File \cup {NoFile}]
      /\ vault.blobs \in [Ids -> Contents \cup {NoBlob}]
  BY DEF FullRestore, CanRestoreFull, TypeOK
<1>2. PICK b \in [Ids -> Contents \cup {NoBlob}], rows \in [Ids -> File \cup {NoFile}] :
         b = vault.blobs /\ rows = vault.rows
  BY <1>1
<1>3. PICK S \in SUBSET Ids : S = {i \in Ids : b[i] # NoBlob}
  OBVIOUS
<1>4. /\ nextOid + Cardinality(S) <= MaxOid + 1
      /\ files' = [i \in Ids |-> IF rows[i] = NoFile THEN NoFile
                                 ELSE [rows[i] EXCEPT !.oid = OidAfterRestore(i, S)]]
      /\ objects' = WithObjects(b, S) /\ nextOid' = nextOid + Cardinality(S)
      /\ nextId' = IdAfter(rows) /\ restored' = TRUE
      /\ rewound' = (rewound \/ nextId' < nextId)
      /\ Ends(w) /\ UNCHANGED <<vault, blobs>>
  BY <1>2, <1>3 DEF FullRestore, Extracted
<1>5. \A i \in S : NewOid(S, i) \in Oids
  BY <1>4, RestoredObjects DEF TypeOK
<1>6. ASSUME NEW i \in Ids, rows[i] # NoFile
      PROVE  /\ rows[i] \in File /\ files'[i] = [rows[i] EXCEPT !.oid = OidAfterRestore(i, S)]
             /\ files'[i] \in File /\ files'[i].oid = OidAfterRestore(i, S)
             /\ files'[i].sha = rows[i].sha
  <2>1. rows[i] \in File /\ files'[i] = [rows[i] EXCEPT !.oid = OidAfterRestore(i, S)]
    BY <1>4, <1>6
  <2>2. OidAfterRestore(i, S) \in {0} \cup Oids
    BY <1>5 DEF OidAfterRestore
  <2> QED BY <2>1, <2>2 DEF File
<1>7. \A i \in Ids : rows[i] = NoFile => files'[i] = NoFile
  BY <1>4
<1>8. files' \in [Ids -> File \cup {NoFile}]
  <2>1. \A i \in Ids : files'[i] \in File \cup {NoFile}
    BY <1>6, <1>7
  <2>2. files' = [i \in Ids |-> files'[i]]
    BY <1>4
  <2> QED BY <2>1, <2>2
<1>9. /\ nextId' \in 1 .. MaxId + 1
      /\ \A i \in Ids : i >= nextId' => files'[i] = NoFile
      /\ nextId' > 1 => rows[nextId' - 1] # NoFile
  BY <1>4, <1>7, IdAfterIsNext
<1>10. \A i \in Ids : files'[i] # NoFile =>
              \/ i \in S /\ files'[i].oid = NewOid(S, i)
              \/ files'[i].oid = 0
  BY <1>6, <1>7 DEF OidAfterRestore
<1>11. ASSUME NEW h \in Hashes, Told(h)
       PROVE  /\ \A i \in S : b[i] = h[i]
              /\ \A i \in Ids : rows[i] # NoFile => rows[i].sha = h[i]
              /\ \A i \in Ids : i >= nextId => rows[i] = NoFile
  <2>1. \A i \in Ids : /\ rows[i] # NoFile => rows[i].sha = h[i]
                       /\ b[i] \in {h[i], NoBlob}
                       /\ i >= nextId => h[i] = NoBlob
    BY <1>1, <1>2, <1>11 DEF Told, Recorded
  <2>2. \A i \in Ids : rows[i] # NoFile => rows[i].sha # NoBlob
    BY LootNullsAssumption DEF File
  <2> QED BY <1>3, <2>1, <2>2
<1>12. ASSUME ~rewound' PROVE nextId' = nextId
  <2>1. PICK h \in Hashes : Told(h)
    BY <1>4, <1>12
  <2>2. nextId \in 1 .. MaxId + 1 /\ ~(nextId' < nextId)
    BY <1>4, <1>12 DEF TypeOK
  <2>3. ~(nextId' > nextId)
    <3> SUFFICES ASSUME nextId' > nextId PROVE FALSE
      OBVIOUS
    <3>1. PICK m \in 1 .. MaxId + 1, n \in 1 .. MaxId + 1 : m = nextId /\ n = nextId'
      BY <1>9, <2>2
    <3>2. n > m /\ m \in Int /\ n \in Int /\ m >= 1
      BY <3>1, LootBoundsAssumption
    <3>3. n - 1 \in Ids /\ n - 1 >= m /\ n > 1
      BY <3>2, LootBoundsAssumption DEF Ids
    <3> QED BY <1>9, <1>11, <2>1, <3>1, <3>3
  <2> QED BY <1>9, <2>2, <2>3, LootBoundsAssumption
<1>13. rewound' \in BOOLEAN /\ (rewound => rewound')
  BY <1>4
<1>14. ASSUME NEW h \in Hashes, Told(h)
       PROVE  \A i \in Ids : files'[i] # NoFile => files'[i].sha = h[i]
  BY <1>6, <1>7, <1>11, <1>14
<1>15. \A i \in S : b[i] # NoBlob
  BY <1>3
<1> QED BY <1>4, <1>8, <1>9, <1>10, <1>11, <1>12, <1>13, <1>14, <1>15, RestoreKeeps

LEMMA RestartKeeps == ASSUME IInv, Restart PROVE IInv'
<1> USE DEF IInv
<1>1. /\ req' = [w \in Workers |-> Idle] /\ UNCHANGED <<store, vault, blobs, history>>
  BY DEF Restart
<1>2. TypeOK' /\ StoreOK' /\ FullVaultIsCompleteUnlessTorn'
  BY <1>1, IdleIsRequest DEF TypeOK, StoreOK, OrphansComeFromRestores, Stored,
                             FullVaultIsCompleteUnlessTorn, store, history
<1>3. \A w \in Workers : Fits(w)' /\ \A h : Remembers(w, h)'
  BY <1>1, IdleFits
<1>4. \A h \in Hashes : Told(h) => Recorded(h)'
  BY <1>1 DEF Told, Recorded, Says, Delivered, store
<1> QED BY <1>1, <1>2, <1>3, <1>4 DEF Told, history

LEMMA StepKeeps == ASSUME IInv, [Next]_vars PROVE IInv'
<1>1. CASE UNCHANGED vars
  <2> USE <1>1 DEF vars, store, history
  <2>1. IInv => (TypeOK /\ StoreOK /\ FullVaultIsCompleteUnlessTorn)'
    BY DEF IInv, TypeOK, StoreOK, OrphansComeFromRestores, Stored,
           FullVaultIsCompleteUnlessTorn
  <2>2. ASSUME IInv, NEW w \in Workers PROVE Fits(w)'
    BY <2>2 DEF IInv, Fits, SeenOK, Stored
  <2>3. \A h \in Hashes : Recorded(h) => Recorded(h)'
    BY DEF Recorded, Says, Delivered
  <2>4. \A h \in Hashes, w \in Workers : Remembers(w, h) => Remembers(w, h)'
    BY DEF Remembers, Says, Delivered
  <2> QED BY <2>1, <2>2, <2>3, <2>4 DEF IInv, Told
<1>2. CASE Restart
  BY <1>2, RestartKeeps
<1>3. ASSUME NEW w \in Workers, Step(w) PROVE IInv'
  <2>1. CASE UploadLoot(w) \/ ApiUploadLoot(w)
    BY <2>1, UploadsKeeps DEF UploadLoot, ApiUploadLoot
  <2>2. CASE \E i \in Ids : \/ EditLoot(w, i) \/ UpdateLoot(w, i)
                            \/ DeleteLoot(w, i) \/ ApiDeleteLoot(w, i)
                            \/ DownloadLoot(w, i) \/ ApiDownloadLoot(w, i)
    BY <2>2, LoadsKeeps DEF EditLoot, UpdateLoot, DeleteLoot, ApiDeleteLoot,
                            DownloadLoot, ApiDownloadLoot
  <2>3. CASE Refuse(w) \/ Deliver(w)
    BY <2>3, FailsKeeps DEF Refuse, Deliver
  <2> QED BY <1>3, <2>1, <2>2, <2>3, UploadFailsKeeps, EditCommitKeeps, DeleteCommitKeeps,
             BackupExportKeeps, BackupQueryKeeps, BackupUploadKeeps,
             ReattachLoadKeeps, ReattachCommitKeeps, FullRestoreKeeps DEF Step
<1> QED BY <1>1, <1>2, <1>3 DEF Next

LEMMA InitInv == Init => IInv
<1> SUFFICES ASSUME Init PROVE IInv
  OBVIOUS
<1> USE DEF Init
<1>1. TypeOK
  <2>1. NoFiles \in [Ids -> File \cup {NoFile}] /\ NoBlobs \in [Ids -> Contents \cup {NoBlob}]
    BY DEF NoFiles, NoBlobs
  <2>2. nextId \in 1 .. MaxId + 1 /\ nextOid \in 1 .. MaxOid + 1
    BY LootBoundsAssumption
  <2>3. req \in [Workers -> Request]
    BY IdleIsRequest
  <2> QED BY <2>1, <2>2, <2>3 DEF TypeOK
<1>2. StoreOK /\ FullVaultIsCompleteUnlessTorn
  BY DEF StoreOK, OrphansComeFromRestores, Stored, NoFiles, FullVaultIsCompleteUnlessTorn
<1>3. \A w \in Workers : Fits(w) /\ \A h : Remembers(w, h)
  BY DEF Fits, SeenOK, Remembers, Idle, NoFiles, Says
<1>4. NoBlobs \in Hashes /\ Recorded(NoBlobs)
  BY DEF Hashes, Recorded, NoBlobs, NoFiles, Says
<1> QED BY <1>1, <1>2, <1>3, <1>4 DEF IInv, Told

-----------------------------------------------------------------------------
(* Theorems.                                                               *)

\* The invariant the others follow from: objects and rows correspond, every
\* worker's row is known, and one content per id explains every hash, object
\* and archive until a full restore takes ids back.
THEOREM LootInvariant == Spec => []IInv
<1>1. IInv /\ [Next]_vars => IInv'
  BY StepKeeps
<1> QED BY InitInv, <1>1, PTL DEF Spec

\* The tables, the archives and what the workers hold have the types of their
\* columns and names.
THEOREM LootTypeCorrect == Spec => []TypeOK
<1>1. IInv => TypeOK
  BY DEF IInv
<1> QED BY <1>1, LootInvariant, PTL

\* No deletion, edit, backup or restore leaves a row of loot_files that points
\* to an object that is gone; before the first restore a download that began
\* finds its object for as long as its row is there.
THEOREM FilesStayDownloadable == Spec => []NoDanglingOid
<1>1. IInv => NoDanglingOid
  <2> SUFFICES ASSUME IInv, NEW i \in Ids, Stored(i)
               PROVE  /\ files[i].oid # 0 => Delivered(files[i]) # NoObject
                      /\ \A w \in Workers : Downloading(w, i) /\ req[w].seen.oid # 0 =>
                            restored \/ Delivered(req[w].seen) # NoObject
    BY DEF NoDanglingOid
  <2>1. files[i].oid # 0 => Delivered(files[i]) # NoObject
    BY DEF IInv, StoreOK, Delivered
  <2>2. ASSUME NEW w \in Workers, Downloading(w, i), ~restored PROVE files[i] = req[w].seen
    BY <2>2 DEF IInv, Fits, SeenOK, Downloading, Stored
  <2> QED BY <2>1, <2>2
<1> QED BY <1>1, LootInvariant, PTL

\* Until something is restored every large object is that of a row: failed
\* uploads leave none, and every deletion unlinks its own.
THEOREM EveryObjectHasItsRow == Spec => []OrphansComeFromRestores
<1>1. IInv => OrphansComeFromRestores
  BY DEF IInv, StoreOK
<1> QED BY <1>1, LootInvariant, PTL

\* Until a full restore takes ids back, whatever a row points to, now or when a
\* download loaded it, is the content its hash was computed from.
THEOREM ContentIsAsHashed == Spec => []ContentMatchesHashUnlessRewound
<1>1. IInv => ContentMatchesHashUnlessRewound
  <2> SUFFICES ASSUME IInv, ~rewound,
                      NEW f \in {files[i] : i \in Ids} \cup {req[w].seen : w \in Workers},
                      f # NoFile
               PROVE  Delivered(f) \in {f.sha, NoObject}
    BY DEF ContentMatchesHashUnlessRewound
  <2>1. PICK h \in Hashes : Told(h)
    BY DEF IInv
  <2>2. CASE \E i \in Ids : f = files[i]
    BY <2>1, <2>2 DEF Told, Recorded, Says
  <2>3. CASE \E w \in Workers : f = req[w].seen
    BY <2>1, <2>3 DEF Told, Remembers, Says
  <2> QED BY <2>2, <2>3
<1> QED BY <1>1, LootInvariant, PTL

\* A full_vault archive holds the content of exactly those rows of its export
\* that had any, unless files came or went between its two queries.
THEOREM ArchivesAreComplete == Spec => []FullVaultIsCompleteUnlessTorn
<1>1. IInv => FullVaultIsCompleteUnlessTorn
  BY DEF IInv
<1> QED BY <1>1, LootInvariant, PTL
=============================================================================
