-------------------------------- MODULE Loot --------------------------------
(***************************************************************************)
(* Loot files as two stores in one database: the loot_files table, and the *)
(* large objects its content_oid column points to.  No foreign key ties    *)
(* them: the handlers, a before_delete hook, the backups and both kinds of *)
(* restore keep them together.  An object's bytes never change; an oid is  *)
(* never handed out twice.                                                 *)
(***************************************************************************)
EXTENDS Integers, FiniteSets, OrmSession

CONSTANTS MaxId,      \* bound: loot_files ids the sequence hands out
          MaxOid,     \* bound: large objects ever created
          Contents,   \* what the clients upload
          Workers,
          NoFile, NoObject, NoBlob, NoArchive

ASSUME LootBoundsAssumption == MaxId \in Nat /\ MaxOid \in Nat

Ids == 1 .. MaxId
Oids == 1 .. MaxOid

VARIABLES files,     \* loot_files: the object's oid (0: NULL) and the content's hash
          objects,   \* the large objects
          nextId,    \* the sequence of loot_files ids
          nextOid,
          vault,     \* the newest archive with a database export
          blobs,     \* the newest archive of scope loot_files: content by id
          req,       \* what each worker is doing
          restored,  \* history: some restore has replaced objects
          rewound    \* history: a full restore has taken ids back

store == <<files, objects, nextId, nextOid>>
history == <<restored, rewound>>
vars == <<store, vault, blobs, req, history>>

File == [oid : {0} \cup Oids, sha : Contents]
Scopes == {"full_vault", "database_only", "loot_files"}

ASSUME LootNullsAssumption == NoFile \notin File /\ {NoObject, NoBlob} \cap Contents = {}

\* What a worker remembers: the row it loaded; the rows a backup exported, and
\* the rows it queried for their objects or a restore loaded to attach to.
Request == [op : {"none", "edit", "delete", "download", "reattach", "backup"},
            step : {"idle", "loaded", "queried"},
            id : {0} \cup Ids, seen : File \cup {NoFile},
            scope : Scopes \cup {"none"},
            export : [Ids -> File \cup {NoFile}],
            rows : [Ids -> File \cup {NoFile}]]

NoFiles == [i \in Ids |-> NoFile]
NoBlobs == [i \in Ids |-> NoBlob]
Idle == [op |-> "none", step |-> "idle", id |-> 0, seen |-> NoFile,
         scope |-> "none", export |-> NoFiles, rows |-> NoFiles]

At(w, o, s) == req[w].op = o /\ req[w].step = s
Moves(w, r) == req' = [req EXCEPT ![w] = r]
Stored(i) == files[i] # NoFile
FreshOids == nextOid .. MaxOid

Init == /\ files = NoFiles
        /\ objects = [o \in Oids |-> NoObject]
        /\ nextId = 1 /\ nextOid = 1
        /\ vault = NoArchive
        /\ blobs = NoBlobs
        /\ req = [w \in Workers |-> Idle]
        /\ restored = FALSE
        /\ rewound = FALSE

\* A worker has read loot_files in a transaction that is still open; a full
\* restore's TRUNCATE waits for it.  The view of a download has returned.
Holds(w) == req[w].op \notin {"none", "download"}

Ends(w) == Moves(w, Idle)

\* The request of w ends with everything it wrote rolled back.
Fails(w) == Ends(w) /\ UNCHANGED <<store, vault, blobs, history>>

-----------------------------------------------------------------------------
(* Uploads, edits, deletions and downloads.                                *)

\* save_upload: the content in a new object, on the session's own connection.
Saved(c) == [objects EXCEPT ![nextOid] = c]

\* Object and row are one transaction.
Uploads(w) ==
    /\ req[w] = Idle
    /\ nextId \in Ids /\ FreshOids # {}
    /\ \E c \in Contents :
          /\ objects' = Saved(c)
          /\ files' = [files EXCEPT ![nextId] = [oid |-> nextOid, sha |-> c]]
    /\ nextId' = nextId + 1
    /\ nextOid' = nextOid + 1
    /\ Ends(w)
    /\ UNCHANGED <<vault, blobs, history>>

UploadLoot(w) == Uploads(w)
ApiUploadLoot(w) == Uploads(w)

\* Slip: the object is written on a connection of its own.
KeptOnFailure(c) == Saved(c)

\* The objects after an upload that failed once its object was written.
LeftOnFailure(c) == objects

\* The row is refused (the engagement is gone, the database fails); the oid is
\* spent.
UploadFails(w) ==
    /\ req[w] = Idle
    /\ FreshOids # {}
    /\ \E c \in Contents : objects' = LeftOnFailure(c)
    /\ nextOid' = nextOid + 1
    /\ Ends(w)
    /\ UNCHANGED <<files, nextId, vault, blobs, history>>

\* first_or_404.
Loads(w, o, i) ==
    /\ req[w] = Idle
    /\ Stored(i)
    /\ Moves(w, [Idle EXCEPT !.op = o, !.step = "loaded", !.id = i, !.seen = files[i]])
    /\ UNCHANGED <<store, vault, blobs, history>>

EditLoot(w, i) == Loads(w, "edit", i)
UpdateLoot(w, i) == Loads(w, "edit", i)
DeleteLoot(w, i) == Loads(w, "delete", i)
ApiDeleteLoot(w, i) == Loads(w, "delete", i)

\* The view answers with the name (and the hash) of the row it loaded, ...
DownloadLoot(w, i) == Loads(w, "download", i)
ApiDownloadLoot(w, i) == Loads(w, "download", i)

\* ... and the object is opened when the first bytes are asked for: what a
\* client gets of row f then, NoObject being a broken response.
Delivered(f) == IF f.oid = 0 THEN NoObject ELSE objects[f.oid]

Deliver(w) == At(w, "download", "loaded") /\ Fails(w)

\* Category, description, tags and host are sent; oid and hash are not.
EditCommit(w) ==
    LET r == req[w] IN
    /\ At(w, "edit", "loaded")
    /\ IF Stored(r.id)
       THEN /\ files' = [files EXCEPT ![r.id] =
                            [oid |-> Column(@.oid, r.seen.oid, r.seen.oid),
                             sha |-> Column(@.sha, r.seen.sha, r.seen.sha)]]
            /\ Ends(w)
            /\ UNCHANGED <<objects, nextId, nextOid, vault, blobs, history>>
       ELSE Fails(w)

\* Slip: no hook; the row goes and its object stays.
KeptOnDelete(row) == objects

\* _unlink_large_object_on_delete: the object of the row as it was loaded.
UnlinkedOnDelete(row) == IF row.oid = 0 THEN objects
                         ELSE [objects EXCEPT ![row.oid] = NoObject]

\* Unlinking an object that is gone is an error and rolls the deletion back; a
\* DELETE that finds no row is only a warning.
DeleteCommit(w) ==
    LET r == req[w] IN
    /\ At(w, "delete", "loaded")
    /\ IF r.seen.oid # 0 /\ objects[r.seen.oid] = NoObject
       THEN Fails(w)
       ELSE /\ files' = [files EXCEPT ![r.id] = NoFile]
            /\ objects' = UnlinkedOnDelete(r.seen)
            /\ Ends(w)
            /\ UNCHANGED <<nextId, nextOid, vault, blobs, history>>

\* The form or the database refuses.
Refuse(w) == req[w].op \in {"edit", "delete"} /\ Fails(w)

-----------------------------------------------------------------------------
(* Backups: build_archive, in one transaction under READ COMMITTED.        *)

\* _add_database reads every table, loot_files among them.
BackupExport(w) ==
    /\ req[w] = Idle
    /\ \E s \in {"full_vault", "database_only"} :
          Moves(w, [Idle EXCEPT !.op = "backup", !.scope = s, !.export = files,
                                !.step = "loaded"])
    /\ UNCHANGED <<store, vault, blobs, history>>

\* _add_loot_files queries the rows, for full_vault a second time.
BackupQuery(w) ==
    /\ \/ At(w, "backup", "loaded") /\ req[w].scope = "full_vault"
          /\ Moves(w, [req[w] EXCEPT !.step = "queried", !.rows = files])
       \/ req[w] = Idle
          /\ Moves(w, [Idle EXCEPT !.op = "backup", !.scope = "loot_files",
                                   !.step = "queried", !.rows = files])
    /\ UNCHANGED <<store, vault, blobs, history>>

\* Slip: the objects are looked up again by id, for the rows of the export.
CurrentBlobs(rows) == [i \in Ids |-> IF files[i] = NoFile \/ files[i].oid = 0
                                     THEN NoBlob ELSE objects[files[i].oid]]

\* _read_loot_blob of every row that has an object.
BlobsOf(rows) == [i \in Ids |-> IF rows[i] = NoFile \/ rows[i].oid = 0
                                THEN NoBlob ELSE objects[rows[i].oid]]

\* An object that was unlinked since its row was read fails the run.  The
\* archive is uploaded, and an admin may restore it later (unless a restore is
\* working from the one before).
BackupUpload(w) ==
    LET r == req[w]
        read == BlobsOf(r.rows)
    IN /\ r.op = "backup"
       /\ r.step = IF r.scope = "database_only" THEN "loaded" ELSE "queried"
       /\ IF \E i \in Ids : read[i] = NoObject
          THEN Fails(w)
          ELSE /\ IF r.scope = "loot_files"
                  THEN /\ \A v \in Workers : req[v].op # "reattach"
                       /\ blobs' = read
                       /\ UNCHANGED vault
                  ELSE /\ vault' = [scope |-> r.scope, rows |-> r.export, blobs |-> read,
                                    torn |-> r.scope = "full_vault" /\ r.rows # r.export]
                       /\ UNCHANGED blobs
               /\ Ends(w)
               /\ UNCHANGED <<store, history>>

-----------------------------------------------------------------------------
(* Restores.                                                               *)

\* Slip: the k-th entry of the archive goes to the k-th id.
ByPosition(b) ==
    LET kth(k) == {i \in Ids : b[i] # NoBlob /\ Cardinality({j \in 1 .. i : b[j] # NoBlob}) = k}
    IN [k \in Ids |-> IF kth(k) = {} THEN NoBlob ELSE b[CHOOSE i \in kth(k) : TRUE]]

\* _extract_loot_blobs: content by the id in the entry's name.
Extracted(b) == b

\* Slip: counting from one too many.
NewOidSkipsOne(S, i) == nextOid + Cardinality({j \in S : j <= i})

\* A new object for each i in S, in ascending order.
NewOid(S, i) == nextOid - 1 + Cardinality({j \in S : j <= i})

\* The objects after a restore wrote those of archive b for S.
WithObjects(b, S) == [o \in Oids |->
    IF \E i \in S : o = NewOid(S, i) THEN b[CHOOSE i \in S : o = NewOid(S, i)]
                                     ELSE objects[o]]

\* What inspect_archive says may be done with the newest archives.
CanRestoreFull == vault # NoArchive
CanRestoreLootOnly == blobs # NoBlobs

\* restore_loot_only loads the row of each blob; blobs without a row are skipped.
ReattachLoad(w) ==
    /\ req[w] = Idle
    /\ CanRestoreLootOnly
    /\ Moves(w, [Idle EXCEPT !.op = "reattach", !.step = "loaded",
             !.rows = [i \in Ids |-> IF Extracted(blobs)[i] # NoBlob THEN files[i] ELSE NoFile]])
    /\ UNCHANGED <<store, vault, blobs, history>>

\* Each loaded row gets a new object; the one it had stays behind.  A row that
\* was deleted meanwhile fails the whole restore.
ReattachCommit(w) ==
    LET S == {i \in Ids : req[w].rows[i] # NoFile} IN
    /\ At(w, "reattach", "loaded")
    /\ nextOid + Cardinality(S) <= MaxOid + 1
    /\ IF \E i \in S : ~Stored(i)
       THEN Fails(w)
       ELSE /\ files' = [i \in Ids |-> IF i \in S THEN [files[i] EXCEPT !.oid = NewOid(S, i)]
                                                  ELSE files[i]]
            /\ objects' = WithObjects(Extracted(blobs), S)
            /\ nextOid' = nextOid + Cardinality(S)
            /\ restored' = TRUE
            /\ Ends(w)
            /\ UNCHANGED <<nextId, vault, blobs, rewound>>

\* Slip: the export's content_oid is kept.
OidOfExport(i, S) == IF i \in S THEN NewOid(S, i) ELSE vault.rows[i].oid

\* The oid a restored row gets: the exported one is meaningless by now.
OidAfterRestore(i, S) == IF i \in S THEN NewOid(S, i) ELSE 0

IdAfter(rows) == CHOOSE n \in 1 .. MaxId + 1 :
                    /\ \A i \in Ids : i >= n => rows[i] = NoFile
                    /\ n > 1 => rows[n - 1] # NoFile

\* restore_full_archive: TRUNCATE ... RESTART IDENTITY waits for every other
\* transaction; then the rows of the export, setval to the greatest id, and an
\* object for every blob, whether or not its row came with it.
FullRestore(w) ==
    LET S == {i \in Ids : Extracted(vault.blobs)[i] # NoBlob} IN
    /\ req[w] = Idle
    /\ CanRestoreFull
    /\ \A v \in Workers : ~Holds(v)
    /\ nextOid + Cardinality(S) <= MaxOid + 1
    /\ files' = [i \in Ids |-> IF vault.rows[i] = NoFile THEN NoFile
                               ELSE [vault.rows[i] EXCEPT !.oid = OidAfterRestore(i, S)]]
    /\ objects' = WithObjects(Extracted(vault.blobs), S)
    /\ nextOid' = nextOid + Cardinality(S)
    /\ nextId' = IdAfter(vault.rows)
    /\ restored' = TRUE
    /\ rewound' = (rewound \/ nextId' < nextId)
    /\ Ends(w)
    /\ UNCHANGED <<vault, blobs>>

-----------------------------------------------------------------------------
\* The process restarts: open transactions are rolled back.
Restart == /\ \E w \in Workers : req[w] # Idle
           /\ req' = [w \in Workers |-> Idle]
           /\ UNCHANGED <<store, vault, blobs, history>>

Step(w) == \/ UploadLoot(w) \/ ApiUploadLoot(w) \/ UploadFails(w)
           \/ \E i \in Ids : \/ EditLoot(w, i) \/ UpdateLoot(w, i)
                            \/ DeleteLoot(w, i) \/ ApiDeleteLoot(w, i)
                            \/ DownloadLoot(w, i) \/ ApiDownloadLoot(w, i)
           \/ EditCommit(w) \/ DeleteCommit(w) \/ Refuse(w) \/ Deliver(w)
           \/ BackupExport(w) \/ BackupQuery(w) \/ BackupUpload(w)
           \/ ReattachLoad(w) \/ ReattachCommit(w) \/ FullRestore(w)

Next == Restart \/ \E w \in Workers : Step(w)

Spec == Init /\ [][Next]_vars

-----------------------------------------------------------------------------
(* Properties.                                                             *)

TypeOK ==
    /\ files \in [Ids -> File \cup {NoFile}]
    /\ objects \in [Oids -> Contents \cup {NoObject}]
    /\ nextId \in 1 .. MaxId + 1 /\ nextOid \in 1 .. MaxOid + 1
    /\ vault = NoArchive \/ (/\ vault.scope \in Scopes \ {"loot_files"}
                             /\ vault.rows \in [Ids -> File \cup {NoFile}]
                             /\ vault.blobs \in [Ids -> Contents \cup {NoBlob}]
                             /\ vault.torn \in BOOLEAN)
    /\ blobs \in [Ids -> Contents \cup {NoBlob}]
    /\ req \in [Workers -> Request]
    /\ restored \in BOOLEAN /\ rewound \in BOOLEAN

Downloading(w, i) == req[w].op = "download" /\ req[w].id = i

\* A row that names an object has it: deletions, both restores and whatever they
\* overtake never leave one that points to an object that is gone (a restore may
\* leave a row without content, which names none) -- and as long as nothing was
\* restored, a download that has begun breaks off only if its file was deleted.
NoDanglingOid ==
    \A i \in Ids : Stored(i) =>
        /\ files[i].oid # 0 => Delivered(files[i]) # NoObject
        /\ \A w \in Workers : Downloading(w, i) /\ req[w].seen.oid # 0 =>
              restored \/ Delivered(req[w].seen) # NoObject

\* "It has to be unlinked explicitly": as long as nothing was restored, every
\* object has its row, failed uploads and overlapping deletions included.
OrphansComeFromRestores ==
    restored \/ \A o \in Oids : objects[o] # NoObject =>
                                   \E i \in Ids : Stored(i) /\ files[i].oid = o

\* What a download delivers has the hash its row records and its response
\* announces, though the object is opened later.  A full restore hands ids out
\* again, and an archive of loot files from before it then attaches the content
\* of another file; nothing else does.
ContentMatchesHashUnlessRewound ==
    rewound \/
    \A f \in {files[i] : i \in Ids} \cup {req[w].seen : w \in Workers} :
        f # NoFile => Delivered(f) \in {f.sha, NoObject}

\* A full_vault archive carries the content of every row in its export that had
\* any, and no other, unless files came or went between its two queries.
FullVaultIsCompleteUnlessTorn ==
    vault # NoArchive /\ vault.scope = "full_vault" /\ ~vault.torn =>
        \A i \in Ids : (vault.blobs[i] # NoBlob) =
                          (vault.rows[i] # NoFile /\ vault.rows[i].oid # 0)
=============================================================================
