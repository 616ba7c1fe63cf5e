------------------------------ MODULE Evidence ------------------------------
(***************************************************************************)
(* What the findings and kill chain entries of an engagement refer to:     *)
(* many-to-many association rows to loot files, nodes, credentials, IOCs   *)
(* and entries, and technique mappings of loot files and entries.  A form  *)
(* submits the whole collection; the session writes the DIFFERENCE from    *)
(* the collection it loaded.  No association row cascades in the database: *)
(* what a deletion does not collect and delete itself makes it fail.       *)
(* Meanwhile the catalogue the mappings point into is refreshed.           *)
(***************************************************************************)
EXTENDS Catalogue

CONSTANTS Findings, Entries,
          Loot,       \* loot files: no relationship leads back from them
          Others,     \* nodes, credentials, IOCs: each has a backref `findings'
          Mappings,
          Unborn, Live, Deleted, NoRow

Records == Loot \cup Others \cup Entries
Owners == Findings \cup Entries
Rows == Records \cup Findings

VARIABLES rows,      \* whether each row is there
          links,     \* the association rows
          mappings,  \* the technique mappings
          req

tables == <<rows, links, mappings>>
vars == <<tables, req, catalogueVars>>

\* What the tables allow: a finding links anything, an entry loot files.
Links == (Findings \X Records) \cup (Entries \X Loot)

\* A mapping is of one loot file or entry, never of both.
Mapping == [of : Loot \cup Entries, technique : Techniques]

ASSUME EvidenceNullsAssumption == {Unborn, Deleted} \cap Mapping = {}

\* loaded, maps: the association rows and mappings of the row at hand when they
\* were read; want: the rows the client submitted that were found.
Request == [op : {"none", "create", "edit", "amend", "delete", "map", "unmap"},
            row : Rows \cup Mappings \cup {NoRow}, loaded : SUBSET Links,
            maps : SUBSET Mappings, want : SUBSET (Records \cup Techniques)]

Idle == [op |-> "none", row |-> NoRow, loaded |-> {}, maps |-> {}, want |-> {}]

TypeOK == /\ CatalogueTypeOK
          /\ rows \in [Rows -> {Unborn, Live, Deleted}]
          /\ links \subseteq {l \in Links : rows[l[1]] = Live /\ rows[l[2]] = Live}
          /\ mappings \in [Mappings -> Mapping \cup {Unborn, Deleted}]
          /\ \A m \in Mappings : mappings[m] \in Mapping =>
                rows[mappings[m].of] = Live /\ mappings[m].technique \in known
          /\ req \in [Threads -> Request]

Init == /\ CatalogueInit
        /\ rows = [r \in Rows |-> Unborn]
        /\ links = {}
        /\ mappings = [m \in Mappings |-> Unborn]
        /\ req = [w \in Threads |-> Idle]

Linked(o) == {l \in links : l[1] = o}
LinksOf(o, S) == {<<o, r>> : r \in S}
MappingsOf(r) == {m \in Mappings : mappings[m] \in Mapping /\ mappings[m].of = r}

Loads(w, o, i, loaded, S) ==
    /\ req[w] = Idle /\ refresh[w] = NotRefreshing
    /\ req' = [req EXCEPT ![w] = [op |-> o, row |-> i, loaded |-> loaded,
                                 maps |-> MappingsOf(i), want |-> S]]
    /\ UNCHANGED <<tables, catalogueVars>>

Ends(w) == req' = [req EXCEPT ![w] = Idle] /\ UNCHANGED catalogueVars

\* An error: everything the request wrote is rolled back.
Fails(w) == Ends(w) /\ UNCHANGED tables

-----------------------------------------------------------------------------
(* Rows and their links.                                                   *)

Adds(w, r) == /\ req[w] = Idle /\ refresh[w] = NotRefreshing
              /\ rows[r] = Unborn
              /\ rows' = [rows EXCEPT ![r] = Live]
              /\ UNCHANGED <<links, mappings, req, catalogueVars>>

UploadLoot(w, r) == r \in Loot /\ Adds(w, r)

\* So are nodes and credentials added: nothing refers to the new row yet.
CreateIoc(w, r) == r \in Others /\ Adds(w, r)
ApiCreateIoc(w, r) == r \in Others /\ Adds(w, r)

\* The submitted ids that are rows of the engagement; the others are dropped.
Found(o) == SUBSET {r \in Records : rows[r] = Live /\ <<o, r>> \in Links}

Creates(w, o) ==
    /\ rows[o] = Unborn
    /\ \A v \in Threads : ~(req[v].op = "create" /\ req[v].row = o)
    /\ \E S \in Found(o) : Loads(w, "create", o, {}, S)

CreateFinding(w, f) == f \in Findings /\ Creates(w, f)
ApiCreateFinding(w, f) == f \in Findings /\ Creates(w, f)
CreateEntry(w, x) == x \in Entries /\ Creates(w, x)
ApiCreateEntry(w, x) == x \in Entries /\ Creates(w, x)

\* The collection is loaded when it is assigned.
Assigns(w, o, S) == Loads(w, "edit", o, Linked(o), S)

\* A PATCH that names no collection assigns none.
Keeps(w, o) == Assigns(w, o, {l[2] : l \in Linked(o)})

EditFinding(w, f) ==
    f \in Findings /\ rows[f] = Live /\ \E S \in Found(f) : Assigns(w, f, S)

UpdateFinding(w, f) ==
    f \in Findings /\ rows[f] = Live /\ (EditFinding(w, f) \/ Keeps(w, f))

EditEntry(w, x) ==
    x \in Entries /\ rows[x] = Live /\ \E S \in Found(x) : Assigns(w, x, S)

UpdateEntry(w, x) ==
    x \in Entries /\ rows[x] = Live /\ (EditEntry(w, x) \/ Keeps(w, x))

\* An edit of an IOC assigns columns; no collection of findings is its own.
Amends(w, i) == i \in Others /\ rows[i] = Live /\ Loads(w, "amend", i, {}, {})

EditIoc(w, i) == Amends(w, i)
UpdateIoc(w, i) == Amends(w, i)

Removed(r) == r.loaded \ LinksOf(r.row, r.want)
Added(r) == LinksOf(r.row, r.want) \ r.loaded

\* Slip: the collection is only added to.
OnlyAdded(r) == links \cup Added(r)

\* The association rows after a commit: the difference, applied to what is there.
LinksAfter(r) == (links \ Removed(r)) \cup Added(r)

\* What is added is not there yet, and refers to rows that are.  Removing a row
\* that is gone is an error too; an owner that is gone can be given nothing.
Written(r) ==
    /\ Added(r) \cap links = {}
    /\ \A l \in Added(r) : rows[l[2]] = Live
    /\ Removed(r) \subseteq links
    /\ r.op = "edit" /\ Removed(r) \cup Added(r) # {} => rows[r.row] = Live

CommitOwner(w) ==
    LET r == req[w] IN
    /\ r.op \in {"create", "edit"}
    /\ IF Written(r)
       THEN /\ rows' = IF r.op = "create" THEN [rows EXCEPT ![r.row] = Live] ELSE rows
            /\ links' = LinksAfter(r)
            /\ Ends(w)
            /\ UNCHANGED mappings
       ELSE Fails(w)

\* The columns and the log row, or an UPDATE that finds no row: no reference
\* changes either way.
AmendCommit(w) == req[w].op = "amend" /\ Ends(w) /\ UNCHANGED tables

-----------------------------------------------------------------------------
(* Technique mappings.                                                     *)

\* The loot file or entry is loaded, and the technique looked up.
Maps(w, r) == /\ rows[r] = Live
              /\ \E t \in known : Loads(w, "map", r, {}, {t})

MapToLoot(w, r) == r \in Loot /\ Maps(w, r)
ApiMapToLoot(w, r) == r \in Loot /\ Maps(w, r)
MapToEntry(w, r) == r \in Entries /\ Maps(w, r)
ApiMapToEntry(w, r) == r \in Entries /\ Maps(w, r)

CreateMapping(w) ==
    LET r == req[w] IN
    /\ r.op = "map"
    /\ IF rows[r.row] = Live
       THEN /\ \E m \in Mappings, t \in r.want :
                  /\ mappings[m] = Unborn
                  /\ mappings' = [mappings EXCEPT ![m] = [of |-> r.row, technique |-> t]]
            /\ Ends(w)
            /\ UNCHANGED <<rows, links>>
       ELSE Fails(w)

Unmaps(w, m) == mappings[m] \in Mapping /\ Loads(w, "unmap", m, {}, {})
DeleteMapping(w, m) == Unmaps(w, m)
ApiDeleteMapping(w, m) == Unmaps(w, m)

UnmapCommit(w) == /\ req[w].op = "unmap"
                  /\ mappings' = [mappings EXCEPT ![req[w].row] = Deleted]
                  /\ Ends(w)
                  /\ UNCHANGED <<rows, links>>

-----------------------------------------------------------------------------
(* Deletions.                                                              *)

\* Slip: no relationship of the record leads back to the findings.
OwnLinks(i) == Linked(i)

\* The association rows the session deletes with row i: those of its own
\* collections, and those of its backref if it has one.
Collected(i) == {l \in links : l[1] = i \/ (l[2] = i /\ i \notin Loot)}

\* The collections and the mappings are read, ...
Deletes(w, i) == rows[i] = Live /\ Loads(w, "delete", i, Collected(i), {})

DeleteFinding(w, i) == i \in Findings /\ Deletes(w, i)
ApiDeleteFinding(w, i) == i \in Findings /\ Deletes(w, i)
DeleteEntry(w, i) == i \in Entries /\ Deletes(w, i)
ApiDeleteEntry(w, i) == i \in Entries /\ Deletes(w, i)
DeleteIoc(w, i) == i \in Others /\ Deletes(w, i)
ApiDeleteIoc(w, i) == i \in Others /\ Deletes(w, i)
DeleteLoot(w, i) == i \in Loot /\ Deletes(w, i)

\* Slip: a reference to the row does not stop its deletion.
Vanished(r) == ~(r.loaded \subseteq links)

\* An association row refers to the row that the deletion has not read: nothing
\* led back from the row, or the link was made meanwhile.
LinkedUnread(r) == \E l \in links \ r.loaded : r.row \in {l[1], l[2]}

\* ... and what was read is deleted, then the row.  An association row that is
\* gone is an error, and so is a reference that was not read, of a link or of a
\* mapping.
Blocked(r) == \/ ~(r.loaded \subseteq links)
              \/ LinkedUnread(r)
              \/ ~(MappingsOf(r.row) \subseteq r.maps)

DeleteFails(w) == req[w].op = "delete" /\ Blocked(req[w]) /\ Fails(w)

DeleteCommit(w) ==
    LET r == req[w] IN
    /\ r.op = "delete"
    /\ ~Blocked(r)
    /\ rows' = [rows EXCEPT ![r.row] = Deleted]
    /\ links' = links \ r.loaded
    /\ mappings' = [m \in Mappings |-> IF m \in r.maps THEN Deleted ELSE mappings[m]]
    /\ Ends(w)

-----------------------------------------------------------------------------

\* An admin refreshes the catalogue, from the page or through the API.
RefreshCatalogue(w) ==
    req[w] = Idle /\ FetchRelease(w) /\ UNCHANGED <<tables, req>>
ApiRefreshCatalogue(w) ==
    req[w] = Idle /\ FetchRelease(w) /\ UNCHANGED <<tables, req>>

SyncCatalogue(w) == SyncRelease(w) /\ UNCHANGED <<tables, req>>

\* The process is restarted: open transactions are rolled back.
Restart == /\ req' = [w \in Threads |-> Idle]
           /\ refresh' = [w \in Threads |-> NotRefreshing]
           /\ <<req, refresh>>' # <<req, refresh>>
           /\ UNCHANGED <<tables, known, placed, under>>

Adding(w) ==
    \/ \E r \in Records : UploadLoot(w, r) \/ CreateIoc(w, r) \/ ApiCreateIoc(w, r)
    \/ \E o \in Owners : \/ CreateFinding(w, o) \/ ApiCreateFinding(w, o)
                         \/ CreateEntry(w, o) \/ ApiCreateEntry(w, o)
                         \/ EditFinding(w, o) \/ UpdateFinding(w, o)
                         \/ EditEntry(w, o) \/ UpdateEntry(w, o)
    \/ \E i \in Records : EditIoc(w, i) \/ UpdateIoc(w, i)
    \/ CommitOwner(w) \/ AmendCommit(w)

Deleting(w) ==
    \/ \E i \in Rows : \/ DeleteFinding(w, i) \/ ApiDeleteFinding(w, i)
                       \/ DeleteEntry(w, i) \/ ApiDeleteEntry(w, i)
                       \/ DeleteIoc(w, i) \/ ApiDeleteIoc(w, i)
                       \/ DeleteLoot(w, i)
    \/ DeleteFails(w) \/ DeleteCommit(w)

Attack(w) ==
    \/ \E r \in Records : \/ MapToLoot(w, r) \/ ApiMapToLoot(w, r)
                          \/ MapToEntry(w, r) \/ ApiMapToEntry(w, r)
    \/ \E m \in Mappings : DeleteMapping(w, m) \/ ApiDeleteMapping(w, m)
    \/ CreateMapping(w) \/ UnmapCommit(w)
    \/ RefreshCatalogue(w) \/ ApiRefreshCatalogue(w) \/ SyncCatalogue(w)

Next == Restart \/ \E w \in Threads : Adding(w) \/ Deleting(w) \/ Attack(w)

Spec == Init /\ [][Next]_vars

-----------------------------------------------------------------------------
(* Properties.                                                             *)

\* A deletion that nothing crosses succeeds, links and mappings and all -- but
\* for a loot file that a finding or an entry refers to: no relationship leads
\* back from a loot file, and its deletion is an error until every reference
\* has been edited away.
OnlyLinkedLootStays ==
    [][\A w \in Threads :
         DeleteFails(w) =>
             LET r == req[w] IN
             \/ \E o \in Owners : <<o, r.row>> \in links /\ r.row \in Loot
             \/ r.loaded # Collected(r.row)
             \/ r.maps # MappingsOf(r.row)]_vars

\* A form overwrites the whole collection (the promise of apply_correlations),
\* so the links of a finding or an entry are those one request submitted --
\* unless the request had loaded another collection than the one it changes:
\* two edits that cross merge.  Otherwise links only go with one of their ends.
OnlyCrossedEditsMerge ==
    [][\A o \in Owners : Linked(o)' # Linked(o) =>
         \/ \E w \in Threads :
               /\ req[w].row = o /\ req[w].op \in {"create", "edit"}
               /\ \/ Linked(o)' = LinksOf(o, req[w].want)
                  \/ req[w].loaded # Linked(o)
         \/ /\ Linked(o)' \subseteq Linked(o)
            /\ \A l \in Linked(o) \ Linked(o)' :
                  \E i \in {l[1], l[2]} : rows[i] = Live /\ rows'[i] = Deleted]_vars

\* A technique that is used stays lit in the matrix while releases come and go:
\* only a release that lists a sub-technique without its parent, or a technique
\* in no tactic, hides a use -- dropping a technique from a release never does.
UsesStayOnMatrix ==
    [][\A m \in Mappings :
         mappings[m] \in Mapping /\ mappings'[m] = mappings[m] =>
            LET t == mappings[m].technique IN
            OnMatrix(t) /\ ~OnMatrix(t)' =>
               \E w \in Threads :
                  LET r == refresh[w].release IN
                  /\ refresh[w] # NotRefreshing /\ refresh'[w] = NotRefreshing
                  /\ \/ t \in Subs /\ t \in r.lists /\ Parent[t] \notin r.lists
                     \/ Cell(t) \in r.lists \ r.placed]_vars
=============================================================================
