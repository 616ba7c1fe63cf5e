--------------------------- MODULE EvidenceProofs ---------------------------
(***************************************************************************)
(* Theorems about Evidence, for any number of rows, techniques, releases   *)
(* and threads: no reference outlives what it refers to, links change as   *)
(* one request asked, and a technique in use stays on the matrix.          *)
(***************************************************************************)
EXTENDS Evidence, TLAPS

-----------------------------------------------------------------------------
(* The inductive invariant.                                                *)

\* A parent pointer is the one the id names, or empty.
ParentsOK == /\ under \in [Subs -> (Techniques \ Subs) \cup {NoParent}]
             /\ \A s \in Subs : under[s] \in {NoParent, Parent[s]}

TablesOK == /\ rows \in [Rows -> {Unborn, Live, Deleted}]
            /\ links \subseteq {l \in Links : rows[l[1]] = Live /\ rows[l[2]] = Live}
            /\ mappings \in [Mappings -> Mapping \cup {Unborn, Deleted}]
            /\ \A m \in Mappings : mappings[m] \in Mapping =>
                  rows[mappings[m].of] = Live /\ mappings[m].technique \in known

\* What a request in flight is about.
Fits(w) ==
    LET r == req[w] IN
    /\ r.op \in {"create", "edit"} => /\ r.row \in Owners
                                      /\ LinksOf(r.row, r.want) \subseteq Links
                                      /\ \A l \in r.loaded : l[1] = r.row
    /\ r.op = "map" => r.row \in Loot \cup Entries /\ r.want \subseteq known
    /\ r.op = "unmap" => r.row \in Mappings
    /\ r.op = "delete" => r.row \in Rows /\ \A l \in r.loaded : r.row \in {l[1], l[2]}

IInv == TypeOK /\ ParentsOK /\ \A w \in Threads : Fits(w)

LEMMA IdleIsRequest == Idle \in Request
BY DEF Idle, Request

LEMMA LinkIsPair ==
    ASSUME NEW l \in Links
    PROVE  l = <<l[1], l[2]>> /\ l[1] \in Owners /\ l[2] \in Records
BY DEF Links, Owners, Records

-----------------------------------------------------------------------------
(* The steps that read.                                                    *)

LEMMA ReadKeeps ==
    ASSUME IInv, NEW w \in Threads, NEW r \in Request, req' = [req EXCEPT ![w] = r],
           UNCHANGED <<tables, catalogueVars>>, Fits(w)'
    PROVE  IInv'
<1>1. UNCHANGED <<rows, links, mappings, known, placed, under, refresh>>
  BY DEF tables, catalogueVars
<1>2. TypeOK' /\ ParentsOK'
  BY <1>1 DEF IInv, TypeOK, ParentsOK, CatalogueTypeOK
<1>3. ASSUME NEW v \in Threads, v # w PROVE Fits(v)'
  <2>1. req'[v] = req[v]
    BY <1>3 DEF IInv, TypeOK
  <2> QED BY <1>1, <2>1 DEF IInv, Fits, LinksOf
<1> QED BY <1>2, <1>3 DEF IInv

\* A first query; the session reads the mappings of the row as well.
LEMMA LoadKeeps ==
    ASSUME IInv, NEW w \in Threads,
           NEW o \in {"create", "edit", "amend", "delete", "map", "unmap"},
           NEW i \in Rows \cup Mappings, NEW loaded \in SUBSET Links,
           NEW S \in SUBSET (Records \cup Techniques), Loads(w, o, i, loaded, S),
           o \in {"create", "edit"} => /\ i \in Owners /\ LinksOf(i, S) \subseteq Links
                                       /\ \A l \in loaded : l[1] = i,
           o = "map" => i \in Loot \cup Entries /\ S \subseteq known,
           o = "unmap" => i \in Mappings,
           o = "delete" => i \in Rows /\ \A l \in loaded : i \in {l[1], l[2]}
    PROVE  IInv'
<1> DEFINE maps == MappingsOf(i)
           r == [op |-> o, row |-> i, loaded |-> loaded, maps |-> maps, want |-> S]
<1>1. maps \in SUBSET Mappings
  BY DEF MappingsOf
<1>2. req' = [req EXCEPT ![w] = r] /\ UNCHANGED <<tables, catalogueVars>>
  BY DEF Loads
<1> HIDE DEF maps
<1>3. r \in Request /\ r.op = o /\ r.row = i /\ r.loaded = loaded /\ r.want = S
  BY <1>1 DEF Request
<1> HIDE DEF r
<1>4. req'[w] = r
  BY <1>2, <1>3 DEF IInv, TypeOK
<1>5. UNCHANGED known
  BY <1>2 DEF catalogueVars
<1>6. Fits(w)'
  BY <1>3, <1>4, <1>5 DEF Fits, LinksOf
<1> QED BY <1>2, <1>3, <1>6, ReadKeeps

LEMMA CreatesKeeps == ASSUME IInv, NEW w \in Threads, NEW o \in Owners, Creates(w, o) PROVE IInv'
<1>1. PICK S \in Found(o) : Loads(w, "create", o, {}, S)
  BY DEF Creates
<1>2. S \in SUBSET (Records \cup Techniques) /\ LinksOf(o, S) \subseteq Links
  BY DEF Found, LinksOf
<1>3. o \in Rows \cup Mappings /\ {} \in SUBSET Links
  BY DEF Owners, Rows, Records
<1> QED BY <1>1, <1>2, <1>3, LoadKeeps

LEMMA AssignsKeeps ==
    ASSUME IInv, NEW w \in Threads, NEW o \in Owners, NEW S \in SUBSET Records,
           LinksOf(o, S) \subseteq Links, Assigns(w, o, S)
    PROVE  IInv'
<1>1. /\ Linked(o) \in SUBSET Links /\ \A l \in Linked(o) : l[1] = o
      /\ S \in SUBSET (Records \cup Techniques)
  BY DEF Linked, IInv, TypeOK
<1>2. o \in Rows \cup Mappings
  BY DEF Owners, Rows, Records
<1> HIDE DEF Linked
<1> DEFINE loaded == Linked(o)
<1>3. Loads(w, "edit", o, loaded, S)
  BY DEF Assigns
<1>4. loaded \in SUBSET Links /\ \A l \in loaded : l[1] = o
  BY <1>1
<1> HIDE DEF loaded
<1> QED BY <1>1, <1>2, <1>3, <1>4, LoadKeeps

LEMMA EditsKeep ==
    ASSUME IInv, NEW w \in Threads, NEW o \in Owners,
           (\E S \in Found(o) : Assigns(w, o, S)) \/ Keeps(w, o)
    PROVE  IInv'
<1>1. ASSUME NEW S \in Found(o), Assigns(w, o, S) PROVE IInv'
  <2>1. S \in SUBSET Records /\ LinksOf(o, S) \subseteq Links
    BY DEF Found, LinksOf
  <2> QED BY <1>1, <2>1, AssignsKeeps
<1>2. ASSUME Keeps(w, o) PROVE IInv'
  <2> DEFINE S == {l[2] : l \in Linked(o)}
  <2>1. \A l \in Linked(o) : l \in Links /\ l = <<o, l[2]>> /\ l[2] \in Records
    BY LinkIsPair DEF Linked, IInv, TypeOK
  <2>2. S \in SUBSET Records /\ LinksOf(o, S) \subseteq Links
    BY <2>1 DEF LinksOf
  <2>3. Assigns(w, o, S)
    BY <1>2 DEF Keeps
  <2> HIDE DEF S
  <2> QED BY <2>2, <2>3, AssignsKeeps
<1> QED BY <1>1, <1>2

LEMMA AmendsKeeps == ASSUME IInv, NEW w \in Threads, NEW i \in Others, Amends(w, i) PROVE IInv'
<1>1. /\ Loads(w, "amend", i, {}, {}) /\ i \in Rows \cup Mappings
      /\ {} \in SUBSET Links /\ {} \in SUBSET (Records \cup Techniques)
  BY DEF Amends, Rows, Records
<1> QED BY <1>1, LoadKeeps

LEMMA MapsKeeps == ASSUME IInv, NEW w \in Threads, NEW i \in Loot \cup Entries, Maps(w, i) PROVE IInv'
<1>1. PICK t \in known : Loads(w, "map", i, {}, {t})
  BY DEF Maps
<1>2. /\ i \in Rows \cup Mappings /\ {} \in SUBSET Links
      /\ {t} \in SUBSET (Records \cup Techniques) /\ {t} \subseteq known
  BY DEF IInv, TypeOK, CatalogueTypeOK, Rows, Records
<1> HIDE DEF Loads
<1> QED BY <1>1, <1>2, LoadKeeps

LEMMA UnmapsKeeps == ASSUME IInv, NEW w \in Threads, NEW m \in Mappings, Unmaps(w, m) PROVE IInv'
<1>1. /\ Loads(w, "unmap", m, {}, {})
      /\ {} \in SUBSET Links /\ {} \in SUBSET (Records \cup Techniques)
  BY DEF Unmaps
<1> QED BY <1>1, LoadKeeps

LEMMA DeletesKeeps == ASSUME IInv, NEW w \in Threads, NEW i \in Rows, Deletes(w, i) PROVE IInv'
<1> DEFINE loaded == Collected(i)
<1>1. loaded \in SUBSET Links /\ \A l \in loaded : i \in {l[1], l[2]}
  BY DEF Collected, IInv, TypeOK
<1>2. Loads(w, "delete", i, loaded, {}) /\ {} \in SUBSET (Records \cup Techniques)
  BY DEF Deletes
<1> HIDE DEF loaded
<1> QED BY <1>1, <1>2, LoadKeeps

-----------------------------------------------------------------------------
(* The steps that write.                                                   *)

LEMMA EndsKeeps ==
    ASSUME IInv, NEW w \in Threads, Ends(w), TablesOK'
    PROVE  IInv'
<1>1. UNCHANGED <<known, placed, under, refresh>> /\ req' = [req EXCEPT ![w] = Idle]
  BY DEF Ends, catalogueVars
<1>2. req' \in [Threads -> Request] /\ req'[w] = Idle
  BY <1>1, IdleIsRequest DEF IInv, TypeOK
<1>3. CatalogueTypeOK' /\ ParentsOK'
  BY <1>1 DEF IInv, TypeOK, ParentsOK, CatalogueTypeOK
<1>4. ASSUME NEW v \in Threads PROVE Fits(v)'
  <2>1. CASE v = w
    BY <1>2, <2>1 DEF Fits, Idle
  <2>2. CASE v # w
    <3>1. req'[v] = req[v]
      BY <1>1, <2>2 DEF IInv, TypeOK
    <3> QED BY <1>1, <3>1 DEF IInv, Fits, LinksOf
  <2> QED BY <2>1, <2>2
<1> QED BY <1>2, <1>3, <1>4 DEF IInv, TypeOK, TablesOK

LEMMA FailsKeeps == ASSUME IInv, NEW w \in Threads, Fails(w) PROVE IInv'
<1>1. TablesOK'
  BY DEF Fails, Ends, tables, catalogueVars, IInv, TypeOK, TablesOK
<1> QED BY <1>1, EndsKeeps DEF Fails

LEMMA AddsKeeps == ASSUME IInv, NEW w \in Threads, NEW i \in Rows, Adds(w, i) PROVE IInv'
<1>1. /\ rows' = [rows EXCEPT ![i] = Live]
      /\ UNCHANGED <<links, mappings, req, known, placed, under, refresh>>
  BY DEF Adds, catalogueVars
<1>2. TablesOK
  BY DEF IInv, TypeOK, TablesOK
<1>3. \A j \in Rows : rows[j] = Live => rows'[j] = Live
  BY <1>1, <1>2 DEF TablesOK
<1>4. \A l \in links : l[1] \in Rows /\ l[2] \in Rows
  BY <1>2, LinkIsPair DEF TablesOK, Owners, Rows, Records
<1>5. \A m \in Mappings : mappings[m] \in Mapping => mappings[m].of \in Rows
  BY DEF Mapping, Rows, Records
<1>6. TablesOK'
  BY <1>1, <1>2, <1>3, <1>4, <1>5 DEF TablesOK
<1>7. CatalogueTypeOK' /\ ParentsOK' /\ \A v \in Threads : Fits(v)'
  BY <1>1 DEF IInv, TypeOK, ParentsOK, CatalogueTypeOK, Fits, LinksOf
<1> QED BY <1>1, <1>6, <1>7 DEF IInv, TypeOK, TablesOK

LEMMA CommitOwnerKeeps == ASSUME IInv, NEW w \in Threads, CommitOwner(w) PROVE IInv'
<1> DEFINE r == req[w]
<1>1. CASE ~Written(r)
  BY <1>1, FailsKeeps DEF CommitOwner
<1>2. CASE Written(r)
  <2>1. /\ r.op \in {"create", "edit"}
        /\ rows' = IF r.op = "create" THEN [rows EXCEPT ![r.row] = Live] ELSE rows
        /\ links' = LinksAfter(r) /\ Ends(w) /\ UNCHANGED <<mappings, known>>
    BY <1>2 DEF CommitOwner, Ends, catalogueVars
  <2>2. /\ r.row \in Owners /\ LinksOf(r.row, r.want) \subseteq Links
        /\ TablesOK
    BY <2>1 DEF IInv, Fits, TypeOK, TablesOK
  <2>3. r.row \in Rows /\ \A i \in Rows : rows[i] = Live => rows'[i] = Live
    BY <2>1, <2>2 DEF TablesOK, Owners, Rows, Records
  <2>4. rows' \in [Rows -> {Unborn, Live, Deleted}]
    BY <2>1, <2>2 DEF TablesOK
  <2>5. ASSUME NEW l \in links' PROVE l \in Links /\ rows'[l[1]] = Live /\ rows'[l[2]] = Live
    <3>1. CASE l \in links
      <4>1. l \in Links /\ rows[l[1]] = Live /\ rows[l[2]] = Live
        BY <2>2, <3>1 DEF TablesOK
      <4>2. l[1] \in Rows /\ l[2] \in Rows
        BY <4>1, LinkIsPair DEF Owners, Rows, Records
      <4> QED BY <2>3, <4>1, <4>2
    <3>2. CASE l \in Added(r)
      <4>1. l \in Links /\ l[1] = r.row
        BY <2>2, <3>2 DEF Added, LinksOf
      <4>2. rows[l[2]] = Live /\ l[2] \in Rows
        BY <1>2, <3>2, <4>1, LinkIsPair DEF Written, Rows
      <4>3. rows'[r.row] = Live
        BY <1>2, <2>1, <2>2, <2>3, <3>2 DEF Written, TablesOK
      <4> QED BY <2>3, <4>1, <4>2, <4>3
    <3> QED BY <2>1, <3>1, <3>2 DEF LinksAfter
  <2>6. \A m \in Mappings : mappings'[m] \in Mapping =>
           rows'[mappings'[m].of] = Live /\ mappings'[m].technique \in known'
    <3>1. \A m \in Mappings : mappings[m] \in Mapping => mappings[m].of \in Rows
      BY DEF Mapping, Rows, Records
    <3> QED BY <2>1, <2>2, <2>3, <3>1 DEF TablesOK
  <2>7. TablesOK'
    BY <2>1, <2>2, <2>4, <2>5, <2>6 DEF TablesOK
  <2> QED BY <2>1, <2>7, EndsKeeps
<1> QED BY <1>1, <1>2

LEMMA CreateMappingKeeps == ASSUME IInv, NEW w \in Threads, CreateMapping(w) PROVE IInv'
<1> DEFINE r == req[w]
<1>1. CASE rows[r.row] # Live
  BY <1>1, FailsKeeps DEF CreateMapping
<1>2. CASE rows[r.row] = Live
  <2>1. PICK m \in Mappings, t \in r.want :
           mappings' = [mappings EXCEPT ![m] = [of |-> r.row, technique |-> t]]
    BY <1>2 DEF CreateMapping
  <2> DEFINE new == [of |-> r.row, technique |-> t]
  <2>2. r.op = "map" /\ Ends(w) /\ UNCHANGED <<rows, links, known>>
    BY <1>2 DEF CreateMapping, Ends, catalogueVars
  <2>3. r.row \in Loot \cup Entries /\ t \in known /\ known \subseteq Techniques /\ TablesOK
    BY <2>2 DEF IInv, Fits, TypeOK, TablesOK, CatalogueTypeOK
  <2>4. new \in Mapping /\ new.of = r.row /\ new.technique = t
    BY <2>3 DEF Mapping
  <2>5. mappings' = [mappings EXCEPT ![m] = new]
    BY <2>1
  <2> HIDE DEF new
  <2>6. TablesOK'
    BY <1>2, <2>2, <2>3, <2>4, <2>5 DEF TablesOK
  <2> QED BY <2>2, <2>6, EndsKeeps
<1> QED BY <1>1, <1>2

LEMMA UnmapCommitKeeps == ASSUME IInv, NEW w \in Threads, UnmapCommit(w) PROVE IInv'
<1> DEFINE m == req[w].row
<1>1. /\ m \in Mappings /\ mappings' = [mappings EXCEPT ![m] = Deleted]
      /\ Ends(w) /\ UNCHANGED <<rows, links, known>>
  BY DEF UnmapCommit, IInv, Fits, Ends, catalogueVars
<1>2. TablesOK
  BY DEF IInv, TypeOK, TablesOK
<1>3. TablesOK'
  BY <1>1, <1>2, EvidenceNullsAssumption DEF TablesOK
<1> QED BY <1>1, <1>3, EndsKeeps

\* What the deletion has not collected does not refer to its row.
LEMMA DeleteCommitKeeps == ASSUME IInv, NEW w \in Threads, DeleteCommit(w) PROVE IInv'
<1> DEFINE r == req[w]
           i == r.row
<1>1. /\ i \in Rows /\ ~Blocked(r) /\ Ends(w) /\ UNCHANGED known
      /\ rows' = [rows EXCEPT ![i] = Deleted] /\ links' = links \ r.loaded
      /\ mappings' = [m \in Mappings |-> IF m \in r.maps THEN Deleted ELSE mappings[m]]
  BY DEF DeleteCommit, IInv, Fits, Ends, catalogueVars
<1>2. TablesOK
  BY DEF IInv, TypeOK, TablesOK
<1>3. rows' \in [Rows -> {Unborn, Live, Deleted}] /\ \A j \in Rows \ {i} : rows'[j] = rows[j]
  BY <1>1, <1>2 DEF TablesOK
<1>4. ASSUME NEW l \in links' PROVE l \in Links /\ rows'[l[1]] = Live /\ rows'[l[2]] = Live
  <2>1. l \in Links /\ rows[l[1]] = Live /\ rows[l[2]] = Live /\ i \notin {l[1], l[2]}
    BY <1>1, <1>2 DEF TablesOK, Blocked, LinkedUnread
  <2>2. l[1] \in Rows /\ l[2] \in Rows
    BY <2>1, LinkIsPair DEF Owners, Rows, Records
  <2> QED BY <1>3, <2>1, <2>2
<1>5. ASSUME NEW m \in Mappings, mappings'[m] \in Mapping
      PROVE  rows'[mappings'[m].of] = Live /\ mappings'[m].technique \in known'
  <2>1. mappings'[m] = mappings[m] /\ m \notin r.maps
    BY <1>1, <1>5, EvidenceNullsAssumption
  <2>2. mappings[m].of # i /\ mappings[m].of \in Rows
    BY <1>1, <1>5, <2>1 DEF Blocked, LinkedUnread, MappingsOf, Mapping, Rows, Records
  <2> QED BY <1>1, <1>2, <1>3, <1>5, <2>1, <2>2 DEF TablesOK
<1>6. mappings' \in [Mappings -> Mapping \cup {Unborn, Deleted}]
  BY <1>1, <1>2 DEF TablesOK
<1>7. TablesOK'
  BY <1>3, <1>4, <1>5, <1>6 DEF TablesOK
<1> QED BY <1>1, <1>7, EndsKeeps

LEMMA FetchKeeps ==
    ASSUME IInv, NEW w \in Threads, FetchRelease(w), UNCHANGED <<tables, req>>
    PROVE  IInv'
<1>1. PICK r \in Releases :
         refresh' = [refresh EXCEPT ![w] = [release |-> r, under |-> under,
                                            found |-> known \cap r.lists]]
  BY DEF FetchRelease
<1> DEFINE f == [release |-> r, under |-> under, found |-> known \cap r.lists]
<1>2. f \in Refresh
  BY DEF IInv, TypeOK, CatalogueTypeOK, ParentsOK, Refresh
<1>3. refresh' = [refresh EXCEPT ![w] = f] /\ UNCHANGED <<tables, req, known, placed, under>>
  BY <1>1 DEF FetchRelease
<1> HIDE DEF f
<1>4. CatalogueTypeOK' /\ ParentsOK'
  BY <1>2, <1>3 DEF IInv, TypeOK, CatalogueTypeOK, ParentsOK
<1>5. TablesOK' /\ \A v \in Threads : Fits(v)'
  BY <1>3 DEF IInv, TypeOK, TablesOK, tables, Fits, LinksOf
<1>6. req' \in [Threads -> Request]
  BY <1>3 DEF IInv, TypeOK
<1>7. TypeOK'
  BY <1>4, <1>5, <1>6 DEF TypeOK, TablesOK
<1> QED BY <1>4, <1>5, <1>7 DEF IInv

\* A release is an upsert: no technique goes, and a pointer names a row that is
\* there.
LEMMA SyncKeeps ==
    ASSUME IInv, NEW w \in Threads, SyncRelease(w), UNCHANGED <<tables, req>>
    PROVE  IInv' /\ known \subseteq known'
<1> DEFINE f == refresh[w]
<1>1. /\ f \in Refresh /\ f.release \in Release
      /\ refresh' \in [Threads -> Refresh \cup {NotRefreshing}]
  BY ReleasesAssumption DEF SyncRelease, IInv, TypeOK, CatalogueTypeOK, Refresh
<1>2. CASE f.found # known \cap f.release.lists
  <2>1. UNCHANGED <<known, placed, under, tables, req>>
    BY <1>2 DEF SyncRelease
  <2> QED BY <1>1, <2>1 DEF IInv, TypeOK, CatalogueTypeOK, ParentsOK, tables, Fits, LinksOf
<1>3. CASE f.found = known \cap f.release.lists
  <2>1. /\ known' = known \cup f.release.lists
        /\ placed' = (placed \ f.release.lists) \cup f.release.placed
        /\ under' = UnderAfter(f)
    BY <1>3 DEF SyncRelease
  <2>2. f.release.lists \subseteq Techniques /\ f.release.placed \subseteq f.release.lists
    BY <1>1 DEF Release
  <2>3. placed' \subseteq known' /\ known' \subseteq Techniques /\ known \subseteq known'
    BY <2>1, <2>2 DEF IInv, TypeOK, CatalogueTypeOK
  <2>4. ASSUME NEW s \in Subs
        PROVE  /\ under'[s] \in {NoParent, Parent[s]}
               /\ under'[s] # NoParent => {s, under'[s]} \subseteq known'
    <3>1. \/ under'[s] = under[s]
          \/ s \in f.release.lists /\ under'[s] = ParentIn(f.release, s)
      BY <2>1 DEF UnderAfter
    <3>2. under[s] \in {NoParent, Parent[s]} /\ (under[s] # NoParent => {s, under[s]} \subseteq known)
      BY DEF IInv, ParentsOK, TypeOK, CatalogueTypeOK
    <3> QED BY <2>1, <3>1, <3>2 DEF ParentIn
  <2>5. \A s \in Subs : under'[s] \in (Techniques \ Subs) \cup {NoParent}
    BY <2>4, ReleasesAssumption
  <2>6. under' \in [Subs -> (Techniques \ Subs) \cup {NoParent}]
    BY <2>1, <2>5 DEF UnderAfter
  <2>7. CatalogueTypeOK' /\ ParentsOK'
    BY <1>1, <2>3, <2>4, <2>6 DEF CatalogueTypeOK, ParentsOK
  <2>8. TablesOK' /\ \A v \in Threads : Fits(v)'
    BY <2>3 DEF IInv, TypeOK, TablesOK, tables, Fits, LinksOf
  <2>9. req' \in [Threads -> Request]
    BY DEF IInv, TypeOK
  <2>10. TypeOK'
    BY <2>7, <2>8, <2>9 DEF TypeOK, TablesOK
  <2> QED BY <2>3, <2>7, <2>8, <2>10 DEF IInv
<1> QED BY <1>2, <1>3

LEMMA RestartKeeps == ASSUME IInv, Restart PROVE IInv'
<1>1. /\ req' = [w \in Threads |-> Idle] /\ refresh' = [w \in Threads |-> NotRefreshing]
      /\ UNCHANGED <<rows, links, mappings, known, placed, under>>
  BY DEF Restart, tables
<1>2. TypeOK' /\ ParentsOK'
  BY <1>1, IdleIsRequest DEF IInv, TypeOK, CatalogueTypeOK, ParentsOK
<1>3. \A v \in Threads : Fits(v)'
  BY <1>1 DEF Fits, Idle
<1> QED BY <1>2, <1>3 DEF IInv

LEMMA AddingKeeps == ASSUME IInv, NEW w \in Threads, Adding(w) PROVE IInv'
<1>1. ASSUME NEW r \in Records, UploadLoot(w, r) \/ CreateIoc(w, r) \/ ApiCreateIoc(w, r)
      PROVE  IInv'
  BY <1>1, AddsKeeps DEF UploadLoot, CreateIoc, ApiCreateIoc, Rows
<1>2. ASSUME NEW o \in Owners, \/ CreateFinding(w, o) \/ ApiCreateFinding(w, o)
                               \/ CreateEntry(w, o) \/ ApiCreateEntry(w, o)
      PROVE  IInv'
  BY <1>2, CreatesKeeps DEF CreateFinding, ApiCreateFinding, CreateEntry, ApiCreateEntry
<1>3. ASSUME NEW o \in Owners, \/ EditFinding(w, o) \/ UpdateFinding(w, o)
                               \/ EditEntry(w, o) \/ UpdateEntry(w, o)
      PROVE  IInv'
  BY <1>3, EditsKeep DEF EditFinding, UpdateFinding, EditEntry, UpdateEntry
<1>4. ASSUME NEW i \in Records, EditIoc(w, i) \/ UpdateIoc(w, i) PROVE IInv'
  <2>1. i \in Others /\ Amends(w, i)
    BY <1>4 DEF EditIoc, UpdateIoc, Amends
  <2> QED BY <2>1, AmendsKeeps
<1>5. ASSUME AmendCommit(w) PROVE IInv'
  BY <1>5, FailsKeeps DEF AmendCommit, Fails
<1> QED BY <1>1, <1>2, <1>3, <1>4, <1>5, CommitOwnerKeeps DEF Adding

LEMMA DeletingKeeps == ASSUME IInv, NEW w \in Threads, Deleting(w) PROVE IInv'
<1>1. ASSUME NEW i \in Rows, \/ DeleteFinding(w, i) \/ ApiDeleteFinding(w, i)
                             \/ DeleteEntry(w, i) \/ ApiDeleteEntry(w, i)
                             \/ DeleteIoc(w, i) \/ ApiDeleteIoc(w, i) \/ DeleteLoot(w, i)
      PROVE  IInv'
  BY <1>1, DeletesKeeps DEF DeleteFinding, ApiDeleteFinding, DeleteEntry, ApiDeleteEntry,
     DeleteIoc, ApiDeleteIoc, DeleteLoot
<1>2. ASSUME DeleteFails(w) PROVE IInv'
  BY <1>2, FailsKeeps DEF DeleteFails
<1> QED BY <1>1, <1>2, DeleteCommitKeeps DEF Deleting

LEMMA AttackKeeps == ASSUME IInv, NEW w \in Threads, Attack(w) PROVE IInv'
<1>1. ASSUME NEW r \in Records, \/ MapToLoot(w, r) \/ ApiMapToLoot(w, r)
                                \/ MapToEntry(w, r) \/ ApiMapToEntry(w, r)
      PROVE  IInv'
  <2>1. r \in Loot \cup Entries /\ Maps(w, r)
    BY <1>1 DEF MapToLoot, ApiMapToLoot, MapToEntry, ApiMapToEntry
  <2> QED BY <2>1, MapsKeeps
<1>2. ASSUME NEW m \in Mappings, DeleteMapping(w, m) \/ ApiDeleteMapping(w, m) PROVE IInv'
  BY <1>2, UnmapsKeeps DEF DeleteMapping, ApiDeleteMapping
<1>3. ASSUME RefreshCatalogue(w) \/ ApiRefreshCatalogue(w) PROVE IInv'
  BY <1>3, FetchKeeps DEF RefreshCatalogue, ApiRefreshCatalogue
<1>4. ASSUME SyncCatalogue(w) PROVE IInv'
  BY <1>4, SyncKeeps DEF SyncCatalogue
<1> QED BY <1>1, <1>2, <1>3, <1>4, CreateMappingKeeps, UnmapCommitKeeps DEF Attack

LEMMA StepKeeps == ASSUME IInv, [Next]_vars PROVE IInv'
<1>1. CASE UNCHANGED vars
  <2>1. UNCHANGED <<rows, links, mappings, req, known, placed, under, refresh>>
    BY <1>1 DEF vars, tables, catalogueVars
  <2> QED BY <2>1 DEF IInv, TypeOK, CatalogueTypeOK, ParentsOK, Fits, LinksOf
<1> QED BY <1>1, RestartKeeps, AddingKeeps, DeletingKeeps, AttackKeeps DEF Next

LEMMA InitInv == ASSUME Init PROVE IInv
<1>1. TypeOK
  BY IdleIsRequest, EvidenceNullsAssumption DEF Init, CatalogueInit, TypeOK, CatalogueTypeOK
<1>2. ParentsOK
  BY DEF Init, CatalogueInit, ParentsOK
<1>3. \A w \in Threads : Fits(w)
  BY DEF Init, Fits, Idle
<1> QED BY <1>1, <1>2, <1>3 DEF IInv

-----------------------------------------------------------------------------
(* The theorems.                                                           *)

\* In every reachable state references are to rows that are there, parent
\* pointers to the parents the ids name, and a request holds what it loaded.
THEOREM EvidenceInvariant == Spec => []IInv
<1>1. IInv /\ [Next]_vars => IInv'
  BY StepKeeps
<1> QED BY InitInv, <1>1, PTL DEF Spec

\* Every association row joins two rows that are there, and every mapping a row
\* that is there to a technique that is, whatever deletions and edits cross.
THEOREM ReferencesResolve == Spec => []TypeOK
<1>1. IInv => TypeOK
  BY DEF IInv
<1> QED BY <1>1, EvidenceInvariant, PTL

LEMMA StuckDeletion ==
    ASSUME IInv, NEW w \in Threads, DeleteFails(w)
    PROVE  LET r == req[w] IN
           \/ \E o \in Owners : <<o, r.row>> \in links /\ r.row \in Loot
           \/ r.loaded # Collected(r.row)
           \/ r.maps # MappingsOf(r.row)
<1> DEFINE r == req[w]
<1>1. SUFFICES ASSUME r.loaded = Collected(r.row), r.maps = MappingsOf(r.row)
               PROVE  \E o \in Owners : <<o, r.row>> \in links /\ r.row \in Loot
  OBVIOUS
<1>2. Blocked(r)
  BY DEF DeleteFails
<1>3. PICK l \in links : l \notin Collected(r.row) /\ r.row \in {l[1], l[2]}
  BY <1>1, <1>2 DEF Blocked, LinkedUnread, Collected
<1>4. l = <<l[1], l[2]>> /\ l[1] \in Owners
  BY LinkIsPair DEF IInv, TypeOK
<1>5. l[2] = r.row /\ r.row \in Loot
  BY <1>3 DEF Collected
<1> QED BY <1>3, <1>4, <1>5

\* A deletion fails only because a finding or an entry refers to its loot file,
\* which no relationship leads back from, or because another request has linked
\* or mapped its row, or unlinked it, since it was read.
THEOREM DeletionsSucceed == Spec => OnlyLinkedLootStays
<1> DEFINE Stuck == \A w \in Threads :
         DeleteFails(w) =>
             LET r == req[w] IN
             \/ \E o \in Owners : <<o, r.row>> \in links /\ r.row \in Loot
             \/ r.loaded # Collected(r.row)
             \/ r.maps # MappingsOf(r.row)
<1>1. IInv /\ [Next]_vars => [Stuck]_vars
  BY StuckDeletion
<1> QED BY <1>1, EvidenceInvariant, PTL DEF Spec, OnlyLinkedLootStays

LEMMA LinksWritten ==
    ASSUME NEW w \in Threads, Adding(w) \/ Deleting(w) \/ Attack(w), links' # links
    PROVE  \/ CommitOwner(w) /\ Written(req[w])
           \/ DeleteCommit(w)
BY DEF Adding, Deleting, Attack, UploadLoot, CreateIoc, ApiCreateIoc, Adds, CreateFinding,
   ApiCreateFinding, CreateEntry, ApiCreateEntry, Creates, EditFinding, UpdateFinding, EditEntry,
   UpdateEntry, Keeps, Assigns, EditIoc, UpdateIoc, Amends, CommitOwner, AmendCommit, Fails, Loads,
   DeleteFinding, ApiDeleteFinding, DeleteEntry, ApiDeleteEntry, DeleteIoc, ApiDeleteIoc,
   DeleteLoot, Deletes, DeleteFails, MapToLoot, ApiMapToLoot, MapToEntry, ApiMapToEntry, Maps,
   DeleteMapping, ApiDeleteMapping, Unmaps, CreateMapping, UnmapCommit, RefreshCatalogue,
   ApiRefreshCatalogue, SyncCatalogue, tables

\* OnlyCrossedEditsMerge, of one step and one owner.
Overwritten(o) ==
    Linked(o)' # Linked(o) =>
      \/ \E w \in Threads :
            /\ req[w].row = o /\ req[w].op \in {"create", "edit"}
            /\ \/ Linked(o)' = LinksOf(o, req[w].want)
               \/ req[w].loaded # Linked(o)
      \/ /\ Linked(o)' \subseteq Linked(o)
         /\ \A l \in Linked(o) \ Linked(o)' :
               \E i \in {l[1], l[2]} : rows[i] = Live /\ rows'[i] = Deleted

LEMMA EditOverwrites ==
    ASSUME IInv, NEW w \in Threads, CommitOwner(w), Written(req[w]), NEW o \in Owners
    PROVE  Overwritten(o)
<1> DEFINE r == req[w]
<1>1. /\ r.op \in {"create", "edit"} /\ \A l \in r.loaded : l[1] = r.row
      /\ links' = (links \ Removed(r)) \cup Added(r)
  BY DEF CommitOwner, LinksAfter, IInv, Fits
<1>2. \A l \in Removed(r) \cup Added(r) : l[1] = r.row
  BY <1>1 DEF Removed, Added, LinksOf
<1>3. CASE o # r.row
  BY <1>1, <1>2, <1>3 DEF Overwritten, Linked
<1>4. CASE o = r.row /\ r.loaded = Linked(o)
  <2>1. Linked(o)' = LinksOf(o, r.want)
    BY <1>1, <1>4 DEF Linked, Removed, Added, LinksOf
  <2> QED BY <1>1, <1>4, <2>1 DEF Overwritten
<1> QED BY <1>1, <1>3, <1>4 DEF Overwritten

LEMMA DeletionUnlinks ==
    ASSUME IInv, NEW w \in Threads, DeleteCommit(w), NEW o \in Owners
    PROVE  Overwritten(o)
<1> DEFINE r == req[w]
<1>1. /\ r.row \in Rows /\ \A l \in r.loaded : r.row \in {l[1], l[2]}
      /\ links' = links \ r.loaded /\ rows' = [rows EXCEPT ![r.row] = Deleted]
  BY DEF DeleteCommit, IInv, Fits
<1>2. Linked(o)' \subseteq Linked(o) /\ \A l \in Linked(o) \ Linked(o)' : l \in links /\ l \in r.loaded
  BY <1>1 DEF Linked
<1>3. \A l \in links : rows[l[1]] = Live /\ rows[l[2]] = Live
  BY DEF IInv, TypeOK
<1>4. rows'[r.row] = Deleted
  BY <1>1 DEF IInv, TypeOK
<1> QED BY <1>1, <1>2, <1>3, <1>4 DEF Overwritten

\* The links of a finding or an entry are what one request submitted, unless it
\* had loaded another collection than the one it changes, or they go with one of
\* their ends.
THEOREM FormsOverwriteLinks == Spec => OnlyCrossedEditsMerge
<1> DEFINE Merged == \A o \in Owners : Linked(o)' # Linked(o) =>
         \/ \E w \in Threads :
               /\ req[w].row = o /\ req[w].op \in {"create", "edit"}
               /\ \/ Linked(o)' = LinksOf(o, req[w].want)
                  \/ req[w].loaded # Linked(o)
         \/ /\ Linked(o)' \subseteq Linked(o)
            /\ \A l \in Linked(o) \ Linked(o)' :
                  \E i \in {l[1], l[2]} : rows[i] = Live /\ rows'[i] = Deleted
<1>1. ASSUME IInv, [Next]_vars, NEW o \in Owners PROVE Overwritten(o)
  <2>1. CASE links' = links
    BY <2>1 DEF Overwritten, Linked
  <2>2. CASE links' # links
    <3>1. PICK w \in Threads : Adding(w) \/ Deleting(w) \/ Attack(w)
      BY <1>1, <2>2 DEF Next, Restart, vars, tables
    <3>2. (CommitOwner(w) /\ Written(req[w])) \/ DeleteCommit(w)
      BY <2>2, <3>1, LinksWritten
    <3> QED BY <1>1, <3>2, EditOverwrites, DeletionUnlinks
  <2> QED BY <2>1, <2>2
<1>2. IInv /\ [Next]_vars => [Merged]_vars
  BY <1>1 DEF Overwritten
<1> QED BY <1>2, EvidenceInvariant, PTL DEF Spec, OnlyCrossedEditsMerge

\* UsesStayOnMatrix, of one step and one technique.
Hidden(t) ==
    OnMatrix(t) /\ ~OnMatrix(t)' =>
       \E w \in Threads :
          LET r == refresh[w].release IN
          /\ refresh[w] # NotRefreshing /\ refresh'[w] = NotRefreshing
          /\ \/ t \in Subs /\ t \in r.lists /\ Parent[t] \notin r.lists
             \/ Cell(t) \in r.lists \ r.placed

LEMMA SyncHides ==
    ASSUME IInv, NEW w \in Threads, SyncRelease(w), NEW t
    PROVE  Hidden(t)
<1> DEFINE f == refresh[w]
           r == f.release
<1>1. SUFFICES ASSUME OnMatrix(t), ~OnMatrix(t)'
               PROVE  /\ f # NotRefreshing /\ refresh'[w] = NotRefreshing
                      /\ \/ t \in Subs /\ t \in r.lists /\ Parent[t] \notin r.lists
                         \/ Cell(t) \in r.lists \ r.placed
  BY DEF Hidden
<1>2. f # NotRefreshing /\ refresh'[w] = NotRefreshing
  BY DEF SyncRelease, IInv, TypeOK, CatalogueTypeOK
<1>3. placed' = (placed \ r.lists) \cup r.placed /\ under' = UnderAfter(f)
  BY <1>1 DEF SyncRelease, OnMatrix, Cell
<1>4. CASE Cell(t)' = Cell(t)
  BY <1>1, <1>2, <1>3, <1>4 DEF OnMatrix
<1>5. CASE Cell(t)' # Cell(t)
  <2>1. t \in Subs /\ under'[t] # under[t] /\ Cell(t) = under[t]
    BY <1>5 DEF Cell
  <2>2. t \in r.lists /\ under'[t] = ParentIn(r, t)
    BY <1>3, <2>1 DEF UnderAfter
  <2>3. under[t] = Parent[t]
    <3>1. under[t] \in {NoParent, Parent[t]} /\ under[t] \in Techniques
      BY <1>1, <2>1 DEF OnMatrix, IInv, ParentsOK, TypeOK, CatalogueTypeOK
    <3> QED BY <3>1, NoParentAssumption
  <2> QED BY <1>2, <2>1, <2>2, <2>3 DEF ParentIn
<1> QED BY <1>4, <1>5

LEMMA CatalogueWritten ==
    ASSUME NEW w \in Threads, Adding(w) \/ Deleting(w) \/ Attack(w), ~UNCHANGED <<placed, under>>
    PROVE  SyncRelease(w)
<1>1. ~UNCHANGED catalogueVars
  BY DEF catalogueVars
<1>2. ~Adding(w) /\ ~Deleting(w)
  BY <1>1 DEF Adding, Deleting, UploadLoot, CreateIoc, ApiCreateIoc, Adds, CreateFinding,
     ApiCreateFinding, CreateEntry, ApiCreateEntry, Creates, EditFinding, UpdateFinding, EditEntry,
     UpdateEntry, Keeps, Assigns, EditIoc, UpdateIoc, Amends, CommitOwner, AmendCommit, Fails,
     Ends, Loads, DeleteFinding, ApiDeleteFinding, DeleteEntry, ApiDeleteEntry, DeleteIoc,
     ApiDeleteIoc, DeleteLoot, Deletes, DeleteFails, DeleteCommit
<1> QED BY <1>1, <1>2 DEF Attack, MapToLoot, ApiMapToLoot, MapToEntry, ApiMapToEntry, Maps, Loads,
   DeleteMapping, ApiDeleteMapping, Unmaps, CreateMapping, UnmapCommit, Ends, Fails,
   RefreshCatalogue, ApiRefreshCatalogue, FetchRelease, SyncCatalogue

\* A technique in use leaves the matrix only by a release that lists it without
\* its parent, or lists the technique of its cell in no tactic.
THEOREM UsesStayLit == Spec => UsesStayOnMatrix
<1> DEFINE Kept == \A m \in Mappings :
         mappings[m] \in Mapping /\ mappings'[m] = mappings[m] =>
            LET t == mappings[m].technique IN
            OnMatrix(t) /\ ~OnMatrix(t)' =>
               \E w \in Threads :
                  LET r == refresh[w].release IN
                  /\ refresh[w] # NotRefreshing /\ refresh'[w] = NotRefreshing
                  /\ \/ t \in Subs /\ t \in r.lists /\ Parent[t] \notin r.lists
                     \/ Cell(t) \in r.lists \ r.placed
<1>1. ASSUME IInv, [Next]_vars, NEW t PROVE Hidden(t)
  <2>1. CASE UNCHANGED <<placed, under>>
    BY <2>1 DEF Hidden, OnMatrix, Cell
  <2>2. CASE ~UNCHANGED <<placed, under>>
    <3>1. PICK w \in Threads : Adding(w) \/ Deleting(w) \/ Attack(w)
      BY <1>1, <2>2 DEF Next, Restart, vars, catalogueVars
    <3>2. SyncRelease(w)
      BY <2>2, <3>1, CatalogueWritten
    <3> QED BY <1>1, <3>2, SyncHides
  <2> QED BY <2>1, <2>2
<1>2. IInv /\ [Next]_vars => [Kept]_vars
  BY <1>1 DEF Hidden
<1> QED BY <1>2, EvidenceInvariant, PTL DEF Spec, UsesStayOnMatrix
=============================================================================
