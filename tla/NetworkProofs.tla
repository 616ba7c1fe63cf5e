--------------------------- MODULE NetworkProofs ----------------------------
(***************************************************************************)
(* Theorems about Network, for any number of nodes, paths, services,       *)
(* entries and threads: no path ever leaves its pane.                      *)
(***************************************************************************)
EXTENDS Network, TLAPS

-----------------------------------------------------------------------------
(* The inductive invariant.                                                *)

Joins(c, p) == nodes[c.source] = p /\ nodes[c.target] = p

EdgesJoin == \A e \in Edges : edges[e] \in Path => \E p \in Panes : Joins(edges[e], p)
EntriesPoint == \A x \in Entries : entries[x] \in Nodes => Exists(entries[x])

TableInv == TypeOK /\ EdgesJoin /\ EntriesPoint

EndsOf(c) == {c.source, c.target}

\* What holds of a worker's request between its checks and its commit, whatever
\* the others have committed since: a node keeps its pane until it is gone, so
\* the ends checked together that still exist are still on one pane, and it is
\* the pane of the path the edit had loaded, wherever that path leads by now.
NodeFits(w) ==
    LET r == req[w] IN
    r.op = "node" => r.id \in Nodes /\ r.seen \in Panes /\ r.want = r.seen
NewPathFits(w) ==
    LET r == req[w] IN
    r.op = "edge" /\ r.id = Unborn =>
        /\ r.want \in Path
        /\ \A n \in EndsOf(r.want) : nodes[n] # Unborn
        /\ \A m, n \in EndsOf(r.want) : Exists(m) /\ Exists(n) => nodes[m] = nodes[n]
OldPathFits(w) ==
    LET r == req[w] IN
    r.op = "edge" /\ r.id # Unborn =>
        /\ r.id \in Edges /\ edges[r.id] # Unborn
        /\ r.seen \in Path /\ r.want \in Path
        /\ \A n \in EndsOf(r.want) :
              /\ nodes[n] # Unborn
              /\ edges[r.id] \in Path /\ Exists(n) => nodes[n] = nodes[edges[r.id].source]
ServiceFits(w) == req[w].op = "service" => req[w].want \in Nodes
EntryFits(w) ==
    LET r == req[w] IN
    r.op = "entry" => /\ r.id \in Entries
                      /\ {r.seen, r.want} \subseteq Nodes \cup {Nowhere}

Fits(w) == NodeFits(w) /\ NewPathFits(w) /\ OldPathFits(w) /\ ServiceFits(w) /\ EntryFits(w)

IInv == TableInv /\ \A w \in Workers : Fits(w)

-----------------------------------------------------------------------------
(* What every step does to the others' requests.                           *)

\* A node handed out keeps its pane or goes; a path goes, or is redirected on
\* the pane it was on.
NodesSteady == \A n \in Nodes : nodes[n] # Unborn => nodes'[n] \in {nodes[n], Deleted}
EdgesSteady ==
    \A e \in Edges : edges[e] # Unborn =>
        /\ edges'[e] # Unborn
        /\ edges'[e] \in Path => /\ edges[e] \in Path
                                 /\ nodes[edges'[e].source] = nodes[edges[e].source]

LEMMA IdleIsRequest == Idle \in Request
BY DEF Idle, Request

LEMMA IdleFits == ASSUME NEW w \in Workers, req'[w] = Idle PROVE Fits(w)'
BY DEF Idle, Fits, NodeFits, NewPathFits, OldPathFits, ServiceFits, EntryFits

\* What a node that was there and still is looks like after a step.
LEMMA NodeKept ==
    ASSUME TypeOK, NodesSteady, NEW n \in Nodes, nodes[n] # Unborn
    PROVE  /\ nodes'[n] # Unborn
           /\ Exists(n)' => Exists(n) /\ nodes'[n] = nodes[n]
BY NetworkNullsAssumption DEF NodesSteady, Exists, Gone

\* A request that fits still fits after a step of somebody else.
LEMMA StillFits ==
    ASSUME TableInv, TableInv', NodesSteady, EdgesSteady,
           NEW v \in Workers, req'[v] = req[v], Fits(v)
    PROVE  Fits(v)'
<1> USE DEF Fits, TableInv
<1>1. NodeFits(v)' /\ ServiceFits(v)' /\ EntryFits(v)'
  BY DEF NodeFits, ServiceFits, EntryFits
<1>2. NewPathFits(v)'
  BY NodeKept DEF NewPathFits, EndsOf, Path
<1>3. OldPathFits(v)'
  <2> DEFINE r == req[v]
  <2> SUFFICES ASSUME r.op = "edge", r.id # Unborn PROVE OldPathFits(v)'
    BY DEF OldPathFits
  <2>1. /\ r.id \in Edges /\ edges[r.id] # Unborn /\ edges'[r.id] # Unborn
        /\ r.seen \in Path /\ r.want \in Path
    BY DEF OldPathFits, EdgesSteady
  <2>2. ASSUME NEW n \in EndsOf(r.want) PROVE nodes'[n] # Unborn
    BY <2>1, NodeKept DEF OldPathFits, EndsOf, Path
  <2>3. ASSUME NEW n \in EndsOf(r.want), NEW s \in Nodes, Exists(n)',
               edges'[r.id] \in Path, s = edges'[r.id].source
        PROVE  nodes'[n] = nodes'[s]
    <3>1. n \in Nodes /\ nodes[n] # Unborn
      BY <2>1, <2>3 DEF OldPathFits, EndsOf, Path
    <3>2. nodes'[n] = nodes[n] /\ Exists(n)
      BY <3>1, <2>3, NodeKept
    <3>3. nodes[n] = nodes[s]
      BY <3>2, <2>1, <2>3 DEF OldPathFits, EdgesSteady
    <3>4. Exists(s)'
      BY <2>1, <2>3 DEF EdgesJoin, Joins, Exists
    <3>5. nodes'[s] = nodes[s]
      BY <3>1, <3>3, <3>4, NodeKept
    <3> QED BY <3>2, <3>3, <3>5
  <2>4. edges'[r.id] \in Path => edges'[r.id].source \in Nodes
    BY DEF Path
  <2> QED BY <2>1, <2>2, <2>3, <2>4 DEF OldPathFits
<1> QED BY <1>1, <1>2, <1>3

\* A step of w is safe if the tables are, and w's own request fits.
LEMMA StepFits ==
    ASSUME IInv, TableInv', NodesSteady, EdgesSteady,
           NEW w \in Workers, Fits(w)',
           \A v \in Workers \ {w} : req'[v] = req[v]
    PROVE  IInv'
<1>1. ASSUME NEW v \in Workers PROVE Fits(v)'
  <2>1. CASE v = w
    BY <2>1
  <2>2. CASE v # w
    BY <2>2, StillFits DEF IInv
  <2> QED BY <2>1, <2>2
<1> QED BY <1>1 DEF IInv

-----------------------------------------------------------------------------
(* The steps that load.                                                    *)

LEMMA InitInv == Init => IInv
<1> SUFFICES ASSUME Init PROVE IInv
  OBVIOUS
<1>1. TypeOK
  BY IdleIsRequest DEF Init, TypeOK, Gone
<1>2. EdgesJoin /\ EntriesPoint
  BY NetworkNullsAssumption DEF Init, EdgesJoin, EntriesPoint, Gone
<1>3. ASSUME NEW w \in Workers PROVE Fits(w)
  BY DEF Init, Idle, Fits, NodeFits, NewPathFits, OldPathFits, ServiceFits, EntryFits
<1> QED BY <1>1, <1>2, <1>3 DEF IInv, TableInv

\* A step that leaves the tables alone, whatever it does to the requests.
LEMMA TablesAlone ==
    ASSUME TableInv, UNCHANGED tables, req' \in [Workers -> Request]
    PROVE  TableInv' /\ NodesSteady /\ EdgesSteady
<1>1. TypeOK' /\ EntriesPoint' /\ EdgesJoin'
  BY DEF TableInv, TypeOK, EntriesPoint, EdgesJoin, Joins, Exists, tables
<1>2. NodesSteady /\ EdgesSteady
  BY DEF NodesSteady, EdgesSteady, tables
<1> QED BY <1>1, <1>2 DEF TableInv

\* A request that has loaded a row and checked what the form asks for.
LEMMA LoadKeeps ==
    ASSUME IInv, NEW w \in Workers, NEW r \in Request,
           req' = [req EXCEPT ![w] = r], UNCHANGED tables, Fits(w)'
    PROVE  IInv'
<1>1. req' \in [Workers -> Request] /\ \A v \in Workers \ {w} : req'[v] = req[v]
  BY DEF IInv, TableInv, TypeOK
<1> QED BY <1>1, TablesAlone, StepFits DEF IInv

LEMMA EndKeeps ==
    ASSUME IInv, NEW w \in Workers, EndsWithout(w)
    PROVE  IInv'
<1>1. req'[w] = Idle
  BY DEF EndsWithout, Ends, IInv, TableInv, TypeOK
<1> QED BY <1>1, IdleFits, IdleIsRequest, LoadKeeps DEF EndsWithout, Ends

LEMMA RestartKeeps == ASSUME IInv, Restart PROVE IInv'
<1>1. req' \in [Workers -> Request] /\ UNCHANGED tables
  BY IdleIsRequest DEF Restart
<1>2. TableInv'
  BY <1>1, TablesAlone DEF IInv
<1>3. ASSUME NEW w \in Workers PROVE Fits(w)'
  BY IdleFits DEF Restart
<1> QED BY <1>2, <1>3 DEF IInv

LEMMA EditsNodeKeeps ==
    ASSUME IInv, NEW w \in Workers, NEW n \in Nodes, NEW p \in Panes, EditsNode(w, n, p)
    PROVE  IInv'
<1> DEFINE r == [op |-> "node", id |-> n, seen |-> p, want |-> p]
<1>1. r \in Request /\ req' = [req EXCEPT ![w] = r] /\ UNCHANGED tables
  BY DEF EditsNode, Editable, Loads, Request, Ids, Values
<1>2. req'[w] = r
  BY <1>1 DEF IInv, TableInv, TypeOK
<1>3. Fits(w)'
  BY <1>2 DEF Fits, NodeFits, NewPathFits, OldPathFits, ServiceFits, EntryFits
<1> HIDE DEF r
<1> QED BY <1>1, <1>3, LoadKeeps

LEMMA AddsEdgeKeeps ==
    ASSUME IInv, NEW w \in Workers, NEW p \in Panes, AddsEdge(w, p)
    PROVE  IInv'
<1>0. PICK c \in PathsOf(p) : Loads(w, "edge", Unborn, Unborn, c)
  BY DEF AddsEdge
<1> DEFINE r == [op |-> "edge", id |-> Unborn, seen |-> Unborn, want |-> c]
<1>1. r \in Request /\ req' = [req EXCEPT ![w] = r] /\ UNCHANGED tables
  BY <1>0 DEF Loads, Request, Ids, Values, PathsOf
<1>2. req'[w] = r
  BY <1>1 DEF IInv, TableInv, TypeOK
<1>3. /\ c \in Path
      /\ \A n \in EndsOf(c) : nodes'[n] = p /\ nodes'[n] # Unborn
  BY <1>1, NetworkNullsAssumption DEF PathsOf, Joinable, EndsOf, tables, Gone
<1>4. NewPathFits(w)'
  BY <1>2, <1>3 DEF NewPathFits
<1>5. Fits(w)'
  BY <1>2, <1>4 DEF Fits, NodeFits, OldPathFits, ServiceFits, EntryFits
<1> HIDE DEF r
<1> QED BY <1>1, <1>5, LoadKeeps

\* The forms, and a PATCH that names both ends, one or none.
LEMMA EditsEdgeKeeps ==
    ASSUME IInv, NEW w \in Workers, NEW e \in Edges, NEW p \in Panes,
           NEW ends, ends \subseteq Patched(edges[e], p), EditsEdge(w, e, p, ends)
    PROVE  IInv'
<1>0. PICK c \in ends : Loads(w, "edge", e, edges[e], c)
  BY DEF EditsEdge
<1> DEFINE r == [op |-> "edge", id |-> e, seen |-> edges[e], want |-> c]
<1>a. edges[e] \in Path /\ nodes[edges[e].source] = p /\ nodes[edges[e].target] = p
  BY DEF EditsEdge
<1>b. c \in Path /\ nodes[c.source] = p /\ nodes[c.target] = p
  BY <1>a DEF Patched, PathsOf, Joinable
<1>1. r \in Request /\ req' = [req EXCEPT ![w] = r] /\ UNCHANGED tables
  BY <1>0, <1>a, <1>b DEF Loads, Request, Ids, Values
<1>2. req'[w] = r /\ e # Unborn
  BY <1>1, NetworkNullsAssumption DEF IInv, TableInv, TypeOK, Gone, Ids
<1>3. OldPathFits(w)'
  BY <1>1, <1>2, <1>a, <1>b, NetworkNullsAssumption
  DEF OldPathFits, EndsOf, tables, Gone
<1>4. Fits(w)'
  BY <1>2, <1>3 DEF Fits, NodeFits, NewPathFits, ServiceFits, EntryFits
<1> HIDE DEF r
<1> QED BY <1>1, <1>4, LoadKeeps

LEMMA AddsServiceKeeps ==
    ASSUME IInv, NEW w \in Workers, NEW n \in Nodes, AddsService(w, n)
    PROVE  IInv'
<1> DEFINE r == [op |-> "service", id |-> Unborn, seen |-> Unborn, want |-> n]
<1>1. r \in Request /\ req' = [req EXCEPT ![w] = r] /\ UNCHANGED tables
  BY DEF AddsService, Loads, Request, Values
<1>2. req'[w] = r
  BY <1>1 DEF IInv, TableInv, TypeOK
<1>3. Fits(w)'
  BY <1>2 DEF Fits, NodeFits, NewPathFits, OldPathFits, ServiceFits, EntryFits
<1> HIDE DEF r
<1> QED BY <1>1, <1>3, LoadKeeps

LEMMA EditEntryKeeps ==
    ASSUME IInv, NEW w \in Workers, NEW x \in Entries, EditEntry(w, x)
    PROVE  IInv'
<1>0. PICK n \in Nodes \cup {Nowhere} : Loads(w, "entry", x, entries[x], n)
  BY DEF EditEntry
<1> DEFINE r == [op |-> "entry", id |-> x, seen |-> entries[x], want |-> n]
<1>a. entries[x] \in Nodes \cup {Nowhere}
  BY DEF IInv, TableInv, TypeOK
<1>1. r \in Request /\ req' = [req EXCEPT ![w] = r] /\ UNCHANGED tables
  BY <1>0, <1>a DEF Loads, Request, Ids, Values
<1>2. req'[w] = r
  BY <1>1 DEF IInv, TableInv, TypeOK
<1>3. Fits(w)'
  BY <1>2, <1>a DEF Fits, NodeFits, NewPathFits, OldPathFits, ServiceFits, EntryFits
<1> HIDE DEF r
<1> QED BY <1>1, <1>3, LoadKeeps

LEMMA DeletesKeeps ==
    ASSUME IInv, NEW w \in Workers, NEW i \in Ids, Deletes(w, i)
    PROVE  IInv'
<1> DEFINE r == [op |-> "delete", id |-> i, seen |-> Unborn, want |-> Unborn]
<1>1. r \in Request /\ req' = [req EXCEPT ![w] = r] /\ UNCHANGED tables
  BY DEF Deletes, Loads, Request
<1>2. req'[w] = r
  BY <1>1 DEF IInv, TableInv, TypeOK
<1>3. Fits(w)'
  BY <1>2 DEF Fits, NodeFits, NewPathFits, OldPathFits, ServiceFits, EntryFits
<1> HIDE DEF r
<1> QED BY <1>1, <1>3, LoadKeeps

-----------------------------------------------------------------------------
(* The steps that write.                                                   *)

\* A step that writes and ends the request of w.
LEMMA WriteKeeps ==
    ASSUME IInv, TableInv', NodesSteady, EdgesSteady, NEW w \in Workers, Ends(w)
    PROVE  IInv'
<1>1. req'[w] = Idle /\ \A v \in Workers \ {w} : req'[v] = req[v]
  BY DEF Ends, IInv, TableInv, TypeOK
<1> QED BY <1>1, IdleFits, StepFits

LEMMA RequestsTyped ==
    ASSUME IInv, NEW w \in Workers, Ends(w)
    PROVE  req' \in [Workers -> Request]
BY IdleIsRequest DEF Ends, IInv, TableInv, TypeOK

LEMMA AddsNodeKeeps ==
    ASSUME IInv, NEW w \in Workers, NEW n \in Nodes, NEW p \in Panes, AddsNode(w, n, p)
    PROVE  IInv'
<1> USE DEF AddsNode
<1>0. TableInv
  BY DEF IInv
<1>1. TypeOK'
  BY <1>0 DEF TableInv, TypeOK
<1>2. ASSUME NEW m \in Nodes
      PROVE  nodes[m] # Unborn => nodes'[m] = nodes[m]
  BY <1>0 DEF TableInv, TypeOK
<1>3. ASSUME NEW m \in Nodes, Exists(m) PROVE nodes'[m] = nodes[m]
  BY <1>2, <1>3, NetworkNullsAssumption DEF Exists, Gone
<1>4. EdgesJoin'
  BY <1>0, <1>3 DEF TableInv, EdgesJoin, Joins, Exists, Path
<1>5. EntriesPoint'
  BY <1>0, <1>3 DEF TableInv, EntriesPoint, Exists
<1>6. NodesSteady /\ EdgesSteady
  BY <1>2 DEF NodesSteady, EdgesSteady
<1>7. req'[w] = req[w] /\ Fits(w)
  BY DEF IInv
<1>8. TableInv'
  BY <1>1, <1>4, <1>5 DEF TableInv
<1> QED BY <1>0, <1>6, <1>7, <1>8, StillFits, StepFits

LEMMA CommitNodeKeeps ==
    ASSUME IInv, NEW w \in Workers, CommitNode(w)
    PROVE  IInv'
<1>1. CASE ~Exists(req[w].id)
  BY <1>1, EndKeeps DEF CommitNode
<1>2. CASE Exists(req[w].id)
  <2>1. /\ Ends(w) /\ UNCHANGED <<edges, services, entries>>
        /\ nodes' = [nodes EXCEPT ![req[w].id] = Column(@, req[w].seen, req[w].want)]
    BY <1>2 DEF CommitNode
  <2>2. req[w].want = req[w].seen
    BY DEF CommitNode, IInv, Fits, NodeFits
  <2>3. nodes' = nodes
    BY <2>1, <2>2 DEF Column, IInv, TableInv, TypeOK
  <2>4. UNCHANGED tables /\ req' \in [Workers -> Request]
    BY <2>1, <2>3, RequestsTyped DEF tables
  <2>5. TableInv' /\ NodesSteady /\ EdgesSteady
    BY <2>4, TablesAlone DEF IInv
  <2> QED BY <2>1, <2>5, WriteKeeps
<1> QED BY <1>1, <1>2

\* A path that is inserted or redirected, with both its ends on pane p.
LEMMA PathWritten ==
    ASSUME IInv, NEW w \in Workers, NEW e \in Edges, NEW c \in Path, NEW p \in Panes,
           Joins(c, p), edges[e] = Unborn \/ (edges[e] \in Path /\ Joins(edges[e], p)),
           edges' = [edges EXCEPT ![e] = c], UNCHANGED <<nodes, services, entries>>,
           Ends(w)
    PROVE  IInv'
<1>0. TableInv
  BY DEF IInv
<1>1. TypeOK'
  BY <1>0, RequestsTyped DEF TableInv, TypeOK
<1>2. EdgesJoin'
  BY <1>0 DEF TableInv, TypeOK, EdgesJoin, Joins
<1>3. EntriesPoint'
  BY <1>0 DEF TableInv, EntriesPoint, Exists
<1>4. NodesSteady
  BY DEF NodesSteady
<1>5. EdgesSteady
  BY <1>0, NetworkNullsAssumption DEF TableInv, TypeOK, EdgesSteady, Joins, Gone
<1> QED BY <1>1, <1>2, <1>3, <1>4, <1>5, WriteKeeps DEF TableInv

LEMMA CommitEdgeKeeps ==
    ASSUME IInv, NEW w \in Workers, CommitEdge(w)
    PROVE  IInv'
<1> DEFINE r == req[w]
           Kept(c) == Exists(c.source) /\ Exists(c.target)
<1>0. TableInv /\ r.op = "edge" /\ NewPathFits(w) /\ OldPathFits(w)
  BY DEF CommitEdge, IInv, Fits
<1>1. CASE EndsWithout(w)
  BY <1>1, EndKeeps
<1>2. ASSUME r.id = Unborn, Kept(r.want), NEW e \in Edges, edges[e] = Unborn,
             edges' = [edges EXCEPT ![e] = r.want], Ends(w),
             UNCHANGED <<nodes, services, entries>>
      PROVE  IInv'
  <2> DEFINE c == r.want
             p == nodes[c.source]
  <2>1. c \in Path /\ p = nodes[c.target]
    BY <1>0, <1>2 DEF NewPathFits, EndsOf
  <2>2. Joins(c, p) /\ p \in Panes
    BY <2>1, <1>2 DEF Joins, Exists
  <2>3. edges[e] = Unborn /\ edges' = [edges EXCEPT ![e] = c]
    BY <1>2
  <2> HIDE DEF r, c, p
  <2> QED BY <1>2, <2>1, <2>2, <2>3, PathWritten
<1>3. ASSUME r.id # Unborn, edges[r.id] \in Path,
             Kept(Redirected(edges[r.id], r.seen, r.want)),
             edges' = [edges EXCEPT ![r.id] = Redirected(@, r.seen, r.want)],
             Ends(w), UNCHANGED <<nodes, services, entries>>
      PROVE  IInv'
  <2> DEFINE old == edges[r.id]
             new == Redirected(old, r.seen, r.want)
             p == nodes[old.source]
  <2>1. r.id \in Edges /\ r.seen \in Path /\ r.want \in Path /\ old \in Path
    BY <1>0, <1>3 DEF OldPathFits
  <2>2. edges' = [edges EXCEPT ![r.id] = new]
    BY <1>3, <2>1 DEF TableInv, TypeOK
  <2>3. new \in Path /\ new.source \in {old.source, r.want.source}
                     /\ new.target \in {old.target, r.want.target}
    BY <2>1 DEF Redirected, Column, Path
  <2>4. p \in Panes /\ Joins(old, p)
    BY <1>0, <2>1 DEF TableInv, EdgesJoin, Joins
  <2>5. \A n \in EndsOf(r.want) : Exists(n) => nodes[n] = p
    BY <1>0, <1>3 DEF OldPathFits
  <2>6. Joins(new, p)
    BY <1>3, <2>3, <2>4, <2>5 DEF Joins, EndsOf
  <2> HIDE DEF new, p, r
  <2> QED BY <1>3, <2>1, <2>2, <2>3, <2>4, <2>6, PathWritten DEF old
<1> QED BY <1>1, <1>2, <1>3 DEF CommitEdge

LEMMA CommitServiceKeeps ==
    ASSUME IInv, NEW w \in Workers, CommitService(w)
    PROVE  IInv'
<1>1. CASE ~Exists(req[w].want)
  BY <1>1, EndKeeps DEF CommitService
<1>2. CASE Exists(req[w].want)
  <2>1. PICK s \in Services : services' = [services EXCEPT ![s] = req[w].want]
    BY <1>2 DEF CommitService
  <2>2. Ends(w) /\ UNCHANGED <<nodes, edges, entries>> /\ req[w].want \in Nodes
    BY <1>2 DEF CommitService, IInv, Fits, ServiceFits
  <2>3. TypeOK' /\ EdgesJoin' /\ EntriesPoint'
    BY <2>1, <2>2, RequestsTyped
    DEF IInv, TableInv, TypeOK, EdgesJoin, EntriesPoint, Joins, Exists
  <2>4. NodesSteady /\ EdgesSteady
    BY <2>2 DEF NodesSteady, EdgesSteady
  <2> QED BY <2>2, <2>3, <2>4, WriteKeeps DEF TableInv
<1> QED BY <1>1, <1>2

LEMMA CommitEntryKeeps ==
    ASSUME IInv, NEW w \in Workers, CommitEntry(w)
    PROVE  IInv'
<1> DEFINE r == req[w]
           Points == r.want = r.seen \/ r.want = Nowhere \/ Exists(r.want)
<1>1. CASE ~Points
  BY <1>1, EndKeeps DEF CommitEntry
<1>2. CASE Points
  <2>1. /\ entries' = [entries EXCEPT ![r.id] = Column(@, r.seen, r.want)]
        /\ Ends(w) /\ UNCHANGED <<nodes, edges, services>>
    BY <1>2 DEF CommitEntry
  <2>2. r.id \in Entries /\ r.want \in Nodes \cup {Nowhere}
    BY DEF CommitEntry, IInv, Fits, EntryFits
  <2>3. entries'[r.id] = entries[r.id] \/ r.want = Nowhere \/ Exists(r.want)
    BY <1>2, <2>1, <2>2 DEF Column, IInv, TableInv, TypeOK
  <2>4. entries'[r.id] \in {entries[r.id], r.want}
    BY <2>1, <2>2 DEF Column, IInv, TableInv, TypeOK
  <2>5. TypeOK'
    BY <2>1, <2>2, RequestsTyped DEF Column, IInv, TableInv, TypeOK
  <2>6. EntriesPoint'
    BY <2>1, <2>2, <2>3, <2>4, NetworkNullsAssumption
    DEF IInv, TableInv, TypeOK, EntriesPoint, Exists
  <2>7. EdgesJoin' /\ NodesSteady /\ EdgesSteady
    BY <2>1 DEF IInv, TableInv, EdgesJoin, Joins, NodesSteady, EdgesSteady
  <2> QED BY <2>1, <2>5, <2>6, <2>7, WriteKeeps DEF TableInv
<1> QED BY <1>1, <1>2

\* A node takes with it the paths at both ends, its services and the mention
\* of it in the kill chain.
LEMMA NodeDeleted ==
    ASSUME IInv, NEW w \in Workers, NEW n \in Nodes, Ends(w),
           nodes' = [nodes EXCEPT ![n] = Deleted],
           edges' = [e \in Edges |-> IF e \in LostEdges(n) THEN Deleted ELSE edges[e]],
           services' = [s \in Services |-> IF services[s] = n THEN Deleted ELSE services[s]],
           entries' = [x \in Entries |-> EntryWithout(x, n)]
    PROVE  IInv'
<1>0. TableInv
  BY DEF IInv
<1>1. TypeOK'
  BY <1>0, RequestsTyped DEF TableInv, TypeOK, EntryWithout, Gone
<1>2. ASSUME NEW e \in Edges, edges'[e] \in Path
      PROVE  edges'[e] = edges[e] /\ n \notin EndsOf(edges[e])
  BY <1>2, NetworkNullsAssumption DEF LostEdges, EndsOf, Gone
<1>3. EdgesJoin'
  BY <1>0, <1>2 DEF TableInv, TypeOK, EdgesJoin, Joins, EndsOf, Path
<1>4. EntriesPoint'
  BY <1>0, NetworkNullsAssumption DEF TableInv, TypeOK, EntriesPoint, EntryWithout, Exists
<1>5. NodesSteady
  BY <1>0 DEF TableInv, TypeOK, NodesSteady
<1>6. EdgesSteady
  BY <1>2, NetworkNullsAssumption DEF EdgesSteady
<1> QED BY <1>1, <1>3, <1>4, <1>5, <1>6, WriteKeeps DEF TableInv

LEMMA DeleteCommitKeeps ==
    ASSUME IInv, NEW w \in Workers, DeleteCommit(w)
    PROVE  IInv'
<1> DEFINE i == req[w].id
<1>0. TableInv /\ Ends(w) /\ req' \in [Workers -> Request]
  BY RequestsTyped DEF DeleteCommit, IInv
<1>1. CASE i \in Nodes /\ UNCHANGED tables
  BY <1>0, <1>1, TablesAlone, WriteKeeps
<1>2. ASSUME i \in Edges, edges' = [edges EXCEPT ![i] = Deleted],
             UNCHANGED <<nodes, services, entries>>
      PROVE  IInv'
  <2>1. TypeOK' /\ EdgesJoin' /\ EntriesPoint'
    BY <1>0, <1>2, NetworkNullsAssumption
    DEF TableInv, TypeOK, EdgesJoin, EntriesPoint, Joins, Exists, Gone
  <2>2. NodesSteady /\ EdgesSteady
    BY <1>0, <1>2, NetworkNullsAssumption
    DEF TableInv, TypeOK, NodesSteady, EdgesSteady, Gone
  <2> QED BY <1>0, <2>1, <2>2, WriteKeeps DEF TableInv
<1>3. ASSUME i \in Services, services' = [services EXCEPT ![i] = Deleted],
             UNCHANGED <<nodes, edges, entries>>
      PROVE  IInv'
  <2>1. TypeOK' /\ EdgesJoin' /\ EntriesPoint'
    BY <1>0, <1>3 DEF TableInv, TypeOK, EdgesJoin, EntriesPoint, Joins, Exists, Gone
  <2>2. NodesSteady /\ EdgesSteady
    BY <1>3 DEF NodesSteady, EdgesSteady
  <2> QED BY <1>0, <2>1, <2>2, WriteKeeps DEF TableInv
<1>4. CASE i \in Nodes /\ Exists(i) /\ nodes' = [nodes EXCEPT ![i] = Deleted]
           /\ edges' = [e \in Edges |-> IF e \in LostEdges(i) THEN Deleted ELSE edges[e]]
           /\ services' = [s \in Services |-> IF services[s] = i THEN Deleted ELSE services[s]]
           /\ entries' = [x \in Entries |-> EntryWithout(x, i)]
  <2> HIDE DEF i
  <2> QED BY <1>0, <1>4, NodeDeleted
<1> QED BY <1>1, <1>2, <1>3, <1>4 DEF DeleteCommit

-----------------------------------------------------------------------------
(* The theorems.                                                           *)

LEMMA InfrastructureKeeps ==
    ASSUME IInv, NEW w \in Workers, Infrastructure(w)
    PROVE  IInv'
<1> USE DEF Panes
<1>1. CASE CreateEdge(w) \/ ApiCreateEdge(w)
  BY <1>1, AddsEdgeKeeps DEF CreateEdge, ApiCreateEdge
<1>2. ASSUME NEW n \in Nodes, CreateNode(w, n) \/ ApiCreateNode(w, n) PROVE IInv'
  BY <1>2, AddsNodeKeeps DEF CreateNode, ApiCreateNode
<1>3. ASSUME NEW n \in Nodes, EditNode(w, n) \/ UpdateNode(w, n) PROVE IInv'
  BY <1>3, EditsNodeKeeps DEF EditNode, UpdateNode
<1>4. ASSUME NEW n \in Nodes, DeleteNode(w, n) \/ ApiDeleteNode(w, n) PROVE IInv'
  BY <1>4, DeletesKeeps DEF DeleteNode, ApiDeleteNode, Ids
<1>5. ASSUME NEW n \in Nodes, CreateService(w, n) \/ ApiCreateService(w, n) PROVE IInv'
  BY <1>5, AddsServiceKeeps DEF CreateService, ApiCreateService
<1>6. ASSUME NEW e \in Edges, EditEdge(w, e) PROVE IInv'
  <2> DEFINE ends == PathsOf(Attacker)
  <2>1. ends \subseteq Patched(edges[e], Attacker) /\ EditsEdge(w, e, Attacker, ends)
    BY <1>6 DEF EditEdge, Patched
  <2> HIDE DEF ends
  <2> QED BY <2>1, EditsEdgeKeeps
<1>7. ASSUME NEW e \in Edges, UpdateEdge(w, e) PROVE IInv'
  <2> DEFINE ends == Patched(edges[e], Attacker)
  <2>1. EditsEdge(w, e, Attacker, ends)
    BY <1>7 DEF UpdateEdge
  <2> QED BY <2>1, EditsEdgeKeeps
<1>8. ASSUME NEW e \in Edges, DeleteEdge(w, e) \/ ApiDeleteEdge(w, e) PROVE IInv'
  BY <1>8, DeletesKeeps DEF DeleteEdge, ApiDeleteEdge, DeletesEdge, Ids
<1>9. ASSUME NEW s \in Services, DeleteService(w, s) \/ ApiDeleteService(w, s) PROVE IInv'
  BY <1>9, DeletesKeeps DEF DeleteService, ApiDeleteService, DeletesService, Ids
<1> QED BY <1>1, <1>2, <1>3, <1>4, <1>5, <1>6, <1>7, <1>8, <1>9 DEF Infrastructure

LEMMA TargetsKeeps ==
    ASSUME IInv, NEW w \in Workers, Targets(w)
    PROVE  IInv'
<1> USE DEF Panes
<1>1. CASE CreateTargetEdge(w) \/ ApiCreateTargetEdge(w)
  BY <1>1, AddsEdgeKeeps DEF CreateTargetEdge, ApiCreateTargetEdge
<1>2. ASSUME NEW n \in Nodes,
             CreateTarget(w, n) \/ ApiCreateTarget(w, n) \/ ResolveOriginNode(w, n)
      PROVE  IInv'
  BY <1>2, AddsNodeKeeps DEF CreateTarget, ApiCreateTarget, ResolveOriginNode
<1>3. ASSUME NEW n \in Nodes, EditTarget(w, n) \/ UpdateTarget(w, n) PROVE IInv'
  BY <1>3, EditsNodeKeeps DEF EditTarget, UpdateTarget
<1>4. ASSUME NEW n \in Nodes, DeleteTarget(w, n) \/ ApiDeleteTarget(w, n) PROVE IInv'
  BY <1>4, DeletesKeeps DEF DeleteTarget, ApiDeleteTarget, Ids
<1>5. ASSUME NEW e \in Edges, EditTargetEdge(w, e) PROVE IInv'
  <2> DEFINE ends == PathsOf(Target)
  <2>1. ends \subseteq Patched(edges[e], Target) /\ EditsEdge(w, e, Target, ends)
    BY <1>5 DEF EditTargetEdge, Patched
  <2> HIDE DEF ends
  <2> QED BY <2>1, EditsEdgeKeeps
<1>6. ASSUME NEW e \in Edges, UpdateTargetEdge(w, e) PROVE IInv'
  <2> DEFINE ends == Patched(edges[e], Target)
  <2>1. EditsEdge(w, e, Target, ends)
    BY <1>6 DEF UpdateTargetEdge
  <2> QED BY <2>1, EditsEdgeKeeps
<1>7. ASSUME NEW e \in Edges, DeleteTargetEdge(w, e) \/ ApiDeleteTargetEdge(w, e)
      PROVE  IInv'
  BY <1>7, DeletesKeeps DEF DeleteTargetEdge, ApiDeleteTargetEdge, DeletesEdge, Ids
<1> QED BY <1>1, <1>2, <1>3, <1>4, <1>5, <1>6, <1>7 DEF Targets

LEMMA StepKeeps == IInv /\ [Next]_vars => IInv'
<1> SUFFICES ASSUME IInv, [Next]_vars PROVE IInv'
  OBVIOUS
<1>1. CASE UNCHANGED vars
  BY <1>1 DEF vars, tables, IInv, TableInv, TypeOK, EdgesJoin, EntriesPoint, Joins, Exists,
              Fits, NodeFits, NewPathFits, OldPathFits, ServiceFits, EntryFits
<1>2. CASE Restart
  BY <1>2, RestartKeeps
<1>3. ASSUME NEW w \in Workers, Commit(w) PROVE IInv'
  BY <1>3, CommitNodeKeeps, CommitEdgeKeeps, CommitServiceKeeps, CommitEntryKeeps,
     DeleteCommitKeeps DEF Commit
<1>4. ASSUME NEW w \in Workers, Infrastructure(w) \/ Targets(w) PROVE IInv'
  BY <1>4, InfrastructureKeeps, TargetsKeeps
<1>5. ASSUME NEW w \in Workers, NEW x \in Entries, EditEntry(w, x) PROVE IInv'
  BY <1>5, EditEntryKeeps
<1> QED BY <1>1, <1>2, <1>3, <1>4, <1>5 DEF Next

\* Ends joined on one pane are what the pages need.
LEMMA JoinedStayInPane == TableInv => PathsStayInPane
<1> SUFFICES ASSUME TableInv PROVE PathsStayInPane
  OBVIOUS
<1>1. ASSUME NEW e \in Edges, edges[e] \in Path
      PROVE  /\ EdgeForm(e) # TargetEdgeForm(e)
             /\ \A n \in {edges[e].source, edges[e].target} :
                   EdgeForm(e) = NodeForm(n) /\ TargetEdgeForm(e) = TargetForm(n)
  <2>1. PICK p \in Panes : Joins(edges[e], p)
    BY <1>1 DEF TableInv, EdgesJoin
  <2>2. EdgeForm(e) <=> p = Attacker
    BY <1>1, <2>1 DEF EdgeForm, AttackerEdges, EdgesAmong, AttackerNodes, Joins, Path
  <2>3. TargetEdgeForm(e) <=> p = Target
    BY <1>1, <2>1 DEF TargetEdgeForm, TargetEdges, EdgesAmong, TargetNodes, Joins, Path
  <2>4. ASSUME NEW n \in {edges[e].source, edges[e].target}
        PROVE  (NodeForm(n) <=> p = Attacker) /\ (TargetForm(n) <=> p = Target)
    BY <1>1, <2>1 DEF NodeForm, TargetForm, AttackerNodes, TargetNodes, Joins, Path
  <2> QED BY <2>1, <2>2, <2>3, <2>4, NetworkNullsAssumption
          DEF Panes, EdgeForm, TargetEdgeForm, NodeForm, TargetForm
<1>2. Graph.ends \subseteq Graph.nodes
  BY DEF Graph, TableInv, EdgesJoin, Joins, Exists, Path
<1>3. Graph.killchain \subseteq Graph.nodes
  BY DEF Graph, TableInv, TypeOK, EntriesPoint
<1> QED BY <1>1, <1>2, <1>3 DEF PathsStayInPane

\* The inductive invariant holds of every behaviour.
THEOREM NetworkInvariant == Spec => []IInv
BY InitInv, StepKeeps, PTL DEF Spec

\* The tables and the requests keep their types: what a form, a PATCH or an
\* upload commits is a row of the right kind.
THEOREM NetworkTypeCorrect == Spec => []TypeOK
<1>1. IInv => TypeOK
  BY DEF IInv, TableInv
<1> QED BY <1>1, NetworkInvariant, PTL

\* However many threads create, edit and delete nodes and paths of both panes,
\* no path ever joins the panes or an end that is gone.
THEOREM PanesStayApart == Spec => []PathsStayInPane
<1>1. IInv => PathsStayInPane
  BY JoinedStayInPane DEF IInv
<1> QED BY <1>1, NetworkInvariant, PTL

-----------------------------------------------------------------------------
(* Paths from a node to itself.                                            *)

\* The ends a request asks for differ, or it is a PATCH that names neither.
Differ(w) ==
    LET r == req[w] IN
    r.op = "edge" => r.want.source # r.want.target \/ (r.id # Unborn /\ r.want = r.seen)

LEMMA DifferWhenLoaded ==
    ASSUME TypeOK, NEW v \in Workers, NEW o, NEW i, NEW s, NEW n, Loads(v, o, i, s, n),
           o = "edge" => n.source # n.target \/ (i # Unborn /\ n = s),
           \A w \in Workers : Differ(w)
    PROVE  \A w \in Workers : Differ(w)'
<1> DEFINE r == [op |-> o, id |-> i, seen |-> s, want |-> n]
<1>1. /\ req'[v] = r /\ \A w \in Workers \ {v} : req'[w] = req[w]
      /\ r.op = o /\ r.id = i /\ r.seen = s /\ r.want = n
  BY DEF Loads, TypeOK
<1> QED BY <1>1 DEF Differ

LEMMA DifferKept ==
    ASSUME TypeOK, [Next]_vars, \A w \in Workers : Differ(w)
    PROVE  \A w \in Workers : Differ(w)'
<1>1. CASE req' = req
  BY <1>1 DEF Differ
<1>2. ASSUME NEW v \in Workers, Ends(v) PROVE \A w \in Workers : Differ(w)'
  BY <1>2 DEF Ends, Differ, Idle, TypeOK
<1>3. CASE Restart
  BY <1>3 DEF Restart, Differ, Idle
<1>4. ASSUME NEW v \in Workers, NEW o \in {"node", "service", "entry", "delete"},
             NEW i, NEW s, NEW n, Loads(v, o, i, s, n)
      PROVE  \A w \in Workers : Differ(w)'
  BY <1>4, DifferWhenLoaded
<1>5. ASSUME NEW v \in Workers, Commit(v) PROVE \A w \in Workers : Differ(w)'
  <2>1. Ends(v)
    BY <1>5 DEF Commit, CommitNode, CommitEdge, CommitService, CommitEntry, DeleteCommit,
                EndsWithout
  <2> QED BY <1>2, <2>1
<1>6. ASSUME NEW v \in Workers, NEW p, AddsEdge(v, p) PROVE \A w \in Workers : Differ(w)'
  <2>1. PICK c \in PathsOf(p) : Loads(v, "edge", Unborn, Unborn, c)
    BY <1>6 DEF AddsEdge
  <2>2. c.source # c.target
    BY DEF PathsOf, Joinable
  <2> QED BY <2>1, <2>2, DifferWhenLoaded
<1>7. ASSUME NEW v \in Workers, NEW e \in Edges, NEW p, EditsEdge(v, e, p, Patched(edges[e], p))
      PROVE  \A w \in Workers : Differ(w)'
  <2>1. PICK c \in Patched(edges[e], p) : Loads(v, "edge", e, edges[e], c)
    BY <1>7 DEF EditsEdge
  <2>2. c.source # c.target \/ c = edges[e]
    BY DEF Patched, PathsOf, Joinable
  <2>3. e # Unborn
    BY NetworkNullsAssumption DEF Ids, Gone
  <2>4. PICK s : s = edges[e]
    OBVIOUS
  <2> QED BY <2>1, <2>2, <2>3, <2>4, DifferWhenLoaded
<1>8. ASSUME NEW v \in Workers, NEW e \in Edges, NEW p, EditsEdge(v, e, p, PathsOf(p))
      PROVE  \A w \in Workers : Differ(w)'
  BY <1>7, <1>8 DEF EditsEdge, Patched
<1>9. ASSUME NEW v \in Workers, Infrastructure(v) PROVE \A w \in Workers : Differ(w)'
  <2>1. ASSUME NEW n \in Nodes,
               \/ CreateNode(v, n) \/ ApiCreateNode(v, n) \/ EditNode(v, n) \/ UpdateNode(v, n)
               \/ DeleteNode(v, n) \/ ApiDeleteNode(v, n)
               \/ CreateService(v, n) \/ ApiCreateService(v, n)
        PROVE  \A w \in Workers : Differ(w)'
    BY <1>1, <1>4, <2>1 DEF CreateNode, ApiCreateNode, AddsNode, EditNode, UpdateNode, EditsNode,
       DeleteNode, ApiDeleteNode, Deletes, CreateService, ApiCreateService, AddsService
  <2>2. ASSUME NEW e \in Edges,
               EditEdge(v, e) \/ UpdateEdge(v, e) \/ DeleteEdge(v, e) \/ ApiDeleteEdge(v, e)
        PROVE  \A w \in Workers : Differ(w)'
    BY <1>4, <1>7, <1>8, <2>2 DEF EditEdge, UpdateEdge, DeleteEdge, ApiDeleteEdge, DeletesEdge,
       Deletes
  <2>3. ASSUME NEW s \in Services, DeleteService(v, s) \/ ApiDeleteService(v, s)
        PROVE  \A w \in Workers : Differ(w)'
    BY <1>4, <2>3 DEF DeleteService, ApiDeleteService, DeletesService, Deletes
  <2> QED BY <1>6, <1>9, <2>1, <2>2, <2>3 DEF Infrastructure, CreateEdge, ApiCreateEdge
<1>10. ASSUME NEW v \in Workers, Targets(v) PROVE \A w \in Workers : Differ(w)'
  <2>1. ASSUME NEW n \in Nodes,
               \/ CreateTarget(v, n) \/ ApiCreateTarget(v, n) \/ ResolveOriginNode(v, n)
               \/ EditTarget(v, n) \/ UpdateTarget(v, n)
               \/ DeleteTarget(v, n) \/ ApiDeleteTarget(v, n)
        PROVE  \A w \in Workers : Differ(w)'
    BY <1>1, <1>4, <2>1 DEF CreateTarget, ApiCreateTarget, ResolveOriginNode, AddsNode,
       EditTarget, UpdateTarget, EditsNode, DeleteTarget, ApiDeleteTarget, Deletes
  <2>2. ASSUME NEW e \in Edges,
               \/ EditTargetEdge(v, e) \/ UpdateTargetEdge(v, e)
               \/ DeleteTargetEdge(v, e) \/ ApiDeleteTargetEdge(v, e)
        PROVE  \A w \in Workers : Differ(w)'
    BY <1>4, <1>7, <1>8, <2>2 DEF EditTargetEdge, UpdateTargetEdge, DeleteTargetEdge,
       ApiDeleteTargetEdge, DeletesEdge, Deletes
  <2> QED BY <1>6, <1>10, <2>1, <2>2 DEF Targets, CreateTargetEdge, ApiCreateTargetEdge
<1>11. ASSUME NEW v \in Workers, NEW x \in Entries, EditEntry(v, x)
       PROVE  \A w \in Workers : Differ(w)'
  <2>1. PICK s, n : Loads(v, "entry", x, s, n)
    BY <1>11 DEF EditEntry
  <2> QED BY <1>4, <2>1
<1>12. CASE UNCHANGED vars
  BY <1>1, <1>12 DEF vars
<1> QED BY <1>3, <1>5, <1>9, <1>10, <1>11, <1>12 DEF Next

LEMMA RequestsDiffer == Spec => [](\A w \in Workers : Differ(w))
<1>1. Init => \A w \in Workers : Differ(w)
  BY DEF Init, Idle, Differ
<1>2. IInv /\ (\A w \in Workers : Differ(w)) /\ [Next]_vars => (\A w \in Workers : Differ(w))'
  BY DifferKept DEF IInv, TableInv
<1> QED BY <1>1, <1>2, NetworkInvariant, PTL DEF Spec

\* A path comes to lead from a node to itself only by an edit that commits over
\* another one: its path is not the one it loaded any more.
THEOREM LoopsTakeTwoEdits == Spec => OnlyCrossedEditsLoop
<1> DEFINE Crossed(e) == \E w \in Workers : /\ req[w].op = "edge" /\ req[w].id = e
                                            /\ req[w].seen # edges[e]
           A == \A e \in Edges : ~IsLoop(e) /\ IsLoop(e)' => Crossed(e)
<1>1. ASSUME IInv, \A w \in Workers : Differ(w), [Next]_vars,
             NEW e \in Edges, ~IsLoop(e), IsLoop(e)'
      PROVE  Crossed(e)
  <2>1. edges'[e] \in Path /\ edges'[e].source = edges'[e].target /\ edges'[e] # edges[e]
    BY <1>1 DEF IsLoop
  <2>2. ~UNCHANGED edges
    BY <2>1
  <2>0. edges \in [Edges -> Path \cup Gone]
    BY <1>1 DEF IInv, TableInv, TypeOK
  <2>3. PICK v \in Workers : CommitEdge(v) \/ DeleteCommit(v) \/ CommitNode(v)
                             \/ CommitService(v) \/ CommitEntry(v)
    <3>1. ASSUME NEW v \in Workers, Infrastructure(v) \/ Targets(v) PROVE UNCHANGED edges
      BY <3>1 DEF Infrastructure, Targets, CreateEdge, ApiCreateEdge, AddsEdge, CreateNode,
         ApiCreateNode, AddsNode, EditNode, UpdateNode, EditsNode, DeleteNode, ApiDeleteNode,
         Deletes, CreateService, ApiCreateService, AddsService, EditEdge, UpdateEdge,
         EditsEdge, DeleteEdge, ApiDeleteEdge, DeletesEdge, DeleteService, ApiDeleteService,
         DeletesService, CreateTargetEdge, ApiCreateTargetEdge, CreateTarget,
         ApiCreateTarget, ResolveOriginNode, EditTarget, UpdateTarget, DeleteTarget,
         ApiDeleteTarget, EditTargetEdge, UpdateTargetEdge, DeleteTargetEdge,
         ApiDeleteTargetEdge, Loads, tables
    <3>2. ASSUME NEW v \in Workers, NEW x \in Entries, EditEntry(v, x) PROVE UNCHANGED edges
      BY <3>2 DEF EditEntry, Loads, tables
    <3>3. Restart \/ UNCHANGED vars => UNCHANGED edges
      BY DEF Restart, tables, vars
    <3> QED BY <1>1, <2>2, <3>1, <3>2, <3>3 DEF Next, Commit
  <2>4. CASE CommitNode(v) \/ CommitService(v) \/ CommitEntry(v)
    BY <2>2, <2>4 DEF CommitNode, CommitService, CommitEntry, EndsWithout, tables
  <2>5. CASE DeleteCommit(v)
    <3>1. edges'[e] \in {edges[e], Deleted}
      BY <2>0, <2>5 DEF DeleteCommit, tables
    <3> QED BY <2>1, <3>1, NetworkNullsAssumption DEF Gone
  <2>6. CASE CommitEdge(v)
    <3> DEFINE r == req[v]
    <3>1. CASE r.id = Unborn
      <4>1. PICK d \in Edges : edges' = [edges EXCEPT ![d] = r.want]
        BY <2>2, <2>6, <3>1 DEF CommitEdge, EndsWithout, tables
      <4>2. edges'[e] = r.want
        BY <2>0, <2>1, <4>1
      <4> QED BY <1>1, <2>1, <2>6, <3>1, <4>2 DEF CommitEdge, Differ
    <3>2. CASE r.id # Unborn
      <4>0. /\ edges[r.id] \in Path
            /\ edges' = [edges EXCEPT ![r.id] = Redirected(@, r.seen, r.want)]
        BY <2>2, <2>6, <3>2 DEF CommitEdge, EndsWithout, tables
      <4>1. /\ r.id = e /\ edges[e] \in Path
            /\ edges'[e] = Redirected(edges[e], r.seen, r.want)
        BY <2>0, <2>1, <4>0
      <4>2. r.seen = edges[e] => edges'[e].source = r.want.source /\ edges'[e].target = r.want.target
        BY <4>1 DEF Redirected, Column
      <4>3. r.seen = edges[e] => FALSE
        BY <1>1, <2>1, <2>6, <4>1, <4>2 DEF CommitEdge, Differ, IsLoop
      <4> QED BY <2>6, <4>1, <4>3 DEF CommitEdge
    <3> QED BY <3>1, <3>2
  <2> QED BY <2>3, <2>4, <2>5, <2>6
<1>2. IInv /\ (\A w \in Workers : Differ(w)) /\ [Next]_vars => [A]_vars
  BY <1>1
<1> QED BY <1>2, NetworkInvariant, RequestsDiffer, PTL DEF Spec, OnlyCrossedEditsLoop, A, Crossed
=============================================================================
