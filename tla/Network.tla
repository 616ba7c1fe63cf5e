------------------------------ MODULE Network -------------------------------
(***************************************************************************)
(* The network of an engagement: nodes on one of two panes, attacker-owned *)
(* infrastructure or targets and victims, their services, the network      *)
(* paths (edges) between nodes of a pane, and the node a kill chain entry  *)
(* happened on.  Four blueprints, two of forms and two under /api/v1, keep *)
(* the panes apart by checks on rows they do not lock; the foreign keys    *)
(* cascade (services, edges) or set NULL (kill chain entries).             *)
(***************************************************************************)
EXTENDS OrmSession

CONSTANTS Nodes, Edges, Services, Entries, Workers,
          Attacker, Target,  \* the panes: TARGET_ROLES, every other role or none
          Unborn, Deleted,   \* an id not handed out yet, or handed out and gone
          Nowhere            \* NULL in infra_node_id

VARIABLES nodes,      \* the pane of each node: its role, as far as it matters
          edges,
          services,   \* the node of each service
          entries,    \* infra_node_id of the kill chain entries
          req         \* the row each worker has loaded, and what it assigned

tables == <<nodes, edges, services, entries>>
vars == <<tables, req>>

Panes == {Attacker, Target}
Path == [source : Nodes, target : Nodes]
Gone == {Unborn, Deleted}
Ids == Nodes \cup Edges \cup Services \cup Entries

ASSUME NetworkNullsAssumption ==
    /\ Gone \cap (Panes \cup Path \cup Ids) = {}
    /\ Unborn # Deleted
    /\ Attacker # Target
    /\ Nowhere \notin Nodes

Values == Panes \cup Path \cup Nodes \cup {Nowhere}

\* An insertion has no id yet: Unborn.
Request == [op : {"none", "node", "edge", "service", "entry", "delete"},
            id : Ids \cup {Unborn}, seen : Values \cup {Unborn},
            want : Values \cup {Unborn}]

Idle == [op |-> "none", id |-> Unborn, seen |-> Unborn, want |-> Unborn]

TypeOK == /\ nodes \in [Nodes -> Panes \cup Gone]
          /\ edges \in [Edges -> Path \cup Gone]
          /\ services \in [Services -> Nodes \cup Gone]
          /\ entries \in [Entries -> Nodes \cup {Nowhere}]
          /\ req \in [Workers -> Request]

Init == /\ nodes = [n \in Nodes |-> Unborn]
        /\ edges = [e \in Edges |-> Unborn]
        /\ services = [s \in Services |-> Unborn]
        /\ entries = [x \in Entries |-> Nowhere]
        /\ req = [w \in Workers |-> Idle]

Exists(n) == nodes[n] \in Panes

\* Worker w has loaded `seen` and assigned `new`.
Loads(w, o, i, seen, new) ==
    /\ req[w] = Idle
    /\ req' = [req EXCEPT ![w] = [op |-> o, id |-> i, seen |-> seen, want |-> new]]
    /\ UNCHANGED tables

Ends(w) == req' = [req EXCEPT ![w] = Idle]

\* The request ends in an error, or with a row of the activity log only.
EndsWithout(w) == Ends(w) /\ UNCHANGED tables

-----------------------------------------------------------------------------
(* Nodes.                                                                  *)

\* One INSERT, with a role of the pane.
AddsNode(w, n, p) ==
    /\ req[w] = Idle
    /\ nodes[n] = Unborn
    /\ nodes' = [nodes EXCEPT ![n] = p]
    /\ UNCHANGED <<edges, services, entries, req>>

CreateNode(w, n) == AddsNode(w, n, Attacker)
ApiCreateNode(w, n) == AddsNode(w, n, Attacker)
CreateTarget(w, n) == AddsNode(w, n, Target)
ApiCreateTarget(w, n) == AddsNode(w, n, Target)

\* An upload whose origin is the name of no node yet adds a target by that name.
ResolveOriginNode(w, n) == AddsNode(w, n, Target)

\* Slip: a pane's route edits whatever node it is asked to.
AnyNode(n, p) == Exists(n)

\* The edit of pane p takes nodes of that pane only.
Editable(n, p) == nodes[n] = p

\* The role assigned is one of the pane's own.
EditsNode(w, n, p) == Editable(n, p) /\ Loads(w, "node", n, nodes[n], p)

EditNode(w, n) == EditsNode(w, n, Attacker)
UpdateNode(w, n) == EditsNode(w, n, Attacker)
EditTarget(w, n) == EditsNode(w, n, Target)
UpdateTarget(w, n) == EditsNode(w, n, Target)

\* An UPDATE that finds its row deleted is an error.
CommitNode(w) ==
    LET r == req[w] IN
    /\ r.op = "node"
    /\ IF Exists(r.id)
       THEN /\ nodes' = [nodes EXCEPT ![r.id] = Column(@, r.seen, r.want)]
            /\ Ends(w)
            /\ UNCHANGED <<edges, services, entries>>
       ELSE EndsWithout(w)

-----------------------------------------------------------------------------
(* Edges.                                                                  *)

\* Slip: no look at whether the two ends are the same node.
EndsOfPane(s, t, p) == nodes[s] = p /\ nodes[t] = p

\* _resolve_edge_nodes: two different nodes, both of pane p.
Joinable(s, t, p) == s # t /\ nodes[s] = p /\ nodes[t] = p

PathsOf(p) == {c \in Path : Joinable(c.source, c.target, p)}

AddsEdge(w, p) == \E c \in PathsOf(p) : Loads(w, "edge", Unborn, Unborn, c)

CreateEdge(w) == AddsEdge(w, Attacker)
ApiCreateEdge(w) == AddsEdge(w, Attacker)
CreateTargetEdge(w) == AddsEdge(w, Target)
ApiCreateTargetEdge(w) == AddsEdge(w, Target)

\* The edge loaded has both ends on pane p.
EditsEdge(w, e, p, ends) ==
    /\ edges[e] \in Path
    /\ nodes[edges[e].source] = p /\ nodes[edges[e].target] = p
    /\ \E c \in ends : Loads(w, "edge", e, edges[e], c)

EditEdge(w, e) == EditsEdge(w, e, Attacker, PathsOf(Attacker))
EditTargetEdge(w, e) == EditsEdge(w, e, Target, PathsOf(Target))

\* A PATCH may name one end, and the other is taken from the row as it was
\* loaded; or neither, and nothing of the path is looked at or assigned.
Patched(c, p) == PathsOf(p) \cup {c}

UpdateEdge(w, e) == EditsEdge(w, e, Attacker, Patched(edges[e], Attacker))
UpdateTargetEdge(w, e) == EditsEdge(w, e, Target, Patched(edges[e], Target))

\* The row after an edit: each end is sent if it differs from the one loaded.
Redirected(cur, seen, new) ==
    [source |-> Column(cur.source, seen.source, new.source),
     target |-> Column(cur.target, seen.target, new.target)]

\* The foreign keys refuse an end that was deleted since it was checked, and an
\* UPDATE does not find an edge that went with its node.
CommitEdge(w) ==
    LET r == req[w]
        Kept(c) == Exists(c.source) /\ Exists(c.target)
    IN /\ r.op = "edge"
       /\ \/ /\ r.id = Unborn /\ Kept(r.want)
             /\ \E e \in Edges : edges[e] = Unborn /\ edges' = [edges EXCEPT ![e] = r.want]
             /\ Ends(w)
             /\ UNCHANGED <<nodes, services, entries>>
          \/ /\ r.id # Unborn /\ edges[r.id] \in Path
             /\ Kept(Redirected(edges[r.id], r.seen, r.want))
             /\ edges' = [edges EXCEPT ![r.id] = Redirected(@, r.seen, r.want)]
             /\ Ends(w)
             /\ UNCHANGED <<nodes, services, entries>>
          \/ /\ \/ r.id = Unborn /\ ~Kept(r.want)
                \/ r.id # Unborn /\ edges[r.id] \notin Path
                \/ r.id # Unborn /\ edges[r.id] \in Path
                   /\ ~Kept(Redirected(edges[r.id], r.seen, r.want))
             /\ EndsWithout(w)

-----------------------------------------------------------------------------
(* Services and kill chain entries.                                        *)

\* A service may be added to a node of either pane.
AddsService(w, n) == Exists(n) /\ Loads(w, "service", Unborn, Unborn, n)

CreateService(w, n) == AddsService(w, n)
ApiCreateService(w, n) == AddsService(w, n)

CommitService(w) ==
    /\ req[w].op = "service"
    /\ IF Exists(req[w].want)
       THEN /\ \E s \in Services : /\ services[s] = Unborn
                                   /\ services' = [services EXCEPT ![s] = req[w].want]
            /\ Ends(w)
            /\ UNCHANGED <<nodes, edges, entries>>
       ELSE EndsWithout(w)

\* The node a client names for an entry is not looked up: the foreign key does.
EditEntry(w, x) ==
    \E n \in Nodes \cup {Nowhere} : Loads(w, "entry", x, entries[x], n)

CommitEntry(w) ==
    LET r == req[w] IN
    /\ r.op = "entry"
    /\ IF r.want = r.seen \/ r.want = Nowhere \/ Exists(r.want)
       THEN /\ entries' = [entries EXCEPT ![r.id] = Column(@, r.seen, r.want)]
            /\ Ends(w)
            /\ UNCHANGED <<nodes, edges, services>>
       ELSE EndsWithout(w)

-----------------------------------------------------------------------------
(* Deletions.                                                              *)

Deletes(w, i) == Loads(w, "delete", i, Unborn, Unborn)

\* first_or_404.  The infrastructure routes delete nodes of either pane, the
\* targets routes targets only; both delete edges of either pane.
DeleteNode(w, n) == Exists(n) /\ Deletes(w, n)
ApiDeleteNode(w, n) == Exists(n) /\ Deletes(w, n)
DeleteTarget(w, n) == nodes[n] = Target /\ Deletes(w, n)
ApiDeleteTarget(w, n) == nodes[n] = Target /\ Deletes(w, n)

DeletesEdge(w, e) == edges[e] \in Path /\ Deletes(w, e)
DeleteEdge(w, e) == DeletesEdge(w, e)
ApiDeleteEdge(w, e) == DeletesEdge(w, e)
DeleteTargetEdge(w, e) == DeletesEdge(w, e)
ApiDeleteTargetEdge(w, e) == DeletesEdge(w, e)

DeletesService(w, s) == services[s] \in Nodes /\ Deletes(w, s)
DeleteService(w, s) == DeletesService(w, s)
ApiDeleteService(w, s) == DeletesService(w, s)

\* Slip: the edges that lead to the node stay.
LostBySource(n) == {e \in Edges : edges[e] \in Path /\ edges[e].source = n}

\* ON DELETE CASCADE, for both ends.
LostEdges(n) == {e \in Edges : edges[e] \in Path /\ n \in {edges[e].source, edges[e].target}}

\* Slip: ON DELETE CASCADE for the kill chain as well.
GoneWith(x, n) == IF entries[x] = n THEN Deleted ELSE entries[x]

\* ON DELETE SET NULL.
EntryWithout(x, n) == IF entries[x] = n THEN Nowhere ELSE entries[x]

\* A DELETE that finds its row gone is a warning.
DeleteCommit(w) ==
    LET i == req[w].id IN
    /\ req[w].op = "delete"
    /\ \/ /\ i \in Nodes /\ Exists(i)
          /\ nodes' = [nodes EXCEPT ![i] = Deleted]
          /\ edges' = [e \in Edges |-> IF e \in LostEdges(i) THEN Deleted ELSE edges[e]]
          /\ services' = [s \in Services |-> IF services[s] = i THEN Deleted ELSE services[s]]
          /\ entries' = [x \in Entries |-> EntryWithout(x, i)]
       \/ /\ i \in Nodes /\ ~Exists(i)
          /\ UNCHANGED tables
       \/ /\ i \in Edges
          /\ edges' = [edges EXCEPT ![i] = Deleted]
          /\ UNCHANGED <<nodes, services, entries>>
       \/ /\ i \in Services
          /\ services' = [services EXCEPT ![i] = Deleted]
          /\ UNCHANGED <<nodes, edges, entries>>
    /\ Ends(w)

\* The process is restarted: open transactions are rolled back.
Restart == /\ \E w \in Workers : req[w] # Idle
           /\ req' = [w \in Workers |-> Idle]
           /\ UNCHANGED tables

Infrastructure(w) ==
    \/ CreateEdge(w) \/ ApiCreateEdge(w)
    \/ \E n \in Nodes : \/ CreateNode(w, n) \/ ApiCreateNode(w, n)
                       \/ EditNode(w, n) \/ UpdateNode(w, n)
                       \/ DeleteNode(w, n) \/ ApiDeleteNode(w, n)
                       \/ CreateService(w, n) \/ ApiCreateService(w, n)
    \/ \E e \in Edges : \/ EditEdge(w, e) \/ UpdateEdge(w, e)
                       \/ DeleteEdge(w, e) \/ ApiDeleteEdge(w, e)
    \/ \E s \in Services : DeleteService(w, s) \/ ApiDeleteService(w, s)

Targets(w) ==
    \/ CreateTargetEdge(w) \/ ApiCreateTargetEdge(w)
    \/ \E n \in Nodes : \/ CreateTarget(w, n) \/ ApiCreateTarget(w, n)
                       \/ ResolveOriginNode(w, n)
                       \/ EditTarget(w, n) \/ UpdateTarget(w, n)
                       \/ DeleteTarget(w, n) \/ ApiDeleteTarget(w, n)
    \/ \E e \in Edges : \/ EditTargetEdge(w, e) \/ UpdateTargetEdge(w, e)
                       \/ DeleteTargetEdge(w, e) \/ ApiDeleteTargetEdge(w, e)

Commit(w) == \/ CommitNode(w) \/ CommitEdge(w) \/ CommitService(w)
             \/ CommitEntry(w) \/ DeleteCommit(w)

Next == \/ Restart
        \/ \E w \in Workers :
              \/ Infrastructure(w) \/ Targets(w) \/ Commit(w)
              \/ \E x \in Entries : EditEntry(w, x)

Spec == Init /\ [][Next]_vars

-----------------------------------------------------------------------------
(* What the pages show.                                                    *)

AttackerNodes == {n \in Nodes : nodes[n] = Attacker}
TargetNodes == {n \in Nodes : nodes[n] = Target}

\* The paths with both ends on the pane.
EdgesAmong(S) == {e \in Edges : /\ edges[e] \in Path
                               /\ {edges[e].source, edges[e].target} \subseteq S}
AttackerEdges == EdgesAmong(AttackerNodes)
TargetEdges == EdgesAmong(TargetNodes)

\* Whether a pane's form serves the path or the node: for what is not its own it
\* redirects to the form of the other pane (for nodes, the targets' form is a 404).
EdgeForm(e) == e \in AttackerEdges
TargetEdgeForm(e) == e \in TargetEdges
NodeForm(n) == n \in AttackerNodes
TargetForm(n) == n \in TargetNodes

\* The network map draws every node, path and entry of the engagement.
Graph == [nodes |-> {n \in Nodes : Exists(n)},
          ends |-> UNION {{edges[e].source, edges[e].target} :
                            e \in {d \in Edges : edges[d] \in Path}},
          killchain |-> {entries[x] : x \in Entries} \ {Nowhere}]

-----------------------------------------------------------------------------
(* Properties.                                                             *)

\* Every network path is listed on one of the panes and on one only, with the
\* form that edits it there and its ends beside it, and the map draws no path or
\* entry at a node it does not draw.  A path from pane to pane would be listed on
\* neither, and the two forms would redirect to each other forever: the check of
\* the ends and the commit are steps apart, and roles are assigned meanwhile.
PathsStayInPane ==
    /\ \A e \in Edges : edges[e] \in Path =>
          /\ EdgeForm(e) # TargetEdgeForm(e)
          /\ \A n \in {edges[e].source, edges[e].target} :
                EdgeForm(e) = NodeForm(n) /\ TargetEdgeForm(e) = TargetForm(n)
    /\ Graph.ends \cup Graph.killchain \subseteq Graph.nodes

IsLoop(e) == edges[e] \in Path /\ edges[e].source = edges[e].target

\* "Source and target must be different nodes": every request sees to it, and
\* still two edits that each move one end to the same node make a loop.  Only an
\* edit that loaded the path before another one changed it can.
OnlyCrossedEditsLoop ==
    [][\A e \in Edges : ~IsLoop(e) /\ IsLoop(e)' =>
          \E w \in Workers : /\ req[w].op = "edge" /\ req[w].id = e
                             /\ req[w].seen # edges[e]]_vars
=============================================================================
