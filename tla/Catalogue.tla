------------------------------ MODULE Catalogue -----------------------------
(***************************************************************************)
(* The local copy of the ATT&CK matrix and its refresh from a release: an  *)
(* upsert by ATT&CK id that deletes nothing.  A use of a technique lights  *)
(* its cell in the matrix, a use of a sub-technique its parent's.          *)
(***************************************************************************)
CONSTANTS Techniques,
          Parent,     \* the parent the id of each sub-technique names
          Releases,   \* what a refresh may fetch
          Threads, NoParent, NotRefreshing

Subs == DOMAIN Parent

\* The techniques a release lists (revoked and deprecated ones are skipped), and
\* those of them with a tactic it lists too.
Release == {r \in [lists : SUBSET Techniques, placed : SUBSET Techniques] :
              r.placed \subseteq r.lists}

ASSUME ReleasesAssumption ==
    /\ Releases \subseteq Release
    /\ Subs \subseteq Techniques
    /\ \A s \in Subs : Parent[s] \in Techniques \ Subs

ASSUME NoParentAssumption == NoParent \notin Techniques

VARIABLES known,     \* the technique rows
          placed,    \* those in a column: they have a tactic
          under,     \* the parent pointer of each sub-technique
          refresh    \* the refresh each thread is in

catalogueVars == <<known, placed, under, refresh>>

\* found, under: the rows and the parent pointers as the refresh read them.
Refresh == [release : Releases, found : SUBSET Techniques,
            under : [Subs -> (Techniques \ Subs) \cup {NoParent}]]

CatalogueTypeOK ==
    /\ placed \subseteq known /\ known \subseteq Techniques
    /\ \A s \in Subs : under[s] # NoParent => {s, under[s]} \subseteq known
    /\ refresh \in [Threads -> Refresh \cup {NotRefreshing}]

CatalogueInit == /\ known = {}
                 /\ placed = {}
                 /\ under = [s \in Subs |-> NoParent]
                 /\ refresh = [w \in Threads |-> NotRefreshing]

-----------------------------------------------------------------------------

\* A release is fetched and the row of each technique it lists looked up.
FetchRelease(w) ==
    /\ refresh[w] = NotRefreshing
    /\ \E r \in Releases :
         refresh' = [refresh EXCEPT ![w] = [release |-> r, under |-> under,
                                            found |-> known \cap r.lists]]
    /\ UNCHANGED <<known, placed, under>>

\* The parent a release gives a sub-technique: the one its id names, if listed.
ParentIn(r, s) == IF Parent[s] \in r.lists THEN Parent[s] ELSE NoParent

\* Slip: what the release does not list loses its parent.
UnderForgotten(f) ==
    [s \in Subs |-> IF s \in f.release.lists THEN ParentIn(f.release, s) ELSE NoParent]

\* The parent pointers after the refresh: of the techniques listed only, and of
\* a row that was there only if the pointer differs from the one read.
UnderAfter(f) ==
    [s \in Subs |->
        LET p == ParentIn(f.release, s) IN
        IF s \in f.release.lists /\ (s \in f.found => p # f.under[s])
        THEN p ELSE under[s]]

\* Everything is written in one transaction, which waits for that of another
\* refresh: a row both found missing violates the uniqueness of the ATT&CK id,
\* and the whole refresh fails.
SyncRelease(w) ==
    LET f == refresh[w] IN
    /\ f # NotRefreshing
    /\ refresh' = [refresh EXCEPT ![w] = NotRefreshing]
    /\ IF f.found = known \cap f.release.lists
       THEN /\ known' = known \cup f.release.lists
            /\ placed' = (placed \ f.release.lists) \cup f.release.placed
            /\ under' = UnderAfter(f)
       ELSE UNCHANGED <<known, placed, under>>

\* The cell a use of technique t lights, if any: its own, or its parent's.
Cell(t) == IF t \in Subs THEN under[t] ELSE t
OnMatrix(t) == Cell(t) \in placed
=============================================================================
