------------------------------ MODULE ApiKeys -------------------------------
(***************************************************************************)
(* The api_keys table and the gate in front of /api/v1.  The gate loads    *)
(* the key and its owner, COMMITS last_used_at in a transaction of its     *)
(* own, and lets the handler run in the next one: between the check of     *)
(* the key and the handler's commit, other requests may revoke the key or  *)
(* deactivate its owner.                                                   *)
(***************************************************************************)
EXTENDS OrmSession

CONSTANTS Users, Keys, Workers,
          Holders,    \* bound: the users who ever make API keys
          Visitors,   \* bound: the users who use the HTML interface
          Unissued,   \* no key with that id yet
          Nobody, NoKey

VARIABLES keys,       \* the api_keys table; rows are never deleted
          standing,   \* what the users table says of the holders
          caller      \* on whose behalf each worker is serving a request

\* last_used_at is written, and read by nothing but the list of keys.
Key == [owner : Holders, revoked : BOOLEAN]

ASSUME HoldersAssumption == Holders \cup Visitors \subseteq Users

ASSUME KeyNullsAssumption == Unissued \notin Key /\ NoKey \notin Keys
                             /\ Nobody \notin Users

NewKey(u) == [owner |-> u, revoked |-> FALSE]

Standing == [blueteam : BOOLEAN, active : BOOLEAN]

Caller == [step : {"none", "presented", "revoking", "admitted"},
           key : Keys \cup {NoKey}, user : Users \cup {Nobody},
           seen : Key \cup {Unissued}]

NoCaller == [step |-> "none", key |-> NoKey, user |-> Nobody, seen |-> Unissued]

\* Slip: the gate does not look at revoked_at.
IsKnown(k) == keys[k] # Unissued

IsActive(k) == keys[k] # Unissued /\ ~keys[k].revoked

Revoked(k) == keys[k] # Unissued /\ keys[k].revoked
OwnedBy(k, u) == keys[k] # Unissued /\ keys[k].owner = u

KeysTypeOK == /\ keys \in [Keys -> Key \cup {Unissued}]
              /\ standing \in [Holders -> Standing]
              /\ caller \in [Workers -> Caller]

KeysInit == /\ keys = [k \in Keys |-> Unissued]
            /\ standing = [u \in Holders |-> [blueteam |-> FALSE, active |-> TRUE]]
            /\ caller = [w \in Workers |-> NoCaller]

Calls(w, c) == caller' = [caller EXCEPT ![w] = c]
HangsUp(w) == Calls(w, NoCaller)

\* Slip: the session sends every column of the row it loaded.
KeyAsLoaded(cur, seen, new) == new

\* The key's row after a commit.
KeyAfter(cur, seen, new) ==
    [owner |-> cur.owner,
     revoked |-> Column(cur.revoked, seen.revoked, new.revoked)]

-----------------------------------------------------------------------------
\* POST /api-keys: one INSERT with a fresh random token.
Issue(u, k) == /\ keys[k] = Unissued
               /\ keys' = [keys EXCEPT ![k] = NewKey(u)]
               /\ UNCHANGED <<standing, caller>>

\* POST /api-keys/<id>/revoke, by the owner: an active key is given revoked_at.
RevokeLoad(w, k) ==
    /\ caller[w] = NoCaller
    /\ IsActive(k)
    /\ Calls(w, [step |-> "revoking", key |-> k, user |-> keys[k].owner,
                 seen |-> keys[k]])
    /\ UNCHANGED <<keys, standing>>

RevokeCommit(w) ==
    /\ caller[w].step = "revoking"
    /\ LET c == caller[w]
       IN keys' = [keys EXCEPT ![c.key] =
                      KeyAfter(@, c.seen, [c.seen EXCEPT !.revoked = TRUE])]
    /\ HangsUp(w)
    /\ UNCHANGED standing

\* A request under /api/v1: the key is looked up by its hash, then its owner.
\* A revoked or unknown key and a deactivated owner are refused.
Present(w, k) ==
    /\ caller[w] = NoCaller
    /\ IsActive(k)
    /\ standing[keys[k].owner].active
    /\ Calls(w, [step |-> "presented", key |-> k, user |-> keys[k].owner,
                 seen |-> keys[k]])
    /\ UNCHANGED <<keys, standing>>

\* last_used_at is committed; the owner's role is read again after it.  A
\* blueteam key may only read, and a read changes nothing more.
Admit(w) ==
    /\ caller[w].step = "presented"
    /\ LET c == caller[w]
       IN /\ keys' = [keys EXCEPT ![c.key] = KeyAfter(@, c.seen, c.seen)]
          /\ \/ HangsUp(w)
             \/ /\ ~standing[c.user].blueteam
                /\ Calls(w, [c EXCEPT !.step = "admitted", !.seen = Unissued])
    /\ UNCHANGED standing

\* A request of the HTML interface, under the cookie of user u.
SignedIn(u) == [NoCaller EXCEPT !.step = "admitted", !.user = u]

\* An admin edits or deactivates user u.
Administer(u) == /\ \E s \in Standing : standing' = [standing EXCEPT ![u] = s]
                 /\ UNCHANGED <<keys, caller>>

KeysStep(w) == RevokeCommit(w) \/ Admit(w)

KeysNext == \/ \E u \in Holders : \/ Administer(u)
                                  \/ \E k \in Keys : Issue(u, k)
            \/ \E w \in Workers : \/ KeysStep(w)
                                  \/ \E k \in Keys : RevokeLoad(w, k) \/ Present(w, k)
=============================================================================
