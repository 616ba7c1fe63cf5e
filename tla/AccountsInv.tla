----------------------------- MODULE AccountsInv ----------------------------
(***************************************************************************)
(* The inductive invariant behind the properties of Accounts: what each    *)
(* worker may rely on between its reads and its commit.                    *)
(***************************************************************************)
EXTENDS Accounts

\* What a worker knows at each step: past its load a row it read, of an account
\* that is still there, and before its commit the row it wants.
Aware(w) ==
    LET r == req[w]
        account == r.target \in Users /\ Exists(r.target) /\ r.seen \in User
    IN
    /\ r.step = "loaded" => account
    /\ r.step = "checked" => r.target \in Users /\ r.want \in User
    /\ r.op = "edit" /\ r.step \in {"checked", "synced"} => account /\ r.want \in User
    /\ r.op = "deactivate" /\ r.step = "checked" => account
    /\ r.step = "synced" => r.op = "edit"

TypeInv == TypeOK /\ \A w \in Workers : Aware(w)

\* How a request came about: behind a gate there is an account already, and
\* the row it wants differs from the loaded one only where its form says so.
Founded(w) ==
    LET r == req[w] IN
    /\ r.step = "gated" => \E u \in Users : Exists(u)
    /\ r.op = "setup" => r.step = "checked" /\ r.want = NewUser("admin")
    /\ r.op = "create" /\ r.step = "checked" =>
          /\ \E u \in Users : Exists(u)
          /\ \E role \in Roles : r.want = NewUser(role)
    /\ r.op \in {"edit", "deactivate"} /\ r.step \in {"checked", "synced"} =>
          /\ r.want.password = r.seen.password
          /\ r.want.mustChange = r.seen.mustChange

\* What still holds of a worker's reads while nobody has overtaken them: the
\* row is as loaded, and if it takes an active admin away another one exists.
Fresh(w) ==
    LET r == req[w] IN
    /\ r.op \in {"edit", "deactivate", "reset"}
       /\ r.step \in {"loaded", "checked", "synced"} => users[r.target] = r.seen
    /\ /\ r.op \in {"edit", "deactivate"}
       /\ r.step \in {"checked", "synced"}
       /\ r.seen.role = "admin"
       /\ r.want.role # "admin" \/ ~r.want.active
       => OtherActiveAdmins(r.target)

\* The first account came with the settings row.
SettingComesFirst == (\E u \in Users : Exists(u)) => setting

IInv == /\ TypeInv
        /\ SettingComesFirst
        /\ AdminRemainsUnlessRaced
        /\ TemporaryIsForcedUnlessRaced
        /\ \A w \in Workers : Founded(w) /\ (raced \/ stale[w] \/ Fresh(w))
=============================================================================
