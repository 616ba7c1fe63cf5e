---------------------------- MODULE Credentials -----------------------------
(***************************************************************************)
(* Credentials of an engagement: rows whose secret columns are encrypted   *)
(* under the key of KeyStore.  A form or a JSON body fills every secret,   *)
(* blank ones with NULL.  Each secret that is not blank is encrypted with  *)
(* a key fetched for it.  Two secrets, the password and the TOTP secret,   *)
(* stand for the six; a loot file is encrypted like one secret.            *)
(***************************************************************************)
EXTENDS KeyStore, OrmSession

CONSTANTS Credentials,   \* bound: the row ids the sequence hands out
          Submissions,   \* the forms the clients send
          NoRow,         \* an id not handed out yet
          Deleted, Null

VARIABLES creds,   \* the credentials table
          req      \* what each worker is doing

vars == <<creds, req, keyVars>>

\* A ciphertext: the submission it came from and the key it is under.
Cipher == [from : Submissions, key : Keys]
Row == [password : Cipher \cup {Null}, totp : Cipher \cup {Null}]
Fields == {"password", "totp"}

ASSUME CredentialNullsAssumption == /\ Null \notin Cipher
                                    /\ {NoRow, Deleted} \cap Row = {} /\ NoRow # Deleted

BlankRow == [password |-> Null, totp |-> Null]

\* fields: the secrets not encrypted yet; want: the row as assigned so far.
Request == [op : {"none", "create", "edit", "reveal", "delete"},
            id : Credentials \cup {NoRow}, from : Submissions \cup {Null},
            fields : SUBSET Fields, seen : Row \cup {NoRow}, want : Row \cup {NoRow}]

Idle == [op |-> "none", id |-> NoRow, from |-> Null, fields |-> {},
         seen |-> NoRow, want |-> NoRow]

TypeOK == /\ KeyTypeOK
          /\ creds \in [Credentials -> Row \cup {NoRow, Deleted}]
          /\ req \in [Workers -> Request]
          /\ \A w \in Workers : fetch[w] # Out => req[w].fields # {}

Init == /\ KeyInit
        /\ creds = [c \in Credentials |-> NoRow]
        /\ req = [w \in Workers |-> Idle]

Moves(w, r) == req' = [req EXCEPT ![w] = r]
Stored(c) == creds[c] \notin {NoRow, Deleted}

\* The request ends with nothing more written; ensure_key is left too.
Fails(w) == /\ Moves(w, Idle)
            /\ fetch' = [fetch EXCEPT ![w] = Out]
            /\ UNCHANGED <<creds, keyFile, cache, drawn, replaced>>

-----------------------------------------------------------------------------
\* Validated, and applied to a new row or the one that was loaded; F are the
\* secrets the client fills.
Applies(w, o, c, seen) ==
    /\ req[w] = Idle
    /\ \E s \in Submissions, F \in SUBSET Fields :
          Moves(w, [op |-> o, id |-> c, from |-> s, fields |-> F,
                    seen |-> seen, want |-> BlankRow])
    /\ UNCHANGED <<creds, keyVars>>

CreateCredential(w) == Applies(w, "create", NoRow, NoRow)
ApiCreateCredential(w) == Applies(w, "create", NoRow, NoRow)
EditCredential(w, c) == Stored(c) /\ Applies(w, "edit", c, creds[c])
UpdateCredential(w, c) == Stored(c) /\ Applies(w, "edit", c, creds[c])

\* The row is loaded, and those of the secrets F it has are decrypted.
Reveals(w, c, F) ==
    /\ req[w] = Idle
    /\ Stored(c)
    /\ Moves(w, [Idle EXCEPT !.op = "reveal", !.id = c, !.seen = creds[c],
                             !.fields = {f \in F : creds[c][f] # Null}])
    /\ UNCHANGED <<creds, keyVars>>

ListCredentials(w, c) == Reveals(w, c, Fields)
EditForm(w, c) == Reveals(w, c, Fields)
ApiGetCredential(w, c) == Reveals(w, c, Fields)
TotpCode(w, c) == Reveals(w, c, {"totp"})
ApiTotpCode(w, c) == Reveals(w, c, {"totp"})

Deletes(w, c) ==
    /\ req[w] = Idle
    /\ Stored(c)
    /\ Moves(w, [Idle EXCEPT !.op = "delete", !.id = c])
    /\ UNCHANGED <<creds, keyVars>>

DeleteCredential(w, c) == Deletes(w, c)
ApiDeleteCredential(w, c) == Deletes(w, c)

\* SECRET_FIELDS in their order, the TOTP secret last.
NextField(F) == IF "password" \in F THEN "password" ELSE "totp"

\* encrypt_field and decrypt_field begin with ensure_key.
Ensure(w) == /\ req[w].fields # {}
             /\ EnsureKey(w)
             /\ UNCHANGED <<creds, req>>

\* The field is done and ensure_key is left.
Proceeds(w, r) == /\ Moves(w, [r EXCEPT !.fields = @ \ {NextField(@)}])
                  /\ fetch' = [fetch EXCEPT ![w] = Out]
                  /\ UNCHANGED <<creds, keyFile, cache, drawn, replaced>>

\* Slip: a key that is not of AES's length goes unnoticed.
AnyKey(k) == TRUE

IsAesKey(k) == k # Blank

\* A blank key is no AES key: a ValueError, answered 400 or 500.
Encrypt(w) ==
    LET r == req[w] IN
    /\ r.op \in {"create", "edit"} /\ fetch[w].step = "done"
    /\ IF IsAesKey(fetch[w].key)
       THEN Proceeds(w, [r EXCEPT !.want[NextField(r.fields)] =
                            [from |-> r.from, key |-> fetch[w].key]])
       ELSE Fails(w)

\* A ciphertext under another key does not authenticate: InvalidTag, error 500.
Decrypt(w) ==
    LET r == req[w] IN
    /\ r.op = "reveal" /\ fetch[w].step = "done"
    /\ IF r.seen[NextField(r.fields)].key # fetch[w].key
       THEN Fails(w)
       ELSE Proceeds(w, r)

\* Slip: a blank field keeps what is stored.
KeptIfBlank(cur, seen, new) == IF new = Null THEN cur ELSE new

\* A column after the commit.  No two ciphertexts are alike (the nonce is new),
\* so one is always sent; NULL is sent unless NULL was loaded.
Secret(cur, seen, new) == IF new = Null THEN Column(cur, seen, Null) ELSE new

Commit(w) ==
    LET r == req[w] IN
    /\ r.op \in {"create", "edit"} /\ r.fields = {}
    /\ \/ /\ r.op = "create"
          /\ \E c \in Credentials : creds[c] = NoRow /\ creds' = [creds EXCEPT ![c] = r.want]
       \/ /\ r.op = "edit" /\ Stored(r.id)
          /\ creds' = [creds EXCEPT ![r.id] =
                [f \in Fields |-> Secret(@[f], r.seen[f], r.want[f])]]
       \/ r.op = "edit" /\ ~Stored(r.id) /\ UNCHANGED creds
    /\ Moves(w, Idle)
    /\ UNCHANGED keyVars

CommitDelete(w) ==
    /\ req[w].op = "delete"
    /\ creds' = [creds EXCEPT ![req[w].id] = Deleted]
    /\ Moves(w, Idle)
    /\ UNCHANGED keyVars

\* Revealed; or refused before anything is encrypted: an invalid type, status
\* or TOTP secret.
Answer(w) == /\ req[w] # Idle /\ fetch[w] = Out
             /\ req[w].op = "reveal" => req[w].fields = {}
             /\ req[w].op \in {"create", "edit"} => req[w].want = BlankRow
             /\ Fails(w)

Restart == /\ KeyRestart
           /\ req' = [w \in Workers |-> Idle]
           /\ UNCHANGED creds

Step(w) == \/ CreateCredential(w) \/ ApiCreateCredential(w)
           \/ \E c \in Credentials :
                 \/ EditCredential(w, c) \/ UpdateCredential(w, c)
                 \/ ListCredentials(w, c) \/ EditForm(w, c) \/ ApiGetCredential(w, c)
                 \/ TotpCode(w, c) \/ ApiTotpCode(w, c)
                 \/ DeleteCredential(w, c) \/ ApiDeleteCredential(w, c)
           \/ Ensure(w) \/ Encrypt(w) \/ Decrypt(w)
           \/ Commit(w) \/ CommitDelete(w) \/ Answer(w)

Next == Restart \/ \E w \in Workers : Step(w)

Spec == Init /\ [][Next]_vars

-----------------------------------------------------------------------------
(* Properties.                                                             *)

\* "Load the file-encryption key from disk, generating one on first run": every
\* stored secret is under the key in the file, now and after any restart --
\* unless two first uses both found no file and the later one replaced the key
\* of the earlier.
SecretsReadableUnlessReplaced ==
    replaced \/ \A c \in Credentials, f \in Fields :
                   Stored(c) /\ creds[c][f] # Null => creds[c][f].key = keyFile

OneSubmission(row) ==
    row.password # Null /\ row.totp # Null => row.password.from = row.totp.from

\* "Submitting a secret field always overwrites it": the secrets of a credential
\* come from one submission.  Only an edit that overtakes another one mixes two:
\* the blank it submits was NULL when it loaded the row, and is not sent.
OnlyCrossedEditsMix ==
    [][\A c \in Credentials :
          Stored(c) /\ OneSubmission(creds[c])
          /\ (Stored(c) /\ ~OneSubmission(creds[c]))' =>
             \E w \in Workers, f \in Fields :
                /\ req[w].op = "edit" /\ req[w].id = c
                /\ req[w].want[f] = Null /\ req[w].seen[f] = Null
                /\ creds[c][f] # Null]_vars
=============================================================================
