------------------------- MODULE CredentialsProofs --------------------------
(***************************************************************************)
(* Theorems about Credentials and the KeyStore it encrypts with, for any   *)
(* number of credentials, submissions, keys and workers: unless a key file *)
(* was replaced, every stored secret is under the key in the file.         *)
(***************************************************************************)
EXTENDS Credentials, TLAPS

-----------------------------------------------------------------------------
(* The key file.                                                           *)

\* What a worker in ensure_key knows, replaced or not: a file, once created, is
\* never removed.
FetchFits(w) ==
    /\ fetch[w].step \notin {"out", "create"} => keyFile # Absent
    /\ fetch[w].step = "write" => fetch[w].key \in Keys
    /\ fetch[w].step \in {"cache", "done"} => fetch[w].key \in Keys \cup {Blank}

KeyShape == /\ KeyTypeOK
            /\ cache # Unknown => keyFile # Absent
            /\ \A w \in Workers : FetchFits(w)

\* While no file was opened over another, one worker at most is about to write
\* it, while it is still empty; and whoever has a key at hand, the cache too,
\* has the file's key or read the file while it was empty.
OneWriter == /\ \A v, w \in Workers : fetch[v].step = "write" /\ fetch[w].step = "write" => v = w
             /\ \A w \in Workers : fetch[w].step = "write" => keyFile = Blank
OneKey == /\ cache \in {Unknown, Blank, keyFile}
          /\ \A w \in Workers : fetch[w].step \in {"cache", "done"} =>
                                   fetch[w].key \in {Blank, keyFile}

KeyInv == KeyShape /\ (replaced \/ (OneWriter /\ OneKey))

\* What a step does to the file, as long as it replaces none: only a file that
\* holds no key yet changes.
FileSteady == ~replaced' => ~replaced /\ (keyFile' = keyFile \/ keyFile \notin Keys)

LEMMA OutIsFetch == Out \in Fetch
BY DEF Out, Fetch

LEMMA FetchesOwn ==
    ASSUME KeyTypeOK, NEW w \in Workers, NEW x \in Fetch, fetch' = [fetch EXCEPT ![w] = x]
    PROVE  /\ fetch' \in [Workers -> Fetch] /\ fetch'[w] = x
           /\ \A v \in Workers \ {w} : fetch'[v] = fetch[v]
BY DEF KeyTypeOK

LEMMA KeyInitInv == KeyInit => KeyInv
<1> SUFFICES ASSUME KeyInit PROVE KeyInv
  OBVIOUS
<1>1. KeyTypeOK
  BY OutIsFetch DEF KeyInit, KeyTypeOK
<1>2. KeyShape
  BY <1>1 DEF KeyInit, KeyShape, FetchFits, Out
<1>3. OneWriter /\ OneKey
  BY DEF KeyInit, OneWriter, OneKey, Out
<1> QED BY <1>2, <1>3 DEF KeyInv

LEMMA KeyLookKeeps ==
    ASSUME KeyInv, NEW w \in Workers, KeyLook(w)
    PROVE  KeyInv' /\ FileSteady
<1>1. PICK s \in {"done", "create", "read"}, k \in Keys \cup {Unknown, Blank} :
         /\ fetch' = [fetch EXCEPT ![w] = [step |-> s, key |-> k]]
         /\ s = "done" => cache # Unknown /\ k = cache
         /\ s = "read" => keyFile # Absent
  BY DEF KeyLook, Fetches, KeyInv, KeyShape, KeyTypeOK
<1>2. [step |-> s, key |-> k] \in Fetch
  BY DEF Fetch
<1>3. /\ fetch' \in [Workers -> Fetch] /\ fetch'[w] = [step |-> s, key |-> k]
      /\ \A v \in Workers \ {w} : fetch'[v] = fetch[v]
  BY <1>1, <1>2, FetchesOwn DEF KeyInv, KeyShape
<1>4. UNCHANGED <<keyFile, cache, drawn, replaced>>
  BY DEF KeyLook
<1>5. KeyShape'
  BY <1>1, <1>3, <1>4 DEF KeyInv, KeyShape, KeyTypeOK, FetchFits
<1>6. replaced \/ (OneWriter /\ OneKey)'
  BY <1>1, <1>3, <1>4 DEF KeyInv, OneWriter, OneKey
<1> QED BY <1>4, <1>5, <1>6 DEF KeyInv, FileSteady

LEMMA KeyOpenKeeps ==
    ASSUME KeyInv, NEW w \in Workers, KeyOpen(w)
    PROVE  KeyInv' /\ FileSteady
<1>1. PICK k \in Keys : Fetches(w, "write", k) /\ drawn' = drawn \cup {k}
  BY DEF KeyOpen
<1>2. [step |-> "write", key |-> k] \in Fetch
  BY DEF Fetch
<1>3. /\ fetch' \in [Workers -> Fetch] /\ fetch'[w] = [step |-> "write", key |-> k]
      /\ \A v \in Workers \ {w} : fetch'[v] = fetch[v]
  BY <1>1, <1>2, FetchesOwn DEF Fetches, KeyInv, KeyShape
<1>4. /\ keyFile' = Blank /\ UNCHANGED cache
      /\ replaced' = (replaced \/ keyFile # Absent)
  BY DEF KeyOpen
<1>5. KeyShape'
  BY <1>1, <1>3, <1>4, KeyValuesAssumption DEF KeyInv, KeyShape, KeyTypeOK, FetchFits
<1>6. ASSUME ~replaced' PROVE ~replaced /\ keyFile = Absent /\ (OneWriter /\ OneKey)'
  <2>1. ~replaced /\ keyFile = Absent
    BY <1>4, <1>6
  <2>2. cache = Unknown /\ \A v \in Workers : fetch[v].step \in {"out", "create"}
    BY <2>1 DEF KeyInv, KeyShape, FetchFits
  <2> QED BY <1>3, <1>4, <2>1, <2>2 DEF OneWriter, OneKey
<1> QED BY <1>5, <1>6, KeyValuesAssumption DEF KeyInv, FileSteady

LEMMA KeyWriteKeeps ==
    ASSUME KeyInv, NEW w \in Workers, KeyWrite(w)
    PROVE  KeyInv' /\ FileSteady
<1> DEFINE k == fetch[w].key
<1>1. k \in Keys /\ [step |-> "cache", key |-> k] \in Fetch
  BY DEF KeyWrite, KeyInv, KeyShape, FetchFits, Fetch
<1>2. /\ fetch' \in [Workers -> Fetch] /\ fetch'[w] = [step |-> "cache", key |-> k]
      /\ \A v \in Workers \ {w} : fetch'[v] = fetch[v]
  BY <1>1, FetchesOwn DEF KeyWrite, Fetches, KeyInv, KeyShape
<1>3. keyFile' = k /\ UNCHANGED <<cache, drawn, replaced>> /\ fetch[w].step = "write"
  BY DEF KeyWrite
<1> HIDE DEF k
<1>4. KeyShape'
  BY <1>1, <1>2, <1>3, KeyValuesAssumption DEF KeyInv, KeyShape, KeyTypeOK, FetchFits
<1>5. ASSUME ~replaced PROVE keyFile = Blank /\ (OneWriter /\ OneKey)'
  BY <1>2, <1>3, <1>5 DEF KeyInv, OneWriter, OneKey
<1> QED BY <1>3, <1>4, <1>5, KeyValuesAssumption DEF KeyInv, FileSteady

LEMMA KeyReadKeeps ==
    ASSUME KeyInv, NEW w \in Workers, KeyRead(w)
    PROVE  KeyInv' /\ FileSteady
<1>1. keyFile \in Keys \cup {Blank} /\ [step |-> "cache", key |-> keyFile] \in Fetch
  BY DEF KeyRead, KeyInv, KeyShape, KeyTypeOK, FetchFits, Fetch
<1>2. /\ fetch' \in [Workers -> Fetch] /\ fetch'[w] = [step |-> "cache", key |-> keyFile]
      /\ \A v \in Workers \ {w} : fetch'[v] = fetch[v]
  BY <1>1, FetchesOwn DEF KeyRead, Fetches, KeyInv, KeyShape
<1>3. UNCHANGED <<keyFile, cache, drawn, replaced>>
  BY DEF KeyRead
<1>4. KeyShape'
  BY <1>1, <1>2, <1>3, KeyValuesAssumption DEF KeyInv, KeyShape, KeyTypeOK, FetchFits
<1>5. replaced \/ (OneWriter /\ OneKey)'
  BY <1>2, <1>3 DEF KeyInv, OneWriter, OneKey
<1> QED BY <1>3, <1>4, <1>5 DEF KeyInv, FileSteady

LEMMA KeyCacheKeeps ==
    ASSUME KeyInv, NEW w \in Workers, KeyCache(w)
    PROVE  KeyInv' /\ FileSteady
<1> DEFINE k == fetch[w].key
<1>1. /\ k \in Keys \cup {Blank} /\ keyFile # Absent /\ [step |-> "done", key |-> k] \in Fetch
      /\ replaced \/ k \in {Blank, keyFile}
  BY DEF KeyCache, KeyInv, KeyShape, FetchFits, OneKey, Fetch
<1>2. /\ fetch' \in [Workers -> Fetch] /\ fetch'[w] = [step |-> "done", key |-> k]
      /\ \A v \in Workers \ {w} : fetch'[v] = fetch[v]
  BY <1>1, FetchesOwn DEF KeyCache, Fetches, KeyInv, KeyShape
<1>3. cache' = k /\ UNCHANGED <<keyFile, drawn, replaced>>
  BY DEF KeyCache, Cached
<1> HIDE DEF k
<1>4. KeyShape'
  BY <1>1, <1>2, <1>3, KeyValuesAssumption DEF KeyInv, KeyShape, KeyTypeOK, FetchFits
<1>5. replaced \/ (OneWriter /\ OneKey)'
  BY <1>1, <1>2, <1>3 DEF KeyInv, OneWriter, OneKey
<1> QED BY <1>3, <1>4, <1>5 DEF KeyInv, FileSteady

LEMMA EnsureKeyKeeps ==
    ASSUME KeyInv, NEW w \in Workers, EnsureKey(w)
    PROVE  /\ KeyInv' /\ FileSteady
           /\ \A v \in Workers \ {w} : fetch'[v] = fetch[v]
<1>1. \A v \in Workers \ {w} : fetch'[v] = fetch[v]
  BY DEF EnsureKey, KeyLook, KeyOpen, KeyWrite, KeyRead, KeyCache, Fetches,
         KeyInv, KeyShape, KeyTypeOK
<1> QED BY <1>1, KeyLookKeeps, KeyOpenKeeps, KeyWriteKeeps, KeyReadKeeps, KeyCacheKeeps
        DEF EnsureKey

\* ensure_key is left, by one worker or, when the process dies, by all.
LEMMA KeyLeft ==
    ASSUME KeyInv, UNCHANGED <<keyFile, drawn, replaced>>, cache' \in {cache, Unknown},
           fetch' \in [Workers -> Fetch], \A v \in Workers : fetch'[v] \in {fetch[v], Out}
    PROVE  KeyInv' /\ FileSteady
<1>1. KeyShape'
  BY DEF KeyInv, KeyShape, KeyTypeOK, FetchFits, Out
<1>2. replaced \/ (OneWriter /\ OneKey)'
  BY DEF KeyInv, OneWriter, OneKey, Out
<1> QED BY <1>1, <1>2 DEF KeyInv, FileSteady

-----------------------------------------------------------------------------
(* The credentials.                                                        *)

\* What a form holds on its way: every secret encrypted so far is its own.
RequestFits(w) ==
    LET r == req[w] IN
    /\ r.op \in {"create", "edit"} =>
          /\ r.from \in Submissions /\ r.want \in Row
          /\ \A f \in Fields : r.want[f] # Null => r.want[f].from = r.from
    /\ r.op = "edit" => r.id \in Credentials /\ r.seen \in Row
    /\ r.op = "delete" => r.id \in Credentials /\ r.fields = {}

\* The key in the file opens what the row holds.
Opens(row) == \A f \in Fields : row[f] # Null => row[f].key = keyFile

RowOpens(c) == Stored(c) => Opens(creds[c])
WantOpens(w) == req[w].op \in {"create", "edit"} => Opens(req[w].want)

AllOpens == (\A c \in Credentials : RowOpens(c)) /\ (\A w \in Workers : WantOpens(w))

IInv == /\ TypeOK /\ KeyInv
        /\ \A w \in Workers : RequestFits(w)
        /\ replaced \/ AllOpens

LEMMA IdleIsRequest == Idle \in Request
BY DEF Idle, Request

LEMMA BlankRowIsRow == BlankRow \in Row /\ Opens(BlankRow) /\ \A f \in Fields : BlankRow[f] = Null
BY DEF BlankRow, Row, Opens, Fields

LEMMA IdleFits == ASSUME NEW w \in Workers, req[w] = Idle PROVE RequestFits(w) /\ WantOpens(w)
BY DEF Idle, RequestFits, WantOpens

LEMMA MovesOwn ==
    ASSUME TypeOK, NEW w \in Workers, NEW r \in Request, Moves(w, r)
    PROVE  /\ req' \in [Workers -> Request] /\ req'[w] = r
           /\ \A v \in Workers \ {w} : req'[v] = req[v]
BY DEF Moves, TypeOK

\* The steps of everybody else leave a request as it is: a key file that is
\* filled has no ciphertext under what it held before.
LEMMA StillFits ==
    ASSUME IInv, NEW v \in Workers, req'[v] = req[v], FileSteady
    PROVE  RequestFits(v)' /\ (replaced' \/ WantOpens(v)')
<1>1. RequestFits(v)'
  BY DEF IInv, RequestFits
<1>2. ASSUME ~replaced', req[v].op \in {"create", "edit"}, NEW f \in Fields, req[v].want[f] # Null
      PROVE  req[v].want[f].key = keyFile'
  <2>1. req[v].want[f].key = keyFile /\ req[v].want \in Row
    BY <1>2 DEF IInv, AllOpens, WantOpens, Opens, FileSteady, RequestFits
  <2>2. req[v].want[f].key \in Keys
    BY <1>2, <2>1 DEF Row, Cipher, Fields
  <2> QED BY <1>2, <2>1, <2>2 DEF FileSteady
<1> QED BY <1>1, <1>2 DEF WantOpens, Opens

LEMMA RowStillOpens ==
    ASSUME IInv, NEW c \in Credentials, creds'[c] = creds[c], FileSteady
    PROVE  replaced' \/ RowOpens(c)'
<1>1. ASSUME ~replaced', Stored(c), NEW f \in Fields, creds[c][f] # Null
      PROVE  creds[c][f].key = keyFile'
  <2>1. creds[c][f].key = keyFile /\ creds[c] \in Row
    BY <1>1 DEF IInv, AllOpens, RowOpens, Opens, FileSteady, TypeOK, Stored
  <2>2. creds[c][f].key \in Keys
    BY <1>1, <2>1 DEF Row, Cipher, Fields
  <2> QED BY <1>1, <2>1, <2>2 DEF FileSteady
<1> QED BY <1>1 DEF RowOpens, Opens, Stored

\* A step of w that leaves the table alone.
LEMMA StepKeepsRows ==
    ASSUME IInv, NEW w \in Workers, TypeOK', KeyInv', FileSteady, UNCHANGED creds,
           RequestFits(w)', replaced' \/ WantOpens(w)',
           \A v \in Workers \ {w} : req'[v] = req[v]
    PROVE  IInv'
<1>1. ASSUME NEW v \in Workers PROVE RequestFits(v)' /\ (replaced' \/ WantOpens(v)')
  <2>1. CASE v = w
    BY <2>1
  <2>2. CASE v # w
    BY <2>2, StillFits
  <2> QED BY <2>1, <2>2
<1>2. ASSUME NEW c \in Credentials PROVE replaced' \/ RowOpens(c)'
  BY RowStillOpens
<1> QED BY <1>1, <1>2 DEF IInv, AllOpens

LEMMA KeySteady == ASSUME KeyInv, UNCHANGED keyVars PROVE KeyInv' /\ FileSteady
<1>1. KeyShape'
  BY DEF keyVars, KeyInv, KeyShape, KeyTypeOK, FetchFits
<1>2. replaced \/ (OneWriter /\ OneKey)'
  BY DEF keyVars, KeyInv, OneWriter, OneKey
<1> QED BY <1>1, <1>2 DEF keyVars, KeyInv, FileSteady

\* A handler that starts.
LEMMA StartKeeps ==
    ASSUME IInv, NEW w \in Workers, NEW r \in Request, req[w] = Idle, Moves(w, r),
           UNCHANGED <<creds, keyVars>>, RequestFits(w)', WantOpens(w)'
    PROVE  IInv'
<1>1. /\ req' \in [Workers -> Request] /\ req'[w] = r
      /\ \A v \in Workers \ {w} : req'[v] = req[v]
  BY MovesOwn DEF IInv
<1>2. KeyInv' /\ FileSteady
  BY KeySteady DEF IInv
<1>3. fetch[w] = Out
  BY DEF IInv, TypeOK, Idle
<1>4. TypeOK'
  BY <1>1, <1>3 DEF IInv, TypeOK, KeyTypeOK, keyVars
<1> QED BY <1>1, <1>2, <1>4, StepKeepsRows

LEMMA AppliesKeeps ==
    ASSUME IInv, NEW w \in Workers, NEW o, NEW c, NEW seen, Applies(w, o, c, seen),
           \/ o = "create" /\ c = NoRow /\ seen = NoRow
           \/ o = "edit" /\ c \in Credentials /\ seen \in Row
    PROVE  IInv'
<1>1. PICK s \in Submissions, F \in SUBSET Fields :
         Moves(w, [op |-> o, id |-> c, from |-> s, fields |-> F,
                   seen |-> seen, want |-> BlankRow])
  BY DEF Applies
<1> DEFINE r == [op |-> o, id |-> c, from |-> s, fields |-> F,
                 seen |-> seen, want |-> BlankRow]
<1>2. r \in Request /\ Moves(w, r) /\ req[w] = Idle /\ UNCHANGED <<creds, keyVars>>
  BY <1>1, BlankRowIsRow DEF Request, Applies
<1>3. req'[w] = r
  BY <1>2, MovesOwn DEF IInv
<1>4. RequestFits(w)' /\ WantOpens(w)'
  BY <1>3, BlankRowIsRow DEF RequestFits, WantOpens, Opens
<1> HIDE DEF r
<1> QED BY <1>2, <1>4, StartKeeps

LEMMA RevealsKeeps ==
    ASSUME IInv, NEW w \in Workers, NEW c \in Credentials, NEW F \in SUBSET Fields,
           Reveals(w, c, F)
    PROVE  IInv'
<1> DEFINE r == [Idle EXCEPT !.op = "reveal", !.id = c, !.seen = creds[c],
                             !.fields = {f \in F : creds[c][f] # Null}]
<1>1. r \in Request /\ r.op = "reveal"
  BY DEF Reveals, Stored, IInv, TypeOK, Idle, Request
<1>2. Moves(w, r) /\ req[w] = Idle /\ UNCHANGED <<creds, keyVars>>
  BY DEF Reveals
<1> HIDE DEF r
<1>3. req'[w] = r
  BY <1>1, <1>2, MovesOwn DEF IInv
<1>4. RequestFits(w)' /\ WantOpens(w)'
  BY <1>1, <1>3 DEF RequestFits, WantOpens
<1> QED BY <1>1, <1>2, <1>4, StartKeeps

LEMMA DeletesKeeps ==
    ASSUME IInv, NEW w \in Workers, NEW c \in Credentials, Deletes(w, c)
    PROVE  IInv'
<1> DEFINE r == [Idle EXCEPT !.op = "delete", !.id = c]
<1>1. r \in Request /\ r.op = "delete" /\ r.id = c /\ r.fields = {}
  BY DEF Idle, Request
<1>2. Moves(w, r) /\ req[w] = Idle /\ UNCHANGED <<creds, keyVars>>
  BY DEF Deletes
<1> HIDE DEF r
<1>3. req'[w] = r
  BY <1>1, <1>2, MovesOwn DEF IInv
<1>4. RequestFits(w)' /\ WantOpens(w)'
  BY <1>1, <1>3 DEF RequestFits, WantOpens
<1> QED BY <1>1, <1>2, <1>4, StartKeeps

LEMMA EnsureKeeps == ASSUME IInv, NEW w \in Workers, Ensure(w) PROVE IInv'
<1>1. /\ KeyInv' /\ FileSteady /\ UNCHANGED <<creds, req>> /\ req[w].fields # {}
      /\ \A v \in Workers \ {w} : fetch'[v] = fetch[v]
  BY EnsureKeyKeeps DEF Ensure, IInv
<1>2. TypeOK'
  BY <1>1 DEF IInv, TypeOK, KeyInv, KeyShape
<1>3. RequestFits(w)' /\ (replaced' \/ WantOpens(w)')
  BY <1>1, StillFits
<1> QED BY <1>1, <1>2, <1>3, StepKeepsRows

\* A step that leaves ensure_key, with the request moved on or given up.
LEMMA LeaveKeeps ==
    ASSUME IInv, NEW w \in Workers, NEW r \in Request, Moves(w, r),
           fetch' = [fetch EXCEPT ![w] = Out],
           UNCHANGED <<creds, keyFile, cache, drawn, replaced>>,
           RequestFits(w)', replaced \/ WantOpens(w)'
    PROVE  IInv'
<1>1. /\ req' \in [Workers -> Request] /\ req'[w] = r
      /\ \A v \in Workers \ {w} : req'[v] = req[v]
  BY MovesOwn DEF IInv
<1>2. /\ fetch' \in [Workers -> Fetch] /\ fetch'[w] = Out
      /\ \A v \in Workers \ {w} : fetch'[v] = fetch[v]
  BY OutIsFetch DEF IInv, TypeOK, KeyTypeOK
<1>3. KeyInv' /\ FileSteady
  BY <1>2, KeyLeft DEF IInv
<1>4. TypeOK'
  BY <1>1, <1>2 DEF IInv, TypeOK, KeyTypeOK
<1> QED BY <1>1, <1>3, <1>4, StepKeepsRows

LEMMA FailsKeeps == ASSUME IInv, NEW w \in Workers, Fails(w) PROVE IInv'
<1>1. req'[w] = Idle
  BY IdleIsRequest, MovesOwn DEF Fails, IInv
<1>2. RequestFits(w)' /\ WantOpens(w)'
  BY <1>1 DEF Idle, RequestFits, WantOpens
<1> QED BY <1>2, IdleIsRequest, LeaveKeeps DEF Fails

LEMMA NextFieldIsNext == ASSUME NEW F \in SUBSET Fields, F # {} PROVE NextField(F) \in F
BY DEF NextField, Fields

LEMMA EncryptKeeps == ASSUME IInv, NEW w \in Workers, Encrypt(w) PROVE IInv'
<1> DEFINE r == req[w]
           k == fetch[w].key
           f == NextField(r.fields)
           x == [from |-> r.from, key |-> k]
           sealed == [r EXCEPT !.want[f] = x]
           s == [sealed EXCEPT !.fields = @ \ {NextField(@)}]
<1>1. /\ r \in Request /\ r.op \in {"create", "edit"} /\ fetch[w].step = "done"
      /\ r.from \in Submissions /\ r.want \in Row /\ r.fields \in SUBSET Fields
      /\ \A g \in Fields : r.want[g] # Null => r.want[g].from = r.from
  BY DEF Encrypt, IInv, TypeOK, RequestFits, Request
<1>2. k \in Keys \cup {Blank} /\ (replaced \/ k \in {Blank, keyFile})
  BY <1>1 DEF IInv, KeyInv, KeyShape, FetchFits, OneKey
<1>3. CASE ~IsAesKey(k)
  BY <1>3, FailsKeeps DEF Encrypt
<1>4. CASE IsAesKey(k)
  <2>1. Proceeds(w, sealed)
    BY <1>4 DEF Encrypt
  <2>2. k \in Keys /\ (replaced \/ k = keyFile)
    BY <1>2, <1>4 DEF IsAesKey
  <2>3. r.fields # {}
    BY <1>1 DEF IInv, TypeOK, Out
  <2>4. f \in Fields
    BY <1>1, <2>3, NextFieldIsNext
  <2>5. x \in Cipher /\ x.from = r.from /\ x.key = k
    BY <1>1, <2>2 DEF Cipher
  <2> DEFINE want == [r.want EXCEPT ![f] = x]
  <2> HIDE DEF f, x, k
  <2>6. want \in Row /\ want[f] = x /\ \A g \in Fields \ {f} : want[g] = r.want[g]
    BY <1>1, <2>4, <2>5 DEF Row, Fields
  <2>7. /\ s \in Request /\ s.op = r.op /\ s.id = r.id /\ s.from = r.from
        /\ s.seen = r.seen /\ s.want = want
    BY <1>1, <2>6 DEF Request
  <2>8. Moves(w, s) /\ fetch' = [fetch EXCEPT ![w] = Out]
        /\ UNCHANGED <<creds, keyFile, cache, drawn, replaced>>
    BY <2>1 DEF Proceeds
  <2> HIDE DEF want, s
  <2>9. req'[w] = s
    BY <2>7, <2>8, MovesOwn DEF IInv
  <2>10. RequestFits(w)'
    BY <1>1, <2>5, <2>6, <2>7, <2>9 DEF RequestFits, IInv
  <2>11. replaced \/ WantOpens(w)'
    BY <1>1, <2>2, <2>5, <2>6, <2>7, <2>8, <2>9 DEF WantOpens, Opens, IInv, AllOpens
  <2> QED BY <2>7, <2>8, <2>10, <2>11, LeaveKeeps
<1> QED BY <1>3, <1>4
LEMMA DecryptKeeps == ASSUME IInv, NEW w \in Workers, Decrypt(w) PROVE IInv'
<1> DEFINE r == req[w]
           s == [r EXCEPT !.fields = @ \ {NextField(@)}]
<1>1. r \in Request /\ r.op = "reveal"
  BY DEF Decrypt, IInv, TypeOK
<1>2. CASE Fails(w)
  BY <1>2, FailsKeeps
<1>3. CASE Proceeds(w, r)
  <2>1. s \in Request /\ s.op = "reveal"
    BY <1>1 DEF Request
  <2>2. Moves(w, s) /\ fetch' = [fetch EXCEPT ![w] = Out]
        /\ UNCHANGED <<creds, keyFile, cache, drawn, replaced>>
    BY <1>3 DEF Proceeds
  <2> HIDE DEF s
  <2>3. req'[w] = s
    BY <2>1, <2>2, MovesOwn DEF IInv
  <2>4. RequestFits(w)' /\ WantOpens(w)'
    BY <2>1, <2>3 DEF RequestFits, WantOpens
  <2> QED BY <2>1, <2>2, <2>4, LeaveKeeps
<1> QED BY <1>2, <1>3 DEF Decrypt

LEMMA AnswerKeeps == ASSUME IInv, NEW w \in Workers, Answer(w) PROVE IInv'
BY FailsKeeps DEF Answer

\* The columns an edit leaves: each from the row as it is now, or from the form.
EditedRow(cur, r) == [f \in Fields |-> Secret(cur[f], r.seen[f], r.want[f])]

LEMMA EditedColumns ==
    ASSUME NEW cur, NEW r, NEW f \in Fields
    PROVE  EditedRow(cur, r)[f] \in {Null, cur[f], r.want[f]}
BY DEF EditedRow, Secret, Column

LEMMA EditedIsRow ==
    ASSUME NEW cur \in Row, NEW r, r.want \in Row
    PROVE  EditedRow(cur, r) \in Row
<1> DEFINE row == EditedRow(cur, r)
<1>1. row = [f \in Fields |-> row[f]]
  BY DEF EditedRow
<1>2. row["password"] \in Cipher \cup {Null} /\ row["totp"] \in Cipher \cup {Null}
  BY EditedColumns DEF Fields, Row
<1> HIDE DEF row
<1>3. row = [password |-> row["password"], totp |-> row["totp"]]
  BY <1>1 DEF Fields
<1> QED BY <1>2, <1>3 DEF Row, row

\* The transaction writes a row that opens, or nothing, and the request ends.
LEMMA WriteKeeps ==
    ASSUME IInv, NEW w \in Workers, req[w].fields = {}, Moves(w, Idle), UNCHANGED keyVars,
           NEW c \in Credentials, NEW row \in Row \cup {Deleted},
           creds' = [creds EXCEPT ![c] = row], replaced \/ row = Deleted \/ Opens(row)
    PROVE  IInv'
<1>1. /\ req' \in [Workers -> Request] /\ req'[w] = Idle
      /\ \A v \in Workers \ {w} : req'[v] = req[v]
  BY IdleIsRequest, MovesOwn DEF IInv
<1>2. KeyInv' /\ FileSteady
  BY KeySteady DEF IInv
<1>3. fetch[w] = Out
  BY DEF IInv, TypeOK
<1>4. TypeOK'
  BY <1>1, <1>3 DEF IInv, TypeOK, KeyTypeOK, keyVars
<1>5. ASSUME NEW v \in Workers PROVE RequestFits(v)' /\ (replaced' \/ WantOpens(v)')
  <2>1. CASE v = w
    BY <1>1, <2>1 DEF RequestFits, WantOpens, Idle
  <2>2. CASE v # w
    BY <1>1, <1>2, <2>2, StillFits
  <2> QED BY <2>1, <2>2
<1>6. ASSUME NEW d \in Credentials PROVE replaced' \/ RowOpens(d)'
  <2>1. CASE d # c
    BY <1>2, <2>1, RowStillOpens DEF IInv, TypeOK
  <2>2. CASE d = c
    <3>1. creds'[d] = row /\ UNCHANGED <<keyFile, replaced>>
      BY <2>2 DEF IInv, TypeOK, keyVars
    <3> QED BY <3>1 DEF RowOpens, Opens, Stored
  <2> QED BY <2>1, <2>2
<1> QED BY <1>2, <1>4, <1>5, <1>6 DEF IInv, AllOpens

\* A request that ends with nothing to write.
LEMMA EndKeeps ==
    ASSUME IInv, NEW w \in Workers, req[w].fields = {}, Moves(w, Idle),
           UNCHANGED <<creds, keyVars>>
    PROVE  IInv'
<1>1. fetch[w] = Out /\ fetch' = fetch /\ fetch = [fetch EXCEPT ![w] = Out]
  BY DEF IInv, TypeOK, KeyTypeOK, keyVars
<1>2. req'[w] = Idle
  BY IdleIsRequest, MovesOwn DEF IInv
<1>3. RequestFits(w)' /\ WantOpens(w)'
  BY <1>2 DEF Idle, RequestFits, WantOpens
<1> QED BY <1>1, <1>3, IdleIsRequest, LeaveKeeps DEF keyVars

LEMMA CommitKeeps == ASSUME IInv, NEW w \in Workers, Commit(w) PROVE IInv'
<1> DEFINE r == req[w]
<1>1. /\ r \in Request /\ r.op \in {"create", "edit"} /\ r.fields = {} /\ r.want \in Row
      /\ replaced \/ Opens(r.want)
      /\ Moves(w, Idle) /\ UNCHANGED keyVars
  BY DEF Commit, IInv, TypeOK, RequestFits, AllOpens, WantOpens
<1>2. ASSUME NEW c \in Credentials, creds[c] = NoRow, creds' = [creds EXCEPT ![c] = r.want]
      PROVE  IInv'
  BY <1>1, <1>2, WriteKeeps
<1>3. ASSUME r.op = "edit", Stored(r.id),
             creds' = [creds EXCEPT ![r.id] =
                          [f \in Fields |-> Secret(@[f], r.seen[f], r.want[f])]]
      PROVE  IInv'
  <2> DEFINE c == r.id
             cur == creds[c]
             row == EditedRow(cur, r)
  <2>1. c \in Credentials /\ cur \in Row
    BY <1>3 DEF IInv, RequestFits, TypeOK, Stored
  <2>2. row \in Row
    BY <1>1, <2>1, EditedIsRow
  <2>3. creds' = [creds EXCEPT ![c] = row]
    BY <1>3, <2>1 DEF EditedRow, IInv, TypeOK
  <2>4. replaced \/ Opens(cur)
    BY <1>3, <2>1 DEF IInv, AllOpens, RowOpens
  <2>5. ASSUME Opens(cur), Opens(r.want), NEW f \in Fields, row[f] # Null
        PROVE  row[f].key = keyFile
    BY <2>5, EditedColumns DEF Opens
  <2>6. replaced \/ Opens(row)
    <3> HIDE DEF row
    <3> QED BY <1>1, <2>4, <2>5 DEF Opens
  <2> HIDE DEF row
  <2> QED BY <1>1, <2>1, <2>2, <2>3, <2>6, WriteKeeps
<1>4. ASSUME UNCHANGED creds PROVE IInv'
  BY <1>1, <1>4, EndKeeps
<1> QED BY <1>2, <1>3, <1>4 DEF Commit

LEMMA CommitDeleteKeeps == ASSUME IInv, NEW w \in Workers, CommitDelete(w) PROVE IInv'
<1>1. /\ req[w].id \in Credentials /\ req[w].fields = {}
      /\ Moves(w, Idle) /\ UNCHANGED keyVars
  BY DEF CommitDelete, IInv, RequestFits
<1>2. creds' = [creds EXCEPT ![req[w].id] = Deleted]
  BY DEF CommitDelete
<1> QED BY <1>1, <1>2, WriteKeeps

LEMMA RestartKeeps == ASSUME IInv, Restart PROVE IInv'
<1>1. /\ UNCHANGED <<keyFile, drawn, replaced, creds>> /\ cache' = Unknown
      /\ fetch' = [w \in Workers |-> Out] /\ req' = [w \in Workers |-> Idle]
  BY DEF Restart, KeyRestart
<1>2. KeyInv' /\ FileSteady
  BY <1>1, OutIsFetch, KeyLeft DEF IInv
<1>3. TypeOK'
  BY <1>1, OutIsFetch, IdleIsRequest DEF IInv, TypeOK, KeyTypeOK
<1>4. ASSUME NEW v \in Workers PROVE RequestFits(v)' /\ WantOpens(v)'
  BY <1>1 DEF RequestFits, WantOpens, Idle
<1>5. ASSUME NEW c \in Credentials PROVE replaced' \/ RowOpens(c)'
  BY <1>1, <1>2, RowStillOpens
<1> QED BY <1>2, <1>3, <1>4, <1>5 DEF IInv, AllOpens

LEMMA StepKeeps == ASSUME IInv, [Next]_vars PROVE IInv'
<1>1. CASE UNCHANGED vars
  <2>1. KeyInv' /\ FileSteady
    BY <1>1, KeySteady DEF IInv, vars
  <2>2. TypeOK'
    BY <1>1 DEF IInv, TypeOK, KeyTypeOK, vars, keyVars
  <2>3. ASSUME NEW v \in Workers PROVE RequestFits(v)' /\ (replaced' \/ WantOpens(v)')
    BY <1>1, <2>1, StillFits DEF vars
  <2>4. ASSUME NEW c \in Credentials PROVE replaced' \/ RowOpens(c)'
    BY <1>1, <2>1, RowStillOpens DEF vars
  <2> QED BY <2>1, <2>2, <2>3, <2>4 DEF IInv, AllOpens
<1>2. CASE Restart
  BY <1>2, RestartKeeps
<1>3. ASSUME NEW w \in Workers, CreateCredential(w) \/ ApiCreateCredential(w) PROVE IInv'
  BY <1>3, AppliesKeeps DEF CreateCredential, ApiCreateCredential
<1>4. ASSUME NEW w \in Workers, NEW c \in Credentials,
             EditCredential(w, c) \/ UpdateCredential(w, c)
      PROVE  IInv'
  <2>1. creds[c] \in Row /\ Applies(w, "edit", c, creds[c])
    BY <1>4 DEF EditCredential, UpdateCredential, Stored, IInv, TypeOK
  <2> QED BY <2>1, AppliesKeeps
<1>5. ASSUME NEW w \in Workers, NEW c \in Credentials,
             \/ ListCredentials(w, c) \/ EditForm(w, c) \/ ApiGetCredential(w, c)
             \/ TotpCode(w, c) \/ ApiTotpCode(w, c)
      PROVE  IInv'
  <2>1. {"totp"} \in SUBSET Fields /\ Fields \in SUBSET Fields
    BY DEF Fields
  <2> QED BY <1>5, <2>1, RevealsKeeps
          DEF ListCredentials, EditForm, ApiGetCredential, TotpCode, ApiTotpCode
<1>6. ASSUME NEW w \in Workers, NEW c \in Credentials,
             DeleteCredential(w, c) \/ ApiDeleteCredential(w, c)
      PROVE  IInv'
  BY <1>6, DeletesKeeps DEF DeleteCredential, ApiDeleteCredential
<1>7. ASSUME NEW w \in Workers,
             Ensure(w) \/ Encrypt(w) \/ Decrypt(w) \/ Commit(w) \/ CommitDelete(w) \/ Answer(w)
      PROVE  IInv'
  BY <1>7, EnsureKeeps, EncryptKeeps, DecryptKeeps, CommitKeeps, CommitDeleteKeeps, AnswerKeeps
<1> QED BY <1>1, <1>2, <1>3, <1>4, <1>5, <1>6, <1>7 DEF Next, Step

LEMMA InitInv == Init => IInv
<1> SUFFICES ASSUME Init PROVE IInv
  OBVIOUS
<1>1. KeyInv /\ KeyTypeOK /\ fetch = [w \in Workers |-> Out]
  BY KeyInitInv DEF Init, KeyInv, KeyShape, KeyInit
<1>2. TypeOK
  BY <1>1, IdleIsRequest DEF Init, TypeOK
<1>3. ASSUME NEW w \in Workers PROVE RequestFits(w) /\ WantOpens(w)
  BY IdleFits DEF Init
<1>4. AllOpens
  BY <1>3 DEF Init, AllOpens, RowOpens, Stored
<1> QED BY <1>1, <1>2, <1>3, <1>4 DEF IInv

-----------------------------------------------------------------------------
(* The theorems.                                                           *)

\* The inductive invariant holds of every behaviour.
THEOREM CredentialsInvariant == Spec => []IInv
<1>1. IInv /\ [Next]_vars => IInv'
  BY StepKeeps
<1> QED BY InitInv, <1>1, PTL DEF Spec

\* The key file, the rows and the requests keep their types: in particular no
\* secret is ever stored under the blank key of a half-written file.
THEOREM CredentialsTypeCorrect == Spec => []TypeOK
<1>1. IInv => TypeOK
  BY DEF IInv
<1> QED BY <1>1, CredentialsInvariant, PTL

\* Through any interleaving of first uses and any restarts, every stored secret
\* is under the key in the file, unless a first use replaced the file of another.
THEOREM SecretsStayReadable == Spec => []SecretsReadableUnlessReplaced
<1>1. IInv => SecretsReadableUnlessReplaced
  BY DEF IInv, AllOpens, RowOpens, Opens, SecretsReadableUnlessReplaced
<1> QED BY <1>1, CredentialsInvariant, PTL

Mixed == \A c \in Credentials :
    Stored(c) /\ OneSubmission(creds[c]) /\ (Stored(c) /\ ~OneSubmission(creds[c]))' =>
       \E w \in Workers, f \in Fields :
          /\ req[w].op = "edit" /\ req[w].id = c
          /\ req[w].want[f] = Null /\ req[w].seen[f] = Null
          /\ creds[c][f] # Null

\* What an edit can leave in a column it does not send.
LEMMA KeptColumn ==
    ASSUME NEW cur, NEW r, NEW f \in Fields, r.want[f] = Null, EditedRow(cur, r)[f] # Null
    PROVE  EditedRow(cur, r)[f] = cur[f] /\ r.seen[f] = Null
BY DEF EditedRow, Secret, Column

\* The secrets of a credential come from one submission, unless an edit whose
\* blank was NULL when it loaded the row commits over another edit.
THEOREM OnlyCrossingsMix == Spec => OnlyCrossedEditsMix
<1>1. ASSUME IInv, [Next]_vars PROVE Mixed
  <2> SUFFICES ASSUME NEW c \in Credentials, Stored(c), OneSubmission(creds[c]),
                      Stored(c)', ~OneSubmission(creds'[c])
               PROVE  \E w \in Workers, f \in Fields :
                         /\ req[w].op = "edit" /\ req[w].id = c
                         /\ req[w].want[f] = Null /\ req[w].seen[f] = Null
                         /\ creds[c][f] # Null
    BY DEF Mixed
  <2>1. creds'[c] # creds[c]
    OBVIOUS
  <2>2. PICK w \in Workers : Commit(w) \/ CommitDelete(w)
    BY <1>1, <2>1
    DEF Next, Step, vars, Restart, CreateCredential, ApiCreateCredential, EditCredential,
        UpdateCredential, Applies, ListCredentials, EditForm, ApiGetCredential, TotpCode,
        ApiTotpCode, Reveals, DeleteCredential, ApiDeleteCredential, Deletes, Ensure,
        Encrypt, Decrypt, Proceeds, Fails, Answer
  <2> DEFINE r == req[w]
             row == EditedRow(creds[c], r)
  <2>3. ~CommitDelete(w)
    BY <1>1, <2>1 DEF CommitDelete, Stored, IInv, TypeOK
  <2>4. r.op = "edit" /\ r.id = c /\ creds'[c] = row
    BY <1>1, <2>1, <2>2, <2>3 DEF Commit, Stored, EditedRow, IInv, TypeOK
  <2>5. \A f \in Fields : r.want[f] # Null => r.want[f].from = r.from
    BY <1>1, <2>4 DEF IInv, RequestFits
  <2>6. \A f \in Fields : r.want[f] # Null => row[f] = r.want[f]
    BY DEF EditedRow, Secret
  <2> HIDE DEF row
  <2>7. creds[c] \in Row /\ row \in Row /\ r.want \in Row
    BY <1>1, <2>4, EditedIsRow DEF IInv, TypeOK, RequestFits, Stored, row
  <2>8. /\ row["password"] # Null /\ row["totp"] # Null
        /\ row["password"].from # row["totp"].from
    BY <2>4 DEF OneSubmission
  <2>9. ASSUME NEW f \in Fields, r.want[f] = Null PROVE row[f] = creds[c][f] /\ r.seen[f] = Null
    BY <2>8, <2>9, KeptColumn DEF row, Fields
  <2>10. ~\A f \in Fields : r.want[f] # Null
    BY <2>5, <2>6, <2>8 DEF Fields
  <2> QED BY <2>4, <2>8, <2>9, <2>10 DEF Fields
<1>2. IInv /\ [Next]_vars => [Mixed]_vars
  BY <1>1
<1> QED BY <1>2, CredentialsInvariant, PTL DEF Spec, OnlyCrossedEditsMix, Mixed
=============================================================================
