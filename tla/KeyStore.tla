------------------------------ MODULE KeyStore ------------------------------
(***************************************************************************)
(* The vault's encryption key: a file created the first time anything is   *)
(* encrypted or decrypted, and a cache of it in the process                *)
(* (crypto_service.ensure_key).  Checking for the file, opening it (which  *)
(* empties it) and writing it are separate steps of threads that no lock   *)
(* keeps apart, and the process may die between any two of them.           *)
(***************************************************************************)
CONSTANTS Keys,      \* what secrets.token_bytes may return
          Workers,
          Absent,    \* no such file
          Blank,     \* an empty file, or the key read from it
          Unknown    \* nothing cached, or no key at hand yet

ASSUME KeyValuesAssumption == /\ {Absent, Blank, Unknown} \cap Keys = {}
                              /\ Absent # Blank /\ Blank # Unknown

VARIABLES keyFile,
          cache,     \* _key_cache
          fetch,     \* how far each worker is in ensure_key, and the key it has
          drawn,     \* history: the keys generated so far
          replaced   \* history: a key file was opened for writing over another

keyVars == <<keyFile, cache, fetch, drawn, replaced>>

Fetch == [step : {"out", "create", "read", "write", "cache", "done"},
          key : Keys \cup {Unknown, Blank}]

Out == [step |-> "out", key |-> Unknown]

KeyTypeOK == /\ keyFile \in Keys \cup {Absent, Blank}
             /\ cache \in Keys \cup {Unknown, Blank}
             /\ fetch \in [Workers -> Fetch]
             /\ drawn \subseteq Keys
             /\ replaced \in BOOLEAN

KeyInit == /\ keyFile = Absent
           /\ cache = Unknown
           /\ fetch = [w \in Workers |-> Out]
           /\ drawn = {}
           /\ replaced = FALSE

Fetches(w, s, k) == fetch' = [fetch EXCEPT ![w] = [step |-> s, key |-> k]]

\* ensure_key is entered: the cached key, or a look for the file.
KeyLook(w) ==
    /\ fetch[w] = Out
    /\ \/ cache # Unknown /\ Fetches(w, "done", cache)
       \/ cache = Unknown /\ keyFile = Absent /\ Fetches(w, "create", Unknown)
       \/ cache = Unknown /\ keyFile # Absent /\ Fetches(w, "read", Unknown)
    /\ UNCHANGED <<keyFile, cache, drawn, replaced>>

\* A new key, and open(path, "wb"): the file is empty from here on.
KeyOpen(w) ==
    /\ fetch[w].step = "create"
    /\ \E k \in Keys \ drawn : Fetches(w, "write", k) /\ drawn' = drawn \cup {k}
    /\ replaced' = (replaced \/ keyFile # Absent)
    /\ keyFile' = Blank
    /\ UNCHANGED cache

\* The bytes reach the file when it is closed.
KeyWrite(w) ==
    /\ fetch[w].step = "write"
    /\ keyFile' = fetch[w].key
    /\ Fetches(w, "cache", fetch[w].key)
    /\ UNCHANGED <<cache, drawn, replaced>>

\* Whatever the file holds is the key.
KeyRead(w) ==
    /\ fetch[w].step = "read"
    /\ Fetches(w, "cache", keyFile)
    /\ UNCHANGED <<keyFile, cache, drawn, replaced>>

\* Slip: a process that caches a key of its own and does not look at the file.
CachedAnew(k) == CHOOSE x \in Keys : x # k

\* _key_cache[path] = key
Cached(k) == k

KeyCache(w) ==
    /\ fetch[w].step = "cache"
    /\ cache' = Cached(fetch[w].key)
    /\ Fetches(w, "done", fetch[w].key)
    /\ UNCHANGED <<keyFile, drawn, replaced>>

EnsureKey(w) == KeyLook(w) \/ KeyOpen(w) \/ KeyWrite(w) \/ KeyRead(w) \/ KeyCache(w)

\* The process dies: the file stays as it is.
KeyRestart == /\ cache' = Unknown
              /\ fetch' = [w \in Workers |-> Out]
              /\ UNCHANGED <<keyFile, drawn, replaced>>
=============================================================================
