----------------------------- MODULE OrmSession -----------------------------
(***************************************************************************)
(* What a SQLAlchemy unit of work does to one column of one row under      *)
(* Postgres READ COMMITTED.  The session loads the row once, the handler   *)
(* assigns attributes, and commit sends an UPDATE that names only the      *)
(* columns whose value now differs from the LOADED value.  A column that   *)
(* was assigned the value it was loaded with is not in the UPDATE, so a    *)
(* value another transaction committed meanwhile survives in it.           *)
(*                                                                         *)
(* This is library behaviour, modelled from how the handlers of app/ use   *)
(* the session: load, assign, db.session.commit().                         *)
(***************************************************************************)

\* Slip: a session that writes every column of a row it touched.
ColumnAlwaysSent(cur, seen, new) == new

\* The column after the commit: `cur` is in the table now, `seen` was loaded,
\* `new` is what the handler assigned (or `seen` when it assigned nothing).
Column(cur, seen, new) == IF new = seen THEN cur ELSE new

\* The handler changed at least one of the columns it loaded: commit (or an
\* autoflush before it) sends an UPDATE and takes the row's lock.
Dirty(seen, new) == new # seen
=============================================================================
