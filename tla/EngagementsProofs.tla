------------------------- MODULE EngagementsProofs --------------------------
(***************************************************************************)
(* Theorems about Engagements, for any number of engagements, kill chain   *)
(* entries, models, people and worker threads: a deletion leaves nothing   *)
(* behind and has two authors, and what the pages show fits the tables     *)
(* unless a request has committed on overtaken reads.                      *)
(***************************************************************************)
EXTENDS Engagements, TLAPS

-----------------------------------------------------------------------------
(* The inductive invariant.                                                *)

TablesTypeOK ==
    /\ engagements \in [Engagements -> Row \cup {Unborn, Deleted}]
    /\ entries \in [Entries -> Entry \cup {Unborn, Deleted}]
    /\ pending \in [Engagements -> Ticket \cup {NoTicket}]
    /\ issued \in 0 .. MaxTickets
    /\ logged \in [Engagements -> [status : Statuses, archived : BOOLEAN]]

TablesOK == TablesTypeOK /\ NoOrphans /\ ArchivedAsLogged

\* What a request holds, however stale: the rows it loaded were in the tables
\* once, so they are still there or deleted; an approver is not the requester.
Holds(w) ==
    LET r == req[w] IN
    /\ r.op # "none" => /\ r.target \in Engagements /\ engagements[r.target] # Unborn
                        /\ r.seen \in Row /\ r.want \in Row
    /\ r.op = "none" <=> r.step = "idle"
    /\ r.op = "add" => r.asks \in StagesOf[r.seen.model]
    /\ r.op \in {"restage", "remove"} =>
          /\ r.entry \in Entries /\ entries[r.entry] # Unborn
          /\ Present(r.entry) => entries[r.entry].of = r.target
    /\ r.op = "restage" => r.was \in Stages /\ r.asks \in StagesOf[r.seen.model] \cup {r.was}
    /\ r.op = "request" => r.actor \in Admins
    /\ r.op \in {"cancel", "approve"} => r.ticket \in Ticket
    /\ r.op = "approve" => r.actor # r.ticket.by

\* While the tables have not changed since it read them, it knows them still.
Knows(w) ==
    LET r == req[w] IN
    /\ engagements[r.target] = r.seen
    /\ r.op = "restage" => Present(r.entry) /\ entries[r.entry].stage = r.was
    /\ At(w, "edit", "loaded") => r.want = r.seen
    /\ r.op = "edit" => r.want.model = r.seen.model \/ EntriesOf(r.target) = {}
    /\ r.op \in {"cancel", "approve"} => pending[r.target] = r.ticket

Fresh(w) == req[w].op # "none" /\ ~stale[w] => Knows(w)

\* A deletion knows every entry, or there is a child it does not know.
Collected(w) ==
    At(w, "approve", "collected") => uncollected[w] \/ EntriesOf(req[w].target) \subseteq req[w].known

Fits(w) == Holds(w) /\ Fresh(w) /\ Collected(w)

StageFits(x) == Present(x) => entries[x].stage \in StagesOf[engagements[entries[x].of].model]

\* What holds as long as nobody has committed on overtaken reads.
Agrees == /\ \A x \in Entries : StageFits(x)
          /\ \A e \in Engagements : Live(e) => engagements[e].status = logged[e].status

IInv == /\ TypeOK /\ TablesOK
        /\ \A w \in Workers : Fits(w)
        /\ raced \/ Agrees

-----------------------------------------------------------------------------
(* What every step does to the others' requests.                           *)

\* Rows come once and go once; an entry never changes its engagement.
Steady ==
    /\ \A e \in Engagements : engagements[e] # Unborn => engagements'[e] # Unborn
    /\ \A x \in Entries : entries[x] # Unborn =>
          /\ entries'[x] # Unborn
          /\ Present(x)' => Present(x) /\ entries'[x].of = entries[x].of

\* v takes no part in the step: the tables it has read are as they were, or it
\* is stale; its deletion has no more to know than before, or is told so.
Bystander(v) ==
    /\ req'[v] = req[v]
    /\ req[v].op # "none" /\ ~stale'[v] => ~stale[v] /\ UNCHANGED tables
    /\ At(v, "approve", "collected") /\ ~uncollected'[v] =>
          ~uncollected[v] /\ EntriesOf(req[v].target)' \subseteq EntriesOf(req[v].target)

LEMMA IdleIsRequest == Idle \in Request
BY DEF Idle, Request

LEMMA IdleFits == ASSUME NEW w \in Workers, req[w] = Idle PROVE Fits(w)
BY DEF Idle, Fits, Holds, Fresh, Collected, At

LEMMA StillFits ==
    ASSUME Steady, NEW v \in Workers, Bystander(v), Fits(v)
    PROVE  Fits(v)'
<1>1. Holds(v)'
  BY DEF Bystander, Steady, Fits, Holds, Present
<1>2. Fresh(v)'
  BY DEF Bystander, Fits, Fresh, Knows, At, Present, EntriesOf, tables
<1>3. Collected(v)'
  BY DEF Bystander, Fits, Collected, At
<1> QED BY <1>1, <1>2, <1>3 DEF Fits

LEMMA MovesOwn ==
    ASSUME TypeOK, NEW w \in Workers, NEW r \in Request, Moves(w, r)
    PROVE  /\ req' \in [Workers -> Request] /\ req'[w] = r
           /\ \A v \in Workers \ {w} : req'[v] = req[v]
BY DEF Moves, TypeOK

LEMMA TypeParts ==
    TypeOK <=> /\ TablesTypeOK /\ req \in [Workers -> Request]
               /\ uncollected \in [Workers -> BOOLEAN] /\ stale \in [Workers -> BOOLEAN]
               /\ raced \in BOOLEAN
BY DEF TypeOK, TablesTypeOK

LEMMA TablesAlone ==
    ASSUME IInv, UNCHANGED tables
    PROVE  TablesOK' /\ Steady /\ (raced \/ Agrees')
<1>1. TablesOK'
  BY DEF tables, IInv, TablesOK, TablesTypeOK, NoOrphans, ArchivedAsLogged, Present, Live
<1>2. Steady
  BY DEF tables, Steady, Present
<1>3. raced \/ Agrees'
  BY DEF tables, IInv, Agrees, StageFits, Present, Live
<1> QED BY <1>1, <1>2, <1>3

-----------------------------------------------------------------------------
(* The steps that read.                                                    *)

\* A worker that reads, checks and assigns.
LEMMA ReadKeeps ==
    ASSUME IInv, NEW w \in Workers, NEW r \in Request, Moves(w, r), Reads, Fits(w)'
    PROVE  IInv'
<1>1. /\ req' \in [Workers -> Request]
      /\ \A v \in Workers \ {w} : req'[v] = req[v]
  BY MovesOwn DEF IInv
<1>2. UNCHANGED <<uncollected, stale, raced>> /\ UNCHANGED tables
  BY DEF Reads
<1>3. TablesOK' /\ Steady /\ (raced \/ Agrees')
  BY <1>2, TablesAlone
<1>4. ASSUME NEW v \in Workers PROVE Fits(v)'
  <2>1. CASE v = w
    BY <2>1
  <2>2. CASE v # w
    <3>1. Bystander(v)
      BY <1>1, <1>2, <2>2 DEF Bystander, EntriesOf, Present, tables
    <3> QED BY <1>3, <3>1, StillFits DEF IInv
  <2> QED BY <2>1, <2>2
<1>5. TypeOK'
  BY <1>1, <1>2, <1>3, TypeParts DEF IInv, TypeOK, TablesOK, TablesTypeOK
<1> QED BY <1>2, <1>3, <1>4, <1>5 DEF IInv

\* The first query of a handler.
LEMMA OpensKeeps ==
    ASSUME IInv, NEW w \in Workers, NEW e \in Engagements,
           NEW o \in {"edit", "status", "archive", "annotate", "add", "restage",
                      "remove", "request", "cancel", "approve"},
           NEW r \in Request, Opens(w, o, e, r),
           o = "add" => r.asks \in StagesOf[engagements[e].model],
           o \in {"restage", "remove"} =>
              r.entry \in Entries /\ Present(r.entry) /\ entries[r.entry].of = e,
           o = "restage" =>
              /\ entries[r.entry].stage = r.was /\ r.was \in Stages
              /\ r.asks \in StagesOf[engagements[e].model] \cup {r.was},
           o = "request" => r.actor \in Admins,
           o \in {"cancel", "approve"} => r.ticket = pending[e] /\ r.ticket \in Ticket,
           o = "approve" => r.actor # r.ticket.by
    PROVE  IInv'
<1> DEFINE s == [r EXCEPT !.op = o, !.step = "loaded", !.target = e,
                          !.seen = engagements[e], !.want = engagements[e]]
<1>1. engagements[e] \in Row /\ engagements[e] # Unborn
  BY DEF Opens, Live, IInv, TypeOK
<1>2. s \in Request
  BY <1>1 DEF Request
<1>3. /\ s.op = o /\ s.step = "loaded" /\ s.target = e
      /\ s.seen = engagements[e] /\ s.want = engagements[e]
      /\ s.asks = r.asks /\ s.entry = r.entry /\ s.was = r.was
      /\ s.actor = r.actor /\ s.ticket = r.ticket
  BY DEF Request
<1>4. Moves(w, s) /\ Reads
  BY DEF Opens
<1> HIDE DEF s
<1>5. req'[w] = s /\ UNCHANGED tables
  BY <1>2, <1>4, MovesOwn DEF IInv, Reads
<1>6. Holds(w)'
  BY <1>1, <1>3, <1>5 DEF Holds, tables, Present
<1>7. Knows(w)'
  BY <1>1, <1>3, <1>5 DEF Knows, At, tables, Present
<1>8. Fits(w)'
  BY <1>3, <1>5, <1>6, <1>7 DEF Fits, Fresh, Collected, At
<1> QED BY <1>2, <1>4, <1>8, ReadKeeps

LEMMA LoadsKeep ==
    ASSUME IInv, NEW w \in Workers,
           \/ Open(w) \/ AddLoad(w) \/ RestageLoad(w) \/ RemoveLoad(w)
           \/ RequestLoad(w) \/ CancelLoad(w) \/ ApproveLoad(w)
    PROVE  IInv'
<1>1. CASE Open(w)
  <2>1. PICK e \in Engagements, o \in {"edit", "status", "archive", "annotate"} :
           Opens(w, o, e, Idle)
    BY <1>1 DEF Open
  <2> QED BY <2>1, IdleIsRequest, OpensKeeps
<1>2. CASE AddLoad(w)
  <2>1. PICK e \in LiveEngagements : \E s \in Offered(engagements[e].model) :
           Opens(w, "add", e, [Idle EXCEPT !.asks = s])
    BY <1>2 DEF AddLoad
  <2>2. PICK s \in Offered(engagements[e].model) : Opens(w, "add", e, [Idle EXCEPT !.asks = s])
    BY <2>1
  <2>3. e \in Engagements /\ engagements[e] \in Row
    BY DEF LiveEngagements, Live, IInv, TypeOK
  <2>4. s \in Stages /\ s \in StagesOf[engagements[e].model]
    BY <2>2, <2>3, StagesAssumption DEF Offered, Row
  <2> DEFINE r == [Idle EXCEPT !.asks = s]
  <2>5. r \in Request /\ r.asks = s
    BY <2>4 DEF Idle, Request
  <2>6. Opens(w, "add", e, r)
    BY <2>2
  <2> HIDE DEF r
  <2> QED BY <2>3, <2>4, <2>5, <2>6, OpensKeeps
<1>3. CASE RestageLoad(w)
  <2>1. PICK x \in Entries : /\ Present(x)
           /\ \E s \in Offered(engagements[entries[x].of].model) \cup {entries[x].stage} :
                Opens(w, "restage", entries[x].of,
                      [Idle EXCEPT !.entry = x, !.was = entries[x].stage, !.asks = s])
    BY <1>3 DEF RestageLoad
  <2> DEFINE e == entries[x].of
             was == entries[x].stage
  <2>2. PICK s \in Offered(engagements[e].model) \cup {was} :
           Opens(w, "restage", e, [Idle EXCEPT !.entry = x, !.was = was, !.asks = s])
    BY <2>1
  <2>3. e \in Engagements /\ was \in Stages /\ engagements[e] \in Row
    BY <2>1, <2>2 DEF Present, Opens, Live, IInv, TypeOK, Entry
  <2>4. s \in Stages /\ s \in StagesOf[engagements[e].model] \cup {was}
    BY <2>2, <2>3, StagesAssumption DEF Offered, Row
  <2> DEFINE r == [Idle EXCEPT !.entry = x, !.was = was, !.asks = s]
  <2>5. r \in Request /\ r.entry = x /\ r.was = was /\ r.asks = s
    BY <2>3, <2>4 DEF Idle, Request
  <2>6. Opens(w, "restage", e, r)
    BY <2>2
  <2> HIDE DEF r
  <2> QED BY <2>1, <2>3, <2>4, <2>5, <2>6, OpensKeeps
<1>4. CASE RemoveLoad(w)
  <2>1. PICK x \in Entries : Present(x) /\ Opens(w, "remove", entries[x].of, [Idle EXCEPT !.entry = x])
    BY <1>4 DEF RemoveLoad
  <2>2. entries[x].of \in Engagements
    BY <2>1 DEF Present, IInv, TypeOK, Entry
  <2> DEFINE r == [Idle EXCEPT !.entry = x]
             e == entries[x].of
  <2>3. r \in Request /\ r.entry = x
    BY DEF Idle, Request
  <2>4. Opens(w, "remove", e, r)
    BY <2>1
  <2>5. entries[r.entry].of = e
    BY <2>3
  <2> HIDE DEF r, e
  <2> QED BY <2>1, <2>2, <2>3, <2>4, <2>5, OpensKeeps
<1>5. CASE RequestLoad(w)
  <2>1. PICK e \in Engagements, actor \in Admins : Opens(w, "request", e, [Idle EXCEPT !.actor = actor])
    BY <1>5 DEF RequestLoad
  <2> DEFINE r == [Idle EXCEPT !.actor = actor]
  <2>2. r \in Request /\ r.actor = actor
    BY DEF Idle, Request
  <2>3. Opens(w, "request", e, r)
    BY <2>1
  <2> HIDE DEF r
  <2> QED BY <2>2, <2>3, OpensKeeps
<1>6. CASE CancelLoad(w)
  <2>1. PICK e \in Engagements : /\ pending[e] # NoTicket
                                 /\ Opens(w, "cancel", e, [Idle EXCEPT !.ticket = pending[e]])
    BY <1>6 DEF CancelLoad
  <2> DEFINE r == [Idle EXCEPT !.ticket = pending[e]]
  <2>2. pending[e] \in Ticket
    BY <2>1 DEF IInv, TypeOK
  <2>3. r \in Request /\ r.ticket = pending[e]
    BY <2>2 DEF Idle, Request
  <2>4. Opens(w, "cancel", e, r)
    BY <2>1
  <2> HIDE DEF r
  <2> QED BY <2>2, <2>3, <2>4, OpensKeeps
<1>7. CASE ApproveLoad(w)
  <2>1. PICK e \in Engagements : /\ pending[e] # NoTicket
           /\ \E actor \in Approvers(pending[e]) :
                Opens(w, "approve", e, [Idle EXCEPT !.actor = actor, !.ticket = pending[e]])
    BY <1>7 DEF ApproveLoad
  <2>2. PICK actor \in Approvers(pending[e]) :
           Opens(w, "approve", e, [Idle EXCEPT !.actor = actor, !.ticket = pending[e]])
    BY <2>1
  <2> DEFINE r == [Idle EXCEPT !.actor = actor, !.ticket = pending[e]]
  <2>3. pending[e] \in Ticket
    BY <2>1 DEF IInv, TypeOK
  <2>4. actor \in Admins \cup Operators /\ actor # pending[e].by
    BY DEF Approvers, Staff
  <2>5. r \in Request /\ r.ticket = pending[e] /\ r.actor = actor
    BY <2>3, <2>4 DEF Idle, Request
  <2>6. Opens(w, "approve", e, r)
    BY <2>2
  <2> HIDE DEF r
  <2> QED BY <2>3, <2>4, <2>5, <2>6, OpensKeeps
<1> QED BY <1>1, <1>2, <1>3, <1>4, <1>5, <1>6, <1>7

\* The request after the form's assignments, and after the children are loaded.
Assign(r, at, want) == [r EXCEPT !.step = at, !.want = want]
Collect(r, k) == [r EXCEPT !.step = "collected", !.known = k]

LEMMA AssignIs ==
    ASSUME NEW r \in Request, NEW at \in {"flushed", "checked"}, NEW want \in Row
    PROVE  /\ Assign(r, at, want) \in Request
           /\ Assign(r, at, want).op = r.op /\ Assign(r, at, want).step = at
           /\ Assign(r, at, want).target = r.target
           /\ Assign(r, at, want).seen = r.seen /\ Assign(r, at, want).want = want
<1> DEFINE s == Assign(r, at, want)
<1>1. s = [r EXCEPT !.step = at, !.want = want]
  BY DEF Assign
<1> HIDE DEF s
<1>2. /\ s \in Request /\ s.op = r.op /\ s.step = at
      /\ s.target = r.target /\ s.seen = r.seen /\ s.want = want
  BY <1>1 DEF Request
<1> QED BY <1>2 DEF s

LEMMA CollectIs ==
    ASSUME NEW r \in Request, NEW k \in SUBSET Entries
    PROVE  /\ Collect(r, k) \in Request
           /\ Collect(r, k).op = r.op /\ Collect(r, k).step = "collected"
           /\ Collect(r, k).known = k /\ Collect(r, k).target = r.target
           /\ Collect(r, k).seen = r.seen /\ Collect(r, k).want = r.want
           /\ Collect(r, k).ticket = r.ticket /\ Collect(r, k).actor = r.actor
<1> DEFINE s == Collect(r, k)
<1>1. s = [r EXCEPT !.step = "collected", !.known = k]
  BY DEF Collect
<1> HIDE DEF s
<1>2. s \in Request /\ s.op = r.op /\ s.step = "collected" /\ s.known = k
  BY <1>1 DEF Request
<1>3. /\ s.target = r.target /\ s.seen = r.seen /\ s.want = r.want
      /\ s.ticket = r.ticket /\ s.actor = r.actor
  BY <1>1 DEF Request
<1> QED BY <1>2, <1>3 DEF s

LEMMA EditCheckKeeps == ASSUME IInv, NEW w \in Workers, EditCheck(w) PROVE IInv'
<1> DEFINE r == req[w]
<1>1. PICK flushes \in BOOLEAN, m \in Models :
         /\ flushes => Live(r.target) /\ ~Locked(r.target, w)
         /\ Moves(w, [r EXCEPT
                !.step = IF flushes THEN "flushed" ELSE "checked",
                !.want.model = IF MayChangeModel(r.target) THEN m ELSE @])
  BY DEF EditCheck
<1> DEFINE new == IF MayChangeModel(r.target) THEN m ELSE r.want.model
           want == [r.want EXCEPT !.model = new]
           at == IF flushes THEN "flushed" ELSE "checked"
           s == Assign(r, at, want)
<1>2. /\ r \in Request /\ r.op = "edit" /\ r.step = "loaded" /\ Reads
      /\ r.want \in Row /\ Holds(w) /\ Fresh(w)
  BY DEF EditCheck, At, IInv, TypeOK, Fits, Holds
<1>3. want \in Row /\ want.model = new
  BY <1>2 DEF Row
<1>4. Moves(w, s)
  BY <1>1, <1>2 DEF Request, Assign
<1>a. at \in {"flushed", "checked"}
  OBVIOUS
<1> HIDE DEF want, new, at
<1>b. r \in Request /\ want \in Row
  BY <1>2, <1>3
<1>c. /\ s \in Request /\ s.op = r.op /\ s.step = at
      /\ s.target = r.target /\ s.seen = r.seen /\ s.want = want
  BY <1>a, <1>b, AssignIs
<1>5. /\ s \in Request /\ s.op = "edit" /\ s.step \in {"flushed", "checked"}
      /\ s.target = r.target /\ s.seen = r.seen /\ s.want = want
  BY <1>2, <1>a, <1>c
<1> HIDE DEF s
<1>6. req'[w] = s /\ UNCHANGED <<tables, stale>>
  BY <1>2, <1>4, <1>5, MovesOwn DEF IInv, Reads
<1>7. Holds(w)'
  BY <1>2, <1>3, <1>5, <1>6 DEF Holds, tables
<1>8. ~stale[w] => new = r.seen.model \/ EntriesOf(r.target) = {}
  BY <1>2 DEF new, MayChangeModel, Fresh, Knows, At
<1>9. Fresh(w)'
  BY <1>2, <1>3, <1>5, <1>6, <1>8 DEF Fresh, Knows, At, tables, EntriesOf, Present
<1>10. Fits(w)'
  BY <1>5, <1>6, <1>7, <1>9 DEF Fits, Collected, At
<1> QED BY <1>2, <1>4, <1>5, <1>10, ReadKeeps

LEMMA ApproveCollectKeeps == ASSUME IInv, NEW w \in Workers, ApproveCollect(w) PROVE IInv'
<1> DEFINE r == req[w]
           k == EntriesOf(r.target)
           s == Collect(r, k)
<1>1. r \in Request /\ r.op = "approve" /\ r.step = "loaded" /\ Moves(w, s) /\ Reads
  BY DEF ApproveCollect, At, IInv, TypeOK, Collect
<1>a. k \in SUBSET Entries
  BY DEF EntriesOf
<1> HIDE DEF k
<1>2. /\ s \in Request /\ s.op = "approve" /\ s.step = "collected" /\ s.known = k
      /\ s.target = r.target /\ s.seen = r.seen /\ s.want = r.want
      /\ s.ticket = r.ticket /\ s.actor = r.actor
  BY <1>1, <1>a, CollectIs
<1> HIDE DEF s
<1>3. req'[w] = s /\ UNCHANGED <<tables, stale>>
  BY <1>1, <1>2, MovesOwn DEF IInv, Reads
<1>4. Holds(w)'
  BY <1>1, <1>2, <1>3 DEF IInv, Fits, Holds, tables, Present
<1>5. Fresh(w)'
  BY <1>1, <1>2, <1>3 DEF IInv, Fits, Fresh, Knows, At, tables
<1>6. Collected(w)'
  BY <1>2, <1>3 DEF Collected, At, k, EntriesOf, Present, tables
<1> QED BY <1>1, <1>2, <1>4, <1>5, <1>6, ReadKeeps DEF Fits

LEMMA EndsKeeps == ASSUME IInv, NEW w \in Workers, Ends(w) PROVE IInv'
<1>1. /\ req' \in [Workers -> Request] /\ req'[w] = Idle
      /\ \A v \in Workers \ {w} : req'[v] = req[v]
  BY IdleIsRequest, MovesOwn DEF Ends, IInv
<1>2. /\ UNCHANGED tables /\ raced' = raced
      /\ uncollected' \in [Workers -> BOOLEAN] /\ stale' \in [Workers -> BOOLEAN]
      /\ \A v \in Workers \ {w} : uncollected'[v] = uncollected[v] /\ stale'[v] = stale[v]
  BY DEF Ends, IInv, TypeOK
<1>3. TablesOK' /\ Steady /\ (raced \/ Agrees')
  BY <1>2, TablesAlone
<1>4. ASSUME NEW v \in Workers PROVE Fits(v)'
  <2>1. CASE v = w
    BY <1>1, <2>1 DEF Idle, Fits, Holds, Fresh, Collected, At
  <2>2. CASE v # w
    <3>1. Bystander(v)
      BY <1>1, <1>2, <2>2 DEF Bystander, EntriesOf, Present, tables
    <3> QED BY <1>3, <3>1, StillFits DEF IInv
  <2> QED BY <2>1, <2>2
<1>5. TypeOK'
  BY <1>1, <1>2, <1>3, TypeParts DEF IInv, TypeOK, TablesOK, TablesTypeOK
<1> QED BY <1>2, <1>3, <1>4, <1>5 DEF IInv

LEMMA RestartKeeps == ASSUME IInv, Restart PROVE IInv'
<1>1. UNCHANGED tables /\ raced' = raced
  BY DEF Restart
<1>2. TablesOK' /\ (raced \/ Agrees')
  BY <1>1, TablesAlone
<1>3. ASSUME NEW v \in Workers PROVE Fits(v)'
  BY DEF Restart, Idle, Fits, Holds, Fresh, Collected, At
<1>4. TypeOK'
  BY <1>1, <1>2, IdleIsRequest DEF Restart, IInv, TypeOK, TablesOK, TablesTypeOK
<1> QED BY <1>1, <1>2, <1>3, <1>4 DEF IInv

-----------------------------------------------------------------------------
(* The steps that write.                                                   *)

\* The commit of w.  It is enough that the tables agree when w was not stale:
\* if it was, either it changes nothing, or the commit is a race.
LEMMA CommitKeeps ==
    ASSUME IInv, NEW w \in Workers, Commits(w), TablesOK', Steady,
           uncollected' \in [Workers -> BOOLEAN],
           raced \/ stale[w] \/ Agrees',
           \A v \in Workers \ {w} :
              At(v, "approve", "collected") /\ ~uncollected'[v] =>
                 ~uncollected[v] /\ EntriesOf(req[v].target)' \subseteq EntriesOf(req[v].target)
    PROVE  IInv'
<1>1. /\ req' \in [Workers -> Request] /\ req'[w] = Idle
      /\ \A v \in Workers \ {w} : req'[v] = req[v]
  BY IdleIsRequest, MovesOwn DEF Commits, IInv
<1>2. /\ stale' \in [Workers -> BOOLEAN] /\ raced' \in BOOLEAN
      /\ \A v \in Workers \ {w} : req[v].step # "idle" /\ ~stale'[v] =>
                                     ~stale[v] /\ UNCHANGED tables
  BY DEF Commits, IInv, TypeOK
<1>3. raced' \/ Agrees'
  <2>1. CASE UNCHANGED tables
    BY <2>1, TablesAlone DEF Commits
  <2>2. CASE tables' # tables
    BY <2>2 DEF Commits
  <2> QED BY <2>1, <2>2
<1>4. ASSUME NEW v \in Workers PROVE Fits(v)'
  <2>1. CASE v = w
    BY <1>1, <2>1 DEF Idle, Fits, Holds, Fresh, Collected, At
  <2>2. CASE v # w
    <3>1. Fits(v)
      BY DEF IInv
    <3>2. CASE req[v].op = "none"
      BY <1>1, <2>2, <3>1, <3>2 DEF Fits, Holds, Fresh, Collected, At
    <3>3. CASE req[v].op # "none" /\ req[v].step # "idle"
      <4>1. Bystander(v)
        BY <1>1, <1>2, <2>2, <3>3 DEF Bystander
      <4> QED BY <3>1, <4>1, StillFits
    <3> QED BY <3>1, <3>2, <3>3 DEF Fits, Holds
  <2> QED BY <2>1, <2>2
<1>5. TypeOK'
  BY <1>1, <1>2, TypeParts DEF TypeOK, TablesOK, TablesTypeOK
<1> QED BY <1>3, <1>4, <1>5 DEF IInv

\* A commit with an activity row for e, which tells the deletions of e.
LEMMA LoggedKeeps ==
    ASSUME IInv, NEW w \in Workers, NEW e \in Engagements, CommitsLogged(w, e),
           TablesOK', Steady, raced \/ stale[w] \/ Agrees',
           \A t \in Engagements \ {e} : EntriesOf(t)' \subseteq EntriesOf(t)
    PROVE  IInv'
<1>1. /\ Commits(w) /\ uncollected' \in [Workers -> BOOLEAN]
      /\ \A v \in Workers \ {w} : ~uncollected'[v] =>
            ~uncollected[v] /\ ~(At(v, "approve", "collected") /\ req[v].target = e)
  BY DEF CommitsLogged, IInv, TypeOK
<1>2. \A v \in Workers : At(v, "approve", "collected") => req[v].target \in Engagements
  BY DEF IInv, Fits, Holds, At
<1>3. ASSUME NEW v \in Workers \ {w}, At(v, "approve", "collected"), ~uncollected'[v]
      PROVE  ~uncollected[v] /\ EntriesOf(req[v].target)' \subseteq EntriesOf(req[v].target)
  <2> DEFINE t == req[v].target
  <2>1. t \in Engagements \ {e} /\ ~uncollected[v] /\ req'[v].target = t
    BY <1>1, <1>2, <1>3 DEF Commits, Moves, IInv, TypeOK
  <2>2. EntriesOf(t)' = {x \in Entries : Present(x)' /\ entries'[x].of = t}
    BY <2>1 DEF EntriesOf
  <2>3. \A d \in Engagements \ {e} :
           {x \in Entries : Present(x)' /\ entries'[x].of = d} \subseteq EntriesOf(d)
    BY DEF EntriesOf
  <2> QED BY <2>1, <2>2, <2>3
<1> QED BY <1>1, <1>3, CommitKeeps

\* The columns of a row: its status or its archive flag as the log then says.
LEMMA RowWritten ==
    ASSUME IInv, NEW e \in Engagements, Live(e), NEW row \in Row,
           engagements' = [engagements EXCEPT ![e] = row], UNCHANGED <<entries, pending, issued>>,
           logged' \in [Engagements -> [status : Statuses, archived : BOOLEAN]],
           \A d \in Engagements \ {e} : logged'[d] = logged[d],
           row.archived = logged'[e].archived
    PROVE  /\ TablesOK' /\ Steady
           /\ \A t \in Engagements : EntriesOf(t)' \subseteq EntriesOf(t)
<1>1. row \notin {Unborn, Deleted}
  BY NullsAssumption
<1>2. TablesTypeOK /\ NoOrphans /\ ArchivedAsLogged
  BY DEF IInv, TablesOK
<1>3. engagements'[e] = row /\ \A d \in Engagements \ {e} : engagements'[d] = engagements[d]
  BY <1>2 DEF TablesTypeOK
<1>4. TablesTypeOK'
  BY <1>2 DEF TablesTypeOK
<1>5. \A d \in Engagements : Live(d) <=> Live(d)'
  BY <1>1, <1>3 DEF Live
<1>6. NoOrphans'
  BY <1>2, <1>5 DEF NoOrphans, Present, TablesTypeOK, Entry
<1>7. ArchivedAsLogged'
  BY <1>2, <1>3, <1>5 DEF ArchivedAsLogged
<1>8. Steady /\ \A t \in Engagements : EntriesOf(t)' \subseteq EntriesOf(t)
  BY <1>1, <1>3 DEF Steady, EntriesOf, Present
<1> QED BY <1>4, <1>6, <1>7, <1>8 DEF TablesOK

\* The tables still agree if the row keeps the model its entries fit, and the
\* status is the one logged.
LEMMA RowAgrees ==
    ASSUME IInv, ~raced, NEW e \in Engagements, Live(e), NEW row \in Row,
           engagements' = [engagements EXCEPT ![e] = row], UNCHANGED entries,
           \A d \in Engagements \ {e} : logged'[d] = logged[d],
           row.model = engagements[e].model \/ EntriesOf(e) = {},
           row.status = logged'[e].status
    PROVE  Agrees'
<1>1. engagements'[e] = row /\ \A d \in Engagements \ {e} : engagements'[d] = engagements[d]
  BY DEF IInv, TypeOK
<1>2. ASSUME NEW x \in Entries PROVE StageFits(x)'
  <2>1. StageFits(x)
    BY DEF IInv, Agrees
  <2>2. Present(x) => entries[x].of \in Engagements
    BY DEF IInv, TypeOK, Present, Entry
  <2> QED BY <1>1, <2>1, <2>2 DEF StageFits, Present, EntriesOf
<1>3. ASSUME NEW d \in Engagements, Live(d)' PROVE engagements'[d].status = logged'[d].status
  BY <1>1, <1>3 DEF IInv, Agrees, Live
<1> QED BY <1>2, <1>3 DEF Agrees

LEMMA CreateKeeps == ASSUME IInv, NEW w \in Workers, CreateEngagement(w) PROVE IInv'
<1>1. PICK e \in Engagements, m \in Models :
         /\ engagements[e] = Unborn
         /\ engagements' = [engagements EXCEPT ![e] = NewEngagement(m)]
         /\ logged' = [logged EXCEPT ![e] = [status |-> "backlog", archived |-> FALSE]]
         /\ UNCHANGED <<entries, pending, issued>>
         /\ CommitsLogged(w, e)
  BY DEF CreateEngagement
<1> DEFINE row == NewEngagement(m)
           said == [status |-> "backlog", archived |-> FALSE]
<1>2. /\ row \in Row /\ row.status = "backlog" /\ row.archived = FALSE
      /\ said \in [status : Statuses, archived : BOOLEAN]
      /\ said.status = "backlog" /\ said.archived = FALSE
  BY StatusAssumption DEF NewEngagement, Row
<1>3. row \notin {Unborn, Deleted}
  BY <1>2, NullsAssumption
<1>4. engagements' = [engagements EXCEPT ![e] = row] /\ logged' = [logged EXCEPT ![e] = said]
  BY <1>1
<1> HIDE DEF row, said
<1>5. TablesTypeOK /\ NoOrphans /\ ArchivedAsLogged
  BY DEF IInv, TablesOK
<1>6. /\ engagements'[e] = row /\ \A d \in Engagements \ {e} : engagements'[d] = engagements[d]
      /\ logged'[e] = said /\ \A d \in Engagements \ {e} : logged'[d] = logged[d]
  BY <1>4, <1>5 DEF TablesTypeOK
<1>7. TablesTypeOK'
  BY <1>1, <1>2, <1>4, <1>5 DEF TablesTypeOK
<1>8. \A d \in Engagements : Live(d) => Live(d)' /\ d # e
  BY <1>1, <1>6 DEF Live
<1>9. NoOrphans'
  BY <1>1, <1>5, <1>8 DEF NoOrphans, Present, TablesTypeOK, Entry
<1>10. ArchivedAsLogged'
  BY <1>2, <1>5, <1>6 DEF ArchivedAsLogged, Live
<1>11. Steady /\ \A t \in Engagements : EntriesOf(t)' \subseteq EntriesOf(t)
  BY <1>1, <1>3, <1>6 DEF Steady, EntriesOf, Present
<1>12. ASSUME ~raced PROVE Agrees'
  <2>1. ASSUME NEW x \in Entries, Present(x)' PROVE StageFits(x)'
    <3>1. /\ Present(x) /\ entries'[x] = entries[x] /\ StageFits(x)
          /\ entries[x].of \in Engagements /\ Live(entries[x].of)
      BY <1>1, <1>5, <1>12, <2>1 DEF Present, IInv, Agrees, NoOrphans, TablesTypeOK, Entry
    <3>2. engagements'[entries[x].of] = engagements[entries[x].of]
      BY <1>6, <1>8, <3>1
    <3> QED BY <3>1, <3>2 DEF StageFits
  <2>2. ASSUME NEW d \in Engagements, Live(d)' PROVE engagements'[d].status = logged'[d].status
    BY <1>2, <1>6, <1>12, <2>2 DEF IInv, Agrees, Live
  <2> QED BY <2>1, <2>2 DEF Agrees, StageFits
<1> QED BY <1>1, <1>7, <1>9, <1>10, <1>11, <1>12, LoggedKeeps DEF TablesOK

LEMMA EditCommitKeeps == ASSUME IInv, NEW w \in Workers, EditCommit(w) PROVE IInv'
<1> DEFINE r == req[w]
           e == r.target
           row == [engagements[e] EXCEPT
                     !.model = Column(engagements[e].model, r.seen.model, r.want.model)]
<1>1. CASE ~Live(e)
  BY <1>1, EndsKeeps DEF EditCommit
<1>2. CASE Live(e)
  <2>1. /\ e \in Engagements /\ engagements[e] \in Row /\ r.want \in Row /\ r.seen \in Row
        /\ Fresh(w) /\ r.op = "edit"
    BY <1>2 DEF EditCommit, IInv, TypeOK, Fits, Holds, Live
  <2>2. /\ engagements' = [engagements EXCEPT ![e] = row] /\ UNCHANGED <<entries, pending, issued>>
        /\ logged' = logged /\ CommitsLogged(w, e)
    BY <1>2, <2>1 DEF EditCommit, IInv, TypeOK
  <2>3. /\ row \in Row /\ row.archived = engagements[e].archived
        /\ row.status = engagements[e].status
        /\ row.model \in {engagements[e].model, r.want.model}
        /\ r.want.model = r.seen.model => row.model = engagements[e].model
    BY <2>1 DEF Row, Column
  <2> HIDE DEF row
  <2>4. ArchivedAsLogged
    BY DEF IInv, TablesOK
  <2>5. row.archived = logged'[e].archived
    BY <1>2, <2>1, <2>2, <2>3, <2>4 DEF ArchivedAsLogged
  <2>6. logged' \in [Engagements -> [status : Statuses, archived : BOOLEAN]]
    BY <2>2 DEF IInv, TypeOK
  <2>7. /\ TablesOK' /\ Steady
        /\ \A t \in Engagements : EntriesOf(t)' \subseteq EntriesOf(t)
    BY <1>2, <2>1, <2>2, <2>3, <2>5, <2>6, RowWritten
  <2>8. ASSUME ~raced, ~stale[w] PROVE Agrees'
    <3>1. row.model = engagements[e].model \/ EntriesOf(e) = {}
      BY <2>1, <2>3, <2>8 DEF Fresh, Knows
    <3>2. row.status = logged'[e].status
      BY <1>2, <2>1, <2>2, <2>3, <2>8 DEF IInv, Agrees
    <3> HIDE DEF e
    <3> QED BY <1>2, <2>1, <2>2, <2>3, <2>8, <3>1, <3>2, RowAgrees
  <2> HIDE DEF e
  <2> QED BY <2>1, <2>2, <2>7, <2>8, LoggedKeeps
<1> QED BY <1>1, <1>2

LEMMA StatusCommitKeeps == ASSUME IInv, NEW w \in Workers, StatusCommit(w) PROVE IInv'
<1> DEFINE r == req[w]
           e == r.target
<1>1. CASE ~Live(e)
  BY <1>1, EndsKeeps DEF StatusCommit
<1>2. CASE Live(e)
  <2>0. PICK s \in Statuses :
           /\ engagements' = [engagements EXCEPT ![e].status = Column(@, r.seen.status, s)]
           /\ logged' = [logged EXCEPT ![e].status = s]
           /\ UNCHANGED <<entries, pending, issued>> /\ CommitsLogged(w, e)
    BY <1>2 DEF StatusCommit, SaidStatus
  <2> DEFINE row == [engagements[e] EXCEPT
                       !.status = Column(engagements[e].status, r.seen.status, s)]
             said == [logged[e] EXCEPT !.status = s]
  <2>1. /\ e \in Engagements /\ engagements[e] \in Row /\ r.seen \in Row /\ Fresh(w)
        /\ r.op = "status" /\ logged[e] \in [status : Statuses, archived : BOOLEAN]
    BY <1>2 DEF StatusCommit, At, IInv, TypeOK, Fits, Holds, Live
  <2>2. engagements' = [engagements EXCEPT ![e] = row] /\ logged' = [logged EXCEPT ![e] = said]
    BY <2>0, <2>1 DEF IInv, TypeOK
  <2>3. /\ row \in Row /\ row.archived = engagements[e].archived
        /\ row.model = engagements[e].model
        /\ r.seen.status = engagements[e].status => row.status = s
    BY <2>1 DEF Row, Column
  <2>4. /\ said \in [status : Statuses, archived : BOOLEAN]
        /\ said.status = s /\ said.archived = logged[e].archived
    BY <2>1
  <2> HIDE DEF row, said
  <2>5. /\ logged' \in [Engagements -> [status : Statuses, archived : BOOLEAN]]
        /\ logged'[e] = said /\ \A d \in Engagements \ {e} : logged'[d] = logged[d]
    BY <2>1, <2>2, <2>4 DEF IInv, TypeOK
  <2>6. row.archived = logged'[e].archived
    BY <1>2, <2>1, <2>3, <2>4, <2>5 DEF IInv, TablesOK, ArchivedAsLogged
  <2>7. /\ TablesOK' /\ Steady
        /\ \A t \in Engagements : EntriesOf(t)' \subseteq EntriesOf(t)
    BY <1>2, <2>0, <2>1, <2>2, <2>3, <2>5, <2>6, RowWritten
  <2>8. ASSUME ~raced, ~stale[w] PROVE Agrees'
    <3>1. row.status = logged'[e].status
      BY <2>1, <2>3, <2>4, <2>5, <2>8 DEF Fresh, Knows
    <3> HIDE DEF e
    <3> QED BY <1>2, <2>0, <2>1, <2>2, <2>3, <2>5, <2>8, <3>1, RowAgrees
  <2> HIDE DEF e
  <2> QED BY <2>0, <2>1, <2>7, <2>8, LoggedKeeps
<1> QED BY <1>1, <1>2

LEMMA ArchiveCommitKeeps == ASSUME IInv, NEW w \in Workers, ArchiveCommit(w) PROVE IInv'
<1> DEFINE r == req[w]
           e == r.target
           row == [engagements[e] EXCEPT
                     !.archived = Column(engagements[e].archived, r.seen.archived, Toggled(r.seen))]
           said == [logged[e] EXCEPT !.archived = ~r.seen.archived]
<1>1. CASE ~Live(e)
  BY <1>1, EndsKeeps DEF ArchiveCommit
<1>2. CASE Live(e)
  <2>1. /\ e \in Engagements /\ engagements[e] \in Row /\ r.seen \in Row
        /\ logged[e] \in [status : Statuses, archived : BOOLEAN]
    BY <1>2 DEF ArchiveCommit, At, IInv, TypeOK, Fits, Holds, Live
  <2>2. /\ engagements' = [engagements EXCEPT ![e] = row] /\ logged' = [logged EXCEPT ![e] = said]
        /\ UNCHANGED <<entries, pending, issued>> /\ CommitsLogged(w, e)
    BY <1>2, <2>1 DEF ArchiveCommit, IInv, TypeOK
  <2>3. /\ row \in Row /\ row.archived = ~r.seen.archived
        /\ row.model = engagements[e].model /\ row.status = engagements[e].status
    BY <2>1 DEF Row, Column, Toggled
  <2>4. /\ said \in [status : Statuses, archived : BOOLEAN]
        /\ said.status = logged[e].status /\ said.archived = ~r.seen.archived
    BY <2>1 DEF Row
  <2> HIDE DEF row, said
  <2>5. /\ logged' \in [Engagements -> [status : Statuses, archived : BOOLEAN]]
        /\ logged'[e] = said /\ \A d \in Engagements \ {e} : logged'[d] = logged[d]
    BY <2>1, <2>2, <2>4 DEF IInv, TypeOK
  <2>6. row.archived = logged'[e].archived
    BY <2>3, <2>4, <2>5
  <2>7. /\ TablesOK' /\ Steady
        /\ \A t \in Engagements : EntriesOf(t)' \subseteq EntriesOf(t)
    BY <1>2, <2>1, <2>2, <2>3, <2>5, <2>6, RowWritten
  <2>8. ASSUME ~raced PROVE Agrees'
    <3>1. row.status = logged'[e].status
      BY <1>2, <2>1, <2>3, <2>4, <2>5, <2>8 DEF IInv, Agrees
    <3> HIDE DEF e
    <3> QED BY <1>2, <2>1, <2>2, <2>3, <2>5, <2>8, <3>1, RowAgrees
  <2> HIDE DEF e
  <2> QED BY <2>1, <2>2, <2>7, <2>8, LoggedKeeps
<1> QED BY <1>1, <1>2

LEMMA AnnotateCommitKeeps == ASSUME IInv, NEW w \in Workers, AnnotateCommit(w) PROVE IInv'
<1> DEFINE e == req[w].target
<1>1. CASE ~Live(e)
  BY <1>1, EndsKeeps DEF AnnotateCommit
<1>2. CASE Live(e)
  <2>1. UNCHANGED tables /\ CommitsLogged(w, e) /\ e \in Engagements
    BY <1>2 DEF AnnotateCommit, At, IInv, Fits, Holds
  <2>2. TablesOK' /\ Steady /\ (raced \/ Agrees')
    BY <2>1, TablesAlone
  <2>3. \A t \in Engagements : EntriesOf(t)' \subseteq EntriesOf(t)
    BY <2>1 DEF tables, EntriesOf, Present
  <2> HIDE DEF e
  <2> QED BY <2>1, <2>2, <2>3, LoggedKeeps
<1> QED BY <1>1, <1>2

\* An entry that joins, changes its stage or goes.
LEMMA EntryWritten ==
    ASSUME IInv, NEW e \in Engagements, Live(e), NEW x \in Entries, NEW row \in Entry \cup {Deleted},
           entries' = [entries EXCEPT ![x] = row],
           UNCHANGED <<engagements, pending, issued, logged>>,
           row # Deleted => row.of = e,
           entries[x] = Unborn \/ row = Deleted \/ (Present(x) /\ entries[x].of = e)
    PROVE  /\ TablesOK' /\ Steady
           /\ \A t \in Engagements \ {e} : EntriesOf(t)' \subseteq EntriesOf(t)
<1>1. TablesTypeOK /\ NoOrphans /\ ArchivedAsLogged
  BY DEF IInv, TablesOK
<1>2. entries'[x] = row /\ \A y \in Entries \ {x} : entries'[y] = entries[y]
  BY <1>1 DEF TablesTypeOK
<1>3. TablesTypeOK'
  BY <1>1 DEF TablesTypeOK
<1>4. ArchivedAsLogged'
  BY <1>1 DEF ArchivedAsLogged, Live
<1>5. NoOrphans'
  BY <1>1, <1>2 DEF NoOrphans, Present, Live
<1>6. Steady
  BY <1>2, NullsAssumption DEF Steady, Present
<1>7. \A t \in Engagements \ {e} : EntriesOf(t)' \subseteq EntriesOf(t)
  BY <1>2 DEF EntriesOf, Present
<1> QED BY <1>3, <1>4, <1>5, <1>6, <1>7 DEF TablesOK

LEMMA EntryAgrees ==
    ASSUME IInv, ~raced, NEW x \in Entries, NEW row, entries' = [entries EXCEPT ![x] = row],
           UNCHANGED <<engagements, logged>>,
           row = Deleted \/ row.stage \in StagesOf[engagements[row.of].model]
    PROVE  Agrees'
<1>1. entries'[x] = row /\ \A y \in Entries \ {x} : entries'[y] = entries[y]
  BY DEF IInv, TypeOK
<1>2. ASSUME NEW y \in Entries PROVE StageFits(y)'
  BY <1>1 DEF IInv, Agrees, StageFits, Present
<1>3. \A d \in Engagements : Live(d)' => engagements'[d].status = logged'[d].status
  BY DEF IInv, Agrees, Live
<1> QED BY <1>2, <1>3 DEF Agrees

LEMMA AddCommitKeeps == ASSUME IInv, NEW w \in Workers, AddCommit(w) PROVE IInv'
<1> DEFINE r == req[w]
           e == r.target
           row == [of |-> e, stage |-> r.asks]
<1>1. CASE ~Live(e)
  BY <1>1, EndsKeeps DEF AddCommit
<1>2. CASE Live(e)
  <2>0. PICK x \in Entries : entries[x] = Unborn /\ entries' = [entries EXCEPT ![x] = row]
    BY <1>2 DEF AddCommit
  <2>1. UNCHANGED <<engagements, pending, issued, logged>> /\ CommitsLogged(w, e)
    BY <1>2 DEF AddCommit
  <2>2. /\ e \in Engagements /\ r.seen \in Row /\ r.asks \in StagesOf[r.seen.model]
        /\ Fresh(w) /\ r.op = "add"
    BY DEF AddCommit, At, IInv, Fits, Holds
  <2>3. r.asks \in Stages
    BY <2>2, StagesAssumption DEF Row
  <2>4. row \in Entry /\ row.of = e /\ row.stage = r.asks
    BY <2>2, <2>3 DEF Entry
  <2> HIDE DEF row
  <2>5. /\ TablesOK' /\ Steady
        /\ \A t \in Engagements \ {e} : EntriesOf(t)' \subseteq EntriesOf(t)
    <3> HIDE DEF e
    <3> QED BY <1>2, <2>0, <2>1, <2>2, <2>4, EntryWritten
  <2>6. ASSUME ~raced, ~stale[w] PROVE Agrees'
    BY <2>0, <2>1, <2>2, <2>4, <2>6, EntryAgrees DEF Fresh, Knows
  <2> HIDE DEF e
  <2> QED BY <2>1, <2>2, <2>5, <2>6, LoggedKeeps
<1> QED BY <1>1, <1>2

LEMMA RestageCommitKeeps == ASSUME IInv, NEW w \in Workers, RestageCommit(w) PROVE IInv'
<1> DEFINE r == req[w]
           e == r.target
           x == r.entry
           row == [entries[x] EXCEPT !.stage = Column(entries[x].stage, r.was, r.asks)]
<1>1. CASE Ends(w)
  BY <1>1, EndsKeeps
<1>2. CASE ~Ends(w)
  <2>1. /\ Live(e) /\ UNCHANGED <<engagements, pending, issued, logged>> /\ CommitsLogged(w, e)
        /\ Present(x) => entries' = [entries EXCEPT ![x].stage = Column(@, r.was, r.asks)]
        /\ ~Present(x) => entries' = entries
        /\ r.op = "restage"
    BY <1>2 DEF RestageCommit, At
  <2>2. /\ e \in Engagements /\ x \in Entries /\ r.seen \in Row /\ r.was \in Stages
        /\ r.asks \in StagesOf[r.seen.model] \cup {r.was} /\ Fresh(w)
    BY <2>1 DEF IInv, Fits, Holds
  <2>3. CASE ~Present(x)
    <3>1. UNCHANGED tables
      BY <2>1, <2>3 DEF tables
    <3>2. TablesOK' /\ Steady /\ (raced \/ Agrees')
      BY <3>1, TablesAlone
    <3>3. \A t \in Engagements : EntriesOf(t)' \subseteq EntriesOf(t)
      BY <3>1 DEF tables, EntriesOf, Present
    <3> HIDE DEF e
    <3> QED BY <2>1, <2>2, <3>2, <3>3, LoggedKeeps
  <2>4. CASE Present(x)
    <3>1. entries[x] \in Entry /\ r.asks \in Stages
      BY <2>2, <2>4, StagesAssumption DEF Present, IInv, TypeOK, Row
    <3>2. entries' = [entries EXCEPT ![x] = row]
      BY <2>1, <2>2, <2>4 DEF IInv, TypeOK
    <3>3. /\ row \in Entry /\ row.of = entries[x].of
          /\ row.stage = IF r.asks = r.was THEN entries[x].stage ELSE r.asks
      BY <3>1 DEF Entry, Column
    <3>4. entries[x].of = e
      BY <2>1, <2>4 DEF IInv, Fits, Holds
    <3> HIDE DEF row
    <3>5. /\ TablesOK' /\ Steady
          /\ \A t \in Engagements \ {e} : EntriesOf(t)' \subseteq EntriesOf(t)
      <4> HIDE DEF e, x
      <4> QED BY <2>1, <2>2, <2>4, <3>2, <3>3, <3>4, EntryWritten
    <3>6. ASSUME ~raced, ~stale[w] PROVE Agrees'
      <4>1. engagements[e] = r.seen /\ entries[x].stage = r.was
        BY <2>1, <2>2, <3>6 DEF Fresh, Knows
      <4>2. entries[x].stage \in StagesOf[engagements[e].model]
        BY <2>2, <2>4, <3>4, <3>6 DEF IInv, Agrees, StageFits
      <4>3. row.of = e /\ row.stage \in StagesOf[engagements[e].model]
        BY <2>2, <3>3, <3>4, <4>1, <4>2
      <4> HIDE DEF e, x
      <4> QED BY <2>1, <2>2, <3>2, <3>6, <4>3, EntryAgrees
    <3> HIDE DEF e
    <3> QED BY <2>1, <2>2, <3>5, <3>6, LoggedKeeps
  <2> QED BY <2>3, <2>4
<1> QED BY <1>1, <1>2

LEMMA RemoveCommitKeeps == ASSUME IInv, NEW w \in Workers, RemoveCommit(w) PROVE IInv'
<1> DEFINE e == req[w].target
           x == req[w].entry
<1>1. CASE ~Live(e)
  BY <1>1, EndsKeeps DEF RemoveCommit
<1>2. CASE Live(e)
  <2>1. /\ entries' = [entries EXCEPT ![x] = Deleted] /\ CommitsLogged(w, e)
        /\ UNCHANGED <<engagements, pending, issued, logged>>
    BY <1>2 DEF RemoveCommit
  <2>2. e \in Engagements /\ x \in Entries
    BY DEF RemoveCommit, At, IInv, Fits, Holds
  <2> HIDE DEF e, x
  <2>3. /\ TablesOK' /\ Steady
        /\ \A t \in Engagements \ {e} : EntriesOf(t)' \subseteq EntriesOf(t)
    BY <1>2, <2>1, <2>2, EntryWritten
  <2>4. ASSUME ~raced PROVE Agrees'
    BY <2>1, <2>2, <2>4, EntryAgrees
  <2> QED BY <2>1, <2>2, <2>3, <2>4, LoggedKeeps
<1> QED BY <1>1, <1>2

\* A deletion request that is made or withdrawn.
LEMMA TicketWritten ==
    ASSUME IInv, NEW e \in Engagements, Live(e), NEW t \in Ticket \cup {NoTicket},
           pending' = [pending EXCEPT ![e] = t], issued' \in 0 .. MaxTickets,
           UNCHANGED <<engagements, entries, logged>>
    PROVE  /\ TablesOK' /\ Steady /\ (raced \/ Agrees')
           /\ \A d \in Engagements : EntriesOf(d)' \subseteq EntriesOf(d)
<1>1. TablesTypeOK /\ NoOrphans /\ ArchivedAsLogged
  BY DEF IInv, TablesOK
<1>2. TablesTypeOK'
  BY <1>1 DEF TablesTypeOK
<1>3. NoOrphans'
  BY <1>1 DEF NoOrphans, TablesTypeOK, Present, Live
<1>4. ArchivedAsLogged' /\ Steady /\ (raced \/ Agrees')
  BY <1>1 DEF ArchivedAsLogged, Live, Steady, Present, IInv, Agrees, StageFits
<1>5. \A d \in Engagements : EntriesOf(d)' \subseteq EntriesOf(d)
  BY DEF EntriesOf, Present
<1> QED BY <1>2, <1>3, <1>4, <1>5 DEF TablesOK

LEMMA RequestCommitKeeps == ASSUME IInv, NEW w \in Workers, RequestCommit(w) PROVE IInv'
<1> DEFINE r == req[w]
           e == r.target
           t == [by |-> r.actor, no |-> issued + 1]
<1>1. CASE Ends(w)
  BY <1>1, EndsKeeps
<1>2. CASE ~Ends(w)
  <2>1. /\ Live(e) /\ issued < MaxTickets /\ issued' = issued + 1 /\ CommitsLogged(w, e)
        /\ pending' = [pending EXCEPT ![e] = [by |-> r.actor, no |-> issued']]
        /\ UNCHANGED <<engagements, entries, logged>>
    BY <1>2 DEF RequestCommit
  <2>2. e \in Engagements /\ r.actor \in Admins
    BY DEF RequestCommit, At, IInv, Fits, Holds
  <2>3. issued' \in 0 .. MaxTickets /\ issued' \in 1 .. MaxTickets
    BY <2>1, TicketAssumption DEF IInv, TypeOK
  <2>4. t \in Ticket /\ pending' = [pending EXCEPT ![e] = t]
    BY <2>1, <2>2, <2>3 DEF Ticket
  <2> HIDE DEF e, t
  <2>5. /\ TablesOK' /\ Steady /\ (raced \/ Agrees')
        /\ \A d \in Engagements : EntriesOf(d)' \subseteq EntriesOf(d)
    BY <2>1, <2>2, <2>3, <2>4, TicketWritten
  <2> QED BY <2>1, <2>2, <2>5, LoggedKeeps
<1> QED BY <1>1, <1>2

LEMMA CancelCommitKeeps == ASSUME IInv, NEW w \in Workers, CancelCommit(w) PROVE IInv'
<1> DEFINE e == req[w].target
           t == IF pending[e] = req[w].ticket THEN NoTicket ELSE pending[e]
<1>1. CASE ~Live(e)
  BY <1>1, EndsKeeps DEF CancelCommit
<1>2. CASE Live(e)
  <2>1. e \in Engagements
    BY DEF CancelCommit, At, IInv, Fits, Holds
  <2>2. /\ pending' = [pending EXCEPT ![e] = t] /\ t \in Ticket \cup {NoTicket}
        /\ UNCHANGED <<engagements, entries, logged>> /\ CommitsLogged(w, e)
    BY <1>2, <2>1 DEF CancelCommit, IInv, TypeOK
  <2>3. issued' \in 0 .. MaxTickets
    BY <1>2 DEF CancelCommit, IInv, TypeOK
  <2> HIDE DEF e, t
  <2>4. /\ TablesOK' /\ Steady /\ (raced \/ Agrees')
        /\ \A d \in Engagements : EntriesOf(d)' \subseteq EntriesOf(d)
    BY <1>2, <2>1, <2>2, <2>3, TicketWritten
  <2> QED BY <2>1, <2>2, <2>4, LoggedKeeps
<1> QED BY <1>1, <1>2

\* The deletion that goes through knows all there is to delete.
LEMMA ApproveCommitKeeps == ASSUME IInv, NEW w \in Workers, ApproveCommit(w) PROVE IInv'
<1> DEFINE r == req[w]
           e == r.target
<1>1. CASE Ends(w)
  BY <1>1, EndsKeeps
<1>2. CASE ~Ends(w)
  <2>1. /\ Live(e) /\ ~StillReferred(w, e) /\ Commits(w)
        /\ engagements' = [engagements EXCEPT ![e] = Deleted]
        /\ entries' = [x \in Entries |-> IF x \in r.known THEN Deleted ELSE entries[x]]
        /\ pending' = [pending EXCEPT ![e] = IF @ = r.ticket THEN NoTicket ELSE @]
        /\ UNCHANGED <<issued, logged, uncollected>>
        /\ At(w, "approve", "collected")
    BY <1>2 DEF ApproveCommit
  <2>2. /\ e \in Engagements /\ EntriesOf(e) \subseteq r.known
        /\ pending[e] \in {NoTicket, r.ticket}
    BY <2>1 DEF IInv, Fits, Holds, Collected, At, StillReferred
  <2>3. TablesTypeOK /\ NoOrphans /\ ArchivedAsLogged
    BY DEF IInv, TablesOK
  <2>4. /\ pending'[e] = NoTicket /\ \A d \in Engagements \ {e} : pending'[d] = pending[d]
        /\ engagements'[e] = Deleted
        /\ \A d \in Engagements \ {e} : engagements'[d] = engagements[d]
    BY <2>1, <2>2, <2>3 DEF TablesTypeOK
  <2>5. ASSUME NEW x \in Entries, Present(x)'
        PROVE  /\ Present(x) /\ entries'[x] = entries[x]
               /\ entries[x].of \in Engagements \ {e} /\ Live(entries[x].of)
    <3>1. Present(x) /\ entries'[x] = entries[x] /\ x \notin r.known
      BY <2>1, <2>5 DEF Present
    <3>2. entries[x].of \in Engagements /\ Live(entries[x].of) /\ entries[x].of # e
      BY <2>2, <2>3, <3>1 DEF Present, TablesTypeOK, Entry, NoOrphans, EntriesOf
    <3> QED BY <3>1, <3>2
  <2>6. TablesTypeOK'
    BY <2>1, <2>3 DEF TablesTypeOK
  <2>7. NoOrphans'
    BY <2>3, <2>4, <2>5 DEF NoOrphans, Live
  <2>8. ArchivedAsLogged'
    BY <2>1, <2>3, <2>4 DEF ArchivedAsLogged, Live
  <2>9. Steady
    BY <2>1, <2>4, <2>5, NullsAssumption DEF Steady
  <2>10. \A d \in Engagements : EntriesOf(d)' \subseteq EntriesOf(d)
    BY <2>5 DEF EntriesOf
  <2>11. ASSUME ~raced PROVE Agrees'
    BY <2>1, <2>4, <2>5, <2>11 DEF IInv, Agrees, StageFits, Live
  <2>12. ASSUME NEW v \in Workers \ {w}, At(v, "approve", "collected"), ~uncollected'[v]
         PROVE  ~uncollected[v] /\ EntriesOf(req[v].target)' \subseteq EntriesOf(req[v].target)
    <3> DEFINE t == req[v].target
    <3>1. t \in Engagements /\ ~uncollected[v] /\ req'[v].target = t
      BY <2>1, <2>12 DEF Commits, Moves, IInv, TypeOK, Fits, Holds, At
    <3>2. EntriesOf(t)' = {x \in Entries : Present(x)' /\ entries'[x].of = t}
      BY <3>1 DEF EntriesOf
    <3>3. \A d \in Engagements :
             {x \in Entries : Present(x)' /\ entries'[x].of = d} \subseteq EntriesOf(d)
      BY <2>10 DEF EntriesOf
    <3> QED BY <3>1, <3>2, <3>3
  <2>13. uncollected' \in [Workers -> BOOLEAN]
    BY <2>1 DEF IInv, TypeOK
  <2> QED BY <2>1, <2>6, <2>7, <2>8, <2>9, <2>11, <2>12, <2>13, CommitKeeps DEF TablesOK
<1> QED BY <1>1, <1>2

LEMMA StepKeeps == ASSUME IInv, [Next]_vars PROVE IInv'
<1>1. CASE UNCHANGED vars
  <2>1. UNCHANGED tables /\ UNCHANGED <<req, uncollected, stale, raced>>
    BY <1>1 DEF vars
  <2>2. TablesOK' /\ Steady /\ (raced \/ Agrees')
    BY <2>1, TablesAlone
  <2>3. ASSUME NEW v \in Workers PROVE Fits(v)'
    <3>1. Bystander(v)
      BY <2>1 DEF Bystander, EntriesOf, Present, tables
    <3> QED BY <2>2, <3>1, StillFits DEF IInv
  <2>4. TypeOK'
    BY <2>1, <2>2, TypeParts DEF IInv, TypeOK, TablesOK, TablesTypeOK
  <2> QED BY <2>1, <2>2, <2>3, <2>4 DEF IInv
<1>2. CASE Restart
  BY <1>2, RestartKeeps
<1>3. ASSUME NEW w \in Workers, Step(w) PROVE IInv'
  BY <1>3, CreateKeeps, LoadsKeep, EditCheckKeeps, EditCommitKeeps, StatusCommitKeeps,
     ArchiveCommitKeeps, AnnotateCommitKeeps, AddCommitKeeps, RestageCommitKeeps,
     RemoveCommitKeeps, RequestCommitKeeps, CancelCommitKeeps, ApproveCollectKeeps,
     ApproveCommitKeeps, EndsKeeps
  DEF Step, Refuse
<1> QED BY <1>1, <1>2, <1>3 DEF Next

-----------------------------------------------------------------------------
(* The theorems.                                                           *)

LEMMA InitInv == ASSUME Init PROVE IInv
<1> DEFINE born(m, e) == IF e \in Home THEN [NewEngagement(m) EXCEPT !.status = "active"]
                         ELSE Unborn
<1>1. PICK m \in Models : engagements = [e \in Engagements |-> born(m, e)]
  BY DEF Init
<1>2. \A e \in Home : /\ born(m, e) \in Row /\ born(m, e).status = "active"
                      /\ born(m, e).archived = FALSE
  BY StatusAssumption DEF NewEngagement, Row
<1>3. \A e \in Engagements : e \notin Home => born(m, e) = Unborn
  OBVIOUS
<1> HIDE DEF born
<1>4. /\ entries = [x \in Entries |-> Unborn] /\ pending = [e \in Engagements |-> NoTicket]
      /\ issued = 0 /\ raced = FALSE
      /\ req = [w \in Workers |-> Idle]
      /\ uncollected = [w \in Workers |-> FALSE] /\ stale = [w \in Workers |-> FALSE]
  BY DEF Init
<1>5. /\ logged \in [Engagements -> [status : Statuses, archived : BOOLEAN]]
      /\ \A e \in Home : logged[e].status = "active"
      /\ \A e \in Engagements : logged[e].archived = FALSE
  BY StatusAssumption, HomeAssumption DEF Init
<1>6. \A e \in Engagements : Live(e) => e \in Home
  BY <1>1, <1>3 DEF Live
<1>7. engagements \in [Engagements -> Row \cup {Unborn, Deleted}]
  BY <1>1, <1>2, <1>3
<1>8. TypeOK
  <2>1. issued \in 0 .. MaxTickets
    BY <1>4, TicketAssumption
  <2>2. req \in [Workers -> Request]
    BY <1>4, IdleIsRequest
  <2>3. /\ uncollected \in [Workers -> BOOLEAN] /\ stale \in [Workers -> BOOLEAN]
        /\ raced \in BOOLEAN
    BY <1>4
  <2>4. /\ entries \in [Entries -> Entry \cup {Unborn, Deleted}]
        /\ pending \in [Engagements -> Ticket \cup {NoTicket}]
    BY <1>4
  <2> QED BY <1>5, <1>7, <2>1, <2>2, <2>3, <2>4 DEF TypeOK
<1>9. TablesOK
  BY <1>1, <1>2, <1>4, <1>5, <1>6, <1>8
  DEF TablesOK, TablesTypeOK, TypeOK, NoOrphans, Present, ArchivedAsLogged
<1>10. Agrees
  BY <1>1, <1>2, <1>4, <1>5, <1>6 DEF Agrees, StageFits, Present
<1>11. \A w \in Workers : Fits(w)
  BY <1>4, IdleFits
<1> QED BY <1>8, <1>9, <1>10, <1>11 DEF IInv

\* In every reachable state the tables have no orphans and agree with the log,
\* every request in flight holds rows that were there once, and a deletion that
\* has collected its children knows them all or is told that it does not.
THEOREM EngagementsInvariant == Spec => []IInv
<1>1. IInv /\ [Next]_vars => IInv'
  BY StepKeeps
<1> QED BY InitInv, <1>1, PTL DEF Spec

\* The tables and what a request remembers keep their types.
THEOREM EngagementsTypeCorrect == Spec => []TypeOK
<1>1. IInv => TypeOK
  BY DEF IInv
<1> QED BY <1>1, EngagementsInvariant, PTL

\* A deletion, whatever is in flight when it commits, leaves no kill chain entry
\* and no deletion request of the engagement behind, and none joins it later.
THEOREM DeletionsLeaveNoOrphans == Spec => []NoOrphans
<1>1. IInv => NoOrphans
  BY DEF IInv, TablesOK
<1> QED BY <1>1, EngagementsInvariant, PTL

\* The archive flag is what the newest archive row of the log says, however
\* many toggles overlap.
THEOREM TogglesAreLogged == Spec => []ArchivedAsLogged
<1>1. IInv => ArchivedAsLogged
  BY DEF IInv, TablesOK
<1> QED BY <1>1, EngagementsInvariant, PTL

\* The status is the one the log says last, until a request has committed on
\* reads another commit had overtaken.
THEOREM StatusesAreLogged == Spec => []StatusAsLoggedUnlessRaced
<1>1. IInv => StatusAsLoggedUnlessRaced
  BY DEF IInv, Agrees, StatusAsLoggedUnlessRaced
<1> QED BY <1>1, EngagementsInvariant, PTL

\* Until then no entry is stranded in a stage the engagement's model lacks: the
\* timeline and the report show every entry.
THEOREM EntriesAreShown == Spec => []StagesFitUnlessRaced
<1>1. ASSUME IInv, ~raced, NEW x \in Entries, Present(x)
      PROVE  x \in Timeline(entries[x].of) /\ x \in Report(entries[x].of)
  <2> DEFINE e == entries[x].of
             s == entries[x].stage
  <2>1. /\ e \in Engagements /\ s \in Stages /\ s \in StagesOf[engagements[e].model]
    BY <1>1 DEF IInv, TypeOK, Present, Entry, Agrees, StageFits
  <2>2. x \in Columns(e)[s]
    BY <1>1, <2>1 DEF Columns, EntriesOf
  <2> QED BY <2>1, <2>2 DEF Timeline, Report
<1>2. IInv => StagesFitUnlessRaced
  BY <1>1 DEF StagesFitUnlessRaced, StagesFit
<1> QED BY <1>2, EngagementsInvariant, PTL

\* DeletionIsAgreed, of one step.
Agreed == \A e \in Engagements : Live(e) /\ engagements'[e] = Deleted =>
             \E w \in Workers :
                /\ At(w, "approve", "collected") /\ req[w].target = e
                /\ pending[e] = NoTicket => stale[w]
                /\ pending[e] # NoTicket => req[w].actor # pending[e].by

LEMMA OnlyApprovalsDelete ==
    ASSUME IInv, NEW w \in Workers, Step(w), NEW e \in Engagements,
           Live(e), engagements'[e] = Deleted
    PROVE  ApproveCommit(w) /\ ~Ends(w)
<1>1. ASSUME NEW d \in Engagements, Live(d), NEW row \in Row,
             engagements' = [engagements EXCEPT ![d] = row]
      PROVE  FALSE
  BY <1>1, NullsAssumption DEF IInv, TypeOK, Live
<1>2. ~(engagements' = engagements)
  BY DEF Live
<1>3. ~Ends(w) /\ ~Reads
  BY <1>2 DEF Ends, Reads, tables
<1>4. ~CreateEngagement(w)
  <2>1. SUFFICES ASSUME CreateEngagement(w) PROVE FALSE
    OBVIOUS
  <2>2. PICK d \in Engagements, m \in Models :
           /\ engagements[d] = Unborn
           /\ engagements' = [engagements EXCEPT ![d] = NewEngagement(m)]
    BY <2>1 DEF CreateEngagement
  <2>3. engagements'[e] = engagements[e]
    BY <2>2 DEF IInv, TypeOK, Live
  <2> QED BY <2>3 DEF Live
<1>5. ~EditCommit(w) /\ ~StatusCommit(w) /\ ~ArchiveCommit(w)
  <2> DEFINE r == req[w]
             d == r.target
  <2>1. SUFFICES ASSUME EditCommit(w) \/ StatusCommit(w) \/ ArchiveCommit(w) PROVE FALSE
    OBVIOUS
  <2>2. Live(d)
    BY <1>3, <2>1 DEF EditCommit, StatusCommit, ArchiveCommit
  <2>3. d \in Engagements /\ engagements[d] \in Row /\ r.seen \in Row /\ r.want \in Row
    BY <2>1, <2>2 DEF EditCommit, StatusCommit, ArchiveCommit, At, IInv, TypeOK, Fits, Holds, Live
  <2>4. CASE EditCommit(w)
    <3> DEFINE row == [engagements[d] EXCEPT !.model = Column(@, r.seen.model, r.want.model)]
    <3>1. row \in Row
      BY <2>3 DEF Row, Column
    <3>2. engagements' = [engagements EXCEPT ![d] = row]
      BY <2>2, <2>3, <2>4 DEF EditCommit, IInv, TypeOK
    <3> HIDE DEF row, d
    <3> QED BY <1>1, <2>2, <2>3, <3>1, <3>2
  <2>5. CASE StatusCommit(w)
    <3>1. PICK s \in Statuses :
             engagements' = [engagements EXCEPT ![d].status = Column(@, r.seen.status, s)]
      BY <2>2, <2>5 DEF StatusCommit
    <3> DEFINE row == [engagements[d] EXCEPT !.status = Column(@, r.seen.status, s)]
    <3>2. row \in Row
      BY <2>3 DEF Row, Column
    <3>3. engagements' = [engagements EXCEPT ![d] = row]
      BY <2>3, <3>1 DEF IInv, TypeOK
    <3> HIDE DEF row, d
    <3> QED BY <1>1, <2>2, <2>3, <3>2, <3>3
  <2>6. CASE ArchiveCommit(w)
    <3> DEFINE row == [engagements[d] EXCEPT !.archived = Column(@, r.seen.archived, Toggled(r.seen))]
    <3>1. row \in Row
      BY <2>3 DEF Row, Column, Toggled
    <3>2. engagements' = [engagements EXCEPT ![d] = row]
      BY <2>2, <2>3, <2>6 DEF ArchiveCommit, IInv, TypeOK
    <3> HIDE DEF row, d
    <3> QED BY <1>1, <2>2, <2>3, <3>1, <3>2
  <2> QED BY <2>1, <2>4, <2>5, <2>6
<1> QED BY <1>2, <1>3, <1>4, <1>5
  DEF Step, Refuse, Open, Opens, EditCheck, AnnotateCommit, AddLoad, AddCommit, RestageLoad,
      RestageCommit, RemoveLoad, RemoveCommit, RequestLoad, RequestCommit, CancelLoad,
      CancelCommit, ApproveLoad, ApproveCollect, tables

\* Whoever makes an engagement disappear is not the author of the deletion
\* request that goes with it, and a deletion whose request has been cancelled
\* goes through only when the cancellation overtook the approval.
THEOREM DeletionTakesTwo == Spec => DeletionIsAgreed
<1>1. ASSUME IInv, Next, NEW e \in Engagements, Live(e), engagements'[e] = Deleted
      PROVE  \E w \in Workers :
                /\ At(w, "approve", "collected") /\ req[w].target = e
                /\ pending[e] = NoTicket => stale[w]
                /\ pending[e] # NoTicket => req[w].actor # pending[e].by
  <2>1. PICK w \in Workers : Step(w)
    BY <1>1 DEF Next, Restart, tables, Live
  <2>2. ApproveCommit(w) /\ ~Ends(w)
    BY <1>1, <2>1, OnlyApprovalsDelete
  <2> DEFINE r == req[w]
             d == r.target
  <2>3. /\ At(w, "approve", "collected") /\ ~StillReferred(w, d)
        /\ engagements' = [engagements EXCEPT ![d] = Deleted]
    BY <2>2 DEF ApproveCommit
  <2>4. d = e
    BY <1>1, <2>3 DEF IInv, TypeOK, Live
  <2>5. pending[e] \in {NoTicket, r.ticket}
    BY <2>3, <2>4 DEF StillReferred
  <2>6. r.ticket \in Ticket /\ r.actor # r.ticket.by
    BY <1>1, <2>3 DEF IInv, Fits, Holds, At
  <2>7. ~stale[w] => pending[e] = r.ticket
    BY <1>1, <2>3, <2>4 DEF IInv, Fits, Fresh, Knows, At
  <2> QED BY <2>3, <2>4, <2>5, <2>6, <2>7, NullsAssumption
<1>2. ASSUME IInv, [Next]_vars PROVE Agreed
  <2>1. CASE Next
    BY <1>1, <1>2, <2>1 DEF Agreed
  <2>2. CASE UNCHANGED vars
    BY <2>2 DEF Agreed, Live, vars, tables
  <2> QED BY <1>2, <2>1, <2>2
<1>3. IInv /\ [Next]_vars => [Agreed]_vars
  BY <1>2
<1> QED BY <1>3, EngagementsInvariant, PTL DEF Spec, DeletionIsAgreed, Agreed
=============================================================================
