# RedOps Vault: formal models

TLA+ modules for RedOps Vault (`src/app`), the TLC configurations that check
them on small instances, and TLAPS proofs of what matters most for every size.

RedOps Vault is a Flask application over SQLAlchemy and Postgres. The Dockerfile
starts gunicorn with `--workers 1 --threads 4`, and APScheduler adds a thread
pool in the same process. Every request is therefore a sequence of steps of one
of several threads: gates (before_request hooks and decorators), queries, and
one commit under READ COMMITTED, with no row locked before it is written. The
tests run on SQLite with one client, so they never see two requests interleave.
That is what the models are about.

## Inventory

| Component | State | Operations | Hard behaviour | What makes it correct |
|---|---|---|---|---|
| Accounts (`blueprints/admin`, `auth`, `account`, `setup`, `auth_utils.py`) | `users`, `engagement_assignments`, `app_settings`, the cached `SETUP_COMPLETE` | wizard, create, edit (role, active, scope), reset, deactivate, sign in, change password, gates | check-then-commit of the last admin; reset against change; stale rows merged at commit; gates that compose | an active admin remains; a temporary password is forced to change; a deactivated account stays so; role and scope change together |
| Engagements (`blueprints/engagements`, `api/engagements.py`) | `engagements`, `engagement_links`, `engagement_deletion_requests` | create, edit, status, archive, links, request / cancel / approve a deletion | approval of a request that is gone or replaced; children added during a deletion; foreign keys no cascade clears | deletion takes two people and leaves nothing behind; a requested and approved deletion happens |
| Kill chain (`blueprints/killchain`, `api/killchain.py`) | `killchain_entries` | add, edit, delete an entry | the engagement's model changes between an entry's check and commit; the node an entry names is checked by the foreign key alone | every entry's stage belongs to its engagement's model and is on its timeline |
| Activity log (`activity_service.py`) | `activity_log_entries` | one row per change, same transaction | a change that is logged and not sent | newest log row and engagement row agree |
| Backups (`blueprints/backups`, `scheduler_service.py`, `backup_service.py`, `restore_service.py`) | `backup_destinations`, `backup_run_logs`, the scheduler's job table, archives | create, edit, delete with a job sync; scheduled run, run now, recorded run; full and loot-only restore | three-step job sync on several threads; a run's nested transaction; TRUNCATE of all tables; torn exports | jobs match active destinations; the snapshot is the newest outcome; runs end; ids never collide |
| API keys (`api_keys`, `auth_utils.py`) | `api_keys` | issue, revoke, the gate's own commit | revoked, or the owner deactivated, between the gate and the handler | a revoked key stays so, and stops writing |
| Todos (`blueprints/todo`, `api/todo.py`) | `todos` | create, claim, hand off, complete, reopen, delete | each of them overtaken by another | owner and completion are independent; a done todo says who did it and stays with its owner |
| Loot and storage (`blueprints/loot`, `storage_service.py`, `crypto_service.py`, the loot part of backups) | `loot_files`, large objects, archives, the key file | upload, edit, delete, lazy download, archive, full and loot-only restore | two stores no foreign key ties; ids handed out again; a key created on first use | every row has its object and what it delivers has the row's hash; every object has its row |
| Credentials, TOTP (`credential_service.py`, `totp_service.py`) | `credentials` | create, edit, delete, reveal | each secret encrypted with a key fetched for it; blanks that are not sent | what is stored decrypts with the key in the file; the secrets of a row come from one submission |
| Infrastructure, targets (`blueprints/infrastructure`, `targets`, `network_service.py`) | nodes, edges, services, `infra_node_id` of entries | create, edit, delete on two panes, network map | checks on rows nobody locks; one end of an edge taken from the loaded row; cascades | every path is on exactly one pane, between nodes that exist and differ |
| Findings, IOCs (`blueprints/findings`, `ioc`, `findings_service.py`) | `findings`, `iocs`, five association tables | create, edit, delete | collections written as differences; references no cascade clears | a row's references are those one form submitted; a row can be deleted |
| ATT&CK (`attack_sync.py`, `attack_service.py`, `blueprints/attack`) | techniques, tactics, mappings | refresh from a release, map, unmap, matrix | releases that come and go; two refreshes; a mapping made meanwhile | a technique in use stays on the matrix |
| Threat model (`blueprints/threat_model`) | one row per engagement | save | two first saves | - |
| Reports, scaffolding, serializers, CLI, MCP server, backup transports, migrations, scripts, static JS | none of their own | formatting, API clients | - | - |

Components meet in the database: an engagement owns rows of almost every other
component by foreign key, every handler writes the activity log in its own
transaction, and a full restore replaces all tables under everyone. The
scheduler calls `run_backup` on its own threads; the form calls it on a web
thread, inside the request's transaction.

## Modules

| Module | Models | Uses |
|---|---|---|
| `OrmSession` | what a SQLAlchemy commit does to one column: only columns that differ from the loaded value are sent (`Column`), and only then is the row locked (`Dirty`) | |
| `UserRows` | a row of `users`; a password hash is kept as who chose the password | |
| `UserTable` | the abstract table: every request is one step | `UserRows` |
| `Accounts` | every request that writes `users`, assignments or the settings row; the gates; a restart | `UserRows`, `OrmSession`, refines `UserTable` |
| `AccountsInv` | the inductive invariant of `Accounts` | `Accounts` |
| `AccountsProofs` | theorems about `Accounts` | `AccountsInv`, TLAPS |
| `Engagements` | engagements, their kill chain entries and deletion requests, HTML routes and API | `OrmSession` |
| `EngagementsProofs` | theorems about `Engagements` and their inductive invariant | `Engagements`, TLAPS |
| `Backups` | destinations, the job table, runs, the export, the full restore, table locks | `OrmSession` |
| `BackupsProofs` | theorems about `Backups` and their inductive invariant | `Backups`, `WellFoundedInduction`, TLAPS |
| `TaskBoard` | the abstract checklist: every request is one step on one task | |
| `ApiKeys` | the `api_keys` table and the gate in front of `/api/v1` | `OrmSession` |
| `Todos` | the todo handlers, behind the gate or behind a cookie | `ApiKeys`, refines `TaskBoard` |
| `TodosProofs` | theorems about `Todos` and their inductive invariant | `Todos`, TLAPS |
| `Loot` | loot files and large objects, archives, both restores | `OrmSession` |
| `LootProofs` | theorems about `Loot` and their inductive invariant | `Loot`, `FiniteSetTheorems`, `WellFoundedInduction`, TLAPS |
| `KeyStore` | the key file, its creation and its cache in the process | |
| `Credentials` | the credential handlers, secret by secret | `KeyStore`, `OrmSession` |
| `CredentialsProofs` | theorems about `KeyStore` and `Credentials` | `Credentials`, TLAPS |
| `Network` | nodes, paths and services of the two panes, and the nodes of entries | `OrmSession` |
| `NetworkProofs` | theorems about `Network` and their inductive invariant | `Network`, TLAPS |
| `Catalogue` | the local ATT&CK matrix and its refresh | |
| `Evidence` | findings, entries, IOCs, their association rows and technique mappings | `Catalogue` |
| `EvidenceProofs` | theorems about `Evidence` and their inductive invariant | `Evidence`, TLAPS |
| `MC...` | the small instances | one of the above |

### How a request becomes actions

`req[w]` is what worker `w` is doing: the operation, the step it has reached and
the local variables its next steps use (`seen`, the row as loaded; `want`, the
row after the assignments). One action is one stretch between two points where
another thread's commit can be seen: a load (`...Load`, `Load`, `Open`), the
queries a condition needs (`...Check`), an autoflush that takes a row lock
(`EditSync`, a flushing `EditCheck`), a commit (`...Commit`). A commit merges
each loaded column with the table as it is now, through `Column`; a unique or
foreign key that fails ends the request with nothing written (`Ends`). `Refuse`
stands for the early returns. `Restart` is the process dying at any point:
requests in flight are rolled back, process state (`SETUP_COMPLETE`, the job
table) is rebuilt.

Some operators are preceded by a "Slip": the same operator with a plausible
mistake. The specifications never use them; each shows that a property notices
the mistake.

Two history variables keep properties exact. `stale[w]` says that the tables
changed since `w` first read, `raced` that some worker committed while stale. A
property named `...UnlessRaced` holds up to the first such commit: it is what
the code guarantees, and the same property without the suffix is what it
does not (see Findings). `replaced` in `KeyStore` and `restored`, `rewound` in
`Loot` are history variables of the same kind. The properties named
`OnlyCrossed...` need none: they name the request whose reads were overtaken in
the state before the step.

The modules of the second half share the pattern: `Loads` (or `Moves`) records
what a request has read and assigned, `Commit...` writes it, `Restart` drops it.
The form and the API version of a handler are an action each; where one form
differs from its JSON twin (a PATCH that names one end of a path only, an edit
that names no collection) the two actions differ.

## Runs

| Run | Instance | Question | Result |
|---|---|---|---|
| `accounts` | 2 users, 2 workers, 1 engagement, roles admin and blueteam, all requests | `TypeOK`, `AdminRemainsUnlessRaced`, `TemporaryIsForcedUnlessRaced`, `WizardFoundsOnce`, `ScopeIsAsAsked`, refinement `ImplementsUserTable` | pass, 1.8M states |
| `accounts_return` | roles admin and operator; setup, create, reset, change | `ForcedUserReturns`: whoever is forced to change the password gets to | pass |
| `engagements` | 1 engagement, 1 entry, 2 models, 2 admins, 1 operator, 2 deletion requests, 2 workers, all requests | `TypeOK`, `NoOrphans`, `StagesFitUnlessRaced`, `ArchivedAsLogged`, `StatusAsLoggedUnlessRaced`, `DeletionIsAgreed` | pass, 1.1M states |
| `engagements_approval` | creation, children, the deletion requests | `DeletionHappensUnlessCrossed`: a deletion that keeps being approved happens, unless new children cross every attempt | pass |
| `backups` | 1 destination id, 2 frequencies, 2 threads, all requests | `TypeOK`, `ScheduleMatchesUnlessDrifted`, `SnapshotIsNewestUnlessRaced`, `SequenceAhead` | pass, 4.8M states |
| `backups_runs` | destinations, scheduled runs, restores | `ScheduledRunEnds` | pass |
| `backups_run_now` | runs from the form, restores | `RunNowEnds` | violated |
| `todos` | 1 todo, 1 API key, 2 users, 2 workers; all requests from the forms, completions by the API | `TypeOK`, `OnlyACrossedCompletionTears`, `DoneStaysWithItsOwner`, `RevocationIsFinal`, `SilencedKeyStopsWriting`, refinement `ImplementsTaskBoard` | pass, 0.6M states |
| `loot` | 2 file ids, 3 objects, 2 contents, 2 workers | `TypeOK`, `NoDanglingOid`, `OrphansComeFromRestores`, `ContentMatchesHashUnlessRewound`, `FullVaultIsCompleteUnlessTorn` | pass, 4.4M states |
| `credentials` | 1 credential, 2 submissions, 2 keys, 2 workers | `TypeOK`, `SecretsReadableUnlessReplaced`, `OnlyCrossedEditsMix` | pass, 1.0M states |
| `network` | 3 nodes, 1 path, 1 service, 1 entry, 2 workers | `TypeOK`, `PathsStayInPane`, `OnlyCrossedEditsLoop` | pass, 0.3M states |
| `evidence` | 1 finding, 1 entry, 1 loot file, 1 IOC or node, 1 mapping, a technique and its sub-technique, 3 releases, 2 threads | `TypeOK`, `OnlyLinkedLootStays`, `OnlyCrossedEditsMerge`, `UsesStayOnMatrix` | pass, 1.8M states |

**Bounds.** The theorems below need none: for the safety properties the bounds only
matter to the search for counterexamples, to the mutants and to the exceptions
being reached. Two workers are enough for each race listed in PROJECT.json: every
condition in the code compares one worker's reads with one other commit, and a
third worker only delays one of the two. Two users let admins act on each other;
the abstract conditions ("another active admin") need no third. Conditions about
engagements and destinations never compare two of them, so one is enough;
`MaxTickets = 2` lets a request be cancelled and made again while an approval is
on its way. Two models share one stage and differ in the other, so that a stage
may or may not fit. `MaxId = 1` bounds the destinations ever created; a
restore that began before a deletion brings the row back. An empty table whose
sequence is reset, and the id it then hands out, are met with this one id;
tables of several rows are left to the theorem `SequenceStaysAhead`. Users, admins and workers are interchangeable, and
the safety runs use that symmetry; the liveness runs do not use symmetry.

- *todos.* No handler reads two todos, so there is one. `Holders` (who makes API
  keys) and `Visitors` (who uses the forms) are one user each, so that a claim
  can be taken from somebody else; `KeyOperations` lets the API complete only:
  behind the gate its handlers are those of the forms.
- *loot.* `MaxId = 2` ids, so that an archive's entries can be attached to the
  wrong row; `MaxOid = 3` objects, so that a file can be uploaded, archived,
  restored and uploaded again under a restored id. An action that needs an id or
  an object more than the bound does not happen.
- *credentials.* Two of the six secrets: each is encrypted on its own, so two
  are what it takes to mix submissions. A key for each worker that may find no
  file, which is as many as one process can draw before the cache is filled; a
  restart may empty the cache but leaves the file.
- *network.* A path has two ends and an edit needs a third node to move one to.
  Ids are handed out once: three nodes ever.
- *evidence.* One row of each kind that differs in how it is referred to; nodes,
  credentials and IOCs have a `findings` backref alike and are one kind
  (`Others`). Rows are created once, so the run ends when all are deleted: this
  is the one configuration with `CHECK_DEADLOCK FALSE`. The three releases list
  the technique with its sub-technique, and each without the other.
  Releases that list a technique in no tactic are left to `UsesStayLit`, which is
  proved for any releases.

**Fairness.** `FairSpec` is used for liveness only.
- A thread goes on with the request it has: weak fairness in `Accounts` and
  `Engagements`. In `Backups` it is strong, because Postgres serves a lock queue
  in order: whoever waits behind one restore is served before a later one.
- `Accounts`: whoever is forced to change the password keeps submitting the
  form, sometimes validly and sometimes without a restart in between (strong
  fairness of the three steps of that one request). Nothing is assumed of
  admins, who may reset again and again.
- `Engagements`: whoever may approve keeps trying, at times without a restart in
  between (strong fairness of the approver's own steps: load, collection,
  verdict). Nothing is assumed of how an attempt ends, nor of the other
  writers. A stream of new children can therefore refuse every deletion, as it
  can in the code: that is the exception `DeletionHappensUnlessCrossed` makes,
  children that join between the collection and the DELETE for ever.
- `Todos`: a request that has begun ends, and a revocation that was loaded
  commits (weak fairness of each worker's next step). Nobody has to revoke, or
  to stop using a key: `SilencedKeyStopsWriting` says that the gate does.
- `backups_runs` leaves out the form's run, since one stuck form run (below)
  blocks every later one.

## Findings

What the code does otherwise than it, its comments or its messages say. The
first has a run of its own. Of the others, 2 to 6 are the counterexamples TLC
gives for the property or the instance named, and 7 to 14 the exceptions that
the property named spells out and that its run reaches.

1. **Run now and restore** (`backups_run_now`, `backups/routes.py:188`). The
   request's open transaction, the restore's TRUNCATE and the run's second
   transaction wait in a circle the database cannot see.
2. **Last admin** (`AdminRemains`, `admin/routes.py:93`). Two admins who demote
   each other at once both pass the check, and no admin is left.
3. **Blueteam password** (`ForcedUserReturns` with blueteam among the roles,
   `auth_utils.py:77`). A blueteam user whose password was reset is sent to a
   form whose POST the blueteam gate refuses.
4. **Frozen model** (`StagesFitUnlessRaced` without its exception,
   `engagements/routes.py:172`). The kill chain model changes
   although the engagement has an entry by then: `kill_chain_model cannot be
   changed once the engagement has kill chain entries` (`api/engagements.py:86`).
   An entry whose stage the new model lacks is on no timeline and no report.
5. **The wizard's engagement** (`DeletionHappensUnlessCrossed` with it as the only
   engagement, `engagements/routes.py:361`). Its approved deletion always fails
   on the settings row's foreign key. A backup destination with engagement scope
   refers in the same way.
6. **Schedule** (`ScheduleMatches`, `scheduler_service.py:62`). Overlapping
   syncs, or a restore, leave jobs that are not those of the rows.
7. **Two first keys** (`SecretsReadableUnlessReplaced`, `crypto_service.py:26`).
   Two threads that both find no key file each write one; what was encrypted
   under the first is lost. A process that dies between opening and writing the
   file leaves an empty one, which nothing replaces.
8. **Mixed secrets** (`OnlyCrossedEditsMix`, `credential_service.py:38`):
   "Submitting a secret field always overwrites it", but a blank that was NULL
   when the row was loaded is not sent, and another edit's secret stays.
9. **Torn todo** (`OnlyACrossedCompletionTears`, `todo/routes.py:92`). A
   completion of a done todo that a reopening overtakes leaves it open, with the
   time and the name of its completion.
10. **Linked loot** (`OnlyLinkedLootStays`, `models/finding.py:75`). A loot file a
    finding or an entry refers to cannot be deleted: error 500.
11. **Content of another file** (`ContentMatchesHashUnlessRewound`,
    `restore_service.py:220`). A loot-only archive from before a full restore is
    attached by ids that mean other files by now.
12. **Path to itself** (`OnlyCrossedEditsLoop`, `api/infrastructure.py:221`). Two
    PATCHes that each move one end to the same node.
13. **Orphaned objects** (`OrphansComeFromRestores`, `restore_service.py:220`). A
    restore attaches new objects and unlinks none: the old ones stay for ever.
14. **Crossed approvals** (`DeletionHappensUnlessCrossed`,
    `engagements/routes.py:361`). Every row that joins the engagement after its
    children were collected makes the DELETE fail: error 500, and the request
    stays pending until an approval meets no other writer.

Also: the snapshot of a destination can disagree with the newest log row (two
runs, or a restore of an export torn between two SELECTs); the status of an
engagement can disagree with the newest log row; a reset that overlaps a
password change can leave a temporary password unforced; two edits of a finding
that cross merge their references.

## Proofs

Each component has a module `<Component>Proofs` with its theorems, proved for
any sets of users, rows, threads and operations: what a run shows of a small
instance of each safety property holds of every instance. They rest on the
named assumptions about the constants, which TLC evaluates in every run:

- markers of missing values are no values: `NoUserAssumption` (`UserRows`),
  `KeyNullsAssumption` (`ApiKeys`), `TodoNullsAssumption`, `NullsAssumption`
  (`Engagements`), `BackupNullsAssumption`, `LootNullsAssumption`,
  `KeyValuesAssumption` (`KeyStore`), `CredentialNullsAssumption`,
  `NoParentAssumption` (`Catalogue`), `EvidenceNullsAssumption`,
  `NetworkNullsAssumption` (the panes differ, too);
- names the code itself uses are among the values: `RolesAssumption`,
  `StatusAssumption`, `FrequencyAssumption`; a model has a set of stages
  (`StagesAssumption`);
- a sub-technique's id names a technique that is none, and a release lists rows
  of the matrix (`ReleasesAssumption`);
- bounds are numbers, initial rows are rows: `TicketAssumption`, `IdAssumption`,
  `LootBoundsAssumption`, `HomeAssumption`, `HoldersAssumption`.

Every proof has the same layout. The *invariant* `IInv` says, besides the
property, what a request in flight still knows of the rows it has loaded.
Lemmas carry what all loads, all refusals and all commits have in common, and
say which requests of *other* workers a commit can disturb, so that each action
has one lemma and `StepKeeps` one step per action. TLC has checked each `IInv`
on the run's instance before it was proved.

**Accounts**

| Theorem | Statement |
|---|---|
| `TypeCorrect` | `Spec => []TypeOK` |
| `LastAdminCheckIsSound` | `Spec => []AdminRemainsUnlessRaced` |
| `ResetForcesChange` | `Spec => []TemporaryIsForcedUnlessRaced` |
| `TableRefinement` | `Spec => ImplementsUserTable` |
| `VaultIsFoundedOnce` | `Spec => WizardFoundsOnce` |
| `ScopesAreAsAsked` | `Spec => ScopeIsAsAsked` |

The first rests on `TypeInv`: types alone are not inductive, since a commit
dereferences the row its worker loaded, so `Aware` records what a worker knows
at each step. The others rest on `IInv`, whose heart is `Fresh`: while nobody has
overtaken a worker's reads, the row it loaded is the row in the table, and if it
is about to take an active admin away another one is there. A commit by another
worker makes it stale and releases it from `Fresh`; committing while stale sets
`raced`, which releases the two properties. `Founded` adds what the gates
establish (behind them an account exists; an edit wants the loaded password and
flag), and `SettingComesFirst` that the first account came with the settings
row, which is why a second wizard fails on the key. `TableRefinement` maps each
commit to one step of `UserTable` and everything else to a stutter.
`VaultIsFoundedOnce` uses that a worker at the wizard's commit can do nothing
else (`WizardOnlyCommits`) and that nobody moves another worker's request
(`StepMovesOne`). `ScopesAreAsAsked` needs `Scoped` on top of `IInv`: a
deactivation sends no role, only an edit to blueteam reads assignments, and it
holds those of the table unless it is stale. So only such an edit's commit
changes them, by the difference between what it held and what its form asked.

**Network**

| Theorem | Statement |
|---|---|
| `NetworkTypeCorrect` | `Spec => []TypeOK` |
| `PanesStayApart` | `Spec => []PathsStayInPane` |
| `LoopsTakeTwoEdits` | `Spec => OnlyCrossedEditsLoop` |

Whether a commit may write a path depends on checks made steps before. `Fits`
says what is left of them: the ends a request has checked together are, as far
as they still exist, on one pane, and on that of the path it edits, wherever
another edit has led that path meanwhile. It survives every step of the others
(`StillFits`) because a node never changes panes and a path is redirected on its
own pane only (`NodesSteady`, `EdgesSteady`); `CommitEdge` then needs only that
both ends exist, which is what the foreign keys look at. `LoopsTakeTwoEdits`
adds `Differ`: the ends a request asks for differ, or it is a PATCH that names
neither. A loop then takes one end from the request and one from the table, so
the table's row is not the row loaded.

**Engagements**

| Theorem | Statement |
|---|---|
| `EngagementsTypeCorrect` | `Spec => []TypeOK` |
| `DeletionsLeaveNoOrphans` | `Spec => []NoOrphans` |
| `TogglesAreLogged` | `Spec => []ArchivedAsLogged` |
| `StatusesAreLogged` | `Spec => []StatusAsLoggedUnlessRaced` |
| `EntriesAreShown` | `Spec => []StagesFitUnlessRaced` |
| `DeletionTakesTwo` | `Spec => DeletionIsAgreed` |

`Holds` is what a request knows however stale it is (its rows were in the tables
once, an entry never changes its engagement, an approver is not the requester),
`Knows` what it knows until another commit changes what it read: a change of
model is about an engagement without entries, a ticket is the one pending.
`Collected` is the deletion's: it knows every entry, or `uncollected` says it
does not and its DELETE fails. `Agrees`, that statuses are as logged and every entry's stage is
in its model, holds until somebody commits while stale.

**Backups**

| Theorem | Statement |
|---|---|
| `BackupsTypeCorrect` | `Spec => []TypeOK` |
| `SequenceStaysAhead` | `Spec => []SequenceAhead` |
| `ScheduleIsTheTable` | `Spec => []ScheduleMatchesUnlessDrifted` |
| `SnapshotsAreNewest` | `Spec => []SnapshotIsNewestUnlessRaced` |

`ScheduleMatches` speaks of moments at which nobody is at work. Its invariant is
`Covered`: each job is the one its row asks for, or some request is about to
settle it, and that request knows the row (`Knows`) or is stale, in which case
finishing sets `drifted`. `ArchiveOK` carries the snapshots through an export and
its restore. That a restored sequence is past every id needs a least number
(`LeastNumber`), from the well-foundedness of the naturals.

**Todos**

| Theorem | Statement |
|---|---|
| `TodosTypeCorrect` | `Spec => []TypeOK` |
| `RevokedKeysStayRevoked` | `Spec => RevocationIsFinal` |
| `DoneStays` | `Spec => DoneStaysWithItsOwner` |
| `OnlyCrossingsTear` | `Spec => OnlyACrossedCompletionTears` |
| `TodosImplementTaskBoard` | `Spec => ImplementsTaskBoard` |

`RequestFits` says that what a request wants is what its handler assigns to the
row it loaded, checked as that row was; `CallerFits` that a key at hand was not
revoked when it was loaded. The last theorem maps each commit to the step of
`TaskBoard` of the same name: a commit sends only the columns its handler
changed, so whatever was loaded, the two halves of a task (who has it; done or
open) are written apart.

**Loot**

| Theorem | Statement |
|---|---|
| `LootTypeCorrect` | `Spec => []TypeOK` |
| `FilesStayDownloadable` | `Spec => []NoDanglingOid` |
| `EveryObjectHasItsRow` | `Spec => []OrphansComeFromRestores` |
| `ContentIsAsHashed` | `Spec => []ContentMatchesHashUnlessRewound` |
| `ArchivesAreComplete` | `Spec => []FullVaultIsCompleteUnlessTorn` |

`StoreOK`: ids and object ids are handed out once and no two rows share an
object; `SeenOK`: nobody else has the object of a row a worker loaded. For the
contents the invariant is an existential, `\E h : Told(h)`: one content per id
explains every hash, object, export, archive and every row in a worker's memory,
until `rewound`. A new row picks the value of `h` for its id, everything else
keeps `h`. That an object restored for each row gets an id of its own
(`RestoredObjects`) is a counting argument on cardinalities.

**Credentials**

| Theorem | Statement |
|---|---|
| `CredentialsTypeCorrect` | `Spec => []TypeOK` |
| `SecretsStayReadable` | `Spec => []SecretsReadableUnlessReplaced` |
| `OnlyCrossingsMix` | `Spec => OnlyCrossedEditsMix` |

The invariant `KeyInv` of `KeyStore` is proved from its own actions: until a
file is opened over another, one worker at most is about to write it
(`OneWriter`), and whoever has a key has the file's, or read the file while it
was empty (`OneKey`). What `Credentials` adds is that stored secrets, and those
a request is about to store, are under the key in the file.

**Evidence**

| Theorem | Statement |
|---|---|
| `ReferencesResolve` | `Spec => []TypeOK` |
| `DeletionsSucceed` | `Spec => OnlyLinkedLootStays` |
| `FormsOverwriteLinks` | `Spec => OnlyCrossedEditsMerge` |
| `UsesStayLit` | `Spec => UsesStayOnMatrix` |

Here `TypeOK` already says that associations join rows that are there and
mappings name techniques that are known. `Fits` adds what a request loaded, and
`ParentsOK` that a sub-technique's parent pointer is the parent its id names or
empty.

### What stays with TLC

Every invariant and every action property of the passing runs is stated by a
theorem. Liveness is not: `ForcedUserReturns`,
`DeletionHappensUnlessCrossed`, `ScheduledRunEnds` and
`SilencedKeyStopsWriting` rest on fairness, which is made of ENABLED, and the prover does not handle that; `RunNowEnds` is violated. No
module uses recursion, so nothing is left out for that reason.

## Abstractions

- *Accounts.* The gates' repeated reads of one row are one step. Assignments are
  identified by user and engagement. Engagement ids a form names exist. The
  wizard's engagement is in `Engagements`.
- *Engagements.* The actor matters to deletions only. Flush and commit are one
  step except the autoflush before the entries are read. Names, dates, labels
  and descriptions are one unread column: an edit may or may not differ in it.
  The order of log rows is the order of commits. Links stand for loot, findings,
  todos and the other children: each is a row with a foreign key and a log row.
  Assignments, which are inserted without a log row, are not among them.
- *Backups.* All tables are one lock, held from a transaction's first read to its
  end. One export at a time can be restored. Intervals are left out: a job may
  fire at any time. Reading the destination and the export's first SELECT are
  one step. Secrets, retention and file names are left out; the other scopes are
  in `Loot`.
- *Todos and keys.* Titles, tags and last_used_at are not kept: nothing reads
  them. What `Accounts` does to a key's owner is `Administer`: any change of
  role and standing at any time.
- *Loot.* A content stands for its ciphertext, its hash and its size. The newest
  archive with a database export and the newest of scope `loot_files` can be
  restored. A restore waits for every transaction that has read `loot_files`; a
  download's body is sent after the view has returned, in a transaction of its
  own.
- *Network.* A node's role is its pane. Names, notes, labels, types and the
  layout of the map are left out, since no handler decides by them.
- *Evidence.* A refresh is two steps, the release with the rows it finds and one
  transaction that writes; tactics are whether a technique has one.

## Not modelled, and the plan

- *Threat model.* One row per engagement; two first saves race on its unique
  key, and the later one is an error. Nothing else reads it.
- *Framing.* The chunks of a loot file (nonce prefix, counter, final flag) are
  the content and its key: what a truncated or reordered file decrypts to is
  arithmetic on a stream of a library's ciphertexts, with no state.
- *Remote files.* Transports, retention, and the file names whose one-second
  resolution lets two runs overwrite one archive.
- *Names.* `resolve_origin_node` finds a node by name; two uploads with one new
  origin both add one. `Network` lets an upload add a target at any time.
- *Torn exports.* An export of two destinations that cannot be loaded
  (`Loadable`) needs a larger instance of `Backups` than TLC finishes in time.

Next: the parts above that are two racing requests on one row (threat model,
archive names), and a proof that `drifted`, `raced` and `rewound` are set only by
the crossings their comments name.

Reports, serializers, scaffolding, CLI, MCP server, migrations, templates and static JS keep
no state that several steps could disagree about, and stay out.
