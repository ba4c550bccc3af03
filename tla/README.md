# KronoLearn: specifications, model checking and proofs

KronoLearn is a Django application on PostgreSQL: administrators of content
maintain a catalog of tracks, modules and content items; learners enroll in
tracks. Its state is in the database, its concurrency is that of server
processes running transactions under READ COMMITTED, and its correctness rests
on row locks, unique constraints, revision tokens and append-only tables. This
directory models those mechanisms in TLA+, checks them with TLC and proves the
central properties with TLAPS. Paths below are relative to `src/`.

## 1. Inventory

| Component | State | Operations | Interacts with |
| --- | --- | --- | --- |
| Catalog administration: `catalog/services/content.py`, `ordering.py`, `catalog/models.py` | tracks, modules, content items; their versions; the `CatalogState` singleton; `CatalogChangeLog` | create, edit, change status and move of tracks and modules; create and publish content items | locks the actor's account row; read by the learner queries |
| Catalog queries: `catalog/services/queries.py` | none | administrative lists and lookups with their tokens; active tracks and modules | catalog views, enrollment views |
| Catalog views and forms: `catalog/views.py`, `catalog/forms.py` and templates | none on the server: the pages in the browsers carry rows and tokens | show lists and forms, translate posts to commands, answer with a redirect, a page or swapped rows | queries before, commands after |
| Content loader: `load_learning_content`, `catalog/content_data` | none of its own | one transaction of many catalog commands, meant to converge when repeated | catalog administration, demo data |
| Login throttling: `accounts/services/throttling.py`, `accounts/forms.py` | `LoginThrottleBucket` per account and per origin | evaluate, record failure, record success, prune | advisory locks and row locks |
| Role administration: `accounts/services/roles.py`, `accounts/admin.py` | accounts, membership of the content group, `RoleChangeLog` | assign, revoke; the account form of the admin site | revokes what catalog commands rely on |
| Registration, profile: `accounts/services/registration.py`, `accounts/views.py` | accounts | register, edit the display name | unique email |
| Enrollment: `learning/services/enrollment.py`, `learning/views/enrollment.py` | `Enrollment` | list, open, enroll | reads the catalog in separate transactions |
| Weekly seasons: `gamification/services/seasons.py` | `WeeklySeason` | get or create the current season | called by the demo data |
| Demo data: `ui/management/commands/seed_demo.py` | none of its own | writes catalog tables and the membership of its administrator directly | bypasses the catalog commands and the role service |
| Attempts, progress, sessions, scoring, streaks, analytics | models only | stubs that raise `NotImplementedError` | - |
| Settings, navigation, templates, health | none | presentation | - |

What is hard here: locking statements of several transactions interleave; a
form is sent back long after it was read; a decision is taken on rows that
another transaction is about to change; a sequence of status changes, edits and
moves has to keep numbering and history intact; locks are taken in several
statements and could form a circle; a view runs several statements without a
common transaction. PROJECT.json lists these hazards with their lines.

What makes each component correct:

- *Catalog*: an active track has an active module; what is active shows a
  published snapshot; versions are numbered 1..n and never rewritten; positions
  are 1..n; a token identifies what its user saw; every change is attributed;
  concurrent commands behave as if executed one at a time.
- *Throttling*: credentials are evaluated only when nothing blocks the attempt,
  one attempt at a time per scope; failures are neither forgotten early nor
  made to shorten a block; every attempt ends.
- *Roles*: the log is the history of the role, but for what `seed_demo` grants; authority is current when the
  change commits; calls never wait for each other in a circle.
- *Content loader*: all of a corpus or nothing, whatever the interleaving and
  whenever it is killed; a second load writes nothing; rows that are not the
  corpus' own stay; every load ends, and without a conflict as long as only loads
  and seeds wrote.
- *Demo data*: written past the commands, it keeps the catalog's rules.
- *Pages*: what is sent is carried out only upon what was shown; a learner reads
  published text, and meets a track without modules only while it is retired.
- *Enrollment*: one row per account and track, whoever asks how often; never in
  a track that was not on offer; the pages survive a concurrent retirement.

## 2. Modules

| Module | Models | How |
| --- | --- | --- |
| `CatalogRules` | the rows, the decisions and the writes of the catalog commands | pure operators shared by the next two |
| `Catalog` | the ten commands, each one atomic step | the abstract specification |
| `CatalogTx` | the same commands as transactions that lock row by row | EXTENDS `Catalog`; implements it |
| `Deployment` | the load and the demonstration seed, each one atomic step over `Catalog` | the abstract specification of what they promise |
| `DeploymentTx` | the load as one long transaction among other commands | EXTENDS `Deployment`; implements it through `INSTANCE Deployment WITH` the committed tables |
| `CatalogPages` | an administrator's page and a learner's page over `Catalog` | one step per statement or button |
| `LoginThrottle` | login attempts as transactions, time, the prune | one step per statement |
| `RoleChange` | role changes as transactions, the account form, the grant of `seed_demo` | one step per row lock |
| `Enrollment` | list and enroll requests next to the catalog's retirements | one step per statement |
| `Catalog_proofs` | theorems about `Catalog` | EXTENDS `Catalog`; its lemmas hold of any `Command`, not only of those TLC tries |
| `CatalogTx_proofs` | theorems about `CatalogTx`, the refinement of `Catalog` among them | EXTENDS `CatalogTx` and `Catalog_proofs` |
| `CatalogPages_proofs` | theorems about `CatalogPages` | EXTENDS `CatalogPages` and `Catalog_proofs` |
| `DeploymentTx_proofs` | what readers rely on during a load | EXTENDS `DeploymentTx` and `Catalog_proofs`, and INSTANCEs the latter for the committed catalog |
| `DeploymentLoad_proofs` | the refinement of `Deployment` by `DeploymentTx` | EXTENDS `DeploymentTx_proofs` |
| `Enrollment_proofs`, `RoleChange_proofs`, `LoginThrottle_proofs` | theorems about the module of that name | |
| `MC*` | the instances for TLC | |

### Catalog and CatalogRules

A row of `Track`, `Module` or `ContentItem` is a record with status, title,
revision, published version and position; a key without a row holds a row with
status `"ABSENT"`, because rows are never deleted (every foreign key is
`PROTECT`). All free text of an entity is one value, the canonical title key:
that is what unique constraints and snapshots compare. Whether the remaining
fields or the publication data pass validation is a Boolean of the call (`ok`,
`pub`). `log` is the `CatalogChangeLog` row appended last; the services never
read that table.

Every service function is one action and includes its refusals. `Decision` is
the chain of early returns they share (denied, not found, malformed revision,
conflict, invalid, success), in the order of the code; the operators named
`...Decision` say what "valid" means for each. `Edited`, `WithStatus`,
`Published` and `Moved` compute the new row, `Snapshot` the version that goes
with it. `create_content_draft` and `publish_content_item` raise on a refusal
and roll back, so only their accepted calls are steps.

### CatalogTx

A worker's transaction has a plan of locking statements, in the order of the
code. A statement fixes the rows it selects when it starts (`StartStatement`),
then locks them one at a time in its `ORDER BY` (`LockRow`), waiting while
another transaction holds the row and reading the row as it is once it is
granted. When every read is done, or an early return makes the rest unnecessary
(`Settled`), the command decides *from its private copies* and commits. Nothing
in the module forces those copies to be current: that they are
(`ReadsStayCurrent`) and that the commit is therefore a step of `Catalog`
(`CommandsAreAtomic`) is what the runs show and the proofs establish. A full-row `save()` writes the
private copy of the whole row, a `save(update_fields=...)` only its columns.
`Abort` covers refusals that raise, lost connections and dead workers.
`LockedRoleChange` is the role administration as the catalog sees it.
`WorkersAssumption` names what the proofs need of the constants: keys are
ordered (numbers, for the `ORDER BY`), workers are finitely many, and the bounds
of `Catalog` are not smaller than the number of commands, so that no bound ever
stops a transaction from committing.

### Deployment and DeploymentTx

A corpus is a sequence of track definitions; a payload stands for all of a
content version, its choices and its laboratory, and remembers the marker its
source starts with. `LoadLearningContent` says *what* a successful load does and
not how: the corpus is valid, and each definition gets a place, a track and a module
of it, which is new or in which the definition recognizes itself and finds no item
but its own. Afterwards readers find the corpus in place; of a module that means its title key and its
objective (`Says`), because the loader finds a module by the key and compares nothing but the objective
(`content.py:323`): a module whose title an administrator changed in letter case alone keeps that title
through every load, while the text of a track is compared as a whole and restored. If it was in place there
before, nothing was written; only the rows of the places changed, no position moved and no
entity got two versions. `SeedDemo` is the code of `seed_demo` on the tables, statement
after statement in one step, where a row that is missing is created at the least
unused key.

`DeploymentAssumption` says what the documents are: sequences of definitions and units
with texts that a row may hold, the demonstration with laboratories, and in one
document no track with a title or a legacy title that another of its tracks has as
well. The last is so in the shipped `learning_units.json` (lines 9 and 399-401);
`_validate_corpus` would not notice a document where it is not.

`DeploymentTx` runs the load with the actions of `Catalog` themselves, one
command per step; a refusal of any of them leads to `Conflict` and the rollback.
The variables of `Catalog` hold what the loader's transaction sees. `held` are the
rows it has locked or inserted and `saved` their committed state, so that
`Committed` is the catalog everybody else reads; other commands wait while they
need a held row, and what they change is visible to the loader at once (READ
COMMITTED). `D == INSTANCE Deployment WITH tracks <- Committed.tracks, ...` is
the refinement mapping: every step of the load but the last stutters in `D`, the
commit is one `LoadLearningContent`, a rollback is nothing.

### CatalogPages

An administrator's page is a record of what the browser shows: the rows, and the
token of the list or of the form. The server reads a list in two steps, the
token first and the rows when the template asks; it answers a post with a
redirect (the page is left), with the list read anew, or with the form as it was
sent. An HTMX request that succeeds or is refused swaps the rows, a 409 included
(`ui/templates/base.html:6`). `Offered` are the commands that the buttons of the
shown page can send; the other administrators send whatever they like. A learner's
page reads the track, then its modules, then perhaps one module from an old link.

### LoginThrottle

One attempt is one transaction: advisory locks of its two keys in ascending
order, the two statements of the prune, evaluation, credentials, and the record
of the outcome bucket by bucket. Uncommitted writes hold row locks and are
private (`Seen`); the DELETE of the prune re-evaluates its condition on each row
when it gets the lock, as PostgreSQL does. The order in which the DELETE visits
its rows is arbitrary. The clock may advance between any two steps; as in the
code, evaluation and the record of a failure each read it once.

A prune deletes buckets of other people in an order of its own, while their
owners record failures account first, origin second: two transactions *can* wait
for each other. PostgreSQL's detector then cancels one (`Deadlocked /\ Abort`);
its request fails and records nothing. No document of the repository rules this
out, and `AttemptsEnd` holds with it.

### RoleChange

A call locks the rows of actor and target in primary key order, one by one, a
row deleted meanwhile being skipped; it decides (`Recorded`) and commits the
membership together with its log row. The account form of the admin site saves
the two flags, has no field for groups, waits for the row lock, and deletes only
accounts that no log row names (`PROTECT`). `SeedRole` is the third writer:
`seed_demo` adds its administrator to the group, past the service and without a
log row, whenever it runs. It commits only when nobody has the account locked,
since the foreign key of the membership needs the account's row. So the log
cannot be the whole history for that one account: `LogTellsTheRole` says of
everybody that no assignment is logged twice in a row and that whoever was
assigned the role last holds it, and of everybody but `DemoAdmin` also that a
revocation is logged only after an assignment and that whoever holds the role was
assigned it. The seed's grant is one step; a call that assigns the role while the
seed's insert is uncommitted may wait for it and it for the call, and one of the
two is then cancelled, which is `Abort` or a seed that did not happen. An account
deleted and created again by the seed has a new key and is not followed.

### Enrollment

Each statement of a request is a step, because the views open no transaction
around them. The insert waits for an uncommitted insert of the same pair and
otherwise succeeds or meets the unique constraint; the handler then reads the
existing row. `seen` is a history variable: the tracks on offer at some time
since the request began. The catalog is reduced to the status of each track.

## 3. What TLC checks

| Run | Question | Bounds |
| --- | --- | --- |
| `catalog_lifecycle` | status changes, edits and moves in any order, accepted and refused, malformed calls included | 1 track, 2 modules, 2 titles, revisions up to 5 |
| `catalog_order` | creations, moves, drafts, publications | 3 tracks, 1 module, 2 items, 3 titles, revisions up to 3, order revisions up to 4 |
| `tx_status` | interleaved status changes and edits of one track, revocations of the role | 2 workers, 2 actors, 3 commands |
| `tx_order` | interleaved creations, moves, drafts, publications | 2 workers, 2 actors, 3 commands, 3 tracks, 3 modules |
| `login_throttle` | interleaved attempts, prunes, time | 2 accounts, 2 origins, 2 workers, 3 attempts, time up to 4, window 3, longest delay 2, prune batch 2 |
| `role_change` | interleaved role changes, account edits and grants by the seed | 3 accounts, 2 of them administrators at first, the third the demonstration's, 2 workers, 2 calls, 2 edits |
| `enrollment` | interleaved requests and retirements | 2 accounts, 2 tracks, 3 workers, 3 requests |
| `content_load` | loads that are killed, repeated and superseded, among seeds and editors | tracks of 2 and 1 units, 2 corpora and an invalid one, 2 loads, 2 changes by others, 4 tracks, 4 modules, 6 items |
| `seed_after_load` | a statement of the documents about published versions | the same without other changes |
| `catalog_pages` | old pages, swapped rows and interleaved reads | 3 tracks, 2 modules, 3 titles, 3 changes |
| `enrollment_retired`, `enrollment_list` | two statements of the documents that the code does not keep | 2 workers, 3 requests |

Why the bounds are enough. The rules of the catalog relate a track to its own
modules and a row to its neighbours in one sequence: two modules are needed for
"the last active one", three tracks for a move with rows on both sides. Revision
5 allows activate, edit, retire, edit, reactivate. Every race between
transactions that the locks must exclude is between two of them; the third
command makes a stale token or a changed row possible first. The starting
catalogs of `MCCatalogTx` are the results of the commands its comments name. The throttling window
of 3 with time up to 4 lets a bucket become stale, be pruned and be recorded
anew; two accounts and two origins allow attempts that share one scope, both or
none, and the advisory ids put one origin before and the other after its account.
The corpora of `content_load` keep what the loader tells apart: a first unit with
a legacy fingerprint, a unit without one, a track with laboratories and one
without, a legacy title, a unit that a later release revises; 2 and 1 units stand for 7 and 3,
because each unit is treated alike and only the first and the last differ (the
next unit, the activation). Two loads cover a killed or refused one followed by a
repetition, two changes an editor who retires and edits, or who creates a foreign
row and moves it; an editor may also change nothing but the letter case of a module's title. `catalog_pages` starts from an active track with an active and
an inactive module; three changes cover one by the page, and one by the other
administrator before and after it.
In `role_change` three accounts are needed for two administrators that act on one
target.

Deadlock checking is off everywhere: the bounds stop every model, and the
catalog refuses calls forever without changing. `NoWaitCircle` and the liveness properties
look for waits instead. `VIEW WithoutLog` leaves the last log row out of the
state (it is written, never read; action properties are evaluated on every
step). Symmetry is used only in runs without liveness.

Further simplifications of these two models, each named in its module: two loads never overlap (the
second waits at its first statement for the author's row); a seed is atomic and no administrator
writes while it runs; of the keys of new rows the least unused is
taken, because which one makes no difference; only commands that change something are followed of the others.

Fairness. In `DeploymentTx` the process of a load runs on unless it is killed (weak
fairness of its next step); it never waits in the model, because the locks it
needs are held by commands that are single steps. In `LoginThrottle` and `RoleChange` a worker goes on with the request
it serves (weak fairness of its next step), and in `LoginThrottle` the deadlock
detector runs. Nobody is assumed to submit forms, workers may die at any step,
and time need not pass. Weak fairness of a step that waits for a lock is enough
because the requests are bounded, so a lock is not taken over and over.

### Disagreements found

- `enrollment_retired`: `enrollment_enroll` (`learning/views/enrollment.py:49-56`)
  checks that the track is active and then inserts in another transaction,
  without a lock and without looking again. A track retired in between gets the
  enrollment, against `specs/008-enrollment-tracks/contracts/enrollment.md:23-24`
  and FR-006 (`spec.md:76`). What does hold is `EnrolledWhileOffered`: the track
  was on offer at some time during the request.
- `enrollment_list`: `enrollment_list` (`learning/views/enrollment.py:26-29`)
  asks for each listed track again and passes the answer on unchecked; a track
  retired in between is `None`, and the page fails with an `AttributeError`
  instead of showing the others (FR-001, `spec.md:71`).

- `seed_after_load`: `seed_demo` (`ui/management/commands/seed_demo.py:219`) gives
  version 1 of the first item of each demonstration module a laboratory when it
  has none. The secondary track has the title and module of the learning content,
  which publishes its units without laboratory: a seed after a load changes a
  published version, against FR-010 (`specs/005-publish-learning-units/spec.md:121`).

Not the subject of a run, but met on the way:

- `seed_demo` (`ui/management/commands/seed_demo.py:88-89`) grants `content_admin`
  to its administrator without a row in `RoleChangeLog`, again after a logged
  revocation. `specs/002-user-auth-profile/data-model.md:91` says the membership is
  "Added or removed only by the role service when actor is a platform
  administrator." `SeedRole` is that grant, and `LogTellsTheRole` therefore claims
  less of that one account.
- `seed_demo` reactivates a retired track or module without a snapshot, so text
  edited while it was retired goes live unpublished (FR-015,
  `specs/003-manage-tracks-modules/spec.md:110`); hence `CommittedRulesHold` does
  not include `LiveContentIsPublished`.

## 4. What is proved

Every theorem holds for all values of the constants that satisfy the assumptions
of the module it is about (and of the modules that one extends), and TLC
evaluates those assumptions on the runs. They say: keys and markers for "none"
differ; the sets of tracks, modules, items, emails, origins and (in `CatalogTx`)
workers are finite; the bounds are natural numbers; in `CatalogTx` keys are numbers and the
bounds leave room for the commands; in `LoginThrottle` the advisory ids are
integers, two keys may share one, and no delay is longer than the window. A database
holds finitely many rows of each kind, so none of this restricts the program. Of the
documents of `Deployment` they say what the parser guarantees, and that no track has
the title or a legacy title of another, which `_validate_corpus` does not check and
every shipped document fulfils.

| Module | Theorem | States |
| --- | --- | --- |
| `Catalog` | `TypeCorrect` | `Spec => []TypeOK` |
| | `LastActiveModuleKept` | `Spec => []ActiveTrackHasActiveModule` |
| | `HistoryAlwaysNumbered` | `Spec => []HistoryNumbered` |
| | `HistoryNeverRewritten` | `Spec => HistoryAppendOnly` |
| | `LiveContentAlwaysPublished` | `Spec => []LiveContentIsPublished` |
| | `SequencesContiguous` | `Spec => []PositionsContiguous` |
| | `TokensAreCurrent` | `Spec => TokensIdentify` |
| | `ChangesAreAttributed` | `Spec => AuditAttributesChange` |
| `CatalogTx` | `ReadsAlwaysCurrent` | `TxSpec => []ReadsStayCurrent` |
| | `CommandsAlwaysAtomic` | `TxSpec => CommandsAreAtomic` |
| | `TransactionsImplementCatalog` | `TxSpec => Spec` |
| | `LocksNeverCircle` | `TxSpec => []NoWaitCircle` |
| `CatalogPages` | `AcceptanceIsInformed` | `PageSpec => AcceptedMeansSeen` |
| | `LearnersReadPublishedText` | `PageSpec => []LearnerReadsPublishedText` |
| | `FoundTracksOfferModules` | `PageSpec => []EmptyPageOnlyWhenRetired` |
| `Enrollment` | `EnrollmentTyped` | `Spec => []TypeOK` |
| | `EnrollmentIsIdempotent` | `Spec => []EnrolledOnce` |
| | `EnrollmentOfOffered` | `Spec => EnrolledWhileOffered` |
| `RoleChange` | `RoleChangeTyped` | `Spec => []TypeOK` |
| | `RoleChangeLogged` | `Spec => []LogTellsTheRole` |
| | `RoleChangeAuthorized` | `Spec => AuthorityIsCurrent` |
| `DeploymentTx` | `CommittedCatalogSound` | `DeploySpec => []CommittedRulesHold` |
| | `LoadsAreAtomic` | `DeploySpec => LoadIsAtomic`, which is `D!DeploymentSpec` |
| `LoginThrottle` | `ThrottleTyped` | `Spec => []TypeOK` |
| | `ThrottleGuardsCredentials` | `Spec => []CredentialsOnlyWhenUnblocked` |
| | `ThrottleRemembers` | `Spec => BucketsVanishOnlyWhenStale` |
| | `ThrottleKeepsBlocks` | `Spec => BlocksNeverShorten` |

`TransactionsImplementCatalog` carries every theorem about `Catalog` over to the
interleaved transactions; the corollary `TransactionsKeepSequences` does so for
the positions.

### Catalog

- `Catalog_proofs` proves `TypeInv`: `TypeOK` and `RowsTitled`, that a row which
  exists has a real title and a module that exists a real track. Types alone are not
  inductive, because a snapshot copies the title of a row and `NoTitle` is no
  title. The lemmas before it say what each decision and each write returns.
- Its second part shows that the rule of the last active module is
  inductive over `TypeInv`. The two critical steps are the activation of a track,
  which has just seen an active module, and the deactivation of a module, where
  `IsLastActive` forces the set of active modules to have another member
  (cardinality of finite sets).
- The third part strengthens the numbering with `Unwritten`: a key without a row has published nothing. `HistoryStep` captures what a command may
  do to one table and its versions (advance one row by one and add exactly the
  version of that number); each action is shown to be one on every table, and
  numbering, append-only history and published text follow from it.
- Its last part: that the positions of `n` rows are `1..n` says that the
  position is a bijection from the keys of a sequence to `1..n`. The lemmas on
  `Contiguous` show that adding a row at `n + 1` and moving one row to any
  place keep it, the second by what `Moved` does to the rows between the two places. Its inductive
  invariant `OrderInv` adds to the positions of the three tables that a key
  without a row is still at revision 0 and belongs to nothing, without which a
  row could be created into the middle of a sequence. `TokensIdentify` and
  `AuditAttributesChange` are then facts of each single action.

### CatalogTx

`Invariant` has four parts.

- `OrderInv`, as above: the real tables are always those of a `Catalog`.
- `TxInv`: every transaction is `Sound` and no two hold one row. *Sound* says
  that the rows it holds or is about to lock are rows its command may reach (`Reachable`),
  that the actor's row comes first (`ActorFirst`), that a statement locks in
  one table (`OneTable`), that the private copies are exactly the locked rows as they are in
  the tables (`Copies`), and that a statement that has started found every row
  on which the command depends (`Covered`). `Covered` is the heart of it: a row
  that comes into being after a statement selected its rows would be missed (a
  phantom), and it is excluded because whoever creates a row needs the
  row of its track, its module or the catalog state, which the reader of the sequence
  locked in the statement before.
- `Owned`: the track of a module exists, so that the locking statement on it finds it.
- `Counted`: revisions and orders do not exceed the number of commands that have
  ended, so that the bounds of `Catalog`, which are no part of the code, never
  disable a commit.

For each of the ten commits, three things are shown: from copies that are
current the decision and the writes are those of the action of `Catalog`; it
writes only rows that its transaction holds (`WritesLocked`), so that the copies
of all others stay current; and it takes away no key another command names
(`Spares`). A statement that locks in an order (`NextRow`) has a next row because
a finite set of numbers has a least member, which is proved by the
well-foundedness of the numbers.

That transactions never wait for row locks in a circle does not follow from the order of the keys
alone: two statements on the items of different modules, or a move of tracks next to an
edit, take rows of one table in no common order. `StageInv` adds that no row of a table is held
before its statement starts and that a row which owns others is locked before
them (`OwnersFirst`). Two transactions that want a row of one table from
each other would both hold the owner (the catalog state, the track, the module),
or one of them takes a single row and waits for nothing more. So along every wait
`Ahead`, a number that depends on the wanted row and the command, gets
smaller (`HolderIsAhead`), and in any set of waiting transactions the one
with the least waits for nobody in the set.

### Enrollment, RoleChange, LoginThrottle

- `EnrollmentInv`: `PairsReserved` says that an uncommitted insert has its pair
  of account and track to itself and that a refused one was refused because of a
  row, which is therefore there when the handler reads it; without it, the commit
  could add a second row. `LookedUp` says that an insert follows a lookup
  that saw the track on offer.
- `RoleInv`: `LogTellsTheRole` is preserved by the calls only because the decision of a call is
  still right when it commits (`RowsDecided`), which rests on exclusive locks
  (`LocksExclude`) and on the rows that a call came past without a lock being
  deleted for good (`RowsSought`: primary keys are not used again). The seed adds to
  what its account holds, and of that account the log is asked for no more than assignments.
- `ThrottleInv`: `BucketsSound` bounds a block by the last failure plus the
  longest delay; since that is not longer than the window, a bucket the prune may
  delete blocks nobody. `AttemptsSound` relates each attempt to what it holds: advisory
  locks held by its place in the transaction, uncommitted writes only of
  locked rows, and of keys it has not yet reached only what is committed. The
  prune is the hard part: it writes rows of keys whose advisory locks it does not
  hold.
- The recursive definition of `PowerOfTwo`, the doubling of the delay, needs
  induction over the numbers. The library states it with an operator as
  parameter; `SetInduction` states it with a set, and follows from the
  well-foundedness of the numbers.

### CatalogPages

A page is older than the catalog: what it shows need not be true any more. The
inductive invariant `PageInv` says in which sense it still is.

- `CatalogInv` is the conjunction of the invariants above. A step of another
  administrator keeps it by the lemmas on `Catalog`, which is why those are stated
  for any command.
- `PageSound` compares what is shown with the table by means of the token.
  While the revision of a shown row is the one in the table, the row is as
  shown (`RowsSeen`, `FormSeen`). While the order token of the page is the order of the
  sequence, every row of the sequence is on the page, at the position it has
  (`TracksPlaced`, `ModulesPlaced`). The server reads the token *before* the rows,
  so a change in between leaves a page whose token is already behind, never
  one whose token is ahead of its rows. A step of the catalog keeps these
  statements because a revision and an order only grow and nothing changes without
  them (`TokensGrow`, `TokensIdentify`). An accepted command has
  the current token, hence was sent upon what is true: `AcceptedMeansSeen`.
- `VisitSound` does the same for the learner, who holds no token: the versions read
  are in the history, which only grows, and a row that was active when it was read
  showed a published version (`LiveContentIsPublished`). Modules are read after
  their track; if there were none, the track had been retired in between, because
  an active track has an active module.

### DeploymentTx

What administrators and learners read while a load runs is `Committed`, and what the
load reads is another catalog, the variables. `DeployInv` says that both are
sound: `CatalogInv`, the conjunction of the invariants of `Catalog`, holds of the
variables, and of the committed tables through an INSTANCE of `Catalog_proofs`,
whose lemmas are so used twice.

- `JobInv` says where the load is: its corpus is one of the documents and was accepted, the
  track and module it works on exist and are held, and so are the items once it looked at them.
- `HeldInv` says what it holds: with a module its track, with an item its module, and the
  catalog state throughout. This is what keeps the sequences of the others
  whole: the load alone creates tracks, and only in modules that it holds
  does it create items.
- `SavedInv` says that a row that exists in the committed tables exists in the load's, in
  the same track or module, and that the committed log is the log unless the load wrote it.

Three kinds of step remain. A step of the load leaves `Committed` as it is
(`LoadStepsKept`), because it writes only rows that it holds already or takes in the same
step, and keeps the variables sound because it is a command. A command of somebody else is the same command
on both catalogs (`OtherSeen`): each row it reads is not held, by `RowsOf`
or, for the modules of a track, because the load would hold the track. A commit
makes the variables the committed catalog, a rollback the committed catalog the variables.
The seed writes the tables past the commands, so none of the lemmas on commands applies: `SeededUpTo` is a
recursive function over the demonstration, and that the rules survive each of its tracks
follows with `SetInduction` from what `WithRows` does to the rules.

`DeploymentLoad_proofs` shows on top of that what a load has done at every point, so that its
commit is the one step of `Deployment`. The invariant is `LoadInv`; TLC checked it before it
was proved.

- There is a *place*, a track and a module of it, for every definition that is done
  (`Loaded`). `Placed` says of it that the load holds it with its items, that what the load
  sees there is the definition (`Is`, which is `InPlace` row by row), that the definition
  recognizes itself in what is committed there, and that a place that was as the definition
  wants it (`Was`) is untouched, row by row and version by version.
- `Elsewhere`: only rows of these places and of the definition under way differ from the
  committed ones. `Bounded`: by one version at most, and not in their position. A
  track or module gets its version either with its text or when it is activated; that
  it never gets two is why the bound depends on the status.
- `Underway` says what is known of the definition under way after each statement. Most of it is
  needed for the promise that a repeated load writes nothing: what the load
  left alone so far is untouched if it was in place.

A definition that is done stays done because the load holds its place and no other
definition has a title by which it would find the same track (`TrackIsNew`, from the
assumption on the documents; without it a second definition would rename the track of the
first). Commands of others leave held rows as they are (`OthersLeaveHeld`), so everything
`LoadInv` says outlasts them (`LoadOutlasts`). Each statement of the load has its lemma
(`SelectTrackLoads`, ..., `ActivateTrackLoads`). At the commit all definitions are done, and
`CommitLoads` reads `LoadLearningContent` off the invariant; that histories are only
appended to follows from their numbering on both sides. Every other step is either not seen, or
the same step on what everybody reads (`OthersAreThemselves`).

### What the proofs changed in the models

`LoadLearningContent` used to say that after a load exactly the rows a definition
recognizes itself in are its place. The attempt to prove it showed that this is not so:
with three changes by others, one more than the run allows, an administrator renames
another track to a legacy title after the load has selected its track and before it commits,
and two tracks match. The code does not look again, nor need it, since the load
fulfils what it promises for the track it selected. The action now
speaks of the places of that load.

`SeedDemo` folded over sequences of rows with CHOOSE; it is now a recursive function over
sets of possible tables, about which one can reason by induction. A load that changes
nothing is a step of its own in `DeploymentNext`.

`NoWaitCircle` ranges over the sets of workers that are not empty; `SUBSET Workers \ {{}}`
without parentheses is read differently by the model checker and the prover, and is
parenthesized now.

Two operators had CASE guards that overlapped. TLC takes the first that holds, the logic
any; the proofs of `RoleChange` failed on the outcomes that the code's chain of
returns never gives. `Result` of `RoleChange` and `Offered` of `CatalogPages` are
now ordered explicitly. The delay of the throttling is `PowerOfTwo`, a recursive
function, because the provers do not know `^`. 
### Only model-checked so far

- `SeedAndLoadReconcile` of `DeploymentTx`. It needs that the demonstration and the corpora agree on
  the rows they share, and that every corpus manages what the earlier releases
  published, which holds of the documents of the run and not of all.
- The liveness properties and everything with `ENABLED`: TLAPS does not reason
  about either here. `NoWaitCircle` states the absence of a deadlock of
  `CatalogTx` without them, and is proved.

## 5. Plan

In this order:

1. The proof of `SeedAndLoadReconcile`, from an assumption that says when a
   sequence of releases and a demonstration fit together.
2. `seed_demo` as statements, next to administrators who write while it runs: it
   reads rows without locks and writes back what it read.
3. Pages composed with `CatalogTx`, where today each command a page sends is one
   atomic step.
4. Waits on unique indexes between two catalog transactions.

## 6. Not modelled, and why

- Waits on unique indexes between catalog transactions: `CatalogTx` decides title
  conflicts at the commit. Two edits that swap titles could wait for each other on the index.
- Databases without advisory locks and `FOR UPDATE` (the test settings use SQLite).
- Text, digests, the parsing of requests and of the corpus document, the layout of
  templates, navigation, settings: no state.
- Registration and the weekly season: each is one insert that a unique constraint
  decides and a handler that reads the existing row, the mechanism of `Enrollment`.
- The accounts that `seed_demo` creates, and an administrator account it finds deactivated.
- Choices and labs of a content version as rows of their own: the commands write them
  with the version, in one transaction; they are part of the version row, and the
  seed's later laboratory is a change of it.
- The stubs of learning, gamification and analytics: nothing to model.
