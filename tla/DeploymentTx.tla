---------------------------- MODULE DeploymentTx ----------------------------
(***************************************************************************)
(* load_learning_content as the one long transaction it is: it composes    *)
(* the catalog commands, each of which must succeed, while other           *)
(* administrators' commands commit in between, and it may fail or be       *)
(* killed before any statement.                                            *)
(*                                                                         *)
(* The variables of Catalog hold what the loader's transaction sees: its   *)
(* own uncommitted rows and everybody's committed ones. `held` are the     *)
(* rows it has locked or written, `saved` what the rest of the world reads *)
(* in their place. Two loads never overlap: the second waits at its first  *)
(* statement for the author's account.                                     *)
(***************************************************************************)
EXTENDS Deployment

CONSTANTS
  MaxLoads,   \* bound: loads started
  MaxEdits    \* bound: changes that other administrators make

ASSUME BoundsAssumption == MaxLoads \in Nat /\ MaxEdits \in Nat

VARIABLES
  job,     \* the load under way
  held,    \* the rows it has locked
  saved,   \* the committed state of those rows
  loads, edits

jobVars == <<job, held, saved>>
deployVars == <<vars, jobVars, loads, edits>>

NoJob == [pc |-> "idle", corpus |-> <<>>, def |-> 1, unit |-> 1,
          track |-> NoOwner, module |-> NoOwner, outcome |-> "NONE"]

\* No row is held: nothing stands for the tables.
NothingSaved ==
  [tracks |-> <<>>, modules |-> <<>>, items |-> <<>>, trackVersions |-> {},
   moduleVersions |-> {}, contentVersions |-> {}, orderRevision |-> 0,
   log |-> NoLog]

Loading == job.pc # "idle"

DeployInit ==
  /\ Init
  /\ job = NoJob /\ held = {} /\ saved = NothingSaved
  /\ loads = 0 /\ edits = 0

-----------------------------------------------------------------------------
(* The committed catalog, which everybody but the loader reads *)

Shared(kind, rows, before) ==
  [k \in DOMAIN rows |-> IF <<kind, k>> \in held THEN before[k] ELSE rows[k]]

SharedVersions(kind, versions, before) ==
  {v \in versions : <<kind, v.of>> \notin held}
    \cup {v \in before : <<kind, v.of>> \in held}

Committed ==
  [tracks |-> Shared("track", tracks, saved.tracks),
   modules |-> Shared("module", modules, saved.modules),
   items |-> Shared("item", items, saved.items),
   trackVersions |->
     SharedVersions("track", trackVersions, saved.trackVersions),
   moduleVersions |->
     SharedVersions("module", moduleVersions, saved.moduleVersions),
   contentVersions |->
     SharedVersions("item", contentVersions, saved.contentVersions),
   orderRevision |-> IF Loading THEN saved.orderRevision ELSE orderRevision,
   log |-> IF Loading THEN saved.log ELSE log]

D == INSTANCE Deployment WITH
       tracks <- Committed.tracks,
       modules <- Committed.modules,
       items <- Committed.items,
       trackVersions <- Committed.trackVersions,
       moduleVersions <- Committed.moduleVersions,
       contentVersions <- Committed.contentVersions,
       orderRevision <- Committed.orderRevision,
       log <- Committed.log

\* The transaction locks or inserts the rows: from here on the others see
\* them as they are committed now.
Hold(rows) == held' = held \cup rows /\ saved' = Committed

Rows(kind, keys) == {<<kind, k>> : k \in keys}

New(kind, before, after) ==
  {<<kind, k>> : k \in {j \in DOMAIN before : after[j] # before[j]}}

-----------------------------------------------------------------------------
(* Steps of the load *)

Def == job.corpus[job.def]
Units == Def.units

At(pc) == job.pc = pc /\ UNCHANGED <<loads, edits>>

Goto(pc) == [job EXCEPT !.pc = pc]

\* _require_catalog_success: any other outcome is a conflict.
Require(next) ==
  job' = IF log'.result = "SUCCESS" THEN next ELSE Goto("conflict")

\* load_learning_content: the definitions are validated before, and the actor
\* and the catalog state locked.
BeginLoad(corpus) ==
  /\ ~Loading /\ loads < MaxLoads
  /\ Author \in admins /\ Accepted(corpus)
  /\ job' = [NoJob EXCEPT !.pc = "track", !.corpus = corpus]
  /\ Hold({<<"account", Author>>, <<"state", 1>>})
  /\ loads' = loads + 1
  /\ UNCHANGED <<vars, edits>>

\* _resolve_track: the rows that match, of which there may be one at most.
SelectTrack ==
  /\ At("track")
  /\ Hold(Rows("track", Matching(Def)))
  /\ job' = IF Cardinality(Matching(Def)) > 1 THEN Goto("conflict")
            ELSE [Goto("settle track") EXCEPT
                    !.track = IF Matching(Def) = {} THEN NoOwner
                              ELSE CHOOSE t \in Matching(Def) : TRUE]
  /\ UNCHANGED vars

CreateMissingTrack ==
  /\ At("settle track") /\ job.track = NoOwner
  /\ CreateTrack([op |-> "create_track", actor |-> Author,
                  title |-> Def.text, ok |-> TRUE])
  /\ Hold(New("track", tracks, tracks'))
  /\ Require([Goto("module") EXCEPT !.track = log'.key])

\* The author's text wins over whatever the track says; an active track
\* publishes it.
RestoreTrack ==
  /\ At("settle track") /\ job.track # NoOwner
  /\ tracks[job.track].title # Def.text
  /\ EditTrack([op |-> "edit_track", actor |-> Author, track |-> job.track,
                rev |-> tracks[job.track].revision, title |-> Def.text,
                ok |-> TRUE, pub |-> TRUE])
  /\ Require(Goto("module"))
  /\ UNCHANGED <<held, saved>>

KeepTrack ==
  /\ At("settle track") /\ job.track # NoOwner
  /\ tracks[job.track].title = Def.text
  /\ job' = Goto("module")
  /\ UNCHANGED <<vars, held, saved>>

NamedModules == Named(job.track, Def.module)

\* Every command on a module locks its siblings too.
HoldModules(more) == Hold(Rows("module", ModulesOf(job.track)) \cup more)

CreateMissingModule ==
  /\ At("module") /\ NamedModules = {}
  /\ CreateModule([op |-> "create_module", actor |-> Author,
                   track |-> job.track, title |-> Def.module, ok |-> TRUE])
  /\ HoldModules(New("module", modules, modules'))
  /\ Require([Goto("items") EXCEPT !.module = log'.key])

\* Only the objective is compared; the edit writes the title too.
RestoreModule ==
  /\ At("module")
  /\ \E m \in NamedModules :
       /\ ~Says(modules[m].title, Def.module)
       /\ EditModule([op |-> "edit_module", actor |-> Author,
                      track |-> job.track, module |-> m,
                      rev |-> modules[m].revision, title |-> Def.module,
                      ok |-> TRUE, pub |-> TRUE])
       /\ HoldModules({})
       /\ Require([Goto("items") EXCEPT !.module = m])

KeepModule ==
  /\ At("module")
  /\ \E m \in NamedModules :
       /\ Says(modules[m].title, Def.module)
       /\ job' = [Goto("items") EXCEPT !.module = m]
       /\ Hold({<<"module", m>>})
  /\ UNCHANGED vars

\* _validate_existing_content.
ValidateItems ==
  /\ At("items")
  /\ Hold(Rows("item", ItemsOf(job.module)))
  /\ job' = Goto(IF OnlyManaged(job.module, Units) THEN "unit" ELSE "conflict")
  /\ UNCHANGED vars

UnitItem == {i \in ItemsOf(job.module) : items[i].position = job.unit}

DraftUnit ==
  /\ At("unit") /\ UnitItem = {}
  /\ CreateContentDraft([op |-> "create_content_draft", actor |-> Author,
                         module |-> job.module,
                         rev |-> modules[job.module].revision])
  /\ Hold(New("item", items, items'))
  /\ job' = job

\* Mutation: a unit that needs no version is not passed over.
NextUnitStuck ==
  IF \E i \in UnitItem : items'[i] = items[i] THEN Goto("unit")
  ELSE IF job.unit < Len(Units) THEN [job EXCEPT !.unit = @ + 1]
  ELSE Goto("activate module")

NextUnit ==
  IF job.unit < Len(Units) THEN [job EXCEPT !.unit = @ + 1]
  ELSE Goto("activate module")

\* _matches_unit: whether the current version is the unit's.
Matches(i) == \E v \in PublishedVersion(i) : v.title = Units[job.unit].payload

PublishUnit ==
  /\ At("unit")
  /\ \E i \in UnitItem :
       /\ ~Matches(i)
       /\ PublishContentItem([op |-> "publish_content_item", actor |-> Author,
                              item |-> i, rev |-> items[i].revision,
                              title |-> Units[job.unit].payload, ok |-> TRUE])
  /\ job' = NextUnit
  /\ UNCHANGED <<held, saved>>

KeepUnit ==
  /\ At("unit")
  /\ \E i \in UnitItem : Matches(i)
  /\ UNCHANGED vars
  /\ job' = NextUnit
  /\ UNCHANGED <<held, saved>>

\* _activate_module.
ActivateModule ==
  /\ At("activate module")
  /\ modules[job.module].status # "ACTIVE"
  /\ ChangeModuleStatus([op |-> "change_module_status", actor |-> Author,
                         track |-> job.track, module |-> job.module,
                         rev |-> modules[job.module].revision,
                         target |-> "ACTIVE", pub |-> TRUE])
  /\ HoldModules({})
  /\ Require(Goto("activate track"))

KeepModuleActive ==
  /\ At("activate module")
  /\ modules[job.module].status = "ACTIVE"
  /\ job' = Goto("activate track")
  /\ UNCHANGED <<vars, held, saved>>

NextDefinition ==
  IF job.def < Len(job.corpus)
  THEN [NoJob EXCEPT !.pc = "track", !.corpus = job.corpus, !.def = job.def + 1]
  ELSE Goto("commit")

\* _activate_track.
ActivateTrack ==
  /\ At("activate track")
  /\ tracks[job.track].status # "ACTIVE"
  /\ ChangeTrackStatus([op |-> "change_track_status", actor |-> Author,
                        track |-> job.track,
                        rev |-> tracks[job.track].revision,
                        target |-> "ACTIVE", pub |-> TRUE])
  /\ HoldModules({})
  /\ Require(NextDefinition)

KeepTrackActive ==
  /\ At("activate track")
  /\ tracks[job.track].status = "ACTIVE"
  /\ job' = NextDefinition
  /\ UNCHANGED <<vars, held, saved>>

Release(outcome) ==
  /\ job' = [NoJob EXCEPT !.outcome = outcome]
  /\ held' = {} /\ saved' = NothingSaved

Commit ==
  /\ At("commit")
  /\ Release("LOADED")
  /\ UNCHANGED vars

\* Mutation: the decorator transaction.atomic is dropped, so that the rows of
\* the commands that did run stay.
NoRollback == UNCHANGED vars

Rollback ==
  /\ tracks' = Committed.tracks /\ modules' = Committed.modules
  /\ items' = Committed.items
  /\ trackVersions' = Committed.trackVersions
  /\ moduleVersions' = Committed.moduleVersions
  /\ contentVersions' = Committed.contentVersions
  /\ orderRevision' = Committed.orderRevision
  /\ log' = Committed.log
  /\ UNCHANGED admins

\* ContentLoadConflict leaves transaction.atomic.
Conflict ==
  /\ At("conflict")
  /\ Rollback
  /\ Release("CONFLICT")

\* Any other exception, a killed deployment or a lost connection.
Abort ==
  /\ Loading /\ Rollback /\ Release("ABORTED")
  /\ UNCHANGED <<loads, edits>>

-----------------------------------------------------------------------------
(* Everybody else *)

\* The rows a command locks. A load holds no module without its track, so the
\* modules that most commands lock after a track need not be listed.
RowsOf(c) ==
  {<<"account", c.actor>>}
    \cup (IF c.op \in {"create_track", "move_track"} THEN {<<"state", 1>>} ELSE {})
    \cup (IF c.op = "move_track" THEN Rows("track", UsedTracks) ELSE {})
    \cup (IF "track" \in DOMAIN c THEN {<<"track", c.track>>} ELSE {})
    \cup (IF c.op = "create_content_draft"
          THEN {<<"module", c.module>>} \cup Rows("item", ItemsOf(c.module))
          ELSE {})
    \cup (IF c.op = "publish_content_item" THEN {<<"item", c.item>>} ELSE {})

\* An edit to a title that an uncommitted row takes, or gives up, waits at the
\* unique index.
WaitsAtIndex(c) ==
  /\ c.op = "edit_track"
  /\ \E t \in Tracks :
       /\ <<"track", t>> \in held
       /\ KeyOf(c.title) \in {KeyOf(row.title) :
                                row \in {r \in {tracks[t], Committed.tracks[t]} : Exists(r)}}

\* A command that changes something, of an administrator other than the loader.
OtherCommand(c) ==
  /\ edits < MaxEdits
  /\ RowsOf(c) \cap held = {}
  /\ ~WaitsAtIndex(c)
  /\ Execute(c)
  /\ tables' # tables
  /\ edits' = edits + 1
  /\ saved' = IF Loading /\ log' # log THEN [saved EXCEPT !.log = log'] ELSE saved
  /\ UNCHANGED <<job, held, loads>>

OtherRole(a) ==
  /\ edits < MaxEdits
  /\ <<"account", a>> \notin held
  /\ ChangeContentRole(a)
  /\ edits' = edits + 1
  /\ UNCHANGED <<jobVars, loads>>

\* A release runs its commands one after the other.
Seed ==
  /\ ~Loading
  /\ SeedDemo
  /\ UNCHANGED <<jobVars, loads, edits>>

LoadStep ==
  \/ SelectTrack \/ CreateMissingTrack \/ RestoreTrack \/ KeepTrack
  \/ CreateMissingModule \/ RestoreModule \/ KeepModule
  \/ ValidateItems
  \/ DraftUnit \/ PublishUnit \/ KeepUnit
  \/ ActivateModule \/ KeepModuleActive
  \/ ActivateTrack \/ KeepTrackActive
  \/ Commit \/ Conflict

\* Which of the unused keys a new row gets makes no difference: the least.
KeysInOrder ==
  /\ \A k \in Tracks : Exists(tracks'[k]) =>
       Exists(tracks[k]) \/ \A j \in Tracks : j < k => Exists(tracks[j])
  /\ \A k \in Modules : Exists(modules'[k]) =>
       Exists(modules[k]) \/ \A j \in Modules : j < k => Exists(modules[j])
  /\ \A k \in Items : Exists(items'[k]) =>
       Exists(items[k]) \/ \A j \in Items : j < k => Exists(items[j])

DeployNext ==
  \/ \E corpus \in Documents : BeginLoad(corpus)
  \/ LoadStep /\ KeysInOrder
  \/ Abort
  \/ \E c \in Commands : OtherCommand(c) /\ KeysInOrder
  \/ \E a \in Accounts : OtherRole(a)
  \/ Seed

\* The process runs on unless it is killed.
DeploySpec ==
  DeployInit /\ [][DeployNext]_deployVars /\ WF_deployVars(LoadStep /\ KeysInOrder)

-----------------------------------------------------------------------------
(* Properties *)

\* Whatever the interleaving, the failures and the kills, the committed
\* catalog only ever sees whole loads: load_learning_content implements its
\* one-step specification, convergent, repeatable without a write, and without
\* touching rows that are not its own.
LoadIsAtomic == D!DeploymentSpec

\* What learners and administrators may rely on holds of the committed catalog
\* under both deployment commands, which bypass or compose the services.
CommittedRulesHold ==
  /\ D!ActiveTrackHasActiveModule
  /\ D!PositionsContiguous
  /\ D!HistoryNumbered

\* Loads and demonstration seeds reconcile in any order and number: as long as
\* no administrator changes anything, no load ends in a conflict.
SeedAndLoadReconcile == edits = 0 => job.outcome # "CONFLICT"

\* No state of the catalog leaves a load without a next step.
LoadEnds == Loading ~> ~Loading

\* A published version, its choices and its laboratory are never changed.
PublishedVersionsFrozen ==
  [][D!Appends(Committed.contentVersions, Committed.contentVersions')]_deployVars
=============================================================================
