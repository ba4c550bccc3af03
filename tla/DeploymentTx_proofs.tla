------------------------ MODULE DeploymentTx_proofs ------------------------
(***************************************************************************)
(* Theorems about DeploymentTx: for every corpus, every demonstration      *)
(* graph and every set of commands of other administrators.                *)
(*                                                                         *)
(* There are two catalogs, the one the load works on and the committed one *)
(* that everybody else reads, and the invariant says that each keeps what  *)
(* Catalog_proofs shows of a catalog: every step of the load is a          *)
(* command on the first and nothing on the second; a command of somebody   *)
(* else is the same command on both, because it waits for every held row   *)
(* it would read; the commit makes the second the first, a rollback the    *)
(* first the second. The rest of the invariant is what this rests on:      *)
(*   JobInv    where the load is, it holds the rows it works on;           *)
(*   HeldInv   who holds a row holds the rows above it;                    *)
(*   SavedInv  the committed rows are among those that the load sees.      *)
(***************************************************************************)
EXTENDS DeploymentTx, Catalog_proofs, WellFoundedInduction

\* The catalog of the committed tables, with the lemmas about it.
C == INSTANCE Catalog_proofs WITH
       tracks <- Committed.tracks,
       modules <- Committed.modules,
       items <- Committed.items,
       trackVersions <- Committed.trackVersions,
       moduleVersions <- Committed.moduleVersions,
       contentVersions <- Committed.contentVersions,
       orderRevision <- Committed.orderRevision,
       log <- Committed.log

\* The steps of the load, and those that know its track, its module, and that
\* its items are the definition's.
PCs == {"idle", "track", "settle track", "module", "items", "unit",
        "activate module", "activate track", "commit", "conflict"}

InTrack == {"module", "items", "unit", "activate module", "activate track"}
InModule == {"items", "unit", "activate module", "activate track"}
InUnits == {"unit", "activate module", "activate track"}

JobInv ==
  /\ job \in [pc: PCs, corpus: Documents \cup {<<>>}, def: Nat, unit: Nat,
              track: Tracks \cup {NoOwner}, module: Modules \cup {NoOwner},
              outcome: {"NONE", "LOADED", "CONFLICT", "ABORTED"}]
  /\ Loading =>
       /\ job.corpus \in Documents /\ Accepted(job.corpus)
       /\ job.def \in DOMAIN job.corpus /\ job.unit \in DOMAIN Units
  /\ job.pc = "settle track" /\ job.track # NoOwner =>
       Exists(tracks[job.track]) /\ <<"track", job.track>> \in held
  /\ job.pc \in InTrack =>
       /\ job.track \in Tracks
       /\ Exists(tracks[job.track]) /\ <<"track", job.track>> \in held
  /\ job.pc \in InModule =>
       /\ job.module \in Modules /\ modules[job.module].track = job.track
       /\ <<"module", job.module>> \in held
  /\ job.pc \in InUnits =>
       \A i \in Items : items[i].module = job.module => <<"item", i>> \in held

HeldInv ==
  /\ Loading => <<"state", 1>> \in held /\ <<"account", Author>> \in held
  /\ ~Loading => held = {} /\ saved = NothingSaved
  /\ \A t \in Tracks : <<"track", t>> \in held => Exists(tracks[t])
  /\ \A m \in Modules : <<"module", m>> \in held =>
       modules[m].track \in Tracks /\ <<"track", modules[m].track>> \in held
  /\ \A i \in Items : <<"item", i>> \in held =>
       items[i].module \in Modules /\ <<"module", items[i].module>> \in held

SavedInv ==
  /\ \A t \in Tracks : Exists(Committed.tracks[t]) => Exists(tracks[t])
  /\ \A m \in Modules : Exists(Committed.modules[m]) =>
       Exists(modules[m]) /\ Committed.modules[m].track = modules[m].track
  /\ \A i \in Items : Exists(Committed.items[i]) =>
       Exists(items[i]) /\ Committed.items[i].module = items[i].module
  /\ Loading /\ log.actor # Author => Committed.log = log
  /\ DOMAIN saved = DOMAIN NothingSaved

DeployInv == CatalogInv /\ C!CatalogInv /\ JobInv /\ HeldInv /\ SavedInv

-----------------------------------------------------------------------------
(* The instance: its operators are those of this module. *)

LEMMA SameCommands == C!Command = Command
  BY DEF C!Command, Command, C!CreateTrackCmd, CreateTrackCmd,
         C!EditTrackCmd, EditTrackCmd, C!TrackStatusCmd, TrackStatusCmd,
         C!MoveTrackCmd, MoveTrackCmd, C!CreateModuleCmd, CreateModuleCmd,
         C!EditModuleCmd, EditModuleCmd, C!ModuleStatusCmd, ModuleStatusCmd,
         C!MoveModuleCmd, MoveModuleCmd, C!CreateDraftCmd, CreateDraftCmd,
         C!PublishItemCmd, PublishItemCmd, C!Status, Status

LEMMA SameAssumptions ==
  /\ C!IsFiniteSet(Tracks) /\ C!IsFiniteSet(Modules) /\ C!IsFiniteSet(Items)
  /\ Commands \subseteq C!Command
  /\ NoTitle \notin Titles /\ NoOwner \notin Tracks \cup Modules \cup Items
  /\ MaxRevision \in Nat /\ MaxOrder \in Nat
  BY CatalogKeysAssumption, CatalogAssumption, SameCommands
     DEF C!IsFiniteSet, IsFiniteSet

LEMMA SameDecisions ==
  /\ \A a, k, c, f : C!CreateDecision(a, k, c, f) = CreateDecision(a, k, c, f)
  /\ \A a, k, r, c, f :
       C!EditDecision(a, k, r, c, f) = EditDecision(a, k, r, c, f)
  /\ \A a, k, o, c, n :
       C!MoveDecision(a, k, o, c, n) = MoveDecision(a, k, o, c, n)
  /\ \A a, r, c, h :
       C!TrackStatusDecision(a, r, c, h) = TrackStatusDecision(a, r, c, h)
  /\ \A a, r, o, c, s :
       C!ModuleStatusDecision(a, r, o, c, s) = ModuleStatusDecision(a, r, o, c, s)
  /\ \A a, k, r, l, u, v : C!Decision(a, k, r, l, u, v) = Decision(a, k, r, l, u, v)
<1>1. \A a, k, r, l, u, v : C!Decision(a, k, r, l, u, v) = Decision(a, k, r, l, u, v)
  BY DEF C!Decision, Decision
<1>2. \A r : C!Exists(r) = Exists(r)
  BY DEF C!Exists, Exists
<1>3. \A a, k, c, f : C!CreateDecision(a, k, c, f) = CreateDecision(a, k, c, f)
  BY <1>1 DEF C!CreateDecision, CreateDecision
<1>4. \A a, k, r, c, f :
       C!EditDecision(a, k, r, c, f) = EditDecision(a, k, r, c, f)
  BY <1>1 DEF C!EditDecision, EditDecision
<1>5. \A a, k, o, c, n :
       C!MoveDecision(a, k, o, c, n) = MoveDecision(a, k, o, c, n)
  BY <1>1 DEF C!MoveDecision, MoveDecision
<1>6. \A a, r, c, h :
       C!TrackStatusDecision(a, r, c, h) = TrackStatusDecision(a, r, c, h)
  BY <1>1, <1>2 DEF C!TrackStatusDecision, TrackStatusDecision, C!Supported,
     Supported, C!Status, Status
<1>7. \A o, s : C!IsLastActive(o, s) = IsLastActive(o, s)
  BY DEF C!IsLastActive, IsLastActive, C!Cardinality, Cardinality
<1>8. \A a, r, o, c, s :
       C!ModuleStatusDecision(a, r, o, c, s) = ModuleStatusDecision(a, r, o, c, s)
  <2> TAKE a, r, o, c, s
  <2>1. C!Supported(c.target) = Supported(c.target)
    BY DEF C!Supported, Supported, C!Status, Status
  <2>2. C!IsLastActive(o, s) = IsLastActive(o, s)
    BY <1>7
  <2> QED BY <1>1, <2>1, <2>2 DEF C!ModuleStatusDecision, ModuleStatusDecision
<1> QED BY <1>1, <1>3, <1>4, <1>5, <1>6, <1>8

LEMMA SameWrites ==
  /\ \A r : C!Exists(r) = Exists(r)
  /\ \A x, p : C!NewTrack(x, p) = NewTrack(x, p)
  /\ \A t, x, p : C!NewModule(t, x, p) = NewModule(t, x, p)
  /\ \A m, p : C!NewItem(m, p) = NewItem(m, p)
  /\ \A r, x : C!Edited(r, x) = Edited(r, x)
  /\ \A r, x : C!WithStatus(r, x) = WithStatus(r, x)
  /\ \A r : C!Published(r) = Published(r)
  /\ \A k, b, a, x : C!Snapshot(k, b, a, x) = Snapshot(k, b, a, x)
  /\ \A x : C!StatusAction(x) = StatusAction(x)
  BY DEF C!Exists, Exists, C!NewTrack, NewTrack, C!NewModule, NewModule,
         C!NewItem, NewItem, C!Edited, Edited, C!WithStatus, WithStatus,
         C!Published, Published, C!Snapshot, Snapshot, C!StatusAction,
         StatusAction

LEMMA SameOrders ==
  /\ \A s : C!Cardinality(s) = Cardinality(s)
  /\ \A rows, keys, x, p : C!Displaced(rows, keys, x, p) = Displaced(rows, keys, x, p)
  /\ \A rows, keys, x, p, k : C!Moved(rows, keys, x, p, k) = Moved(rows, keys, x, p, k)
  /\ \A rows, keys, k, x : C!TitleFree(rows, keys, k, x) = TitleFree(rows, keys, k, x)
  /\ \A rows, keys, x, p : C!Insertable(rows, keys, x, p) = Insertable(rows, keys, x, p)
  /\ \A rows, keys : C!Contiguous(rows, keys) = Contiguous(rows, keys)
<1>1. \A s : C!Cardinality(s) = Cardinality(s)
  BY DEF C!Cardinality, Cardinality
<1>2. \A rows, keys, k : C!Index(rows, keys, k) = Index(rows, keys, k)
  BY <1>1 DEF C!Index, Index
<1>3. \A rows, keys, x, p, k :
        C!MovedPosition(rows, keys, x, p, k) = MovedPosition(rows, keys, x, p, k)
  BY <1>2 DEF C!MovedPosition, MovedPosition
<1>4. \A rows, keys, x, p : C!Displaced(rows, keys, x, p) = Displaced(rows, keys, x, p)
  BY <1>3 DEF C!Displaced, Displaced
<1>5. \A rows, keys, x, p, k : C!Moved(rows, keys, x, p, k) = Moved(rows, keys, x, p, k)
  BY <1>3, <1>4 DEF C!Moved, Moved
<1>6. \A rows, keys, k, x : C!TitleFree(rows, keys, k, x) = TitleFree(rows, keys, k, x)
  BY DEF C!TitleFree, TitleFree
<1>7. \A rows, keys, x, p : C!Insertable(rows, keys, x, p) = Insertable(rows, keys, x, p)
  BY DEF C!Insertable, Insertable
<1>8. \A rows, keys : C!Contiguous(rows, keys) = Contiguous(rows, keys)
  BY <1>1 DEF C!Contiguous, Contiguous
<1> QED BY <1>1, <1>4, <1>5, <1>6, <1>7, <1>8

-----------------------------------------------------------------------------
(* What the others see *)

LEMMA TableDomains ==
  ASSUME TypeOK
  PROVE  /\ DOMAIN tracks = Tracks /\ DOMAIN modules = Modules
         /\ DOMAIN items = Items
  BY DEF TypeOK

LEMMA CommittedRows ==
  ASSUME TypeOK
  PROVE  /\ Committed.tracks =
              [t \in Tracks |-> IF <<"track", t>> \in held THEN saved.tracks[t]
                                ELSE tracks[t]]
         /\ Committed.modules =
              [m \in Modules |-> IF <<"module", m>> \in held THEN saved.modules[m]
                                 ELSE modules[m]]
         /\ Committed.items =
              [i \in Items |-> IF <<"item", i>> \in held THEN saved.items[i]
                               ELSE items[i]]
  BY TableDomains DEF Committed, Shared

LEMMA CommittedVersions ==
  /\ Committed.trackVersions =
       {v \in trackVersions : <<"track", v.of>> \notin held}
         \cup {v \in saved.trackVersions : <<"track", v.of>> \in held}
  /\ Committed.moduleVersions =
       {v \in moduleVersions : <<"module", v.of>> \notin held}
         \cup {v \in saved.moduleVersions : <<"module", v.of>> \in held}
  /\ Committed.contentVersions =
       {v \in contentVersions : <<"item", v.of>> \notin held}
         \cup {v \in saved.contentVersions : <<"item", v.of>> \in held}
  BY DEF Committed, SharedVersions

LEMMA CommittedOrder ==
  /\ Committed.orderRevision =
       IF Loading THEN saved.orderRevision ELSE orderRevision
  /\ Committed.log = IF Loading THEN saved.log ELSE log
  BY DEF Committed

LEMMA CommittedIsRecord ==
  Committed = [tracks |-> Committed.tracks, modules |-> Committed.modules,
               items |-> Committed.items,
               trackVersions |-> Committed.trackVersions,
               moduleVersions |-> Committed.moduleVersions,
               contentVersions |-> Committed.contentVersions,
               orderRevision |-> Committed.orderRevision,
               log |-> Committed.log]
  BY DEF Committed

\* Two committed catalogs are the same when all their tables are.
LEMMA CommittedSame ==
  ASSUME Committed'.tracks = Committed.tracks,
         Committed'.modules = Committed.modules,
         Committed'.items = Committed.items,
         Committed'.trackVersions = Committed.trackVersions,
         Committed'.moduleVersions = Committed.moduleVersions,
         Committed'.contentVersions = Committed.contentVersions,
         Committed'.orderRevision = Committed.orderRevision,
         Committed'.log = Committed.log
  PROVE  Committed' = Committed
<1>1. CommittedIsRecord'
  BY CommittedIsRecord, PTL
<1> QED BY <1>1, CommittedIsRecord

\* While no load runs, the committed catalog is the catalog.
LEMMA CommittedWhenIdle ==
  ASSUME TypeOK, ~Loading, held = {}
  PROVE  /\ Committed.tracks = tracks /\ Committed.modules = modules
         /\ Committed.items = items
         /\ Committed.trackVersions = trackVersions
         /\ Committed.moduleVersions = moduleVersions
         /\ Committed.contentVersions = contentVersions
         /\ Committed.orderRevision = orderRevision /\ Committed.log = log
<1>1. /\ tracks = [t \in Tracks |-> tracks[t]]
      /\ modules = [m \in Modules |-> modules[m]]
      /\ items = [i \in Items |-> items[i]]
  BY DEF TypeOK
<1>2. /\ Committed.tracks = tracks /\ Committed.modules = modules
      /\ Committed.items = items
  BY <1>1, CommittedRows
<1>3. /\ Committed.trackVersions = trackVersions
      /\ Committed.moduleVersions = moduleVersions
      /\ Committed.contentVersions = contentVersions
  BY CommittedVersions
<1> QED BY <1>2, <1>3, CommittedOrder

LEMMA SameTypes ==
  /\ C!TrackRow = TrackRow /\ C!ModuleRow = ModuleRow /\ C!ItemRow = ItemRow
  /\ \A keys : C!VersionRow(keys) = VersionRow(keys)
  /\ C!LogRow = LogRow /\ C!NoLog = NoLog
  BY DEF C!TrackRow, TrackRow, C!ModuleRow, ModuleRow, C!ItemRow, ItemRow,
         C!Status, Status, C!VersionRow, VersionRow, C!LogRow, LogRow,
         C!Actions, Actions, C!Results, Results, C!NoLog, NoLog

\* When the two catalogs have the same tables, what holds of one holds of the
\* other.
LEMMA SameCatalogInv ==
  ASSUME Committed.tracks = tracks, Committed.modules = modules,
         Committed.items = items, Committed.trackVersions = trackVersions,
         Committed.moduleVersions = moduleVersions,
         Committed.contentVersions = contentVersions,
         Committed.orderRevision = orderRevision, Committed.log = log
  PROVE  C!CatalogInv <=> CatalogInv
<1>1. /\ C!UsedTracks = UsedTracks
      /\ \A t : C!ModulesOf(t) = ModulesOf(t)
      /\ \A m : C!ItemsOf(m) = ItemsOf(m)
      /\ \A t : C!ActiveModules(t) = ActiveModules(t)
  BY DEF C!UsedTracks, UsedTracks, C!ModulesOf, ModulesOf, C!ItemsOf, ItemsOf,
         C!ActiveModules, ActiveModules, C!Exists, Exists
<1>2. C!TypeOK <=> TypeOK
  BY SameTypes DEF C!TypeOK, TypeOK
<1>3. C!RowsTitled <=> RowsTitled
  BY DEF C!RowsTitled, RowsTitled, C!Exists, Exists
<1>4. C!TypeInv <=> TypeInv
  BY <1>2, <1>3 DEF C!TypeInv, TypeInv
<1>5. /\ C!TracksOrdered <=> TracksOrdered
      /\ C!ModulesOrdered <=> ModulesOrdered
      /\ C!ItemsOrdered <=> ItemsOrdered
  BY <1>1, SameOrders, SameWrites
     DEF C!TracksOrdered, TracksOrdered, C!ModulesOrdered, ModulesOrdered,
         C!ItemsOrdered, ItemsOrdered
<1>6. \A rows : C!Unwritten(rows) <=> Unwritten(rows)
  BY DEF C!Unwritten, Unwritten
<1>7. \A rows, versions : C!Numbered(rows, versions) <=> Numbered(rows, versions)
  BY DEF C!Numbered, Numbered
<1>8. C!ActiveTrackHasActiveModule <=> ActiveTrackHasActiveModule
  BY <1>1 DEF C!ActiveTrackHasActiveModule, ActiveTrackHasActiveModule
<1>9. C!OrderInv <=> OrderInv
  BY <1>4, <1>5 DEF C!OrderInv, OrderInv
<1>10. C!HistoryInv <=> HistoryInv
  BY <1>4, <1>6 DEF C!HistoryInv, HistoryInv
<1>11. C!HistoryNumbered <=> HistoryNumbered
  BY <1>7 DEF C!HistoryNumbered, HistoryNumbered
<1> QED BY <1>8, <1>9, <1>10, <1>11 DEF C!CatalogInv, CatalogInv

\* A step of the load that writes held rows only: the others see nothing.
OnlyHeldChange ==
  /\ \A t \in Tracks : tracks'[t] # tracks[t] => <<"track", t>> \in held'
  /\ \A m \in Modules : modules'[m] # modules[m] => <<"module", m>> \in held'
  /\ \A i \in Items : items'[i] # items[i] => <<"item", i>> \in held'
  /\ \A v : (v \in trackVersions) # (v \in trackVersions')
              => <<"track", v.of>> \in held'
  /\ \A v : (v \in moduleVersions) # (v \in moduleVersions')
              => <<"module", v.of>> \in held'
  /\ \A v : (v \in contentVersions) # (v \in contentVersions')
              => <<"item", v.of>> \in held'

KeepsSaved ==
  /\ held \subseteq held'
  /\ \/ saved' = Committed
     \/ held' = held /\ saved' = saved /\ Loading

\* A table with some rows replaced by what was saved of them, once more rows
\* are held that are saved as they were seen, and then written.
LEMMA SavedRowsSeen ==
  ASSUME NEW S, NEW kind, NEW before, NEW now, NEW rows, NEW new, NEW f,
         before \subseteq now,
         \A k \in S : new[k] # rows[k] => <<kind, k>> \in now,
         \A k \in S : <<kind, k>> \notin before => f[k] = rows[k],
         f = [k \in S |-> f[k]]
  PROVE  f = [k \in S |-> IF <<kind, k>> \in now THEN f[k] ELSE new[k]]
<1>1. \A k \in S : f[k] = IF <<kind, k>> \in now THEN f[k] ELSE new[k]
  OBVIOUS
<1> QED BY <1>1

LEMMA SavedRowsKept ==
  ASSUME NEW S, NEW kind, NEW now, NEW rows, NEW new, NEW saw,
         \A k \in S : new[k] # rows[k] => <<kind, k>> \in now
  PROVE  [k \in S |-> IF <<kind, k>> \in now THEN saw[k] ELSE rows[k]] =
         [k \in S |-> IF <<kind, k>> \in now THEN saw[k] ELSE new[k]]
<1>1. \A k \in S : (IF <<kind, k>> \in now THEN saw[k] ELSE rows[k]) =
                   IF <<kind, k>> \in now THEN saw[k] ELSE new[k]
  OBVIOUS
<1> QED BY <1>1

LEMMA LoadHidden ==
  ASSUME TypeOK, TypeOK', Loading', OnlyHeldChange, KeepsSaved
  PROVE  UNCHANGED Committed
<1>0. /\ DOMAIN tracks' = Tracks /\ DOMAIN modules' = Modules
      /\ DOMAIN items' = Items
  BY DEF TypeOK
<1>1. /\ Committed'.tracks =
           [t \in Tracks |-> IF <<"track", t>> \in held' THEN saved'.tracks[t]
                             ELSE tracks'[t]]
      /\ Committed'.modules =
           [m \in Modules |-> IF <<"module", m>> \in held' THEN saved'.modules[m]
                              ELSE modules'[m]]
      /\ Committed'.items =
           [i \in Items |-> IF <<"item", i>> \in held' THEN saved'.items[i]
                            ELSE items'[i]]
  BY <1>0 DEF Committed, Shared
<1>2. /\ Committed'.trackVersions =
           {v \in trackVersions' : <<"track", v.of>> \notin held'}
             \cup {v \in saved'.trackVersions : <<"track", v.of>> \in held'}
      /\ Committed'.moduleVersions =
           {v \in moduleVersions' : <<"module", v.of>> \notin held'}
             \cup {v \in saved'.moduleVersions : <<"module", v.of>> \in held'}
      /\ Committed'.contentVersions =
           {v \in contentVersions' : <<"item", v.of>> \notin held'}
             \cup {v \in saved'.contentVersions : <<"item", v.of>> \in held'}
  BY DEF Committed, SharedVersions
<1>3. /\ Committed'.orderRevision = saved'.orderRevision
      /\ Committed'.log = saved'.log
  BY DEF Committed, Loading
<1>4. CASE saved' = Committed
  <2>0. held \subseteq held'
    BY DEF KeepsSaved
  <2>1. Committed'.tracks = Committed.tracks
    <3> DEFINE f == Committed.tracks
    <3>1. f = [k \in Tracks |-> f[k]]
      BY CommittedRows
    <3>2. \A k \in Tracks : <<"track", k>> \notin held => f[k] = tracks[k]
      BY CommittedRows
    <3>3. \A k \in Tracks : tracks'[k] # tracks[k] => <<"track", k>> \in held'
      BY DEF OnlyHeldChange
    <3>4. saved'.tracks = f
      BY <1>4
    <3> HIDE DEF f
    <3>5. f = [k \in Tracks |-> IF <<"track", k>> \in held' THEN f[k]
                               ELSE tracks'[k]]
      BY <2>0, <3>1, <3>2, <3>3, SavedRowsSeen
    <3>6. Committed'.tracks = f
      BY <3>5, <1>1, <3>4
    <3> QED BY <3>6 DEF f
  <2>2. Committed'.modules = Committed.modules
    <3> DEFINE f == Committed.modules
    <3>1. f = [k \in Modules |-> f[k]]
      BY CommittedRows
    <3>2. \A k \in Modules : <<"module", k>> \notin held => f[k] = modules[k]
      BY CommittedRows
    <3>3. \A k \in Modules : modules'[k] # modules[k] => <<"module", k>> \in held'
      BY DEF OnlyHeldChange
    <3>4. saved'.modules = f
      BY <1>4
    <3> HIDE DEF f
    <3>5. f = [k \in Modules |-> IF <<"module", k>> \in held' THEN f[k]
                                ELSE modules'[k]]
      BY <2>0, <3>1, <3>2, <3>3, SavedRowsSeen
    <3>6. Committed'.modules = f
      BY <3>5, <1>1, <3>4
    <3> QED BY <3>6 DEF f
  <2>3. Committed'.items = Committed.items
    <3> DEFINE f == Committed.items
    <3>1. f = [k \in Items |-> f[k]]
      BY CommittedRows
    <3>2. \A k \in Items : <<"item", k>> \notin held => f[k] = items[k]
      BY CommittedRows
    <3>3. \A k \in Items : items'[k] # items[k] => <<"item", k>> \in held'
      BY DEF OnlyHeldChange
    <3>4. saved'.items = f
      BY <1>4
    <3> HIDE DEF f
    <3>5. f = [k \in Items |-> IF <<"item", k>> \in held' THEN f[k]
                              ELSE items'[k]]
      BY <2>0, <3>1, <3>2, <3>3, SavedRowsSeen
    <3>6. Committed'.items = f
      BY <3>5, <1>1, <3>4
    <3> QED BY <3>6 DEF f
  <2>4. Committed'.trackVersions = Committed.trackVersions
    BY <1>2, <1>4, CommittedVersions DEF OnlyHeldChange, KeepsSaved
  <2>5. Committed'.moduleVersions = Committed.moduleVersions
    BY <1>2, <1>4, CommittedVersions DEF OnlyHeldChange, KeepsSaved
  <2>6. Committed'.contentVersions = Committed.contentVersions
    BY <1>2, <1>4, CommittedVersions DEF OnlyHeldChange, KeepsSaved
  <2>7. /\ Committed'.orderRevision = Committed.orderRevision
        /\ Committed'.log = Committed.log
    BY <1>3, <1>4, CommittedOrder
  <2> QED BY <2>1, <2>2, <2>3, <2>4, <2>5, <2>6, <2>7, CommittedSame
<1>5. CASE held' = held /\ saved' = saved /\ Loading
  <2>1. Committed'.tracks = Committed.tracks
    <3> DEFINE saw == saved.tracks
    <3>1. \A k \in Tracks : tracks'[k] # tracks[k] => <<"track", k>> \in held
      BY <1>5 DEF OnlyHeldChange
    <3>2. /\ Committed.tracks = [k \in Tracks |-> IF <<"track", k>> \in held THEN saw[k]
                                        ELSE tracks[k]]
          /\ Committed'.tracks = [k \in Tracks |-> IF <<"track", k>> \in held THEN saw[k]
                                         ELSE tracks'[k]]
      BY <1>1, <1>5, CommittedRows
    <3> HIDE DEF saw
    <3> QED BY <3>1, <3>2, SavedRowsKept
  <2>2. Committed'.modules = Committed.modules
    <3> DEFINE saw == saved.modules
    <3>1. \A k \in Modules : modules'[k] # modules[k] => <<"module", k>> \in held
      BY <1>5 DEF OnlyHeldChange
    <3>2. /\ Committed.modules = [k \in Modules |-> IF <<"module", k>> \in held THEN saw[k]
                                        ELSE modules[k]]
          /\ Committed'.modules = [k \in Modules |-> IF <<"module", k>> \in held THEN saw[k]
                                         ELSE modules'[k]]
      BY <1>1, <1>5, CommittedRows
    <3> HIDE DEF saw
    <3> QED BY <3>1, <3>2, SavedRowsKept
  <2>3. Committed'.items = Committed.items
    <3> DEFINE saw == saved.items
    <3>1. \A k \in Items : items'[k] # items[k] => <<"item", k>> \in held
      BY <1>5 DEF OnlyHeldChange
    <3>2. /\ Committed.items = [k \in Items |-> IF <<"item", k>> \in held THEN saw[k]
                                        ELSE items[k]]
          /\ Committed'.items = [k \in Items |-> IF <<"item", k>> \in held THEN saw[k]
                                         ELSE items'[k]]
      BY <1>1, <1>5, CommittedRows
    <3> HIDE DEF saw
    <3> QED BY <3>1, <3>2, SavedRowsKept
  <2>4. Committed'.trackVersions = Committed.trackVersions
    BY <1>2, <1>5, CommittedVersions DEF OnlyHeldChange, KeepsSaved
  <2>5. Committed'.moduleVersions = Committed.moduleVersions
    BY <1>2, <1>5, CommittedVersions DEF OnlyHeldChange, KeepsSaved
  <2>6. Committed'.contentVersions = Committed.contentVersions
    BY <1>2, <1>5, CommittedVersions DEF OnlyHeldChange, KeepsSaved
  <2>7. /\ Committed'.orderRevision = Committed.orderRevision
        /\ Committed'.log = Committed.log
    BY <1>3, <1>5, CommittedOrder
  <2> QED BY <2>1, <2>2, <2>3, <2>4, <2>5, <2>6, <2>7, CommittedSame
<1> QED BY <1>4, <1>5 DEF KeepsSaved

-----------------------------------------------------------------------------
(* What the steps of a load keep *)

\* A step of the load: held rows change, the log names the author.
LoadWrites ==
  /\ OnlyHeldChange /\ KeepsSaved
  /\ log' = log \/ log'.actor = Author
  /\ admins' = admins

LEMMA LoadStepKept ==
  ASSUME DeployInv, CatalogInv', RowsRemain, LoadWrites, Loading',
         JobInv', HeldInv'
  PROVE  DeployInv' /\ UNCHANGED Committed
<1>1. TypeOK /\ TypeOK' /\ C!CatalogInv /\ admins \subseteq Accounts
  BY CatalogInvRules DEF DeployInv, CatalogInv, OrderInv, TypeInv, TypeOK
<1>2. UNCHANGED Committed
  BY <1>1, LoadHidden DEF LoadWrites
<1>3. C!CatalogInv'
  BY <1>1, <1>2, C!CatalogInvFrame, SameAssumptions DEF LoadWrites
<1>4. SavedInv'
  <2>1. SavedInv
    BY DEF DeployInv
  <2>2. ASSUME log'.actor # Author PROVE Committed'.log = log'
    <3>1. log' = log
      BY <2>2 DEF LoadWrites
    <3>2. Committed.log = log
      BY <3>1, <2>1, <2>2, CommittedOrder DEF SavedInv
    <3> QED BY <3>1, <3>2, <1>2
  <2>3. /\ \A t \in Tracks : Exists(Committed'.tracks[t]) => Exists(tracks'[t])
        /\ \A m \in Modules : Exists(Committed'.modules[m]) =>
             Exists(modules'[m]) /\ Committed'.modules[m].track = modules'[m].track
        /\ \A i \in Items : Exists(Committed'.items[i]) =>
             Exists(items'[i]) /\ Committed'.items[i].module = items'[i].module
    BY <2>1, <1>2 DEF SavedInv, RowsRemain
  <2>4. DOMAIN saved' = DOMAIN NothingSaved
    <3>1. DOMAIN Committed = DOMAIN NothingSaved
      BY DEF Committed, NothingSaved
    <3> QED BY <3>1, <2>1 DEF SavedInv, LoadWrites, KeepsSaved
  <2> QED BY <2>2, <2>3, <2>4 DEF SavedInv
<1> QED BY <1>2, <1>3, <1>4 DEF DeployInv

\* A step of the load that writes no table.
LEMMA QuietLoadStep ==
  ASSUME DeployInv, UNCHANGED vars, KeepsSaved
  PROVE  CatalogInv' /\ RowsRemain /\ LoadWrites
<1>1. TypeOK
  BY CatalogInvRules DEF DeployInv
<1>2. CatalogInv'
  BY <1>1, CatalogInvFrame DEF DeployInv, vars, TypeOK
<1>3. RowsRemain
  BY DEF vars, RowsRemain
<1>4. OnlyHeldChange
  BY DEF vars, OnlyHeldChange
<1> QED BY <1>2, <1>3, <1>4 DEF LoadWrites, vars

\* A module of a track, or an item of a module, exists.
LEMMA PlacedExist ==
  ASSUME CatalogInv
  PROVE  /\ \A m \in Modules : modules[m].track \in Tracks => Exists(modules[m])
         /\ \A i \in Items : items[i].module \in Modules => Exists(items[i])
<1>1. TypeOK /\ ModulesOrdered /\ ItemsOrdered
  BY CatalogInvRules DEF CatalogInv, OrderInv
<1> QED BY <1>1, CatalogKeysAssumption DEF ModulesOrdered, ItemsOrdered

\* What is locked stays locked.
LEMMA HeldGrows ==
  ASSUME DeployInv, RowsRemain, held \subseteq held',
         <<"state", 1>> \in held', <<"account", Author>> \in held', Loading',
         \A t \in Tracks : <<"track", t>> \in held' \ held => Exists(tracks'[t]),
         \A m \in Modules : <<"module", m>> \in held' \ held =>
           /\ modules'[m].track \in Tracks
           /\ <<"track", modules'[m].track>> \in held',
         \A i \in Items : <<"item", i>> \in held' \ held =>
           /\ items'[i].module \in Modules
           /\ <<"module", items'[i].module>> \in held'
  PROVE  HeldInv'
<1>1. HeldInv /\ CatalogInv
  BY DEF DeployInv
<1>2. \A t \in Tracks : <<"track", t>> \in held' => Exists(tracks'[t])
  BY <1>1 DEF HeldInv, RowsRemain
<1>3. \A m \in Modules : <<"module", m>> \in held' =>
        modules'[m].track \in Tracks /\ <<"track", modules'[m].track>> \in held'
  BY <1>1, PlacedExist DEF HeldInv, RowsRemain
<1>4. \A i \in Items : <<"item", i>> \in held' =>
        items'[i].module \in Modules /\ <<"module", items'[i].module>> \in held'
  BY <1>1, PlacedExist DEF HeldInv, RowsRemain
<1> QED BY <1>2, <1>3, <1>4 DEF HeldInv

\* Where the load is, it stays.
LEMMA PlaceStays ==
  ASSUME DeployInv, RowsRemain, held \subseteq held'
  PROVE  /\ job.pc \in InTrack =>
              /\ job.track \in Tracks /\ Exists(tracks'[job.track])
              /\ <<"track", job.track>> \in held'
         /\ job.pc = "settle track" /\ job.track # NoOwner =>
              /\ job.track \in Tracks /\ Exists(tracks'[job.track])
              /\ <<"track", job.track>> \in held'
         /\ job.pc \in InModule =>
              /\ job.module \in Modules /\ modules'[job.module].track = job.track
              /\ <<"module", job.module>> \in held'
<1>1. JobInv /\ CatalogInv
  BY DEF DeployInv
<1>2. job.track \in Tracks \cup {NoOwner}
  BY <1>1 DEF JobInv
<1>3. job.pc \in InModule => job.pc \in InTrack
  BY DEF InModule, InTrack
<1> QED BY <1>1, <1>2, <1>3, PlacedExist DEF JobInv, RowsRemain

JobRow ==
  [pc: PCs, corpus: Documents \cup {<<>>}, def: Nat, unit: Nat,
   track: Tracks \cup {NoOwner}, module: Modules \cup {NoOwner},
   outcome: {"NONE", "LOADED", "CONFLICT", "ABORTED"}]

LEMMA JobFields ==
  ASSUME NEW j \in JobRow, NEW p \in PCs
  PROVE  /\ [j EXCEPT !.pc = p] \in JobRow
         /\ \A t \in Tracks \cup {NoOwner} :
              [[j EXCEPT !.pc = p] EXCEPT !.track = t] \in JobRow
         /\ \A m \in Modules \cup {NoOwner} :
              [[j EXCEPT !.pc = p] EXCEPT !.module = m] \in JobRow
  BY DEF JobRow

\* The definition under way: its texts are those that a row may hold.
LEMMA DefinitionFields ==
  ASSUME JobInv, Loading
  PROVE  /\ Def.text \in Titles /\ Def.module \in Titles
         /\ Len(Units) \in Nat /\ DOMAIN Units = 1..Len(Units)
         /\ Len(job.corpus) \in Nat /\ DOMAIN job.corpus = 1..Len(job.corpus)
         /\ job.def \in 1..Len(job.corpus)
         /\ job.unit \in 1..Len(Units)
         /\ Units[job.unit].payload \in Titles
<1>1. /\ job.corpus \in Documents /\ job.def \in DOMAIN job.corpus
      /\ job.unit \in DOMAIN Units
  BY DEF JobInv
<1> QED BY <1>1, DeploymentAssumption DEF IsSequence, Units, Def

\* The load goes on within its definition: its place is known.
LEMMA JobGoes ==
  ASSUME DeployInv, Loading, RowsRemain, held \subseteq held',
         NEW p \in PCs, p # "idle", job' = [job EXCEPT !.pc = p],
         p \in InTrack => \/ job.pc \in InTrack
                          \/ job.pc = "settle track" /\ job.track # NoOwner,
         p \in InModule => job.pc \in InModule,
         p \in InUnits =>
           \A i \in Items : items'[i].module = job.module => <<"item", i>> \in held',
         p # "settle track"
  PROVE  JobInv' /\ Loading'
<1>1. JobInv /\ job \in JobRow
  BY DEF DeployInv, JobInv, JobRow
<1>2. job' \in JobRow
  BY <1>1, JobFields
<1>3. /\ job'.pc = p /\ job'.track = job.track /\ job'.module = job.module
      /\ job'.corpus = job.corpus /\ job'.def = job.def /\ job'.unit = job.unit
  BY <1>1 DEF JobRow
<1>4. Loading'
  BY <1>3 DEF Loading
<1>5. /\ job'.corpus \in Documents /\ Accepted(job'.corpus)
      /\ job'.def \in DOMAIN job'.corpus /\ job'.unit \in DOMAIN Units'
  BY <1>1, <1>3 DEF JobInv, Units, Def
<1>6. p \in InTrack =>
        /\ job'.track \in Tracks
        /\ Exists(tracks'[job'.track]) /\ <<"track", job'.track>> \in held'
  BY <1>3, PlaceStays
<1>7. p \in InModule =>
        /\ job'.module \in Modules /\ modules'[job'.module].track = job'.track
        /\ <<"module", job'.module>> \in held'
  BY <1>3, PlaceStays
<1> QED BY <1>2, <1>3, <1>4, <1>5, <1>6, <1>7 DEF JobInv, JobRow

LEMMA SelectTrackKept ==
  ASSUME DeployInv, SelectTrack
  PROVE  DeployInv' /\ UNCHANGED Committed
<1>1. /\ job.pc = "track" /\ UNCHANGED vars
      /\ held' = held \cup Rows("track", Matching(Def)) /\ saved' = Committed
      /\ job' = IF Cardinality(Matching(Def)) > 1 THEN Goto("conflict")
                ELSE [Goto("settle track") EXCEPT
                        !.track = IF Matching(Def) = {} THEN NoOwner
                                  ELSE CHOOSE t \in Matching(Def) : TRUE]
  BY DEF SelectTrack, At, Hold
<1>2. /\ JobInv /\ HeldInv /\ CatalogInv /\ Loading
      /\ job \in JobRow
  BY <1>1 DEF DeployInv, Loading, JobInv, JobRow
<1>3. KeepsSaved
  BY <1>1 DEF KeepsSaved
<1>4. CatalogInv' /\ RowsRemain /\ LoadWrites
  BY <1>1, <1>3, QuietLoadStep
<1>5. Matching(Def) \subseteq {t \in Tracks : Exists(tracks'[t])}
  BY <1>1 DEF Matching, UsedTracks, vars
<1>6. JobInv' /\ Loading'
  <2>1. CASE job' = Goto("conflict")
    <3>1. "conflict" \in PCs /\ "conflict" \notin InTrack
          /\ "conflict" \notin InModule /\ "conflict" \notin InUnits
      BY DEF PCs, InTrack, InModule, InUnits
    <3> QED BY <2>1, <3>1, <1>1, <1>2, <1>4, JobGoes DEF Goto
  <2>2. CASE \E t \in Matching(Def) \cup {NoOwner} :
               /\ Matching(Def) # {} => t \in Matching(Def)
               /\ Matching(Def) = {} => t = NoOwner
               /\ job' = [[job EXCEPT !.pc = "settle track"] EXCEPT !.track = t]
    <3>1. PICK t \in Tracks \cup {NoOwner} :
            /\ t # NoOwner => t \in Matching(Def)
            /\ job' = [[job EXCEPT !.pc = "settle track"] EXCEPT !.track = t]
      BY <2>2, <1>5
    <3>2. job' \in JobRow
      BY <3>1, <1>2, JobFields DEF PCs
    <3>3. /\ job'.pc = "settle track" /\ job'.track = t
          /\ job'.corpus = job.corpus /\ job'.def = job.def
          /\ job'.unit = job.unit
      BY <3>1, <1>2 DEF JobRow
    <3>4. /\ job'.corpus \in Documents /\ Accepted(job'.corpus)
          /\ job'.def \in DOMAIN job'.corpus /\ job'.unit \in DOMAIN Units'
      BY <1>2, <3>3 DEF JobInv, Units, Def
    <3>5. job'.track # NoOwner =>
            Exists(tracks'[job'.track]) /\ <<"track", job'.track>> \in held'
      BY <3>1, <3>3, <1>5, <1>1 DEF Rows
    <3>6. "settle track" \notin InTrack /\ "settle track" \notin InModule
          /\ "settle track" \notin InUnits
      BY DEF InTrack, InModule, InUnits
    <3> QED BY <3>2, <3>3, <3>4, <3>5, <3>6 DEF JobInv, JobRow, Loading
  <2>3. Matching(Def) # {} => (CHOOSE t \in Matching(Def) : TRUE) \in Matching(Def)
    OBVIOUS
  <2> QED BY <1>1, <2>1, <2>2, <2>3 DEF Goto
<1>7. HeldInv'
  <2>1. held \subseteq held' /\ <<"state", 1>> \in held' /\ <<"account", Author>> \in held'
    BY <1>1, <1>2 DEF HeldInv
  <2>2. \A t \in Tracks : <<"track", t>> \in held' \ held => Exists(tracks'[t])
    BY <1>1, <1>5 DEF Rows
  <2>3. \A k : /\ <<"module", k>> \notin held' \ held
               /\ <<"item", k>> \notin held' \ held
    BY <1>1 DEF Rows
  <2> QED BY <2>1, <2>2, <2>3, <1>4, <1>6, HeldGrows
<1> QED BY <1>4, <1>6, <1>7, LoadStepKept

LEMMA BeginLoadKept ==
  ASSUME DeployInv, NEW corpus \in Documents, BeginLoad(corpus)
  PROVE  DeployInv' /\ UNCHANGED Committed
<1>1. /\ ~Loading /\ UNCHANGED vars /\ Accepted(corpus)
      /\ job' = [NoJob EXCEPT !.pc = "track", !.corpus = corpus]
      /\ held' = held \cup {<<"account", Author>>, <<"state", 1>>}
      /\ saved' = Committed
  BY DEF BeginLoad, Hold
<1>2. HeldInv /\ held = {}
  BY <1>1 DEF DeployInv, HeldInv
<1>3. KeepsSaved
  BY <1>1 DEF KeepsSaved
<1>4. CatalogInv' /\ RowsRemain /\ LoadWrites
  BY <1>1, <1>3, QuietLoadStep
<1>5. /\ job'.pc = "track" /\ job'.corpus = corpus /\ job'.def = 1 /\ job'.unit = 1
      /\ job' \in JobRow
  BY <1>1 DEF NoJob, JobRow, PCs
<1>6. 1 \in DOMAIN corpus /\ 1 \in DOMAIN corpus[1].units
  <2>1. DOMAIN corpus = DOMAIN Expected /\ Len(corpus[1].units) = Expected[1].units
    <3>1. DOMAIN corpus = DOMAIN Expected
      BY <1>1 DEF Accepted
    <3>2. 1 \in DOMAIN Expected
      BY DeploymentAssumption DEF IsSequence
    <3> QED BY <3>1, <3>2, <1>1 DEF Accepted
  <2>2. 1 \in DOMAIN Expected
    BY DeploymentAssumption DEF IsSequence
  <2>3. IsSequence(corpus[1].units) /\ Expected[1].units > 0
    BY <2>1, <2>2, DeploymentAssumption
  <2> QED BY <2>1, <2>2, <2>3 DEF IsSequence
<1>7. JobInv' /\ Loading'
  <2>1. "track" \notin InTrack /\ "track" \notin InModule /\ "track" \notin InUnits
    BY DEF InTrack, InModule, InUnits
  <2>2. job'.def \in DOMAIN job'.corpus /\ job'.unit \in DOMAIN Units'
    BY <1>5, <1>6 DEF Units, Def
  <2> QED BY <1>1, <1>5, <2>1, <2>2 DEF JobInv, JobRow, Loading
<1>8. HeldInv'
  <2>1. \A k : /\ <<"track", k>> \notin held' /\ <<"module", k>> \notin held'
               /\ <<"item", k>> \notin held'
    BY <1>1, <1>2
  <2> QED BY <1>1, <1>7, <2>1 DEF HeldInv
<1> QED BY <1>4, <1>7, <1>8, LoadStepKept

\* A refused command: the load gives up, wherever it is.
LEMMA JobConflicts ==
  ASSUME DeployInv, Loading, RowsRemain, held \subseteq held',
         job' = Goto("conflict")
  PROVE  JobInv' /\ Loading'
<1>1. /\ "conflict" \in PCs /\ "conflict" \notin InTrack
      /\ "conflict" \notin InModule /\ "conflict" \notin InUnits
  BY DEF PCs, InTrack, InModule, InUnits
<1> QED BY <1>1, JobGoes DEF Goto

\* The track is settled.
LEMMA JobTakesTrack ==
  ASSUME DeployInv, Loading, RowsRemain, held \subseteq held',
         NEW t \in Tracks, Exists(tracks'[t]), <<"track", t>> \in held',
         job' = [Goto("module") EXCEPT !.track = t]
  PROVE  JobInv' /\ Loading'
<1>1. JobInv /\ job \in JobRow
  BY DEF DeployInv, JobInv, JobRow
<1>2. job' \in JobRow
  BY <1>1, JobFields DEF Goto, PCs
<1>3. /\ job'.pc = "module" /\ job'.track = t
      /\ job'.corpus = job.corpus /\ job'.def = job.def /\ job'.unit = job.unit
  BY <1>1 DEF JobRow, Goto
<1>4. /\ job'.corpus \in Documents /\ Accepted(job'.corpus)
      /\ job'.def \in DOMAIN job'.corpus /\ job'.unit \in DOMAIN Units'
  BY <1>1, <1>3 DEF JobInv, Units, Def
<1>5. "module" \in InTrack /\ "module" \notin InModule /\ "module" \notin InUnits
  BY DEF InTrack, InModule, InUnits
<1> QED BY <1>2, <1>3, <1>4, <1>5 DEF JobInv, JobRow, Loading

\* The module is settled.
LEMMA JobTakesModule ==
  ASSUME DeployInv, job.pc = "module", RowsRemain, held \subseteq held',
         NEW m \in Modules, modules'[m].track = job.track,
         <<"module", m>> \in held',
         job' = [Goto("items") EXCEPT !.module = m]
  PROVE  JobInv' /\ Loading'
<1>1. JobInv /\ job \in JobRow /\ Loading
  BY DEF DeployInv, JobInv, JobRow, Loading
<1>2. job' \in JobRow
  BY <1>1, JobFields DEF Goto, PCs
<1>3. /\ job'.pc = "items" /\ job'.module = m /\ job'.track = job.track
      /\ job'.corpus = job.corpus /\ job'.def = job.def /\ job'.unit = job.unit
  BY <1>1 DEF JobRow, Goto
<1>4. /\ job'.corpus \in Documents /\ Accepted(job'.corpus)
      /\ job'.def \in DOMAIN job'.corpus /\ job'.unit \in DOMAIN Units'
  BY <1>1, <1>3 DEF JobInv, Units, Def
<1>5. "items" \in InModule /\ "items" \notin InUnits /\ job.pc \in InTrack
  BY DEF InTrack, InModule, InUnits
<1>6. /\ job'.track \in Tracks /\ Exists(tracks'[job'.track])
      /\ <<"track", job'.track>> \in held'
  BY <1>3, <1>5, PlaceStays
<1> QED BY <1>2, <1>3, <1>4, <1>5, <1>6 DEF JobInv, JobRow, Loading

LEMMA LoadingHolds ==
  ASSUME DeployInv, Loading, held \subseteq held'
  PROVE  <<"state", 1>> \in held' /\ <<"account", Author>> \in held'
  BY DEF DeployInv, HeldInv

\* Nothing more is locked.
LEMMA HeldStays ==
  ASSUME DeployInv, Loading, Loading', RowsRemain, held' = held
  PROVE  HeldInv'
<1>1. \A x : x \notin held' \ held
  OBVIOUS
<1> QED BY <1>1, HeldGrows, LoadingHolds

\* Only rows of the modules of the load's track are locked in addition.
LEMMA HeldModules ==
  ASSUME DeployInv, Loading, Loading', RowsRemain, held \subseteq held',
         job.pc \in InTrack,
         \A x \in held' \ held : \E m \in Modules :
           x = <<"module", m>> /\ modules'[m].track = job.track
  PROVE  HeldInv'
<1>1. \A k : <<"track", k>> \notin held' \ held /\ <<"item", k>> \notin held' \ held
  OBVIOUS
<1>2. job.track \in Tracks /\ <<"track", job.track>> \in held'
  BY PlaceStays
<1>3. \A m \in Modules : <<"module", m>> \in held' \ held =>
        modules'[m].track = job.track
  OBVIOUS
<1> QED BY <1>1, <1>2, <1>3, HeldGrows, LoadingHolds

LEMMA KeepTrackKept ==
  ASSUME DeployInv, KeepTrack
  PROVE  DeployInv' /\ UNCHANGED Committed
<1>1. /\ job.pc = "settle track" /\ job.track # NoOwner /\ UNCHANGED vars
      /\ held' = held /\ saved' = saved /\ job' = Goto("module")
  BY DEF KeepTrack, At
<1>2. Loading
  BY <1>1 DEF Loading
<1>3. CatalogInv' /\ RowsRemain /\ LoadWrites
  BY <1>1, <1>2, QuietLoadStep DEF KeepsSaved
<1>4. JobInv' /\ Loading'
  <2>1. "module" \in PCs /\ "module" \notin InModule /\ "module" \notin InUnits
    BY DEF PCs, InModule, InUnits
  <2> QED BY <1>1, <1>2, <1>3, <2>1, JobGoes DEF Goto
<1> QED BY <1>1, <1>2, <1>3, <1>4, HeldStays, LoadStepKept

LEMMA CreatedTrack ==
  ASSUME NEW c, CreateTrack(c)
  PROVE  /\ log'.actor = c.actor
         /\ log'.result = "SUCCESS" =>
              \E t \in Tracks \ UsedTracks : \E p :
                /\ tracks' = [tracks EXCEPT ![t] = NewTrack(c.title, p)]
                /\ log'.key = t
         /\ log'.result # "SUCCESS" => tracks' = tracks
<1> DEFINE position == Cardinality(UsedTracks) + 1
           result == CreateDecision(c.actor \in admins, TRUE, c,
                       Insertable(tracks, UsedTracks, c.title, position))
<1>1. \/ /\ result = "SUCCESS"
         /\ \E t \in Tracks \ UsedTracks :
              /\ tracks' = [tracks EXCEPT ![t] = NewTrack(c.title, position)]
              /\ Record(c, "CREATE", "TRACK", t, result, TRUE)
      \/ /\ result # "SUCCESS"
         /\ Record(c, "CREATE", "TRACK", NoOwner, result, FALSE)
         /\ tracks' = tracks
  BY DEF CreateTrack
<1> HIDE DEF position, result
<1>2. \A t, k : Record(c, "CREATE", "TRACK", t, result, k) =>
        /\ log'.actor = c.actor /\ log'.result = result
        /\ result = "SUCCESS" => log'.key = t
  BY DEF Record
<1>3. CASE result = "SUCCESS"
  <2>1. PICK t \in Tracks \ UsedTracks :
          /\ tracks' = [tracks EXCEPT ![t] = NewTrack(c.title, position)]
          /\ Record(c, "CREATE", "TRACK", t, result, TRUE)
    BY <1>1, <1>3
  <2>2. log'.actor = c.actor /\ log'.result = "SUCCESS" /\ log'.key = t
    BY <2>1, <1>2, <1>3
  <2> QED BY <2>1, <2>2
<1>4. CASE result # "SUCCESS"
  <2>1. Record(c, "CREATE", "TRACK", NoOwner, result, FALSE) /\ tracks' = tracks
    BY <1>1, <1>4
  <2>2. log'.actor = c.actor /\ log'.result = result
    BY <2>1, <1>2
  <2> QED BY <2>1, <2>2, <1>4
<1> QED BY <1>3, <1>4

LEMMA CreateMissingTrackKept ==
  ASSUME DeployInv, CreateMissingTrack
  PROVE  DeployInv' /\ UNCHANGED Committed
<1> DEFINE c == [op |-> "create_track", actor |-> Author, title |-> Def.text,
                 ok |-> TRUE]
<1>1. /\ job.pc = "settle track" /\ CreateTrack(c)
      /\ held' = held \cup New("track", tracks, tracks') /\ saved' = Committed
      /\ Require([Goto("module") EXCEPT !.track = log'.key])
  BY DEF CreateMissingTrack, At, Hold
<1>2. Loading /\ JobInv /\ CatalogInv /\ TypeOK
  BY <1>1, CatalogInvRules DEF Loading, DeployInv
<1>3. c \in Command
  BY <1>2, DefinitionFields, DeploymentAssumption DEF Command, CreateTrackCmd
<1>4. CatalogInv' /\ RowsRemain
  BY <1>1, <1>2, <1>3, CatalogInvKept, CatalogRowsRemain DEF Execute
<1>5. UNCHANGED <<admins, modules, items, trackVersions, moduleVersions,
                  contentVersions>>
  BY <1>1 DEF CreateTrack
<1>11. /\ log'.actor = Author
       /\ log'.result = "SUCCESS" =>
            \E t \in Tracks \ UsedTracks : \E p :
              /\ tracks' = [tracks EXCEPT ![t] = NewTrack(Def.text, p)]
              /\ log'.key = t
       /\ log'.result # "SUCCESS" => tracks' = tracks
  <2>1. c.actor = Author /\ c.title = Def.text
    OBVIOUS
  <2>2. CreateTrack(c)
    BY <1>1
  <2> HIDE DEF c
  <2> QED BY <2>1, <2>2, CreatedTrack
<1>6. DOMAIN tracks = Tracks
  BY <1>2 DEF TypeOK
<1>7. LoadWrites
  <2>1. OnlyHeldChange
    BY <1>1, <1>5, <1>6 DEF OnlyHeldChange, New
  <2>2. log'.actor = Author
    BY <1>11
  <2> QED BY <1>1, <1>5, <2>1, <2>2 DEF LoadWrites, KeepsSaved
<1>8. ASSUME NEW t \in Tracks, tracks'[t] # tracks[t]
      PROVE  Exists(tracks'[t])
  <2>1. \A k \in Tracks : \A x, p : Exists([tracks EXCEPT ![k] = NewTrack(x, p)][k])
    BY <1>6 DEF Exists, NewTrack
  <2> HIDE DEF c
  <2>2. PICK k, x, p :
          k \in Tracks /\ tracks' = [tracks EXCEPT ![k] = NewTrack(x, p)]
    BY <1>11, <1>8
  <2>3. t = k
    BY <2>2, <1>8, <1>6
  <2> QED BY <2>1, <2>2, <2>3
<1>9. JobInv' /\ Loading'
  <2>1. CASE log'.result = "SUCCESS"
    <3>1. \E t \in Tracks \ UsedTracks : \E p :
            /\ tracks' = [tracks EXCEPT ![t] = NewTrack(Def.text, p)]
            /\ log'.key = t
      BY <1>11, <2>1
    <3>2. PICK t \in Tracks : /\ tracks'[t] # tracks[t] /\ log'.key = t
      BY <3>1, <1>6 DEF UsedTracks, Exists, NewTrack
    <3>3. Exists(tracks'[t]) /\ <<"track", t>> \in held'
      BY <3>2, <1>8, <1>1, <1>6 DEF New
    <3>4. job' = [Goto("module") EXCEPT !.track = t]
      BY <3>2, <1>1, <2>1 DEF Require
    <3> QED BY <3>3, <3>4, <1>1, <1>2, <1>4, JobTakesTrack
  <2>2. CASE log'.result # "SUCCESS"
    BY <2>2, <1>1, <1>2, <1>4, JobConflicts DEF Require
  <2> QED BY <2>1, <2>2
<1>10. HeldInv'
  <2>1. \A k : <<"module", k>> \notin held' \ held /\ <<"item", k>> \notin held' \ held
    BY <1>1 DEF New
  <2>2. \A t \in Tracks : <<"track", t>> \in held' \ held => Exists(tracks'[t])
    BY <1>1, <1>8 DEF New
  <2> QED BY <2>1, <2>2, <1>1, <1>2, <1>4, <1>9, HeldGrows, LoadingHolds
<1> QED BY <1>4, <1>7, <1>9, <1>10, LoadStepKept

LEMMA RestoreTrackKept ==
  ASSUME DeployInv, RestoreTrack
  PROVE  DeployInv' /\ UNCHANGED Committed
<1> DEFINE c == [op |-> "edit_track", actor |-> Author, track |-> job.track,
                 rev |-> tracks[job.track].revision, title |-> Def.text,
                 ok |-> TRUE, pub |-> TRUE]
<1>1. /\ job.pc = "settle track" /\ job.track # NoOwner /\ EditTrack(c)
      /\ held' = held /\ saved' = saved
      /\ Require(Goto("module"))
  BY DEF RestoreTrack, At
<1>2. Loading /\ JobInv /\ CatalogInv /\ TypeOK
  BY <1>1, CatalogInvRules DEF Loading, DeployInv
<1>3. job.track \in Tracks /\ <<"track", job.track>> \in held
  BY <1>1, <1>2 DEF JobInv
<1>4. c \in Command
  <2>1. tracks[job.track].revision \in Int
    BY <1>2, <1>3 DEF TypeOK, TrackRow
  <2> QED BY <2>1, <1>2, <1>3, DefinitionFields, DeploymentAssumption
          DEF Command, EditTrackCmd
<1>5. CatalogInv' /\ RowsRemain
  BY <1>1, <1>2, <1>4, CatalogInvKept, CatalogRowsRemain DEF Execute
<1>6. LoadWrites
  <2>1. /\ UNCHANGED <<admins, modules, items, moduleVersions, contentVersions>>
        /\ \E row : tracks' = [tracks EXCEPT ![job.track] = row]
        /\ \E a, b : trackVersions' = trackVersions \cup
                       Snapshot(job.track, a, b, Def.text)
        /\ log'.actor = Author
    BY <1>1 DEF EditTrack, Record
  <2>2. /\ \A t \in Tracks : tracks'[t] # tracks[t] => t = job.track
        /\ \A v : (v \in trackVersions) # (v \in trackVersions') => v.of = job.track
    BY <2>1 DEF Snapshot
  <2>3. OnlyHeldChange
    BY <1>1, <1>3, <2>1, <2>2 DEF OnlyHeldChange
  <2> QED BY <1>1, <1>2, <2>1, <2>3 DEF LoadWrites, KeepsSaved
<1>7. JobInv' /\ Loading'
  <2>1. "module" \in PCs /\ "module" \notin InModule /\ "module" \notin InUnits
    BY DEF PCs, InModule, InUnits
  <2>2. CASE log'.result = "SUCCESS"
    BY <2>1, <2>2, <1>1, <1>2, <1>5, JobGoes DEF Require, Goto
  <2>3. CASE log'.result # "SUCCESS"
    BY <2>3, <1>1, <1>2, <1>5, JobConflicts DEF Require
  <2> QED BY <2>2, <2>3
<1> QED BY <1>1, <1>2, <1>5, <1>6, <1>7, HeldStays, LoadStepKept

\* Edits and changes of status write one row, which exists on success.
LEMMA EditedModule ==
  ASSUME NEW c, EditModule(c)
  PROVE  /\ UNCHANGED <<admins, tracks, items, trackVersions, contentVersions>>
         /\ \E row : modules' = [modules EXCEPT ![c.module] = row]
         /\ \E a, b : moduleVersions' = moduleVersions \cup
                        Snapshot(c.module, a, b, c.title)
         /\ log'.actor = c.actor
  BY DEF EditModule, Record

LEMMA ChangedModule ==
  ASSUME NEW c, ChangeModuleStatus(c)
  PROVE  /\ UNCHANGED <<admins, tracks, items, trackVersions, contentVersions>>
         /\ \E row : modules' = [modules EXCEPT ![c.module] = row]
         /\ \E a, b, x : moduleVersions' = moduleVersions \cup
                           Snapshot(c.module, a, b, x)
         /\ log'.actor = c.actor
  BY DEF ChangeModuleStatus, Record

\* Locking the modules of the load's track.
LEMMA HoldsModules ==
  ASSUME DeployInv, Loading, Loading', RowsRemain, job.pc \in InTrack,
         HoldModules({})
  PROVE  /\ held \subseteq held' /\ KeepsSaved /\ HeldInv'
         /\ \A m \in Modules : modules[m].track = job.track =>
              <<"module", m>> \in held'
<1>1. held' = held \cup Rows("module", ModulesOf(job.track)) /\ saved' = Committed
  BY DEF HoldModules, Hold
<1>2. CatalogInv /\ job.track \in Tracks
  BY PlaceStays, <1>1 DEF DeployInv
<1>3. \A x \in held' \ held : \E m \in Modules :
        x = <<"module", m>> /\ modules'[m].track = job.track
  BY <1>1, <1>2, PlacedExist DEF Rows, ModulesOf, RowsRemain
<1>4. HeldInv'
  BY <1>1, <1>3, HeldModules
<1> QED BY <1>1, <1>4 DEF KeepsSaved, Rows, ModulesOf

\* A command on one module of the load's track.
LEMMA ModuleWriteHidden ==
  ASSUME NEW m \in Modules, <<"module", m>> \in held', KeepsSaved,
         UNCHANGED <<admins, tracks, items, trackVersions, contentVersions>>,
         \E row : modules' = [modules EXCEPT ![m] = row],
         \E a, b, x : moduleVersions' = moduleVersions \cup Snapshot(m, a, b, x),
         log'.actor = Author
  PROVE  LoadWrites
<1>1. /\ \A k \in Modules : modules'[k] # modules[k] => k = m
      /\ \A v : (v \in moduleVersions) # (v \in moduleVersions') => v.of = m
  BY DEF Snapshot
<1> QED BY <1>1 DEF LoadWrites, OnlyHeldChange

LEMMA RestoreModuleKept ==
  ASSUME DeployInv, RestoreModule
  PROVE  DeployInv' /\ UNCHANGED Committed
<1>1. PICK m \in NamedModules :
        /\ EditModule([op |-> "edit_module", actor |-> Author,
                       track |-> job.track, module |-> m,
                       rev |-> modules[m].revision, title |-> Def.module,
                       ok |-> TRUE, pub |-> TRUE])
        /\ HoldModules({})
        /\ Require([Goto("items") EXCEPT !.module = m])
  BY DEF RestoreModule
<1> DEFINE c == [op |-> "edit_module", actor |-> Author,
                 track |-> job.track, module |-> m,
                 rev |-> modules[m].revision, title |-> Def.module,
                 ok |-> TRUE, pub |-> TRUE]
<1>2. job.pc = "module"
  BY DEF RestoreModule, At
<1>3. Loading /\ JobInv /\ CatalogInv /\ TypeOK /\ job.pc \in InTrack
  BY <1>2, CatalogInvRules DEF Loading, DeployInv, InTrack
<1>4. job.track \in Tracks
  BY <1>3 DEF JobInv
<1>5. m \in Modules /\ modules[m].track = job.track
  BY <1>1 DEF NamedModules, Named, ModulesOf
<1>6. c \in Command
  <2>1. modules[m].revision \in Int
    BY <1>3, <1>5 DEF TypeOK, ModuleRow
  <2> QED BY <2>1, <1>3, <1>4, <1>5, DefinitionFields, DeploymentAssumption
          DEF Command, EditModuleCmd
<1>7. CatalogInv' /\ RowsRemain
  <2>1. Execute(c)
    BY <1>1 DEF Execute
  <2> QED BY <2>1, <1>3, <1>6, CatalogInvKept, CatalogRowsRemain
<1>8. /\ UNCHANGED <<admins, tracks, items, trackVersions, contentVersions>>
      /\ \E row : modules' = [modules EXCEPT ![m] = row]
      /\ \E a, b, x : moduleVersions' = moduleVersions \cup Snapshot(m, a, b, x)
      /\ log'.actor = Author
  <2>1. c.actor = Author /\ c.module = m /\ EditModule(c)
    BY <1>1
  <2> HIDE DEF c
  <2> QED BY <2>1, EditedModule
<1>9. held \subseteq held'
  BY <1>1 DEF HoldModules, Hold
<1>10. modules'[m].track = job.track
  BY <1>3, <1>4, <1>5, <1>7, PlacedExist DEF RowsRemain
<1>11. <<"module", m>> \in held'
  BY <1>1, <1>5 DEF HoldModules, Hold, Rows, ModulesOf
<1>12. JobInv' /\ Loading'
  <2>1. CASE log'.result = "SUCCESS"
    <3>1. job' = [Goto("items") EXCEPT !.module = m]
      BY <2>1, <1>1 DEF Require
    <3> QED BY <3>1, <1>2, <1>5, <1>7, <1>9, <1>10, <1>11, JobTakesModule
  <2>2. CASE log'.result # "SUCCESS"
    BY <2>2, <1>1, <1>3, <1>7, <1>9, JobConflicts DEF Require
  <2> QED BY <2>1, <2>2
<1>13. KeepsSaved /\ HeldInv'
  BY <1>1, <1>3, <1>7, <1>12, HoldsModules
<1>14. LoadWrites
  BY <1>5, <1>8, <1>11, <1>13, ModuleWriteHidden
<1> QED BY <1>7, <1>12, <1>13, <1>14, LoadStepKept

LEMMA KeepModuleKept ==
  ASSUME DeployInv, KeepModule
  PROVE  DeployInv' /\ UNCHANGED Committed
<1>1. PICK m \in NamedModules :
        /\ job' = [Goto("items") EXCEPT !.module = m]
        /\ Hold({<<"module", m>>})
  BY DEF KeepModule
<1>2. job.pc = "module" /\ UNCHANGED vars
  BY DEF KeepModule, At
<1>3. Loading /\ JobInv /\ CatalogInv /\ job.pc \in InTrack
  BY <1>2 DEF Loading, DeployInv, InTrack
<1>4. /\ held' = held \cup {<<"module", m>>} /\ saved' = Committed
      /\ m \in Modules /\ modules[m].track = job.track
  BY <1>1 DEF Hold, NamedModules, Named, ModulesOf
<1>5. CatalogInv' /\ RowsRemain /\ LoadWrites
  BY <1>2, <1>4, QuietLoadStep DEF KeepsSaved
<1>6. modules'[m].track = job.track
  BY <1>2, <1>4 DEF vars
<1>7. JobInv' /\ Loading'
  BY <1>1, <1>2, <1>4, <1>5, <1>6, JobTakesModule
<1>8. HeldInv'
  BY <1>3, <1>4, <1>5, <1>6, <1>7, HeldModules
<1> QED BY <1>5, <1>7, <1>8, LoadStepKept

LEMMA ValidateItemsKept ==
  ASSUME DeployInv, ValidateItems
  PROVE  DeployInv' /\ UNCHANGED Committed
<1>1. /\ job.pc = "items" /\ UNCHANGED vars
      /\ held' = held \cup Rows("item", ItemsOf(job.module)) /\ saved' = Committed
      /\ job' = Goto(IF OnlyManaged(job.module, Units) THEN "unit" ELSE "conflict")
  BY DEF ValidateItems, At, Hold
<1>2. Loading /\ job.pc \in InTrack /\ job.pc \in InModule
  BY <1>1 DEF Loading, InTrack, InModule
<1>3. CatalogInv' /\ RowsRemain /\ LoadWrites
  BY <1>1, QuietLoadStep DEF KeepsSaved
<1>4. job.module \in Modules /\ <<"module", job.module>> \in held'
  BY <1>1, <1>2, <1>3, PlaceStays
<1>5. JobInv' /\ Loading'
  <2>1. CASE job' = Goto("conflict")
    BY <2>1, <1>1, <1>2, <1>3, JobConflicts
  <2>2. CASE job' = Goto("unit")
    <3>1. \A i \in Items : items'[i].module = job.module => <<"item", i>> \in held'
      BY <1>1 DEF Rows, ItemsOf, vars
    <3>2. "unit" \in PCs
      BY DEF PCs
    <3> QED BY <2>2, <3>1, <3>2, <1>1, <1>2, <1>3, JobGoes DEF Goto
  <2> QED BY <2>1, <2>2, <1>1
<1>6. HeldInv'
  <2>1. \A k : <<"track", k>> \notin held' \ held /\ <<"module", k>> \notin held' \ held
    BY <1>1 DEF Rows
  <2>2. \A i \in Items : <<"item", i>> \in held' \ held => items'[i].module = job.module
    BY <1>1 DEF Rows, ItemsOf, vars
  <2> QED BY <2>1, <2>2, <1>1, <1>2, <1>3, <1>4, <1>5, HeldGrows, LoadingHolds
<1> QED BY <1>3, <1>5, <1>6, LoadStepKept

LEMMA ActivateModuleKept ==
  ASSUME DeployInv, ActivateModule
  PROVE  DeployInv' /\ UNCHANGED Committed
<1> DEFINE m == job.module
           c == [op |-> "change_module_status", actor |-> Author,
                 track |-> job.track, module |-> m,
                 rev |-> modules[m].revision,
                 target |-> "ACTIVE", pub |-> TRUE]
<1>1. /\ job.pc = "activate module" /\ ChangeModuleStatus(c)
      /\ HoldModules({}) /\ Require(Goto("activate track"))
  BY DEF ActivateModule, At
<1>2. /\ Loading /\ JobInv /\ CatalogInv /\ TypeOK /\ job.pc \in InTrack
      /\ job.pc \in InModule /\ job.pc \in InUnits
  BY <1>1, CatalogInvRules DEF Loading, DeployInv, InTrack, InModule, InUnits
<1>3. job.track \in Tracks /\ m \in Modules /\ modules[m].track = job.track
  BY <1>2 DEF JobInv
<1>4. c \in Command
  <2>1. modules[m].revision \in Int
    BY <1>2, <1>3 DEF TypeOK, ModuleRow
  <2> QED BY <2>1, <1>3, DeploymentAssumption DEF Command, ModuleStatusCmd, Status
<1>5. CatalogInv' /\ RowsRemain
  <2>1. Execute(c)
    BY <1>1 DEF Execute
  <2> QED BY <2>1, <1>2, <1>4, CatalogInvKept, CatalogRowsRemain
<1>6. /\ UNCHANGED <<admins, tracks, items, trackVersions, contentVersions>>
      /\ \E row : modules' = [modules EXCEPT ![m] = row]
      /\ \E a, b, x : moduleVersions' = moduleVersions \cup Snapshot(m, a, b, x)
      /\ log'.actor = Author
  <2>1. c.actor = Author /\ c.module = m /\ ChangeModuleStatus(c)
    BY <1>1
  <2> HIDE DEF c
  <2> QED BY <2>1, ChangedModule
<1>7. held \subseteq held' /\ <<"module", m>> \in held'
  BY <1>1, <1>3 DEF HoldModules, Hold, Rows, ModulesOf
<1>8. JobInv' /\ Loading'
  <2>1. CASE log'.result = "SUCCESS"
    <3>1. job' = Goto("activate track")
      BY <2>1, <1>1 DEF Require
    <3>2. \A i \in Items : items'[i].module = m => <<"item", i>> \in held'
      BY <1>2, <1>6, <1>7 DEF JobInv
    <3>3. "activate track" \in PCs
      BY DEF PCs
    <3> QED BY <3>1, <3>2, <3>3, <1>2, <1>5, <1>7, JobGoes DEF Goto
  <2>2. CASE log'.result # "SUCCESS"
    BY <2>2, <1>1, <1>2, <1>5, <1>7, JobConflicts DEF Require
  <2> QED BY <2>1, <2>2
<1>9. KeepsSaved /\ HeldInv'
  BY <1>1, <1>2, <1>5, <1>8, HoldsModules
<1>10. LoadWrites
  <2> HIDE DEF m
  <2> QED BY <1>3, <1>6, <1>7, <1>9, ModuleWriteHidden
<1> QED BY <1>5, <1>8, <1>9, <1>10, LoadStepKept

LEMMA KeepModuleActiveKept ==
  ASSUME DeployInv, KeepModuleActive
  PROVE  DeployInv' /\ UNCHANGED Committed
<1>1. /\ job.pc = "activate module" /\ UNCHANGED vars
      /\ held' = held /\ saved' = saved /\ job' = Goto("activate track")
  BY DEF KeepModuleActive, At
<1>2. Loading /\ job.pc \in InTrack /\ job.pc \in InModule /\ job.pc \in InUnits
  BY <1>1 DEF Loading, InTrack, InModule, InUnits
<1>3. CatalogInv' /\ RowsRemain /\ LoadWrites
  BY <1>1, <1>2, QuietLoadStep DEF KeepsSaved
<1>4. JobInv' /\ Loading'
  <2>1. "activate track" \in PCs
    BY DEF PCs
  <2>2. \A i \in Items : items'[i].module = job.module => <<"item", i>> \in held'
    BY <1>1, <1>2 DEF DeployInv, JobInv, vars
  <2> QED BY <1>1, <1>2, <1>3, <2>1, <2>2, JobGoes DEF Goto
<1> QED BY <1>1, <1>2, <1>3, <1>4, HeldStays, LoadStepKept

LEMMA CreatedModule ==
  ASSUME NEW c, CreateModule(c)
  PROVE  /\ UNCHANGED <<admins, items, trackVersions, moduleVersions,
                        contentVersions>>
         /\ log'.actor = c.actor
         /\ log'.result = "SUCCESS" =>
              /\ \E m \in Modules : \E p :
                   /\ ~Exists(modules[m]) /\ log'.key = m
                   /\ modules' = [modules EXCEPT ![m] = NewModule(c.track, c.title, p)]
              /\ \E n : tracks' = [tracks EXCEPT ![c.track].moduleOrder = n]
         /\ log'.result # "SUCCESS" => modules' = modules /\ tracks' = tracks
<1> DEFINE siblings == ModulesOf(c.track)
           position == Cardinality(siblings) + 1
           result == CreateDecision(c.actor \in admins, Exists(tracks[c.track]), c,
                       Insertable(modules, siblings, c.title, position))
<1>1. /\ \/ /\ result = "SUCCESS"
            /\ \E m \in {k \in Modules : ~Exists(modules[k])} :
                 /\ modules' = [modules EXCEPT
                                  ![m] = NewModule(c.track, c.title, position)]
                 /\ Record(c, "CREATE", "MODULE", m, result, TRUE)
            /\ tracks' = [tracks EXCEPT ![c.track].moduleOrder = @ + 1]
         \/ /\ result # "SUCCESS"
            /\ Record(c, "CREATE", "MODULE", NoOwner, result, FALSE)
            /\ UNCHANGED <<tracks, modules>>
      /\ UNCHANGED <<admins, items, trackVersions, moduleVersions,
                     contentVersions>>
  BY DEF CreateModule
<1> HIDE DEF position, result
<1>2. \A t, k : Record(c, "CREATE", "MODULE", t, result, k) =>
        /\ log'.actor = c.actor /\ log'.result = result
        /\ result = "SUCCESS" => log'.key = t
  BY DEF Record
<1>3. CASE result = "SUCCESS"
  <2>1. PICK m \in {k \in Modules : ~Exists(modules[k])} :
          /\ modules' = [modules EXCEPT ![m] = NewModule(c.track, c.title, position)]
          /\ Record(c, "CREATE", "MODULE", m, result, TRUE)
    BY <1>1, <1>3
  <2>2. log'.actor = c.actor /\ log'.result = "SUCCESS" /\ log'.key = m
    BY <2>1, <1>2, <1>3
  <2>3. \E n : tracks' = [tracks EXCEPT ![c.track].moduleOrder = n]
    BY <1>1, <1>3
  <2> QED BY <2>1, <2>2, <2>3, <1>1
<1>4. CASE result # "SUCCESS"
  <2>1. /\ Record(c, "CREATE", "MODULE", NoOwner, result, FALSE)
        /\ tracks' = tracks /\ modules' = modules
    BY <1>1, <1>4
  <2>2. log'.actor = c.actor /\ log'.result = result
    BY <2>1, <1>2
  <2> QED BY <2>1, <2>2, <1>1, <1>4
<1> QED BY <1>3, <1>4

LEMMA CreateMissingModuleKept ==
  ASSUME DeployInv, CreateMissingModule
  PROVE  DeployInv' /\ UNCHANGED Committed
<1> DEFINE c == [op |-> "create_module", actor |-> Author,
                 track |-> job.track, title |-> Def.module, ok |-> TRUE]
<1>1. /\ job.pc = "module" /\ CreateModule(c)
      /\ held' = held \cup (Rows("module", ModulesOf(job.track))
                              \cup New("module", modules, modules'))
      /\ saved' = Committed
      /\ Require([Goto("items") EXCEPT !.module = log'.key])
  BY DEF CreateMissingModule, At, HoldModules, Hold
<1>2. Loading /\ JobInv /\ CatalogInv /\ TypeOK /\ job.pc \in InTrack
  BY <1>1, CatalogInvRules DEF Loading, DeployInv, InTrack
<1>3. /\ job.track \in Tracks /\ <<"track", job.track>> \in held
      /\ DOMAIN modules = Modules /\ DOMAIN tracks = Tracks
  BY <1>2, TableDomains DEF JobInv
<1>4. c \in Command
  BY <1>2, <1>3, DefinitionFields, DeploymentAssumption DEF Command, CreateModuleCmd
<1>5. CatalogInv' /\ RowsRemain
  <2>1. Execute(c)
    BY <1>1 DEF Execute
  <2> QED BY <2>1, <1>2, <1>4, CatalogInvKept, CatalogRowsRemain
<1>6. /\ UNCHANGED <<admins, items, trackVersions, moduleVersions,
                     contentVersions>>
      /\ log'.actor = Author
      /\ log'.result = "SUCCESS" =>
           /\ \E m \in Modules : \E p :
                /\ ~Exists(modules[m]) /\ log'.key = m
                /\ modules' = [modules EXCEPT ![m] =
                                 NewModule(job.track, Def.module, p)]
           /\ \E n : tracks' = [tracks EXCEPT ![job.track].moduleOrder = n]
      /\ log'.result # "SUCCESS" => modules' = modules /\ tracks' = tracks
  <2>1. /\ c.actor = Author /\ c.track = job.track /\ c.title = Def.module
        /\ CreateModule(c)
    BY <1>1
  <2> HIDE DEF c
  <2>2. /\ UNCHANGED <<admins, items, trackVersions, moduleVersions,
                       contentVersions>>
        /\ log'.actor = c.actor
        /\ log'.result # "SUCCESS" => modules' = modules /\ tracks' = tracks
    BY <2>1, CreatedModule
  <2>3. ASSUME log'.result = "SUCCESS"
        PROVE  /\ \E k \in Modules : \E p :
                    /\ ~Exists(modules[k]) /\ log'.key = k
                    /\ modules' = [modules EXCEPT ![k] = NewModule(c.track, c.title, p)]
               /\ \E n : tracks' = [tracks EXCEPT ![c.track].moduleOrder = n]
    BY <2>1, <2>3, CreatedModule
  <2> QED BY <2>1, <2>2, <2>3
<1>7. \A t \in Tracks : tracks'[t] # tracks[t] => t = job.track
  <2>1. CASE log'.result = "SUCCESS"
    <3>1. PICK n : tracks' = [tracks EXCEPT ![job.track].moduleOrder = n]
      BY <2>1, <1>6
    <3> QED BY <3>1
  <2>2. CASE log'.result # "SUCCESS"
    BY <2>2, <1>6
  <2> QED BY <2>1, <2>2
<1>8. LoadWrites
  <2>1. \A m \in Modules : modules'[m] # modules[m] => <<"module", m>> \in held'
    BY <1>1, <1>3 DEF New
  <2>2. \A t \in Tracks : tracks'[t] # tracks[t] => <<"track", t>> \in held'
    BY <1>1, <1>3, <1>7
  <2>3. OnlyHeldChange
    BY <1>6, <2>1, <2>2 DEF OnlyHeldChange
  <2> QED BY <1>1, <1>6, <2>3 DEF LoadWrites, KeepsSaved
<1>9. /\ log'.result = "SUCCESS" => log'.key \in Modules
      /\ \A m \in Modules : modules'[m] # modules[m] =>
           modules'[m].track = job.track
      /\ log'.result = "SUCCESS" => modules'[log'.key] # modules[log'.key]
  <2>1. CASE log'.result = "SUCCESS"
    <3>1. PICK k, p :
            /\ k \in Modules
            /\ ~Exists(modules[k]) /\ log'.key = k
            /\ modules' = [modules EXCEPT ![k] = NewModule(job.track, Def.module, p)]
      BY <1>6, <2>1
    <3>2. /\ modules'[k] = NewModule(job.track, Def.module, p)
          /\ \A m \in Modules \ {k} : modules'[m] = modules[m]
      BY <3>1, <1>3
    <3>3. Exists(modules'[k]) /\ modules'[k].track = job.track
      BY <3>2 DEF Exists, NewModule
    <3> QED BY <3>1, <3>2, <3>3
  <2>2. CASE log'.result # "SUCCESS"
    BY <1>6, <2>2
  <2> QED BY <2>1, <2>2
<1>10. held \subseteq held'
  BY <1>1
<1>11. JobInv' /\ Loading'
  <2>1. CASE log'.result = "SUCCESS"
    <3>1. PICK k \in Modules : log'.key = k /\ modules'[k] # modules[k]
      BY <1>9, <2>1
    <3>2. modules'[k].track = job.track /\ <<"module", k>> \in held'
      BY <1>9, <3>1, <1>1, <1>3 DEF New
    <3>3. job' = [Goto("items") EXCEPT !.module = k]
      BY <2>1, <3>1, <1>1 DEF Require
    <3> QED BY <3>2, <3>3, <1>1, <1>5, <1>10, JobTakesModule
  <2>2. CASE log'.result # "SUCCESS"
    BY <2>2, <1>1, <1>2, <1>5, <1>10, JobConflicts DEF Require
  <2> QED BY <2>1, <2>2
<1>12. HeldInv'
  <2>1. \A x \in held' \ held : \E m \in Modules :
          x = <<"module", m>> /\ modules'[m].track = job.track
    <3>1. \A m \in Modules : modules[m].track = job.track =>
            modules'[m].track = job.track
      BY <1>2, <1>3, <1>5, PlacedExist DEF RowsRemain
    <3> QED BY <1>1, <1>3, <1>9, <3>1 DEF Rows, New, ModulesOf
  <2> QED BY <2>1, <1>2, <1>5, <1>10, <1>11, HeldModules
<1> QED BY <1>5, <1>8, <1>11, <1>12, LoadStepKept

\* The load goes on with the next unit, or with the module.
LEMMA JobNextUnit ==
  ASSUME DeployInv, job.pc = "unit", RowsRemain, held \subseteq held',
         job' = NextUnit,
         \A i \in Items : items'[i].module = job.module => <<"item", i>> \in held'
  PROVE  JobInv' /\ Loading'
<1>1. JobInv /\ job \in JobRow /\ Loading
  BY DEF DeployInv, JobInv, JobRow, Loading
<1>2. CASE job.unit < Len(Units)
  <2>1. job' = [job EXCEPT !.unit = job.unit + 1]
    BY <1>2 DEF NextUnit
  <2>2. job.unit + 1 \in DOMAIN Units
    BY <1>1, <1>2, DefinitionFields
  <2>3. job' \in JobRow
    BY <1>1, <2>1 DEF JobRow
  <2>4. /\ job'.pc = "unit" /\ job'.track = job.track /\ job'.module = job.module
        /\ job'.corpus = job.corpus /\ job'.def = job.def
        /\ job'.unit = job.unit + 1
    BY <1>1, <2>1 DEF JobRow
  <2>5. /\ job'.corpus \in Documents /\ Accepted(job'.corpus)
        /\ job'.def \in DOMAIN job'.corpus /\ job'.unit \in DOMAIN Units'
    BY <1>1, <2>2, <2>4 DEF JobInv, Units, Def
  <2>6. job.pc \in InTrack /\ job.pc \in InModule
    BY DEF InTrack, InModule
  <2>7. /\ job'.track \in Tracks /\ Exists(tracks'[job'.track])
        /\ <<"track", job'.track>> \in held'
        /\ job'.module \in Modules /\ modules'[job'.module].track = job'.track
        /\ <<"module", job'.module>> \in held'
    BY <2>4, <2>6, PlaceStays
  <2> QED BY <2>3, <2>4, <2>5, <2>7 DEF JobInv, JobRow, Loading
<1>3. CASE ~(job.unit < Len(Units))
  <2>1. job' = [job EXCEPT !.pc = "activate module"]
    BY <1>3 DEF NextUnit, Goto
  <2>2. "activate module" \in PCs /\ job.pc \in InTrack /\ job.pc \in InModule
    BY DEF PCs, InTrack, InModule
  <2> QED BY <2>1, <2>2, <1>1, JobGoes
<1> QED BY <1>2, <1>3

\* The load goes on with the next definition, or commits.
LEMMA JobNextDefinition ==
  ASSUME DeployInv, Loading, job' = NextDefinition
  PROVE  JobInv' /\ Loading'
<1>1. JobInv /\ job \in JobRow
  BY DEF DeployInv, JobInv, JobRow
<1>2. CASE job.def < Len(job.corpus)
  <2>1. job' = [NoJob EXCEPT !.pc = "track", !.corpus = job.corpus,
                             !.def = job.def + 1]
    BY <1>2 DEF NextDefinition
  <2>2. /\ job'.pc = "track" /\ job'.corpus = job.corpus
        /\ job'.def = job.def + 1 /\ job'.unit = 1 /\ job' \in JobRow
    <3>1. PICK n \in Nat : n = job.def + 1
      BY <1>1 DEF JobRow
    <3>2. job' = [NoJob EXCEPT !.pc = "track", !.corpus = job.corpus, !.def = n]
      BY <2>1, <3>1
    <3>3. job.corpus \in Documents \cup {<<>>}
      BY <1>1 DEF JobRow
    <3>4. job' = [pc |-> "track", corpus |-> job.corpus, def |-> n, unit |-> 1,
                  track |-> NoOwner, module |-> NoOwner, outcome |-> "NONE"]
      BY <3>2 DEF NoJob
    <3> QED BY <3>1, <3>3, <3>4 DEF JobRow, PCs
  <2>3. /\ job.corpus \in Documents /\ Accepted(job.corpus)
        /\ job.def + 1 \in DOMAIN job.corpus
    <3>1. job.corpus \in Documents /\ Accepted(job.corpus)
      BY <1>1 DEF JobInv
    <3>2. job.def + 1 \in DOMAIN job.corpus
      BY <1>1, <1>2, DefinitionFields
    <3> QED BY <3>1, <3>2
  <2>4. 1 \in DOMAIN job.corpus[job.def + 1].units
    <3>1. /\ job.def + 1 \in DOMAIN Expected
          /\ Len(job.corpus[job.def + 1].units) = Expected[job.def + 1].units
      BY <2>3 DEF Accepted
    <3>2. /\ IsSequence(job.corpus[job.def + 1].units)
          /\ Expected[job.def + 1].units > 0
      BY <3>1, <2>3, DeploymentAssumption
    <3> QED BY <3>1, <3>2 DEF IsSequence
  <2>5. job'.def \in DOMAIN job'.corpus /\ job'.unit \in DOMAIN Units'
    BY <2>2, <2>3, <2>4 DEF Units, Def
  <2>6. "track" \notin InTrack /\ "track" \notin InModule /\ "track" \notin InUnits
    BY DEF InTrack, InModule, InUnits
  <2> QED BY <2>2, <2>3, <2>5, <2>6 DEF JobInv, JobRow, Loading
<1>3. CASE ~(job.def < Len(job.corpus))
  <2>1. job' = [job EXCEPT !.pc = "commit"]
    BY <1>3 DEF NextDefinition, Goto
  <2>2. /\ job'.pc = "commit" /\ job'.corpus = job.corpus /\ job'.def = job.def
        /\ job'.unit = job.unit /\ job' \in JobRow
    BY <2>1, <1>1 DEF JobRow, PCs
  <2>3. /\ job'.corpus \in Documents /\ Accepted(job'.corpus)
        /\ job'.def \in DOMAIN job'.corpus /\ job'.unit \in DOMAIN Units'
    BY <1>1, <2>2 DEF JobInv, Units, Def
  <2>4. "commit" \notin InTrack /\ "commit" \notin InModule /\ "commit" \notin InUnits
    BY DEF InTrack, InModule, InUnits
  <2> QED BY <2>2, <2>3, <2>4 DEF JobInv, JobRow, Loading
<1> QED BY <1>2, <1>3

LEMMA KeepUnitKept ==
  ASSUME DeployInv, KeepUnit
  PROVE  DeployInv' /\ UNCHANGED Committed
<1>1. /\ job.pc = "unit" /\ UNCHANGED vars
      /\ held' = held /\ saved' = saved /\ job' = NextUnit
  BY DEF KeepUnit, At
<1>2. Loading /\ job.pc \in InUnits
  BY <1>1 DEF Loading, InUnits
<1>3. CatalogInv' /\ RowsRemain /\ LoadWrites
  BY <1>1, <1>2, QuietLoadStep DEF KeepsSaved
<1>4. \A i \in Items : items'[i].module = job.module => <<"item", i>> \in held'
  BY <1>1, <1>2 DEF DeployInv, JobInv, vars
<1>5. JobInv' /\ Loading'
  BY <1>1, <1>3, <1>4, JobNextUnit
<1> QED BY <1>1, <1>2, <1>3, <1>5, HeldStays, LoadStepKept

LEMMA KeepTrackActiveKept ==
  ASSUME DeployInv, KeepTrackActive
  PROVE  DeployInv' /\ UNCHANGED Committed
<1>1. /\ job.pc = "activate track" /\ UNCHANGED vars
      /\ held' = held /\ saved' = saved /\ job' = NextDefinition
  BY DEF KeepTrackActive, At
<1>2. Loading
  BY <1>1 DEF Loading
<1>3. CatalogInv' /\ RowsRemain /\ LoadWrites
  BY <1>1, <1>2, QuietLoadStep DEF KeepsSaved
<1>4. JobInv' /\ Loading'
  BY <1>1, <1>2, JobNextDefinition
<1> QED BY <1>1, <1>2, <1>3, <1>4, HeldStays, LoadStepKept

LEMMA ActivateTrackKept ==
  ASSUME DeployInv, ActivateTrack
  PROVE  DeployInv' /\ UNCHANGED Committed
<1> DEFINE c == [op |-> "change_track_status", actor |-> Author,
                 track |-> job.track, rev |-> tracks[job.track].revision,
                 target |-> "ACTIVE", pub |-> TRUE]
<1>1. /\ job.pc = "activate track" /\ ChangeTrackStatus(c)
      /\ HoldModules({}) /\ Require(NextDefinition)
  BY DEF ActivateTrack, At
<1>2. Loading /\ JobInv /\ CatalogInv /\ TypeOK /\ job.pc \in InTrack
  BY <1>1, CatalogInvRules DEF Loading, DeployInv, InTrack
<1>3. job.track \in Tracks /\ <<"track", job.track>> \in held
  BY <1>2 DEF JobInv
<1>4. c \in Command
  <2>1. tracks[job.track].revision \in Int
    BY <1>2, <1>3 DEF TypeOK, TrackRow
  <2> QED BY <2>1, <1>3, DeploymentAssumption DEF Command, TrackStatusCmd, Status
<1>5. CatalogInv' /\ RowsRemain
  <2>1. Execute(c)
    BY <1>1 DEF Execute
  <2> QED BY <2>1, <1>2, <1>4, CatalogInvKept, CatalogRowsRemain
<1>6. held \subseteq held'
  BY <1>1 DEF HoldModules, Hold
<1>7. JobInv' /\ Loading'
  <2>1. CASE log'.result = "SUCCESS"
    BY <2>1, <1>1, <1>2, JobNextDefinition DEF Require
  <2>2. CASE log'.result # "SUCCESS"
    BY <2>2, <1>1, <1>2, <1>5, <1>6, JobConflicts DEF Require
  <2> QED BY <2>1, <2>2
<1>8. KeepsSaved /\ HeldInv'
  BY <1>1, <1>2, <1>5, <1>7, HoldsModules
<1>9. LoadWrites
  <2>1. /\ UNCHANGED <<admins, modules, items, moduleVersions, contentVersions>>
        /\ \E row : tracks' = [tracks EXCEPT ![job.track] = row]
        /\ \E a, b, x : trackVersions' = trackVersions \cup
                          Snapshot(job.track, a, b, x)
        /\ log'.actor = Author
    BY <1>1 DEF ChangeTrackStatus, Record
  <2>2. /\ \A t \in Tracks : tracks'[t] # tracks[t] => t = job.track
        /\ \A v : (v \in trackVersions) # (v \in trackVersions') => v.of = job.track
    BY <2>1 DEF Snapshot
  <2>3. OnlyHeldChange
    BY <1>3, <1>6, <2>1, <2>2 DEF OnlyHeldChange
  <2> QED BY <2>1, <2>3, <1>8 DEF LoadWrites
<1> QED BY <1>5, <1>7, <1>8, <1>9, LoadStepKept

LEMMA DraftUnitKept ==
  ASSUME DeployInv, DraftUnit
  PROVE  DeployInv' /\ UNCHANGED Committed
<1> DEFINE m == job.module
           c == [op |-> "create_content_draft", actor |-> Author,
                 module |-> m, rev |-> modules[m].revision]
<1>1. /\ job.pc = "unit" /\ CreateContentDraft(c)
      /\ held' = held \cup New("item", items, items') /\ saved' = Committed
      /\ job' = job
  BY DEF DraftUnit, At, Hold
<1>2. /\ Loading /\ JobInv /\ CatalogInv /\ TypeOK /\ job.pc \in InTrack
      /\ job.pc \in InModule /\ job.pc \in InUnits
  BY <1>1, CatalogInvRules DEF Loading, DeployInv, InTrack, InModule, InUnits
<1>3. /\ m \in Modules /\ <<"module", m>> \in held
      /\ DOMAIN items = Items /\ DOMAIN modules = Modules
  BY <1>2, TableDomains DEF JobInv
<1>4. c \in Command
  <2>1. modules[m].revision \in Int
    BY <1>2, <1>3 DEF TypeOK, ModuleRow
  <2> QED BY <2>1, <1>3, DeploymentAssumption DEF Command, CreateDraftCmd
<1>5. CatalogInv' /\ RowsRemain
  <2>1. Execute(c)
    BY <1>1 DEF Execute
  <2> QED BY <2>1, <1>2, <1>4, CatalogInvKept, CatalogRowsRemain
<1>6. /\ UNCHANGED <<admins, tracks, trackVersions, moduleVersions,
                     contentVersions, log>>
      /\ \E n : modules' = [modules EXCEPT ![m].revision = n]
      /\ \E i \in Items : \E p : items' = [items EXCEPT ![i] = NewItem(m, p)]
  BY <1>1 DEF CreateContentDraft
<1>7. LoadWrites
  <2>1. \A k \in Modules : modules'[k] # modules[k] => k = m
    BY <1>6
  <2>2. \A i \in Items : items'[i] # items[i] => <<"item", i>> \in held'
    BY <1>1, <1>3 DEF New
  <2>3. OnlyHeldChange
    BY <1>1, <1>3, <1>6, <2>1, <2>2 DEF OnlyHeldChange
  <2> QED BY <1>1, <1>6, <2>3 DEF LoadWrites, KeepsSaved
<1>8. \A i \in Items : items'[i] # items[i] => items'[i].module = m
  <2>1. PICK k, p :
          k \in Items /\ items' = [items EXCEPT ![k] = NewItem(m, p)]
    BY <1>6
  <2>2. items'[k].module = m
    BY <2>1, <1>3 DEF NewItem
  <2> QED BY <2>1, <2>2, <1>3
<1>9. \A i \in Items : items'[i].module = m => <<"item", i>> \in held'
  BY <1>1, <1>2, <1>3 DEF JobInv, New
<1>10. JobInv' /\ Loading'
  <2>1. job' = [job EXCEPT !.pc = "unit"] /\ "unit" \in PCs
    BY <1>1, <1>2 DEF JobInv, PCs
  <2> QED BY <2>1, <1>1, <1>2, <1>5, <1>9, JobGoes
<1>11. HeldInv'
  <2>1. \A k : <<"track", k>> \notin held' \ held /\ <<"module", k>> \notin held' \ held
    BY <1>1 DEF New
  <2>2. \A i \in Items : <<"item", i>> \in held' \ held => items'[i].module = m
    BY <1>1, <1>8 DEF New
  <2> QED BY <2>1, <2>2, <1>1, <1>2, <1>3, <1>5, <1>10, HeldGrows, LoadingHolds
<1> QED BY <1>5, <1>7, <1>10, <1>11, LoadStepKept

LEMMA PublishUnitKept ==
  ASSUME DeployInv, PublishUnit
  PROVE  DeployInv' /\ UNCHANGED Committed
<1>1. PICK i \in UnitItem :
        PublishContentItem([op |-> "publish_content_item", actor |-> Author,
                            item |-> i, rev |-> items[i].revision,
                            title |-> Units[job.unit].payload, ok |-> TRUE])
  BY DEF PublishUnit
<1> DEFINE c == [op |-> "publish_content_item", actor |-> Author,
                 item |-> i, rev |-> items[i].revision,
                 title |-> Units[job.unit].payload, ok |-> TRUE]
<1>2. job.pc = "unit" /\ job' = NextUnit /\ held' = held /\ saved' = saved
  BY DEF PublishUnit, At
<1>3. /\ Loading /\ JobInv /\ CatalogInv /\ TypeOK /\ job.pc \in InUnits
      /\ job.pc \in InModule
  BY <1>2, CatalogInvRules DEF Loading, DeployInv, InUnits, InModule
<1>4. i \in Items /\ items[i].module = job.module /\ <<"item", i>> \in held
  BY <1>1, <1>3 DEF UnitItem, ItemsOf, JobInv
<1>5. c \in Command
  <2>1. items[i].revision \in Int
    BY <1>3, <1>4 DEF TypeOK, ItemRow
  <2> QED BY <2>1, <1>3, <1>4, DefinitionFields, DeploymentAssumption
          DEF Command, PublishItemCmd
<1>6. CatalogInv' /\ RowsRemain
  <2>1. Execute(c)
    BY <1>1 DEF Execute
  <2> QED BY <2>1, <1>3, <1>5, CatalogInvKept, CatalogRowsRemain
<1>7. /\ UNCHANGED <<admins, tracks, modules, trackVersions, moduleVersions, log>>
      /\ \E row : items' = [items EXCEPT ![i] = row]
      /\ \E a, b, x : contentVersions' = contentVersions \cup Snapshot(i, a, b, x)
  BY <1>1 DEF PublishContentItem
<1>8. \A k \in Items : items'[k] # items[k] => k = i
  BY <1>7
<1>9. LoadWrites
  <2>1. \A v : (v \in contentVersions) # (v \in contentVersions') => v.of = i
    BY <1>7 DEF Snapshot
  <2>2. OnlyHeldChange
    BY <1>2, <1>4, <1>7, <1>8, <2>1 DEF OnlyHeldChange
  <2> QED BY <1>2, <1>3, <1>7, <2>2 DEF LoadWrites, KeepsSaved
<1>10. \A k \in Items : items'[k].module = job.module => <<"item", k>> \in held'
  BY <1>2, <1>3, <1>4, <1>8 DEF JobInv
<1>11. JobInv' /\ Loading'
  BY <1>2, <1>6, <1>10, JobNextUnit
<1> QED BY <1>2, <1>3, <1>6, <1>9, <1>11, HeldStays, LoadStepKept

CommittedTables ==
  /\ Committed.tracks = tracks /\ Committed.modules = modules
  /\ Committed.items = items
  /\ Committed.trackVersions = trackVersions
  /\ Committed.moduleVersions = moduleVersions
  /\ Committed.contentVersions = contentVersions
  /\ Committed.orderRevision = orderRevision /\ Committed.log = log

LEMMA WhenIdle ==
  /\ TypeOK /\ ~Loading /\ held = {} => CommittedTables
  /\ CommittedTables => (C!CatalogInv <=> CatalogInv)
  BY CommittedWhenIdle, SameCatalogInv DEF CommittedTables

\* The load is over: everybody sees the tables.
LEMMA ReleaseKept ==
  ASSUME CatalogInv', NEW o \in {"NONE", "LOADED", "CONFLICT", "ABORTED"},
         Release(o)
  PROVE  DeployInv' /\ CommittedTables'
<1>1. /\ job' = [NoJob EXCEPT !.outcome = o] /\ held' = {}
      /\ saved' = NothingSaved
  BY DEF Release
<1>2. job' \in JobRow /\ job'.pc = "idle"
  BY <1>1 DEF NoJob, JobRow, PCs
<1>3. ~Loading'
  BY <1>2 DEF Loading
<1>4. WhenIdle!1' /\ WhenIdle!2' /\ (CatalogInv => TypeOK)'
  BY WhenIdle, CatalogInvRules, PTL
<1>5. CommittedTables' /\ C!CatalogInv'
  BY <1>1, <1>3, <1>4
<1>6. JobInv'
  <2>1. /\ "idle" \notin InTrack /\ "idle" \notin InModule /\ "idle" \notin InUnits
    BY DEF InTrack, InModule, InUnits
  <2> QED BY <1>2, <1>3, <2>1 DEF JobInv, JobRow
<1>7. HeldInv'
  BY <1>1, <1>3 DEF HeldInv
<1>8. SavedInv'
  BY <1>1, <1>3, <1>5 DEF SavedInv, CommittedTables
<1> QED BY <1>5, <1>6, <1>7, <1>8 DEF DeployInv

LEMMA CommitKept ==
  ASSUME DeployInv, Commit
  PROVE  DeployInv' /\ CommittedTables'
<1>1. UNCHANGED vars /\ Release("LOADED")
  BY DEF Commit
<1>2. CatalogInv'
  BY <1>1, CatalogInvRules, CatalogInvFrame DEF DeployInv, vars, TypeOK
<1> QED BY <1>1, <1>2, ReleaseKept

\* A failed load leaves what the others saw.
LEMMA RollbackKept ==
  ASSUME DeployInv, Rollback, NEW o \in {"CONFLICT", "ABORTED"}, Release(o)
  PROVE  DeployInv' /\ UNCHANGED Committed
<1>1. /\ tracks' = Committed.tracks /\ modules' = Committed.modules
      /\ items' = Committed.items
      /\ trackVersions' = Committed.trackVersions
      /\ moduleVersions' = Committed.moduleVersions
      /\ contentVersions' = Committed.contentVersions
      /\ orderRevision' = Committed.orderRevision
      /\ log' = Committed.log /\ admins' = admins
  BY DEF Rollback
<1>2. C!CatalogInv /\ C!TypeOK /\ admins \subseteq Accounts
  <2>1. C!CatalogInv /\ CatalogInv
    BY DEF DeployInv
  <2>2. C!TypeOK
    BY <2>1, C!CatalogInvRules, SameAssumptions
  <2> QED BY <2>1, <2>2, CatalogInvRules DEF TypeOK
<1>3. TypeOK'
  BY <1>1, <1>2, SameTypes DEF C!TypeOK, TypeOK
<1>4. ~Loading' /\ held' = {}
  BY DEF Release, NoJob, Loading
<1>5. WhenIdle!1' /\ WhenIdle!2'
  BY WhenIdle, PTL
<1>6. CommittedTables'
  BY <1>3, <1>4, <1>5
<1>7. UNCHANGED Committed
  BY <1>1, <1>6, CommittedSame DEF CommittedTables
<1>8. C!CatalogInv'
  BY <1>1, <1>2, <1>7, C!CatalogInvFrame, SameAssumptions
<1>9. CatalogInv'
  BY <1>5, <1>6, <1>8
<1> QED BY <1>7, <1>9, ReleaseKept

LEMMA ConflictKept ==
  ASSUME DeployInv, Conflict
  PROVE  DeployInv' /\ UNCHANGED Committed
  BY RollbackKept DEF Conflict

LEMMA AbortKept ==
  ASSUME DeployInv, Abort
  PROVE  DeployInv' /\ UNCHANGED Committed
  BY RollbackKept DEF Abort

\* Before it commits, a load shows nothing to the others.
LEMMA LoadStepsKept ==
  ASSUME DeployInv, LoadStep
  PROVE  DeployInv' /\ (UNCHANGED Committed \/ (Commit /\ CommittedTables'))
<1>1. CASE SelectTrack
  BY <1>1, SelectTrackKept
<1>2. CASE CreateMissingTrack
  BY <1>2, CreateMissingTrackKept
<1>3. CASE RestoreTrack
  BY <1>3, RestoreTrackKept
<1>4. CASE KeepTrack
  BY <1>4, KeepTrackKept
<1>5. CASE CreateMissingModule
  BY <1>5, CreateMissingModuleKept
<1>6. CASE RestoreModule
  BY <1>6, RestoreModuleKept
<1>7. CASE KeepModule
  BY <1>7, KeepModuleKept
<1>8. CASE ValidateItems
  BY <1>8, ValidateItemsKept
<1>9. CASE DraftUnit
  BY <1>9, DraftUnitKept
<1>10. CASE PublishUnit
  BY <1>10, PublishUnitKept
<1>11. CASE KeepUnit
  BY <1>11, KeepUnitKept
<1>12. CASE ActivateModule
  BY <1>12, ActivateModuleKept
<1>13. CASE KeepModuleActive
  BY <1>13, KeepModuleActiveKept
<1>14. CASE ActivateTrack
  BY <1>14, ActivateTrackKept
<1>15. CASE KeepTrackActive
  BY <1>15, KeepTrackActiveKept
<1>16. CASE Commit
  BY <1>16, CommitKept
<1>17. CASE Conflict
  BY <1>17, ConflictKept
<1> QED
  BY <1>1, <1>2, <1>3, <1>4, <1>5, <1>6, <1>7, <1>8, <1>9,
     <1>10, <1>11, <1>12, <1>13, <1>14, <1>15, <1>16, <1>17 DEF LoadStep

-----------------------------------------------------------------------------
(* The commands of the others, while a load runs *)

\* Rows that are not held are what the others see.
LEMMA FreeRows ==
  ASSUME TypeOK
  PROVE  /\ \A t \in Tracks : <<"track", t>> \notin held =>
              Committed.tracks[t] = tracks[t]
         /\ \A m \in Modules : <<"module", m>> \notin held =>
              Committed.modules[m] = modules[m]
         /\ \A i \in Items : <<"item", i>> \notin held =>
              Committed.items[i] = items[i]
  BY CommittedRows

LEMMA CommittedPlacedExist ==
  ASSUME C!CatalogInv
  PROVE  /\ \A m \in Modules : Committed.modules[m].track \in Tracks =>
              Exists(Committed.modules[m])
         /\ \A i \in Items : Committed.items[i].module \in Modules =>
              Exists(Committed.items[i])
<1>1. C!ModulesOrdered /\ C!ItemsOrdered
  BY DEF C!CatalogInv, C!OrderInv
<1>2. /\ \A m \in Modules : ~Exists(Committed.modules[m]) =>
           Committed.modules[m].track = NoOwner
      /\ \A i \in Items : ~Exists(Committed.items[i]) =>
           Committed.items[i].module = NoOwner
  BY <1>1, SameWrites DEF C!ModulesOrdered, C!ItemsOrdered
<1> QED BY <1>2, CatalogKeysAssumption

\* Below a row that is not held nothing is.
LEMMA FreeModules ==
  ASSUME DeployInv, NEW t \in Tracks, <<"track", t>> \notin held
  PROVE  /\ \A m \in Modules :
              Committed.modules[m].track = t <=> modules[m].track = t
         /\ \A m \in Modules : modules[m].track = t =>
              <<"module", m>> \notin held /\ Committed.modules[m] = modules[m]
         /\ C!ModulesOf(t) = ModulesOf(t)
         /\ C!ActiveModules(t) = ActiveModules(t)
<1>1. /\ HeldInv /\ SavedInv /\ C!CatalogInv /\ TypeOK
  BY CatalogInvRules DEF DeployInv
<1>2. \A m \in Modules : modules[m].track = t => <<"module", m>> \notin held
  BY <1>1 DEF HeldInv
<1>3. \A m \in Modules : modules[m].track = t => Committed.modules[m] = modules[m]
  BY <1>1, <1>2, FreeRows
<1>4. ASSUME NEW m \in Modules, Committed.modules[m].track = t
      PROVE  modules[m].track = t
  <2>1. Exists(Committed.modules[m])
    BY <1>1, <1>4, CommittedPlacedExist
  <2> QED BY <2>1, <1>1, <1>4 DEF SavedInv
<1>5. C!ModulesOf(t) = ModulesOf(t)
  BY <1>3, <1>4 DEF C!ModulesOf, ModulesOf
<1>6. \A m \in ModulesOf(t) : Committed.modules[m].status = modules[m].status
  BY <1>3 DEF ModulesOf
<1>7. C!ActiveModules(t) = ActiveModules(t)
  BY <1>5, <1>6 DEF C!ActiveModules, ActiveModules
<1> QED BY <1>2, <1>3, <1>4, <1>5, <1>7

LEMMA FreeItems ==
  ASSUME DeployInv, NEW m \in Modules, <<"module", m>> \notin held
  PROVE  /\ \A i \in Items : items[i].module = m =>
              <<"item", i>> \notin held /\ Committed.items[i] = items[i]
         /\ C!ItemsOf(m) = ItemsOf(m)
<1>1. /\ HeldInv /\ SavedInv /\ C!CatalogInv /\ TypeOK
  BY CatalogInvRules DEF DeployInv
<1>2. \A i \in Items : items[i].module = m => <<"item", i>> \notin held
  BY <1>1 DEF HeldInv
<1>3. \A i \in Items : items[i].module = m => Committed.items[i] = items[i]
  BY <1>1, <1>2, FreeRows
<1>4. ASSUME NEW i \in Items, Committed.items[i].module = m
      PROVE  items[i].module = m
  <2>1. Exists(Committed.items[i])
    BY <1>1, <1>4, CommittedPlacedExist
  <2> QED BY <2>1, <1>1, <1>4 DEF SavedInv
<1>5. C!ItemsOf(m) = ItemsOf(m)
  BY <1>3, <1>4 DEF C!ItemsOf, ItemsOf
<1> QED BY <1>2, <1>3, <1>5

\* What is held stays as it was saved; the log may get a row.
SameHeld ==
  /\ job' = job /\ held' = held
  /\ saved'.tracks = saved.tracks /\ saved'.modules = saved.modules
  /\ saved'.items = saved.items
  /\ saved'.trackVersions = saved.trackVersions
  /\ saved'.moduleVersions = saved.moduleVersions
  /\ saved'.contentVersions = saved.contentVersions
  /\ saved'.orderRevision = saved.orderRevision

LEMMA CommittedAfter ==
  ASSUME TypeOK, TypeOK', SameHeld, Loading
  PROVE  /\ Committed'.tracks =
              [t \in Tracks |-> IF <<"track", t>> \in held THEN saved.tracks[t]
                                ELSE tracks'[t]]
         /\ Committed'.modules =
              [m \in Modules |-> IF <<"module", m>> \in held THEN saved.modules[m]
                                 ELSE modules'[m]]
         /\ Committed'.items =
              [i \in Items |-> IF <<"item", i>> \in held THEN saved.items[i]
                               ELSE items'[i]]
         /\ Committed'.trackVersions =
              {v \in trackVersions' : <<"track", v.of>> \notin held}
                \cup {v \in saved.trackVersions : <<"track", v.of>> \in held}
         /\ Committed'.moduleVersions =
              {v \in moduleVersions' : <<"module", v.of>> \notin held}
                \cup {v \in saved.moduleVersions : <<"module", v.of>> \in held}
         /\ Committed'.contentVersions =
              {v \in contentVersions' : <<"item", v.of>> \notin held}
                \cup {v \in saved.contentVersions : <<"item", v.of>> \in held}
         /\ Committed'.orderRevision = saved.orderRevision
         /\ Committed'.log = saved'.log
<1>1. /\ DOMAIN tracks' = Tracks /\ DOMAIN modules' = Modules
      /\ DOMAIN items' = Items
  BY DEF TypeOK
<1>2. Committed'.tracks =
        [t \in Tracks |-> IF <<"track", t>> \in held THEN saved.tracks[t]
                          ELSE tracks'[t]]
  BY <1>1 DEF Committed, Shared, SameHeld
<1>3. Committed'.modules =
        [m \in Modules |-> IF <<"module", m>> \in held THEN saved.modules[m]
                           ELSE modules'[m]]
  BY <1>1 DEF Committed, Shared, SameHeld
<1>4. Committed'.items =
        [i \in Items |-> IF <<"item", i>> \in held THEN saved.items[i]
                         ELSE items'[i]]
  BY <1>1 DEF Committed, Shared, SameHeld
<1>5. /\ Committed'.trackVersions =
           {v \in trackVersions' : <<"track", v.of>> \notin held}
             \cup {v \in saved.trackVersions : <<"track", v.of>> \in held}
      /\ Committed'.moduleVersions =
           {v \in moduleVersions' : <<"module", v.of>> \notin held}
             \cup {v \in saved.moduleVersions : <<"module", v.of>> \in held}
      /\ Committed'.contentVersions =
           {v \in contentVersions' : <<"item", v.of>> \notin held}
             \cup {v \in saved.contentVersions : <<"item", v.of>> \in held}
  BY DEF Committed, SharedVersions, SameHeld
<1>6. Committed'.orderRevision = saved.orderRevision /\ Committed'.log = saved'.log
  BY DEF Committed, Loading, SameHeld
<1> QED BY <1>2, <1>3, <1>4, <1>5, <1>6

\* A table of the others follows a write of a row that is not held.
LEMMA RowSeen ==
  ASSUME NEW S, NEW kind, NEW h, NEW a, NEW b, NEW k \in S, <<kind, k>> \notin h,
         NEW row, DOMAIN b = S
  PROVE  [j \in S |-> IF <<kind, j>> \in h THEN a[j]
                      ELSE [b EXCEPT ![k] = row][j]] =
         [[j \in S |-> IF <<kind, j>> \in h THEN a[j] ELSE b[j]] EXCEPT ![k] = row]
<1> DEFINE f == [j \in S |-> IF <<kind, j>> \in h THEN a[j]
                             ELSE [b EXCEPT ![k] = row][j]]
           g == [j \in S |-> IF <<kind, j>> \in h THEN a[j] ELSE b[j]]
<1>1. f[k] = row
  OBVIOUS
<1>2. \A j \in S \ {k} : f[j] = g[j]
  OBVIOUS
<1>3. \A j \in S : f[j] = [g EXCEPT ![k] = row][j]
  BY <1>1, <1>2
<1>4. DOMAIN f = S /\ DOMAIN [g EXCEPT ![k] = row] = S
  OBVIOUS
<1>5. f = [j \in S |-> f[j]] /\ [g EXCEPT ![k] = row] =
                                  [j \in S |-> [g EXCEPT ![k] = row][j]]
  OBVIOUS
<1> HIDE DEF f, g
<1>6. f = [g EXCEPT ![k] = row]
  BY <1>3, <1>5
<1> QED BY <1>6 DEF f, g

LEMMA VersionsSeen ==
  ASSUME NEW kind, NEW h, NEW a, NEW b, NEW more,
         \A v \in more : <<kind, v.of>> \notin h
  PROVE  {v \in b \cup more : <<kind, v.of>> \notin h}
           \cup {v \in a : <<kind, v.of>> \in h} =
         ({v \in b : <<kind, v.of>> \notin h}
           \cup {v \in a : <<kind, v.of>> \in h}) \cup more
  OBVIOUS

LEMMA TablesFollow ==
  ASSUME TypeOK, TypeOK', SameHeld, Loading
  PROVE  /\ tracks' = tracks => Committed'.tracks = Committed.tracks
         /\ modules' = modules => Committed'.modules = Committed.modules
         /\ items' = items => Committed'.items = Committed.items
         /\ trackVersions' = trackVersions =>
              Committed'.trackVersions = Committed.trackVersions
         /\ moduleVersions' = moduleVersions =>
              Committed'.moduleVersions = Committed.moduleVersions
         /\ contentVersions' = contentVersions =>
              Committed'.contentVersions = Committed.contentVersions
         /\ orderRevision' = orderRevision =>
              Committed'.orderRevision = Committed.orderRevision
<1>1. Committed'.orderRevision = Committed.orderRevision
  BY CommittedAfter, CommittedOrder
<1>2. tracks' = tracks => Committed'.tracks = Committed.tracks
  BY CommittedAfter, CommittedRows
<1>3. modules' = modules => Committed'.modules = Committed.modules
  BY CommittedAfter, CommittedRows
<1>4. items' = items => Committed'.items = Committed.items
  BY CommittedAfter, CommittedRows
<1>5. trackVersions' = trackVersions =>
        Committed'.trackVersions = Committed.trackVersions
  BY CommittedAfter, CommittedVersions
<1>6. moduleVersions' = moduleVersions =>
        Committed'.moduleVersions = Committed.moduleVersions
  BY CommittedAfter, CommittedVersions
<1>7. contentVersions' = contentVersions =>
        Committed'.contentVersions = Committed.contentVersions
  BY CommittedAfter, CommittedVersions
<1> QED BY <1>1, <1>2, <1>3, <1>4, <1>5, <1>6, <1>7

LEMMA RowsFollow ==
  ASSUME TypeOK, TypeOK', SameHeld, Loading
  PROVE  /\ \A t \in Tracks : \A row :
              <<"track", t>> \notin held /\ tracks' = [tracks EXCEPT ![t] = row]
                => Committed'.tracks = [Committed.tracks EXCEPT ![t] = row]
         /\ \A m \in Modules : \A row :
              <<"module", m>> \notin held /\ modules' = [modules EXCEPT ![m] = row]
                => Committed'.modules = [Committed.modules EXCEPT ![m] = row]
         /\ \A i \in Items : \A row :
              <<"item", i>> \notin held /\ items' = [items EXCEPT ![i] = row]
                => Committed'.items = [Committed.items EXCEPT ![i] = row]
<1>1. ASSUME NEW t \in Tracks, NEW row, <<"track", t>> \notin held,
             tracks' = [tracks EXCEPT ![t] = row]
      PROVE  Committed'.tracks = [Committed.tracks EXCEPT ![t] = row]
  <2>1. [j \in Tracks |-> IF <<"track", j>> \in held THEN saved.tracks[j]
                          ELSE [tracks EXCEPT ![t] = row][j]] =
        [[j \in Tracks |-> IF <<"track", j>> \in held THEN saved.tracks[j]
                           ELSE tracks[j]] EXCEPT ![t] = row]
    BY <1>1, RowSeen, TableDomains
  <2>2. Committed'.tracks =
          [j \in Tracks |-> IF <<"track", j>> \in held THEN saved.tracks[j]
                            ELSE [tracks EXCEPT ![t] = row][j]]
    BY <1>1, CommittedAfter
  <2> QED BY <2>1, <2>2, CommittedRows
<1>2. ASSUME NEW m \in Modules, NEW row, <<"module", m>> \notin held,
             modules' = [modules EXCEPT ![m] = row]
      PROVE  Committed'.modules = [Committed.modules EXCEPT ![m] = row]
  <2>1. [j \in Modules |-> IF <<"module", j>> \in held THEN saved.modules[j]
                           ELSE [modules EXCEPT ![m] = row][j]] =
        [[j \in Modules |-> IF <<"module", j>> \in held THEN saved.modules[j]
                            ELSE modules[j]] EXCEPT ![m] = row]
    BY <1>2, RowSeen, TableDomains
  <2>2. Committed'.modules =
          [j \in Modules |-> IF <<"module", j>> \in held THEN saved.modules[j]
                             ELSE [modules EXCEPT ![m] = row][j]]
    BY <1>2, CommittedAfter
  <2> QED BY <2>1, <2>2, CommittedRows
<1>3. ASSUME NEW i \in Items, NEW row, <<"item", i>> \notin held,
             items' = [items EXCEPT ![i] = row]
      PROVE  Committed'.items = [Committed.items EXCEPT ![i] = row]
  <2>1. [j \in Items |-> IF <<"item", j>> \in held THEN saved.items[j]
                         ELSE [items EXCEPT ![i] = row][j]] =
        [[j \in Items |-> IF <<"item", j>> \in held THEN saved.items[j]
                          ELSE items[j]] EXCEPT ![i] = row]
    BY <1>3, RowSeen, TableDomains
  <2>2. Committed'.items =
          [j \in Items |-> IF <<"item", j>> \in held THEN saved.items[j]
                           ELSE [items EXCEPT ![i] = row][j]]
    BY <1>3, CommittedAfter
  <2> QED BY <2>1, <2>2, CommittedRows
<1> QED BY <1>1, <1>2, <1>3

LEMMA VersionsFollow ==
  ASSUME TypeOK, TypeOK', SameHeld, Loading
  PROVE  /\ \A k, a, b, x :
              (/\ <<"track", k>> \notin held
               /\ trackVersions' = trackVersions \cup Snapshot(k, a, b, x))
                => Committed'.trackVersions =
                     Committed.trackVersions \cup Snapshot(k, a, b, x)
         /\ \A k, a, b, x :
              (/\ <<"module", k>> \notin held
               /\ moduleVersions' = moduleVersions \cup Snapshot(k, a, b, x))
                => Committed'.moduleVersions =
                     Committed.moduleVersions \cup Snapshot(k, a, b, x)
         /\ \A k, a, b, x :
              (/\ <<"item", k>> \notin held
               /\ contentVersions' = contentVersions \cup Snapshot(k, a, b, x))
                => Committed'.contentVersions =
                     Committed.contentVersions \cup Snapshot(k, a, b, x)
<1>1. \A k, a, b, x : \A v \in Snapshot(k, a, b, x) : v.of = k
  BY DEF Snapshot
<1>2. ASSUME NEW k, NEW a, NEW b, NEW x, <<"track", k>> \notin held,
             trackVersions' = trackVersions \cup Snapshot(k, a, b, x)
      PROVE  Committed'.trackVersions =
               Committed.trackVersions \cup Snapshot(k, a, b, x)
  BY <1>1, <1>2, CommittedAfter, CommittedVersions, VersionsSeen
<1>3. ASSUME NEW k, NEW a, NEW b, NEW x, <<"module", k>> \notin held,
             moduleVersions' = moduleVersions \cup Snapshot(k, a, b, x)
      PROVE  Committed'.moduleVersions =
               Committed.moduleVersions \cup Snapshot(k, a, b, x)
  BY <1>1, <1>3, CommittedAfter, CommittedVersions, VersionsSeen
<1>4. ASSUME NEW k, NEW a, NEW b, NEW x, <<"item", k>> \notin held,
             contentVersions' = contentVersions \cup Snapshot(k, a, b, x)
      PROVE  Committed'.contentVersions =
               Committed.contentVersions \cup Snapshot(k, a, b, x)
  BY <1>1, <1>4, CommittedAfter, CommittedVersions, VersionsSeen
<1>5. \A k, a, b, x :
        (/\ <<"track", k>> \notin held
         /\ trackVersions' = trackVersions \cup Snapshot(k, a, b, x))
          => Committed'.trackVersions =
               Committed.trackVersions \cup Snapshot(k, a, b, x)
  BY <1>2
<1>6. \A k, a, b, x :
        (/\ <<"module", k>> \notin held
         /\ moduleVersions' = moduleVersions \cup Snapshot(k, a, b, x))
          => Committed'.moduleVersions =
               Committed.moduleVersions \cup Snapshot(k, a, b, x)
  BY <1>3
<1>7. \A k, a, b, x :
        (/\ <<"item", k>> \notin held
         /\ contentVersions' = contentVersions \cup Snapshot(k, a, b, x))
          => Committed'.contentVersions =
               Committed.contentVersions \cup Snapshot(k, a, b, x)
  BY <1>4
<1> QED BY <1>5, <1>6, <1>7

\* A command of somebody else leaves what is held, and its log row is seen.
LEMMA OtherFrame ==
  ASSUME DeployInv, NEW c \in Commands, OtherCommand(c)
  PROVE  /\ SameHeld /\ c \in Command
         /\ CatalogInv' /\ RowsRemain /\ TypeOK /\ TypeOK'
         /\ Loading => c.actor # Author
         /\ Loading /\ log' # log => Committed'.log = log'
         /\ Loading /\ log' = log => Committed'.log = Committed.log
         /\ Loading /\ log'.actor = c.actor => Committed'.log = log'
         /\ RowsOf(c) \cap held = {}
         /\ tables' # tables
<1>1. /\ UNCHANGED <<job, held, loads>> /\ Execute(c)
      /\ RowsOf(c) \cap held = {} /\ tables' # tables
      /\ saved' = IF Loading /\ log' # log THEN [saved EXCEPT !.log = log']
                  ELSE saved
  BY DEF OtherCommand
<1>2. c \in Command
  BY CatalogAssumption
<1>3. CatalogInv' /\ RowsRemain /\ TypeOK
  BY <1>1, <1>2, CatalogInvKept, CatalogRowsRemain, CatalogInvRules DEF DeployInv
<1>4. TypeOK'
  <2>1. (CatalogInv => TypeOK)'
    BY CatalogInvRules, PTL
  <2> QED BY <2>1, <1>3
<1>5. DOMAIN saved = {"tracks", "modules", "items", "trackVersions",
                      "moduleVersions", "contentVersions", "orderRevision", "log"}
  BY DEF DeployInv, SavedInv, NothingSaved
<1>6. SameHeld
  BY <1>1, <1>5 DEF SameHeld
<1>7. ASSUME Loading PROVE c.actor # Author
  <2>1. <<"account", Author>> \in held
    BY <1>7 DEF DeployInv, HeldInv
  <2>2. <<"account", c.actor>> \in RowsOf(c)
    BY DEF RowsOf
  <2> QED BY <2>1, <2>2, <1>1
<1>8. Loading => Committed'.log = saved'.log /\ Committed.log = saved.log
  BY <1>3, <1>4, <1>6, CommittedAfter, CommittedOrder
<1>9. ASSUME Loading, log' # log PROVE Committed'.log = log'
  <2>1. saved' = [saved EXCEPT !.log = log']
    BY <1>1, <1>9
  <2> QED BY <2>1, <1>5, <1>8, <1>9
<1>10. ASSUME Loading, log' = log PROVE Committed'.log = Committed.log
  BY <1>1, <1>8, <1>10
<1>11. ASSUME Loading, log'.actor = c.actor PROVE Committed'.log = log'
  <2>1. CASE log' = log
    BY <2>1, <1>7, <1>10, <1>11 DEF DeployInv, SavedInv
  <2> QED BY <2>1, <1>9, <1>11
<1> QED BY <1>1, <1>2, <1>3, <1>4, <1>6, <1>7, <1>9, <1>10, <1>11

\* The rows a command names, which no load holds.
LEMMA NamedRows ==
  ASSUME NEW c \in Commands, RowsOf(c) \cap held = {}
  PROVE  /\ c.op \in {"edit_track", "change_track_status", "create_module",
                      "edit_module", "change_module_status", "move_module"} =>
              c.track \in Tracks /\ <<"track", c.track>> \notin held
         /\ c.op = "create_content_draft" =>
              c.module \in Modules /\ <<"module", c.module>> \notin held
         /\ c.op = "publish_content_item" =>
              c.item \in Items /\ <<"item", c.item>> \notin held
         /\ c.op \in {"create_track", "move_track"} => <<"state", 1>> \notin held
<1>1. c \in Command
  BY CatalogAssumption
<1>2. \A x : x \in RowsOf(c) => x \notin held
  OBVIOUS
<1>3. ASSUME c.op \in {"edit_track", "change_track_status", "create_module",
                      "edit_module", "change_module_status", "move_module"}
      PROVE  c.track \in Tracks /\ "track" \in DOMAIN c
  BY <1>1, <1>3, CommandShapes DEF EditTrackCmd, TrackStatusCmd, CreateModuleCmd,
     EditModuleCmd, ModuleStatusCmd, MoveModuleCmd
<1>4. c.op = "create_content_draft" => c.module \in Modules
  BY <1>1, CommandShapes DEF CreateDraftCmd
<1>5. c.op = "publish_content_item" => c.item \in Items
  BY <1>1, CommandShapes DEF PublishItemCmd
<1>6. "track" \in DOMAIN c => <<"track", c.track>> \in RowsOf(c)
  BY DEF RowsOf
<1>7. c.op = "create_content_draft" => <<"module", c.module>> \in RowsOf(c)
  BY DEF RowsOf
<1>8. c.op = "publish_content_item" => <<"item", c.item>> \in RowsOf(c)
  BY DEF RowsOf
<1>9. c.op \in {"create_track", "move_track"} => <<"state", 1>> \in RowsOf(c)
  BY DEF RowsOf
<1> QED BY <1>2, <1>3, <1>4, <1>5, <1>6, <1>7, <1>8, <1>9

LEMMA EditTrackSeen ==
  ASSUME DeployInv, Loading, NEW c \in Commands, OtherCommand(c), EditTrack(c)
  PROVE  C!EditTrack(c)
<1> DEFINE t == c.track
           row == tracks[t]
           free == TitleFree(tracks, UsedTracks, t, c.title)
           result == EditDecision(c.actor \in admins, Exists(row), row, c, free)
           after == IF result = "SUCCESS" THEN Edited(row, c.title) ELSE row
<1>1. /\ c.op = "edit_track" /\ row.revision < MaxRevision
      /\ tracks' = [tracks EXCEPT ![t] = after]
      /\ trackVersions' = trackVersions \cup Snapshot(t, row, after, c.title)
      /\ Record(c, "EDIT", "TRACK", t, result, result = "SUCCESS")
      /\ UNCHANGED <<admins, modules, items, moduleVersions, contentVersions,
                     orderRevision>>
  BY DEF EditTrack
<1>2. /\ SameHeld /\ TypeOK /\ TypeOK' /\ RowsOf(c) \cap held = {}
      /\ log'.actor = c.actor => Committed'.log = log'
  BY OtherFrame
<1>3. t \in Tracks /\ <<"track", t>> \notin held
  BY <1>1, <1>2, NamedRows
<1>4. Committed.tracks[t] = row
  BY <1>2, <1>3, FreeRows
<1>5. C!TitleFree(Committed.tracks, C!UsedTracks, t, c.title) = free
  <2>1. ~WaitsAtIndex(c)
    BY DEF OtherCommand
  <2>2. \A k \in Tracks : <<"track", k>> \in held =>
          /\ Exists(tracks[k]) => KeyOf(tracks[k].title) # KeyOf(c.title)
          /\ Exists(Committed.tracks[k]) =>
               KeyOf(Committed.tracks[k].title) # KeyOf(c.title)
    BY <2>1, <1>1 DEF WaitsAtIndex
  <2>3. \A k \in Tracks : <<"track", k>> \notin held =>
          Committed.tracks[k] = tracks[k]
    BY <1>2, FreeRows
  <2>4. (\A k \in C!UsedTracks \ {t} : KeyOf(Committed.tracks[k].title) # KeyOf(c.title))
          <=> \A k \in UsedTracks \ {t} : KeyOf(tracks[k].title) # KeyOf(c.title)
    BY <2>2, <2>3, SameWrites DEF C!UsedTracks, UsedTracks
  <2> QED BY <2>4 DEF C!TitleFree, TitleFree
<1>6. result = C!EditDecision(c.actor \in admins, C!Exists(row), row, c,
                 C!TitleFree(Committed.tracks, C!UsedTracks, t, c.title))
  BY <1>5, SameDecisions, SameWrites
<1>7. after = IF result = "SUCCESS" THEN C!Edited(row, c.title) ELSE row
  BY SameWrites
<1> HIDE DEF free, result, after
<1>8. Committed'.tracks = [Committed.tracks EXCEPT ![t] = after]
  BY <1>1, <1>2, <1>3, RowsFollow
<1>9. Committed'.trackVersions = Committed.trackVersions
        \cup C!Snapshot(t, row, after, c.title)
  BY <1>1, <1>2, <1>3, VersionsFollow, SameWrites
<1>10. C!Record(c, "EDIT", "TRACK", t, result, result = "SUCCESS")
  BY <1>1, <1>2 DEF C!Record, Record
<1>11. UNCHANGED <<admins, Committed.modules, Committed.items,
                   Committed.moduleVersions, Committed.contentVersions,
                   Committed.orderRevision>>
  BY <1>1, <1>2, TablesFollow
<1> QED BY <1>1, <1>4, <1>6, <1>7, <1>8, <1>9, <1>10, <1>11 DEF C!EditTrack

LEMMA ChangeTrackStatusSeen ==
  ASSUME DeployInv, Loading, NEW c \in Commands, OtherCommand(c),
         ChangeTrackStatus(c)
  PROVE  C!ChangeTrackStatus(c)
<1> DEFINE t == c.track
           row == tracks[t]
           result == TrackStatusDecision(c.actor \in admins, row, c,
                       ActiveModules(t) # {})
           changed == result = "SUCCESS" /\ row.status # c.target
           after == IF changed THEN WithStatus(row, c.target) ELSE row
<1>1. /\ c.op = "change_track_status" /\ row.revision < MaxRevision
      /\ tracks' = [tracks EXCEPT ![t] = after]
      /\ trackVersions' = trackVersions \cup Snapshot(t, row, after, row.title)
      /\ Record(c, StatusAction(c.target), "TRACK", t, result, changed)
      /\ UNCHANGED <<admins, modules, items, moduleVersions, contentVersions,
                     orderRevision>>
  BY DEF ChangeTrackStatus
<1>2. /\ SameHeld /\ TypeOK /\ TypeOK' /\ RowsOf(c) \cap held = {}
      /\ log'.actor = c.actor => Committed'.log = log'
  BY OtherFrame
<1>3. t \in Tracks /\ <<"track", t>> \notin held
  BY <1>1, <1>2, NamedRows
<1>4. Committed.tracks[t] = row /\ C!ActiveModules(t) = ActiveModules(t)
  BY <1>2, <1>3, FreeRows, FreeModules
<1>5. result = C!TrackStatusDecision(c.actor \in admins, row, c,
                 C!ActiveModules(t) # {})
  BY <1>4, SameDecisions
<1>6. after = IF changed THEN C!WithStatus(row, c.target) ELSE row
  BY SameWrites
<1>7. changed <=> result = "SUCCESS" /\ row.status # c.target
  OBVIOUS
<1> HIDE DEF result, changed, after
<1>8. Committed'.tracks = [Committed.tracks EXCEPT ![t] = after]
  BY <1>1, <1>2, <1>3, RowsFollow
<1>9. Committed'.trackVersions = Committed.trackVersions
        \cup C!Snapshot(t, row, after, row.title)
  BY <1>1, <1>2, <1>3, VersionsFollow, SameWrites
<1>10. C!Record(c, C!StatusAction(c.target), "TRACK", t, result, changed)
  BY <1>1, <1>2, SameWrites DEF C!Record, Record
<1>11. UNCHANGED <<admins, Committed.modules, Committed.items,
                   Committed.moduleVersions, Committed.contentVersions,
                   Committed.orderRevision>>
  BY <1>1, <1>2, TablesFollow
<1> QED BY <1>1, <1>4, <1>5, <1>6, <1>7, <1>8, <1>9, <1>10, <1>11
        DEF C!ChangeTrackStatus

LEMMA EditModuleSeen ==
  ASSUME DeployInv, Loading, NEW c \in Commands, OtherCommand(c), EditModule(c)
  PROVE  C!EditModule(c)
<1> DEFINE m == c.module
           row == modules[m]
           free == TitleFree(modules, ModulesOf(c.track), m, c.title)
           known == row.track = c.track
           result == EditDecision(c.actor \in admins, known, row, c, free)
           after == IF result = "SUCCESS" THEN Edited(row, c.title) ELSE row
<1>1. /\ c.op = "edit_module" /\ row.revision < MaxRevision
      /\ modules' = [modules EXCEPT ![m] = after]
      /\ moduleVersions' = moduleVersions \cup Snapshot(m, row, after, c.title)
      /\ Record(c, "EDIT", "MODULE", m, result, result = "SUCCESS")
      /\ UNCHANGED <<admins, tracks, items, trackVersions, contentVersions,
                     orderRevision>>
  BY DEF EditModule
<1>2. /\ SameHeld /\ TypeOK /\ TypeOK' /\ RowsOf(c) \cap held = {}
      /\ log'.actor = c.actor => Committed'.log = log'
      /\ c \in Command /\ tables' # tables
  BY OtherFrame
<1>3. c.track \in Tracks /\ <<"track", c.track>> \notin held
  BY <1>1, <1>2, NamedRows
<1>4. /\ c.rev \in Int /\ c.ok \in BOOLEAN /\ c.pub \in BOOLEAN /\ m \in Modules
  BY <1>1, <1>2, CommandShapes DEF EditModuleCmd
<1>5. row.track = c.track
  <2>1. CASE result = "SUCCESS"
    <3>1. free \in BOOLEAN /\ known \in BOOLEAN /\ (c.actor \in admins) \in BOOLEAN
      BY DEF TitleFree
    <3>2. row.revision \in Nat
      BY <1>2, <1>4 DEF TypeOK, ModuleRow
    <3> HIDE DEF free, known
    <3>3. known
      BY <2>1, <3>1, <3>2, <1>4, EditSuccess
    <3> QED BY <3>3 DEF known
  <2>2. CASE result # "SUCCESS"
    <3>1. after = row /\ Snapshot(m, row, row, c.title) = {}
      BY <2>2 DEF Snapshot
    <3>2. modules' = modules /\ moduleVersions' = moduleVersions
      <4>1. modules = [k \in Modules |-> modules[k]]
        BY <1>2 DEF TypeOK
      <4> HIDE DEF after
      <4> QED BY <3>1, <4>1, <1>1, <1>4
    <3> QED BY <3>2, <1>1, <1>2 DEF tables
  <2> QED BY <2>1, <2>2
<1>6. /\ <<"module", m>> \notin held /\ Committed.modules[m] = row
      /\ C!ModulesOf(c.track) = ModulesOf(c.track)
      /\ \A k \in ModulesOf(c.track) : Committed.modules[k] = modules[k]
  BY <1>3, <1>4, <1>5, FreeModules DEF ModulesOf
<1>7. C!TitleFree(Committed.modules, C!ModulesOf(c.track), m, c.title) = free
  BY <1>6 DEF C!TitleFree, TitleFree
<1>8. result = C!EditDecision(c.actor \in admins, row.track = c.track, row, c,
                 C!TitleFree(Committed.modules, C!ModulesOf(c.track), m, c.title))
  BY <1>7, SameDecisions
<1>9. after = IF result = "SUCCESS" THEN C!Edited(row, c.title) ELSE row
  BY SameWrites
<1> HIDE DEF free, known, result, after
<1>10. Committed'.modules = [Committed.modules EXCEPT ![m] = after]
  BY <1>1, <1>2, <1>4, <1>6, RowsFollow
<1>11. Committed'.moduleVersions = Committed.moduleVersions
         \cup C!Snapshot(m, row, after, c.title)
  BY <1>1, <1>2, <1>6, VersionsFollow, SameWrites
<1>12. C!Record(c, "EDIT", "MODULE", m, result, result = "SUCCESS")
  BY <1>1, <1>2 DEF C!Record, Record
<1>13. UNCHANGED <<admins, Committed.tracks, Committed.items,
                   Committed.trackVersions, Committed.contentVersions,
                   Committed.orderRevision>>
  BY <1>1, <1>2, TablesFollow
<1> QED BY <1>1, <1>6, <1>8, <1>9, <1>10, <1>11, <1>12, <1>13 DEF C!EditModule

LEMMA StatusOfOwnModule ==
  ASSUME NEW a \in BOOLEAN, NEW actives, NEW owner,
         NEW row, row.revision \in Nat, NEW c, c.rev \in Int, c.pub \in BOOLEAN,
         ModuleStatusDecision(a, row, owner, c, actives) = "SUCCESS"
  PROVE  row.track = c.track
  BY ModuleStatusSuccess

LEMMA ChangeModuleStatusSeen ==
  ASSUME DeployInv, Loading, NEW c \in Commands, OtherCommand(c),
         ChangeModuleStatus(c)
  PROVE  C!ChangeModuleStatus(c)
<1> DEFINE m == c.module
           row == modules[m]
           owner == tracks[c.track]
           actives == ActiveModules(c.track)
           result == ModuleStatusDecision(c.actor \in admins, row, owner, c,
                       actives)
           changed == result = "SUCCESS" /\ row.status # c.target
           after == IF changed THEN WithStatus(row, c.target) ELSE row
<1>1. /\ c.op = "change_module_status" /\ row.revision < MaxRevision
      /\ modules' = [modules EXCEPT ![m] = after]
      /\ moduleVersions' = moduleVersions \cup Snapshot(m, row, after, row.title)
      /\ Record(c, StatusAction(c.target), "MODULE", m, result, changed)
      /\ UNCHANGED <<admins, tracks, items, trackVersions, contentVersions,
                     orderRevision>>
  BY DEF ChangeModuleStatus
<1>2. /\ SameHeld /\ TypeOK /\ TypeOK' /\ RowsOf(c) \cap held = {}
      /\ log'.actor = c.actor => Committed'.log = log'
      /\ c \in Command /\ tables' # tables
  BY OtherFrame
<1>3. c.track \in Tracks /\ <<"track", c.track>> \notin held
  BY <1>1, <1>2, NamedRows
<1>4. c.rev \in Int /\ c.pub \in BOOLEAN /\ m \in Modules
  BY <1>1, <1>2, CommandShapes DEF ModuleStatusCmd
<1>5. row.track = c.track
  <2>1. CASE changed
    <3> DEFINE authorized == c.actor \in admins
    <3>1. /\ authorized \in BOOLEAN /\ row.revision \in Nat
          /\ result = ModuleStatusDecision(authorized, row, owner, c, actives)
      BY <1>2, <1>4 DEF TypeOK, ModuleRow
    <3>2. result = "SUCCESS"
      BY <2>1
    <3> HIDE DEF actives, owner, row, authorized, result
    <3>3. ModuleStatusDecision(authorized, row, owner, c, actives) = "SUCCESS" =>
            row.track = c.track
      <4>1. c.rev \in Int /\ c.pub \in BOOLEAN
        BY <1>4
      <4> QED BY <3>1, <4>1, StatusOfOwnModule
    <3> QED BY <3>1, <3>2, <3>3
  <2>2. CASE ~changed
    <3>1. after = row /\ Snapshot(m, row, row, row.title) = {}
      BY <2>2 DEF Snapshot
    <3>2. modules' = modules /\ moduleVersions' = moduleVersions
      <4>1. modules = [k \in Modules |-> modules[k]]
        BY <1>2 DEF TypeOK
      <4> HIDE DEF after
      <4> QED BY <3>1, <4>1, <1>1, <1>4
    <3> QED BY <3>2, <1>1, <1>2 DEF tables
  <2> QED BY <2>1, <2>2
<1>6. /\ <<"module", m>> \notin held /\ Committed.modules[m] = row
      /\ C!ActiveModules(c.track) = actives
      /\ Committed.tracks[c.track] = owner
  BY <1>2, <1>3, <1>4, <1>5, FreeModules, FreeRows
<1>7. result = C!ModuleStatusDecision(c.actor \in admins, row, owner, c,
                 C!ActiveModules(c.track))
  BY <1>6, SameDecisions
<1>8. /\ after = IF changed THEN C!WithStatus(row, c.target) ELSE row
      /\ changed <=> result = "SUCCESS" /\ row.status # c.target
  BY SameWrites
<1> HIDE DEF actives, owner, result, changed, after
<1>9. Committed'.modules = [Committed.modules EXCEPT ![m] = after]
  BY <1>1, <1>2, <1>4, <1>6, RowsFollow
<1>10. Committed'.moduleVersions = Committed.moduleVersions
         \cup C!Snapshot(m, row, after, row.title)
  BY <1>1, <1>2, <1>6, VersionsFollow, SameWrites
<1>11. C!Record(c, C!StatusAction(c.target), "MODULE", m, result, changed)
  BY <1>1, <1>2, SameWrites DEF C!Record, Record
<1>12. UNCHANGED <<admins, Committed.tracks, Committed.items,
                   Committed.trackVersions, Committed.contentVersions,
                   Committed.orderRevision>>
  BY <1>1, <1>2, TablesFollow
<1> QED BY <1>1, <1>6, <1>7, <1>8, <1>9, <1>10, <1>11, <1>12
        DEF C!ChangeModuleStatus

LEMMA CreateModuleSeen ==
  ASSUME DeployInv, Loading, NEW c \in Commands, OtherCommand(c), CreateModule(c)
  PROVE  C!CreateModule(c)
<1> DEFINE owner == tracks[c.track]
           siblings == ModulesOf(c.track)
           position == Cardinality(siblings) + 1
           free == Insertable(modules, siblings, c.title, position)
           result == CreateDecision(c.actor \in admins, Exists(owner), c, free)
<1>1. /\ c.op = "create_module" /\ owner.moduleOrder < MaxOrder
      /\ \/ /\ result = "SUCCESS"
            /\ \E m \in {k \in Modules : ~Exists(modules[k])} :
                 /\ modules' = [modules EXCEPT
                                  ![m] = NewModule(c.track, c.title, position)]
                 /\ Record(c, "CREATE", "MODULE", m, result, TRUE)
            /\ tracks' = [tracks EXCEPT ![c.track].moduleOrder = @ + 1]
         \/ /\ result # "SUCCESS"
            /\ UNCHANGED <<tracks, modules>>
      /\ UNCHANGED <<admins, items, trackVersions, moduleVersions,
                     contentVersions, orderRevision>>
  BY DEF CreateModule
<1>2. /\ SameHeld /\ TypeOK /\ TypeOK' /\ RowsOf(c) \cap held = {}
      /\ log'.actor = c.actor => Committed'.log = log'
      /\ c \in Command /\ tables' # tables
  BY OtherFrame
<1>3. c.track \in Tracks /\ <<"track", c.track>> \notin held
  BY <1>1, <1>2, NamedRows
<1>4. result = "SUCCESS"
  <2> HIDE DEF result
  <2> QED BY <1>1, <1>2 DEF tables
<1>5. PICK m \in Modules :
        /\ ~Exists(modules[m])
        /\ modules' = [modules EXCEPT ![m] = NewModule(c.track, c.title, position)]
        /\ Record(c, "CREATE", "MODULE", m, result, TRUE)
  <2> HIDE DEF result, position
  <2> QED BY <1>1, <1>4
<1>6. /\ Committed.tracks[c.track] = owner
      /\ C!ModulesOf(c.track) = siblings
      /\ \A k \in siblings : Committed.modules[k] = modules[k]
  BY <1>2, <1>3, FreeRows, FreeModules DEF ModulesOf
<1>7. C!Insertable(Committed.modules, C!ModulesOf(c.track), c.title,
        C!Cardinality(C!ModulesOf(c.track)) + 1) = free
  <2> DEFINE n == Cardinality(siblings) + 1
  <2>1. C!Cardinality(C!ModulesOf(c.track)) + 1 = n
    BY <1>6, SameOrders
  <2> HIDE DEF n
  <2>2. C!Insertable(Committed.modules, siblings, c.title, n) =
          Insertable(modules, siblings, c.title, n)
    BY <1>6 DEF C!Insertable, Insertable
  <2> QED BY <2>1, <2>2, <1>6 DEF n
<1>8. result = C!CreateDecision(c.actor \in admins, C!Exists(owner), c,
                 C!Insertable(Committed.modules, C!ModulesOf(c.track), c.title,
                   C!Cardinality(C!ModulesOf(c.track)) + 1))
  <2> HIDE DEF free
  <2> QED BY <1>7, SameDecisions, SameWrites
<1>9. /\ <<"module", m>> \notin held /\ ~C!Exists(Committed.modules[m])
  <2>1. <<"module", m>> \notin held
    BY <1>5, PlacedExist DEF DeployInv, HeldInv
  <2> QED BY <2>1, <1>2, <1>5, FreeRows, SameWrites
<1>10. NewModule(c.track, c.title, position) =
         C!NewModule(c.track, c.title, C!Cardinality(C!ModulesOf(c.track)) + 1)
  BY <1>6, SameOrders, SameWrites
<1>11. tracks' = [tracks EXCEPT ![c.track] =
                    [owner EXCEPT !.moduleOrder = @ + 1]]
  <2> HIDE DEF result
  <2> QED BY <1>1, <1>4
<1> HIDE DEF owner, free, position, result
<1>12. Committed'.modules = [Committed.modules EXCEPT ![m] =
         C!NewModule(c.track, c.title, C!Cardinality(C!ModulesOf(c.track)) + 1)]
  BY <1>2, <1>5, <1>9, <1>10, RowsFollow
<1>13. Committed'.tracks = [Committed.tracks EXCEPT ![c.track].moduleOrder = @ + 1]
  <2>1. Committed'.tracks = [Committed.tracks EXCEPT ![c.track] =
                               [owner EXCEPT !.moduleOrder = @ + 1]]
    BY <1>2, <1>3, <1>11, RowsFollow
  <2> QED BY <2>1, <1>6
<1>14. C!Record(c, "CREATE", "MODULE", m, result, TRUE)
  BY <1>2, <1>5 DEF C!Record, Record
<1>15. UNCHANGED <<admins, Committed.items, Committed.trackVersions,
                   Committed.moduleVersions, Committed.contentVersions,
                   Committed.orderRevision>>
  BY <1>1, <1>2, TablesFollow
<1>16. Committed.tracks[c.track].moduleOrder < MaxOrder
  BY <1>1, <1>6
<1>17. m \in {k \in Modules : ~C!Exists(Committed.modules[k])}
  BY <1>9
<1> QED BY <1>1, <1>4, <1>6, <1>8, <1>12, <1>13, <1>14, <1>15, <1>16, <1>17
        DEF C!CreateModule

LEMMA MoveModuleSeen ==
  ASSUME DeployInv, Loading, NEW c \in Commands, OtherCommand(c), MoveModule(c)
  PROVE  C!MoveModule(c)
<1> DEFINE t == c.track
           siblings == ModulesOf(t)
           known == c.module \in siblings
           result == MoveDecision(c.actor \in admins, known,
                       tracks[t].moduleOrder, c, Cardinality(siblings))
           changed == /\ result = "SUCCESS"
                      /\ Displaced(modules, siblings, c.module, c.position) # {}
           after == [m \in Modules |->
                       IF changed /\ m \in siblings
                       THEN Moved(modules, siblings, c.module, c.position, m)
                       ELSE modules[m]]
<1>1. /\ c.op = "move_module" /\ tracks[t].moduleOrder < MaxOrder
      /\ \A m \in siblings : modules[m].revision < MaxRevision
      /\ modules' = after
      /\ tracks' = IF changed THEN [tracks EXCEPT ![t].moduleOrder = @ + 1]
                   ELSE tracks
      /\ Record(c, "REORDER", "MODULE", c.module, result, changed)
      /\ UNCHANGED <<admins, items, trackVersions, moduleVersions,
                     contentVersions, orderRevision>>
  BY DEF MoveModule
<1>2. /\ SameHeld /\ TypeOK /\ TypeOK' /\ RowsOf(c) \cap held = {}
      /\ log'.actor = c.actor => Committed'.log = log'
      /\ c \in Command /\ tables' # tables
  BY OtherFrame
<1>3. t \in Tracks /\ <<"track", t>> \notin held
  BY <1>1, <1>2, NamedRows
<1>4. /\ Committed.tracks[t] = tracks[t]
      /\ C!ModulesOf(t) = siblings
      /\ \A k \in siblings : /\ Committed.modules[k] = modules[k]
                             /\ <<"module", k>> \notin held
      /\ siblings \subseteq Modules
  BY <1>2, <1>3, FreeRows, FreeModules DEF ModulesOf
<1>5. changed
  <2>1. CASE ~changed
    <3>1. modules = [k \in Modules |-> modules[k]]
      BY <1>2 DEF TypeOK
    <3>2. after = modules
      <4> HIDE DEF changed
      <4> QED BY <2>1, <3>1
    <3>3. tracks' = tracks
      <4> HIDE DEF changed
      <4> QED BY <2>1, <1>1
    <3> QED BY <3>2, <3>3, <1>1, <1>2 DEF tables
  <2> QED BY <2>1
<1>6. known
  <2>1. /\ (c.actor \in admins) \in BOOLEAN /\ known \in BOOLEAN
        /\ tracks[t].moduleOrder \in Nat /\ Cardinality(siblings) \in Nat
        /\ c.rev \in Int
    BY <1>1, <1>2, <1>3, RowsFinite, CommandShapes DEF TypeOK, TrackRow, MoveModuleCmd
  <2> DEFINE order == tracks[t].moduleOrder
             n == Cardinality(siblings)
             a == c.actor \in admins
  <2>2. MoveDecision(a, known, order, c, n) = "SUCCESS" /\ a \in BOOLEAN
    BY <1>5
  <2>3. order \in Nat /\ n \in Nat
    BY <2>1
  <2> HIDE DEF order, n, a, known
  <2> QED BY <2>1, <2>2, <2>3, MoveSuccess
<1>7. /\ C!Cardinality(C!ModulesOf(t)) = Cardinality(siblings)
      /\ known <=> c.module \in C!ModulesOf(t)
  BY <1>4, SameOrders
<1>8. result = C!MoveDecision(c.actor \in admins, c.module \in C!ModulesOf(t),
                 Committed.tracks[t].moduleOrder, c,
                 C!Cardinality(C!ModulesOf(t)))
  BY <1>4, <1>7, SameDecisions
<1>9. \A k \in siblings :
        MovedPosition(Committed.modules, siblings, c.module, c.position, k) =
          MovedPosition(modules, siblings, c.module, c.position, k)
  <2>1. \A k \in siblings : Index(Committed.modules, siblings, k) =
                              Index(modules, siblings, k)
    <3> TAKE k \in siblings
    <3>1. {j \in siblings : Committed.modules[j].position <=
                              Committed.modules[k].position} =
          {j \in siblings : modules[j].position <= modules[k].position}
      BY <1>4
    <3> QED BY <3>1 DEF Index
  <2> QED BY <2>1, <1>6 DEF MovedPosition
<1>10. Displaced(Committed.modules, siblings, c.module, c.position) =
         Displaced(modules, siblings, c.module, c.position)
  BY <1>4, <1>9 DEF Displaced
<1>11. \A k \in siblings :
         Moved(Committed.modules, siblings, c.module, c.position, k) =
           Moved(modules, siblings, c.module, c.position, k)
  BY <1>4, <1>9, <1>10 DEF Moved
<1>12. /\ C!Displaced(Committed.modules, C!ModulesOf(t), c.module, c.position) # {}
       /\ result = "SUCCESS"
  BY <1>4, <1>5, <1>10, SameOrders
<1>13. Committed'.modules =
         [m \in Modules |->
            IF m \in C!ModulesOf(t)
            THEN C!Moved(Committed.modules, C!ModulesOf(t), c.module, c.position, m)
            ELSE Committed.modules[m]]
  <2> DEFINE moved(m) == Moved(modules, siblings, c.module, c.position, m)
             saw == saved.modules
  <2>1. \A m \in Modules : after[m] = IF m \in siblings THEN moved(m) ELSE modules[m]
    <3> HIDE DEF changed, moved
    <3>1. \A m \in Modules : after[m] =
            IF m \in siblings
            THEN Moved(modules, siblings, c.module, c.position, m)
            ELSE modules[m]
      BY <1>5
    <3> QED BY <3>1 DEF moved
  <2>2. Committed'.modules =
          [m \in Modules |-> IF <<"module", m>> \in held THEN saw[m] ELSE after[m]]
    BY <1>1, <1>2, CommittedAfter
  <2>3. \A m \in Modules : Committed.modules[m] =
          IF <<"module", m>> \in held THEN saw[m] ELSE modules[m]
    BY <1>2, CommittedRows
  <2>4. \A m \in siblings : moved(m) =
          C!Moved(Committed.modules, C!ModulesOf(t), c.module, c.position, m)
    BY <1>4, <1>11, SameOrders
  <2> HIDE DEF moved, after, saw
  <2>5. \A m \in Modules :
          (IF <<"module", m>> \in held THEN saw[m] ELSE after[m]) =
          IF m \in C!ModulesOf(t)
          THEN C!Moved(Committed.modules, C!ModulesOf(t), c.module, c.position, m)
          ELSE Committed.modules[m]
    BY <1>4, <2>1, <2>3, <2>4
  <2> QED BY <2>2, <2>5
<1>14. Committed'.tracks = [Committed.tracks EXCEPT ![t].moduleOrder = @ + 1]
  <2>1. tracks' = [tracks EXCEPT ![t] = [tracks[t] EXCEPT !.moduleOrder = @ + 1]]
    <3> HIDE DEF changed
    <3> QED BY <1>1, <1>5
  <2>2. Committed'.tracks = [Committed.tracks EXCEPT ![t] =
                               [tracks[t] EXCEPT !.moduleOrder = @ + 1]]
    BY <1>2, <1>3, <2>1, RowsFollow
  <2> QED BY <2>2, <1>4
<1>15. C!Record(c, "REORDER", "MODULE", c.module, result, TRUE)
  BY <1>1, <1>2, <1>5 DEF C!Record, Record
<1>16. UNCHANGED <<admins, Committed.items, Committed.trackVersions,
                   Committed.moduleVersions, Committed.contentVersions,
                   Committed.orderRevision>>
  BY <1>1, <1>2, TablesFollow
<1>17. /\ Committed.tracks[t].moduleOrder < MaxOrder
       /\ \A m \in C!ModulesOf(t) : Committed.modules[m].revision < MaxRevision
  BY <1>1, <1>4
<1> HIDE DEF result, changed, after, known, siblings
<1> QED BY <1>1, <1>8, <1>12, <1>13, <1>14, <1>15, <1>16, <1>17 DEF C!MoveModule

LEMMA CreateContentDraftSeen ==
  ASSUME DeployInv, Loading, NEW c \in Commands, OtherCommand(c),
         CreateContentDraft(c)
  PROVE  C!CreateContentDraft(c)
<1> DEFINE m == c.module
           row == modules[m]
           siblings == ItemsOf(m)
           position == Cardinality(siblings) + 1
           result == Decision(c.actor \in admins, Exists(row), c.rev, 1,
                       row.revision, Contiguous(items, siblings))
<1>1. /\ c.op = "create_content_draft" /\ row.revision < MaxRevision
      /\ result = "SUCCESS"
      /\ \E i \in {k \in Items : ~Exists(items[k])} :
           items' = [items EXCEPT ![i] = NewItem(m, position)]
      /\ modules' = [modules EXCEPT ![m].revision = @ + 1]
      /\ UNCHANGED <<admins, tracks, trackVersions, moduleVersions,
                     contentVersions, orderRevision, log>>
  BY DEF CreateContentDraft
<1>2. /\ SameHeld /\ TypeOK /\ TypeOK' /\ RowsOf(c) \cap held = {}
      /\ log' = log => Committed'.log = Committed.log
  BY OtherFrame
<1>3. m \in Modules /\ <<"module", m>> \notin held
  BY <1>1, <1>2, NamedRows
<1>4. /\ Committed.modules[m] = row
      /\ C!ItemsOf(m) = siblings
      /\ \A i \in siblings : Committed.items[i] = items[i]
  BY <1>2, <1>3, FreeRows, FreeItems DEF ItemsOf
<1>5. C!Contiguous(Committed.items, C!ItemsOf(m)) = Contiguous(items, siblings)
  <2>1. {Committed.items[k].position : k \in siblings} =
          {items[k].position : k \in siblings}
    BY <1>4
  <2>2. Contiguous(Committed.items, siblings) <=> Contiguous(items, siblings)
    BY <2>1, <1>4 DEF Contiguous
  <2>3. /\ Contiguous(Committed.items, siblings) \in BOOLEAN
        /\ Contiguous(items, siblings) \in BOOLEAN
    BY DEF Contiguous
  <2> QED BY <2>2, <2>3, <1>4, SameOrders
<1>6. result = C!Decision(c.actor \in admins, C!Exists(row), c.rev, 1,
                 row.revision, C!Contiguous(Committed.items, C!ItemsOf(m)))
  BY <1>5, SameDecisions, SameWrites
<1>7. PICK i \in Items : /\ ~Exists(items[i])
                         /\ items' = [items EXCEPT ![i] = NewItem(m, position)]
  <2> HIDE DEF result, position
  <2> QED BY <1>1
<1>8. /\ <<"item", i>> \notin held
      /\ i \in {k \in Items : ~C!Exists(Committed.items[k])}
  <2>1. <<"item", i>> \notin held
    BY <1>7, PlacedExist DEF DeployInv, HeldInv
  <2> QED BY <2>1, <1>2, <1>7, FreeRows, SameWrites
<1>9. NewItem(m, position) = C!NewItem(m, C!Cardinality(C!ItemsOf(m)) + 1)
  BY <1>4, SameOrders, SameWrites
<1> HIDE DEF position, result
<1>10. Committed'.items = [Committed.items EXCEPT ![i] =
                             C!NewItem(m, C!Cardinality(C!ItemsOf(m)) + 1)]
  BY <1>2, <1>7, <1>8, <1>9, RowsFollow
<1>11. Committed'.modules = [Committed.modules EXCEPT ![m].revision = @ + 1]
  <2>1. modules' = [modules EXCEPT ![m] = [row EXCEPT !.revision = @ + 1]]
    BY <1>1
  <2>2. Committed'.modules = [Committed.modules EXCEPT ![m] =
                                [row EXCEPT !.revision = @ + 1]]
    BY <1>2, <1>3, <2>1, RowsFollow
  <2> QED BY <2>2, <1>4
<1>12. UNCHANGED <<admins, Committed.tracks, Committed.trackVersions,
                   Committed.moduleVersions, Committed.contentVersions,
                   Committed.orderRevision, Committed.log>>
  BY <1>1, <1>2, TablesFollow
<1>13. Committed.modules[m].revision < MaxRevision
  BY <1>1, <1>4
<1> QED BY <1>1, <1>4, <1>6, <1>8, <1>10, <1>11, <1>12, <1>13
        DEF C!CreateContentDraft

LEMMA PublishContentItemSeen ==
  ASSUME DeployInv, Loading, NEW c \in Commands, OtherCommand(c),
         PublishContentItem(c)
  PROVE  C!PublishContentItem(c)
<1> DEFINE i == c.item
           row == items[i]
<1>1. /\ c.op = "publish_content_item" /\ row.revision < MaxRevision
      /\ Decision(c.actor \in admins, Exists(row), c.rev, 1, row.revision,
                  c.ok) = "SUCCESS"
      /\ items' = [items EXCEPT ![i] = Published(row)]
      /\ contentVersions' = contentVersions
           \cup Snapshot(i, row, Published(row), c.title)
      /\ UNCHANGED <<admins, tracks, modules, trackVersions, moduleVersions,
                     orderRevision, log>>
  BY DEF PublishContentItem
<1>2. /\ SameHeld /\ TypeOK /\ TypeOK' /\ RowsOf(c) \cap held = {}
      /\ log' = log => Committed'.log = Committed.log
  BY OtherFrame
<1>3. i \in Items /\ <<"item", i>> \notin held
  BY <1>1, <1>2, NamedRows
<1>4. Committed.items[i] = row
  BY <1>2, <1>3, FreeRows
<1>5. C!Decision(c.actor \in admins, C!Exists(row), c.rev, 1, row.revision,
                 c.ok) = "SUCCESS"
  BY <1>1, SameDecisions, SameWrites
<1>6. Committed'.items = [Committed.items EXCEPT ![i] = C!Published(row)]
  BY <1>1, <1>2, <1>3, RowsFollow, SameWrites
<1>7. Committed'.contentVersions = Committed.contentVersions
        \cup C!Snapshot(i, row, C!Published(row), c.title)
  BY <1>1, <1>2, <1>3, VersionsFollow, SameWrites
<1>8. UNCHANGED <<admins, Committed.tracks, Committed.modules,
                  Committed.trackVersions, Committed.moduleVersions,
                  Committed.orderRevision, Committed.log>>
  BY <1>1, <1>2, TablesFollow
<1> QED BY <1>1, <1>4, <1>5, <1>6, <1>7, <1>8 DEF C!PublishContentItem

\* The others never work on a stale catalog: while a load runs, a command of
\* somebody else does to the committed catalog what it says.
LEMMA OtherSeen ==
  ASSUME DeployInv, Loading, NEW c \in Commands, OtherCommand(c)
  PROVE  C!Execute(c)
<1>1. Execute(c)
  BY DEF OtherCommand
<1>2. /\ RowsOf(c) \cap held = {} /\ <<"state", 1>> \in held
  BY OtherFrame DEF DeployInv, HeldInv
<1>3. c.op \notin {"create_track", "move_track"}
  BY <1>2, NamedRows
<1>4. ~CreateTrack(c) /\ ~MoveTrack(c)
  BY <1>3 DEF CreateTrack, MoveTrack
<1> QED BY <1>1, <1>4, EditTrackSeen, ChangeTrackStatusSeen, CreateModuleSeen,
           EditModuleSeen, ChangeModuleStatusSeen, MoveModuleSeen,
           CreateContentDraftSeen, PublishContentItemSeen
        DEF Execute, C!Execute

\* A new item is in a module that the load does not hold.
LEMMA OtherItems ==
  ASSUME DeployInv, NEW c \in Commands, OtherCommand(c)
  PROVE  \A i \in Items : \/ items'[i].module = items[i].module
                          \/ /\ items'[i].module \in Modules
                             /\ <<"module", items'[i].module>> \notin held
<1>1. Execute(c) /\ TypeOK /\ RowsOf(c) \cap held = {}
  BY OtherFrame DEF OtherCommand
<1>2. DOMAIN items = Items
  BY <1>1, TableDomains
<1>3. CASE CreateContentDraft(c)
  <2>1. c.module \in Modules /\ <<"module", c.module>> \notin held
    BY <1>1, <1>3, NamedRows DEF CreateContentDraft
  <2>2. PICK k, p :
          k \in Items /\ items' = [items EXCEPT ![k] = NewItem(c.module, p)]
    BY <1>3 DEF CreateContentDraft
  <2>3. NewItem(c.module, Cardinality(ItemsOf(c.module)) + 1).module = c.module
    BY DEF NewItem
  <2>4. items'[k].module = c.module
    BY <2>2, <1>2 DEF NewItem
  <2> QED BY <2>1, <2>2, <2>4, <1>2
<1>4. CASE PublishContentItem(c)
  <2>1. c.item \in Items
    BY <1>1, <1>4, NamedRows DEF PublishContentItem
  <2>2. items' = [items EXCEPT ![c.item] = Published(items[c.item])]
    BY <1>4 DEF PublishContentItem
  <2>3. items[c.item] \in ItemRow
    BY <1>1, <2>1 DEF TypeOK
  <2>4. Published(items[c.item]).module = items[c.item].module
    BY <2>3 DEF Published, ItemRow
  <2> QED BY <2>1, <2>2, <2>4, <1>2
<1>5. CASE items' = items
  BY <1>5
<1> QED BY <1>1, <1>3, <1>4, <1>5
        DEF Execute, CreateTrack, EditTrack, ChangeTrackStatus, MoveTrack,
            CreateModule, EditModule, ChangeModuleStatus, MoveModule

\* No load runs: the catalog keeps its rules, and there is nothing else.
LEMMA IdleKept ==
  ASSUME DeployInv, ~Loading, CatalogInv', UNCHANGED jobVars
  PROVE  DeployInv' /\ CommittedTables'
<1>1. /\ job' = job /\ held' = held /\ saved' = saved
      /\ JobInv /\ HeldInv /\ SavedInv
  BY DEF DeployInv, jobVars
<1>2. job.pc = "idle" /\ job'.pc = "idle" /\ ~Loading'
  BY <1>1 DEF Loading
<1>3. held' = {} /\ saved' = NothingSaved
  BY <1>1 DEF HeldInv
<1>4. WhenIdle!1' /\ WhenIdle!2' /\ (CatalogInv => TypeOK)'
  BY WhenIdle, CatalogInvRules, PTL
<1>5. CommittedTables' /\ C!CatalogInv'
  BY <1>2, <1>3, <1>4
<1>6. JobInv'
  <2>1. /\ "idle" \notin InTrack /\ "idle" \notin InModule /\ "idle" \notin InUnits
    BY DEF InTrack, InModule, InUnits
  <2> QED BY <1>1, <1>2, <2>1 DEF JobInv
<1>7. HeldInv'
  BY <1>2, <1>3 DEF HeldInv
<1>8. SavedInv'
  BY <1>2, <1>3, <1>5 DEF SavedInv, CommittedTables
<1> QED BY <1>5, <1>6, <1>7, <1>8 DEF DeployInv

LEMMA OtherCommandKept ==
  ASSUME DeployInv, NEW c \in Commands, OtherCommand(c)
  PROVE  DeployInv'
<1>1. /\ SameHeld /\ CatalogInv' /\ RowsRemain /\ TypeOK /\ TypeOK'
      /\ c \in Command /\ JobInv /\ HeldInv /\ SavedInv /\ C!CatalogInv
  BY OtherFrame DEF DeployInv
<1>2. job' = job /\ held' = held
  BY <1>1 DEF SameHeld
<1>3. CASE ~Loading
  <2>1. log' # log /\ Loading => FALSE
    BY <1>3
  <2>2. UNCHANGED jobVars
    BY <1>2, <1>3 DEF OtherCommand, jobVars
  <2> QED BY <1>1, <1>3, <2>2, IdleKept
<1>4. CASE Loading
  <2>1. C!CatalogInv'
    <3>1. C!Execute(c)
      BY <1>4, OtherSeen
    <3>2. c \in C!Command
      BY <1>1, SameCommands
    <3> QED BY <1>1, <3>1, <3>2, C!CatalogInvKept, SameAssumptions
  <2>2. Loading'
    BY <1>2, <1>4 DEF Loading
  <2>3. JobInv'
    <3>1. held \subseteq held'
      BY <1>2
    <3>2. /\ job.pc \in InTrack =>
               /\ job.track \in Tracks /\ Exists(tracks'[job.track])
               /\ <<"track", job.track>> \in held'
          /\ job.pc = "settle track" /\ job.track # NoOwner =>
               /\ job.track \in Tracks /\ Exists(tracks'[job.track])
               /\ <<"track", job.track>> \in held'
          /\ job.pc \in InModule =>
               /\ job.module \in Modules /\ modules'[job.module].track = job.track
               /\ <<"module", job.module>> \in held'
      BY <1>1, <3>1, PlaceStays
    <3>3. job.pc \in InUnits => job.pc \in InModule
      BY DEF InUnits, InModule
    <3>4. job.pc \in InUnits =>
            \A i \in Items : items'[i].module = job.module => <<"item", i>> \in held'
      BY <1>1, <1>2, <3>2, <3>3, OtherItems DEF JobInv
    <3>5. /\ job \in [pc: PCs, corpus: Documents \cup {<<>>}, def: Nat, unit: Nat,
                      track: Tracks \cup {NoOwner}, module: Modules \cup {NoOwner},
                      outcome: {"NONE", "LOADED", "CONFLICT", "ABORTED"}]
          /\ job.corpus \in Documents /\ Accepted(job.corpus)
          /\ job.def \in DOMAIN job.corpus /\ job.unit \in DOMAIN Units
      BY <1>1, <1>4 DEF JobInv
    <3>6. Units' = Units
      BY <1>2 DEF Units, Def
    <3> QED BY <1>2, <3>2, <3>4, <3>5, <3>6 DEF JobInv
  <2>4. HeldInv'
    BY <1>1, <1>2, <1>4, <2>2, HeldStays
  <2>5. /\ \A t \in Tracks : <<"track", t>> \in held =>
             Committed'.tracks[t] = Committed.tracks[t]
        /\ \A m \in Modules : <<"module", m>> \in held =>
             Committed'.modules[m] = Committed.modules[m]
        /\ \A i \in Items : <<"item", i>> \in held =>
             Committed'.items[i] = Committed.items[i]
    BY <1>1, <1>4, CommittedAfter, CommittedRows
  <2>6. /\ \A t \in Tracks : <<"track", t>> \notin held =>
             Committed'.tracks[t] = tracks'[t]
        /\ \A m \in Modules : <<"module", m>> \notin held =>
             Committed'.modules[m] = modules'[m]
        /\ \A i \in Items : <<"item", i>> \notin held =>
             Committed'.items[i] = items'[i]
    BY <1>1, <1>4, CommittedAfter
  <2>7. \A t \in Tracks : Exists(Committed'.tracks[t]) => Exists(tracks'[t])
    BY <1>1, <2>5, <2>6 DEF SavedInv, RowsRemain
  <2>8. \A m \in Modules : Exists(Committed'.modules[m]) =>
          Exists(modules'[m]) /\ Committed'.modules[m].track = modules'[m].track
    BY <1>1, <2>5, <2>6 DEF SavedInv, RowsRemain
  <2>9. \A i \in Items : Exists(Committed'.items[i]) =>
          Exists(items'[i]) /\ Committed'.items[i].module = items'[i].module
    BY <1>1, <2>5, <2>6 DEF SavedInv, RowsRemain
  <2>10. log'.actor # Author => Committed'.log = log'
    <3>1. CASE log' # log
      BY <3>1, <1>4, OtherFrame
    <3>2. CASE log' = log
      BY <3>2, <1>1, <1>4, OtherFrame DEF SavedInv
    <3> QED BY <3>1, <3>2
  <2>11. DOMAIN saved' = DOMAIN NothingSaved
    BY <1>1 DEF OtherCommand, SavedInv
  <2>12. SavedInv'
    BY <2>7, <2>8, <2>9, <2>10, <2>11 DEF SavedInv, Exists, NothingSaved, NoLog
  <2> QED BY <1>1, <2>1, <2>3, <2>4, <2>12 DEF DeployInv
<1> QED BY <1>3, <1>4

LEMMA OtherRoleKept ==
  ASSUME DeployInv, NEW a \in Accounts, OtherRole(a)
  PROVE  DeployInv' /\ UNCHANGED Committed
<1>1. /\ ChangeContentRole(a) /\ UNCHANGED <<job, held, saved>>
  BY DEF OtherRole, jobVars
<1>2. /\ UNCHANGED <<tracks, modules, items, trackVersions, moduleVersions,
                     contentVersions, orderRevision, log>>
      /\ CatalogInv /\ C!CatalogInv /\ TypeOK
  BY <1>1, CatalogInvRules DEF DeployInv, ChangeContentRole
<1>3. admins' \subseteq Accounts
  BY <1>1, <1>2 DEF TypeOK, ChangeContentRole
<1>4. Committed' = Committed
  BY <1>1, <1>2 DEF Committed, Shared, SharedVersions, Loading
<1>5. CatalogInv'
  BY <1>2, <1>3, CatalogInvFrame
<1>6. C!CatalogInv'
  BY <1>2, <1>3, <1>4, C!CatalogInvFrame, SameAssumptions
<1>7. JobInv' /\ HeldInv' /\ SavedInv'
  BY <1>1, <1>2, <1>4
     DEF DeployInv, JobInv, HeldInv, SavedInv, Loading, Units, Def
<1> QED BY <1>4, <1>5, <1>6, <1>7 DEF DeployInv

LEMMA DeployStutter ==
  ASSUME DeployInv, UNCHANGED deployVars
  PROVE  DeployInv' /\ UNCHANGED Committed
<1>1. /\ UNCHANGED <<job, held, saved>> /\ UNCHANGED vars
  BY DEF deployVars, jobVars
<1>2. /\ UNCHANGED <<tracks, modules, items, trackVersions, moduleVersions,
                     contentVersions, orderRevision, log, admins>>
      /\ CatalogInv /\ C!CatalogInv /\ TypeOK
  BY <1>1, CatalogInvRules DEF DeployInv, vars
<1>3. admins' \subseteq Accounts
  BY <1>2 DEF TypeOK
<1>4. Committed' = Committed
  BY <1>1, <1>2 DEF Committed, Shared, SharedVersions, Loading
<1>5. CatalogInv'
  BY <1>2, <1>3, CatalogInvFrame
<1>6. C!CatalogInv'
  BY <1>2, <1>3, <1>4, C!CatalogInvFrame, SameAssumptions
<1>7. JobInv' /\ HeldInv' /\ SavedInv'
  BY <1>1, <1>2, <1>4
     DEF DeployInv, JobInv, HeldInv, SavedInv, Loading, Units, Def
<1> QED BY <1>4, <1>5, <1>6, <1>7 DEF DeployInv

-----------------------------------------------------------------------------
(* seed_demo. It writes the tables without the services, so that what the  *)
(* services keep has to be shown of it anew, one demonstration track after  *)
(* the other.                                                               *)

TrackTable(rows, versions) ==
  /\ rows \in [Tracks -> TrackRow] /\ versions \subseteq VersionRow(Tracks)
  /\ \A t \in Tracks : Exists(rows[t]) => rows[t].title \in Titles
  /\ \A t \in Tracks : ~Exists(rows[t]) =>
       rows[t].revision = 0 /\ rows[t].published = 0
  /\ Contiguous(rows, {t \in Tracks : Exists(rows[t])})
  /\ Numbered(rows, versions)

ModuleTable(rows, versions) ==
  /\ rows \in [Modules -> ModuleRow] /\ versions \subseteq VersionRow(Modules)
  /\ \A m \in Modules : rows[m].track \in Tracks => rows[m].title \in Titles
  /\ \A m \in Modules : ~Exists(rows[m]) =>
       rows[m].revision = 0 /\ rows[m].published = 0 /\ rows[m].track = NoOwner
  /\ \A t \in Tracks : Contiguous(rows, {m \in Modules : rows[m].track = t})
  /\ Numbered(rows, versions)

ItemTable(rows, versions) ==
  /\ rows \in [Items -> ItemRow] /\ versions \subseteq VersionRow(Items)
  /\ \A i \in Items : ~Exists(rows[i]) =>
       rows[i].revision = 0 /\ rows[i].published = 0 /\ rows[i].module = NoOwner
  /\ \A m \in Modules : Contiguous(rows, {i \in Items : rows[i].module = m})
  /\ Numbered(rows, versions)

ActiveHasActive(trackRows, moduleRows) ==
  \A t \in Tracks : trackRows[t].status = "ACTIVE" =>
    \E m \in Modules : moduleRows[m].track = t /\ moduleRows[m].status = "ACTIVE"

TablesInv(s) ==
  /\ TrackTable(s.tracks, s.trackVersions)
  /\ ModuleTable(s.modules, s.moduleVersions)
  /\ ItemTable(s.items, s.contentVersions)
  /\ ActiveHasActive(s.tracks, s.modules)

\* The next position is the one that a new row of a sequence must have.
LEMMA NextIsLast ==
  ASSUME NEW rows, NEW keys, IsFiniteSet(keys), Contiguous(rows, keys)
  PROVE  NextPosition(rows, keys) = Cardinality(keys) + 1
<1> DEFINE n == Cardinality(keys)
           S == {0} \cup {rows[k].position : k \in keys}
<1>1. n \in Nat
  BY FS_CardinalityType
<1>2. {rows[k].position : k \in keys} = 1..n
  BY DEF Contiguous
<1>3. n \in S /\ \A y \in S : y \in Int /\ y <= n
  BY <1>1, <1>2
<1> HIDE DEF n, S
<1>4. \A x \in S : (\A y \in S : x >= y) => x = n
  BY <1>1, <1>3
<1>5. n \in S /\ \A y \in S : n >= y
  BY <1>1, <1>3
<1>6. Max(S) = n
  BY <1>4, <1>5 DEF Max
<1> QED BY <1>6 DEF NextPosition, n, S

\* Repairing a row gives it version 1 if it had none, and no other number.
LEMMA FirstVersion ==
  ASSUME NEW keys, NEW rows, DOMAIN rows = keys,
         \A j \in keys : rows[j].published \in Nat,
         NEW versions, \A v \in versions : v.of \in keys,
         Numbered(rows, versions), NEW k \in keys, NEW row, NEW title,
         row.published = IF rows[k].published < 1 THEN 1 ELSE rows[k].published
  PROVE  /\ Numbered([rows EXCEPT ![k] = row], WithFirstVersion(versions, k, title))
         /\ versions \subseteq WithFirstVersion(versions, k, title)
<1> DEFINE new == [rows EXCEPT ![k] = row]
           first == [of |-> k, number |-> 1, title |-> title]
           all == WithFirstVersion(versions, k, title)
<1>1. DOMAIN new = keys /\ new[k] = row /\ \A j \in keys \ {k} : new[j] = rows[j]
  OBVIOUS
<1>2. CASE rows[k].published < 1
  <2>1. rows[k].published = 0 /\ row.published = 1
    BY <1>2
  <2>2. \A v \in versions : v.of # k
    BY <2>1 DEF Numbered
  <2>3. all = versions \cup {first}
    BY <2>2 DEF WithFirstVersion
  <2>4. first.of = k /\ first.number = 1
    OBVIOUS
  <2> HIDE DEF new, first, all
  <2>5. \A v \in all : v.number \in 1..new[v.of].published
    <3>1. \A v \in versions : new[v.of] = rows[v.of]
      BY <1>1, <2>2
    <3> QED BY <1>1, <2>1, <2>3, <2>4, <3>1 DEF Numbered
  <2>6. \A v, w \in all : v.of = w.of /\ v.number = w.number => v = w
    BY <2>2, <2>3, <2>4 DEF Numbered
  <2>7. ASSUME NEW j \in keys, NEW n \in 1..new[j].published
        PROVE  \E v \in all : v.of = j /\ v.number = n
    <3>1. CASE j = k
      <4>1. n = 1
        BY <1>1, <2>1, <3>1
      <4> QED BY <2>3, <2>4, <3>1, <4>1
    <3>2. CASE j # k
      BY <1>1, <2>3, <3>2 DEF Numbered
    <3> QED BY <3>1, <3>2
  <2>8. Numbered(new, all)
    BY <1>1, <2>5, <2>6, <2>7 DEF Numbered
  <2> QED BY <2>3, <2>8 DEF new, all
<1>3. CASE ~(rows[k].published < 1)
  <2>1. row.published = rows[k].published /\ 1 \in 1..rows[k].published
    BY <1>3
  <2>2. \E v \in versions : v.of = k /\ v.number = 1
    BY <2>1 DEF Numbered
  <2>3. all = versions
    BY <2>2 DEF WithFirstVersion
  <2>4. \A j \in keys : new[j].published = rows[j].published
    BY <1>1, <2>1
  <2> HIDE DEF new, all
  <2>5. Numbered(new, versions)
    BY <1>1, <2>4 DEF Numbered
  <2> QED BY <2>3, <2>5 DEF new, all
<1> QED BY <1>2, <1>3

\* A laboratory more changes a text, and no number.
LEMMA LabNumbered ==
  ASSUME NEW rows, NEW versions, NEW key,
         versions \subseteq VersionRow(Items), Numbered(rows, versions)
  PROVE  /\ Numbered(rows, WithLab(versions, key))
         /\ WithLab(versions, key) \subseteq VersionRow(Items)
<1> DEFINE F == [v \in versions |->
                   IF v.of = key /\ v.number = 1
                   THEN [v EXCEPT !.title = Completed(@)] ELSE v]
<1>1. \A v \in versions : /\ F[v] \in VersionRow(Items)
                          /\ F[v].of = v.of /\ F[v].number = v.number
  <2> TAKE v \in versions
  <2>1. v \in VersionRow(Items) /\ Completed(v.title) \in Titles
    BY DeploymentAssumption DEF VersionRow
  <2>2. [v EXCEPT !.title = Completed(@)] =
          [v EXCEPT !.title = Completed(v.title)]
    OBVIOUS
  <2> QED BY <2>1 DEF VersionRow
<1>2. WithLab(versions, key) = {F[v] : v \in versions}
  BY DEF WithLab
<1> HIDE DEF F
<1>3. \A v \in WithLab(versions, key) : v.number \in 1..rows[v.of].published
  BY <1>1, <1>2 DEF Numbered
<1>4. \A v, w \in WithLab(versions, key) :
        v.of = w.of /\ v.number = w.number => v = w
  BY <1>1, <1>2 DEF Numbered
<1>5. \A k \in DOMAIN rows : \A n \in 1..rows[k].published :
        \E v \in WithLab(versions, key) : v.of = k /\ v.number = n
  BY <1>1, <1>2 DEF Numbered
<1> QED BY <1>1, <1>2, <1>3, <1>4, <1>5 DEF Numbered

\* A repaired or new track takes its place after the others.
LEMMA TrackRepaired ==
  ASSUME NEW rows, NEW versions, TrackTable(rows, versions), NEW t \in Tracks,
         NEW text \in Titles, NEW row,
         row = IF Exists(rows[t]) THEN rows[t]
               ELSE NewTrack(text,
                      NextPosition(rows, {k \in Tracks : Exists(rows[k])}))
  PROVE  /\ TrackTable([rows EXCEPT ![t] = Repaired(row, "ACTIVE")],
                       WithFirstVersion(versions, t,
                         Repaired(row, "ACTIVE").title))
         /\ Repaired(row, "ACTIVE").status = "ACTIVE"
<1> DEFINE used == {k \in Tracks : Exists(rows[k])}
           after == Repaired(row, "ACTIVE")
           new == [rows EXCEPT ![t] = after]
           n == Cardinality(used)
<1>1. IsFiniteSet(used) /\ n \in Nat
  <2>1. IsFiniteSet(used)
    BY CatalogKeysAssumption, FS_Subset
  <2> QED BY <2>1, FS_CardinalityType
<1>2. NextPosition(rows, used) = n + 1
  BY <1>1, NextIsLast DEF TrackTable
<1>3. row \in TrackRow /\ row.title \in Titles
  <2>1. CASE Exists(rows[t])
    BY <2>1 DEF TrackTable
  <2>2. CASE ~Exists(rows[t])
    <3>1. row = NewTrack(text, n + 1) /\ n + 1 \in Nat
      BY <1>1, <1>2, <2>2
    <3> HIDE DEF n
    <3> QED BY <3>1 DEF NewTrack, TrackRow, Status
  <2> QED BY <2>1, <2>2
<1>4. /\ after \in TrackRow /\ after.status = "ACTIVE"
      /\ after.title = row.title /\ after.position = row.position
      /\ after.published = IF row.published < 1 THEN 1 ELSE row.published
  BY <1>3 DEF Repaired, TrackRow, Status
<1>5. after.published = IF rows[t].published < 1 THEN 1 ELSE rows[t].published
  <2>1. CASE Exists(rows[t])
    BY <1>4, <2>1
  <2>2. CASE ~Exists(rows[t])
    <3>1. row.published = 0 /\ rows[t].published = 0
      BY <2>2 DEF NewTrack, TrackTable
    <3> QED BY <1>4, <3>1
  <2> QED BY <2>1, <2>2
<1>6. rows \in [Tracks -> TrackRow] /\ DOMAIN rows = Tracks
  BY DEF TrackTable
<1> DEFINE all == WithFirstVersion(versions, t, after.title)
<1>7. Numbered(new, all)
  <2>1. \A j \in Tracks : rows[j].published \in Nat
    BY <1>6 DEF TrackRow
  <2>2. \A v \in versions : v.of \in Tracks
    BY DEF TrackTable, VersionRow
  <2>3. Numbered(rows, versions)
    BY DEF TrackTable
  <2> DEFINE title == after.title
  <2> HIDE DEF after, title
  <2>4. Numbered([rows EXCEPT ![t] = after],
                 WithFirstVersion(versions, t, title))
    BY <1>5, <1>6, <2>1, <2>2, <2>3, FirstVersion
  <2> QED BY <2>4 DEF title
<1>8. all \subseteq VersionRow(Tracks)
  <2>1. [of |-> t, number |-> 1, title |-> after.title] \in VersionRow(Tracks)
    BY <1>3, <1>4 DEF VersionRow
  <2>2. versions \subseteq VersionRow(Tracks)
    BY DEF TrackTable
  <2> HIDE DEF after
  <2> QED BY <2>1, <2>2 DEF WithFirstVersion
<1> HIDE DEF after, all
<1>9. new \in [Tracks -> TrackRow] /\ new[t] = after
      /\ \A k \in Tracks \ {t} : new[k] = rows[k]
  BY <1>4, <1>6
<1>10. Exists(after)
  BY <1>4 DEF Exists
<1>11. Contiguous(new, {k \in Tracks : Exists(new[k])})
  <2>1. {k \in Tracks : Exists(new[k])} = used \cup {t}
    BY <1>9, <1>10
  <2>2. CASE Exists(rows[t])
    <3>1. used \cup {t} = used
      BY <2>2
    <3>2. \A k \in used : new[k].position = rows[k].position
      BY <1>4, <1>9, <2>2
    <3> HIDE DEF new, used
    <3>3. Contiguous(rows, used)
      BY DEF TrackTable, used
    <3> QED BY <2>1, <3>1, <3>2, <3>3, StayContiguous
  <2>3. CASE ~Exists(rows[t])
    <3>1. t \notin used /\ \A k \in used : new[k].position = rows[k].position
      BY <1>9, <2>3
    <3>2. new[t].position = n + 1
      BY <1>2, <1>4, <1>9, <2>3 DEF NewTrack
    <3> HIDE DEF new, used
    <3>3. Contiguous(rows, used)
      BY DEF TrackTable, used
    <3> QED BY <1>1, <2>1, <3>1, <3>2, <3>3, AppendKeepsContiguous
  <2> QED BY <2>2, <2>3
<1>12. \A k \in Tracks : Exists(new[k]) => new[k].title \in Titles
  BY <1>3, <1>4, <1>9 DEF TrackTable
<1>13. \A k \in Tracks : ~Exists(new[k]) =>
         new[k].revision = 0 /\ new[k].published = 0
  BY <1>9, <1>10 DEF TrackTable
<1>14. TrackTable(new, all)
  BY <1>7, <1>8, <1>9, <1>11, <1>12, <1>13 DEF TrackTable
<1> QED BY <1>4, <1>14 DEF after, all

LEMMA ModuleRepaired ==
  ASSUME NEW rows, NEW versions, ModuleTable(rows, versions), NEW m \in Modules,
         NEW t \in Tracks, Exists(rows[m]) => rows[m].track = t,
         NEW text \in Titles, NEW row,
         row = IF Exists(rows[m]) THEN rows[m]
               ELSE NewModule(t, text,
                      NextPosition(rows, {k \in Modules : rows[k].track = t}))
  PROVE  /\ ModuleTable([rows EXCEPT ![m] = Repaired(row, "ACTIVE")],
                        WithFirstVersion(versions, m,
                          Repaired(row, "ACTIVE").title))
         /\ Repaired(row, "ACTIVE").status = "ACTIVE"
         /\ Repaired(row, "ACTIVE").track = t
<1> DEFINE siblings == {k \in Modules : rows[k].track = t}
           after == Repaired(row, "ACTIVE")
           new == [rows EXCEPT ![m] = after]
           n == Cardinality(siblings)
<1>1. IsFiniteSet(siblings) /\ n \in Nat
  <2>1. IsFiniteSet(siblings)
    BY CatalogKeysAssumption, FS_Subset
  <2> QED BY <2>1, FS_CardinalityType
<1>2. NextPosition(rows, siblings) = n + 1
  BY <1>1, NextIsLast DEF ModuleTable
<1>3. row \in ModuleRow /\ row.title \in Titles /\ row.track = t
  <2>1. CASE Exists(rows[m])
    BY <2>1 DEF ModuleTable
  <2>2. CASE ~Exists(rows[m])
    <3>1. row = NewModule(t, text, n + 1) /\ n + 1 \in Nat
      BY <1>1, <1>2, <2>2
    <3> HIDE DEF n
    <3> QED BY <3>1 DEF NewModule, ModuleRow, Status
  <2> QED BY <2>1, <2>2
<1>4. /\ after \in ModuleRow /\ after.status = "ACTIVE" /\ after.track = t
      /\ after.title = row.title /\ after.position = row.position
      /\ after.published = IF row.published < 1 THEN 1 ELSE row.published
  BY <1>3 DEF Repaired, ModuleRow, Status
<1>5. after.published = IF rows[m].published < 1 THEN 1 ELSE rows[m].published
  <2>1. CASE Exists(rows[m])
    BY <1>4, <2>1
  <2>2. CASE ~Exists(rows[m])
    <3>1. row.published = 0 /\ rows[m].published = 0
      BY <2>2 DEF NewModule, ModuleTable
    <3> QED BY <1>4, <3>1
  <2> QED BY <2>1, <2>2
<1>6. rows \in [Modules -> ModuleRow] /\ DOMAIN rows = Modules
  BY DEF ModuleTable
<1> DEFINE all == WithFirstVersion(versions, m, after.title)
<1>7. Numbered(new, all)
  <2>1. \A j \in Modules : rows[j].published \in Nat
    BY <1>6 DEF ModuleRow
  <2>2. \A v \in versions : v.of \in Modules
    BY DEF ModuleTable, VersionRow
  <2>3. Numbered(rows, versions)
    BY DEF ModuleTable
  <2> DEFINE title == after.title
  <2> HIDE DEF after, title
  <2>4. Numbered([rows EXCEPT ![m] = after],
                 WithFirstVersion(versions, m, title))
    BY <1>5, <1>6, <2>1, <2>2, <2>3, FirstVersion
  <2> QED BY <2>4 DEF title
<1>8. all \subseteq VersionRow(Modules)
  <2>1. [of |-> m, number |-> 1, title |-> after.title] \in VersionRow(Modules)
    BY <1>3, <1>4 DEF VersionRow
  <2>2. versions \subseteq VersionRow(Modules)
    BY DEF ModuleTable
  <2> HIDE DEF after
  <2> QED BY <2>1, <2>2 DEF WithFirstVersion
<1> HIDE DEF after, all
<1>9. new \in [Modules -> ModuleRow] /\ new[m] = after
      /\ \A k \in Modules \ {m} : new[k] = rows[k]
  BY <1>4, <1>6
<1>10. Exists(after)
  BY <1>4 DEF Exists
<1>11. ASSUME NEW u \in Tracks
       PROVE  Contiguous(new, {k \in Modules : new[k].track = u})
  <2> DEFINE others == {k \in Modules : rows[k].track = u}
  <2>1. Contiguous(rows, others)
    BY DEF ModuleTable
  <2>2. CASE u = t /\ ~Exists(rows[m])
    <3>1. m \notin siblings /\ \A k \in siblings : new[k].position = rows[k].position
      BY <1>9, <2>2, CatalogKeysAssumption DEF ModuleTable
    <3>2. new[m].position = n + 1
      BY <1>2, <1>4, <1>9, <2>2 DEF NewModule
    <3>3. {k \in Modules : new[k].track = u} = siblings \cup {m}
      BY <1>4, <1>9, <2>2
    <3>4. Contiguous(rows, siblings)
      BY <2>1, <2>2
    <3> HIDE DEF new, siblings
    <3> QED BY <1>1, <3>1, <3>2, <3>3, <3>4, AppendKeepsContiguous
  <2>3. CASE ~(u = t /\ ~Exists(rows[m]))
    <3>1. m \in others => u = t
      BY <2>3, CatalogKeysAssumption DEF ModuleTable
    <3>2. {k \in Modules : new[k].track = u} = others
      BY <1>3, <1>4, <1>9, <2>3, <3>1
    <3>3. \A k \in others : new[k].position = rows[k].position
      BY <1>4, <1>9, <2>3, <3>1
    <3> HIDE DEF new, others
    <3> QED BY <2>1, <3>2, <3>3, StayContiguous
  <2> QED BY <2>2, <2>3
<1>12. \A k \in Modules : new[k].track \in Tracks => new[k].title \in Titles
  BY <1>3, <1>4, <1>9 DEF ModuleTable
<1>13. \A k \in Modules : ~Exists(new[k]) =>
         new[k].revision = 0 /\ new[k].published = 0 /\ new[k].track = NoOwner
  BY <1>9, <1>10 DEF ModuleTable
<1>14. ModuleTable(new, all)
  BY <1>7, <1>8, <1>9, <1>11, <1>12, <1>13 DEF ModuleTable
<1> QED BY <1>4, <1>14 DEF after, all

\* The first item of a module is found, or the module has none.
LEMMA ItemRepaired ==
  ASSUME NEW rows, NEW versions, ItemTable(rows, versions), NEW i \in Items,
         NEW m \in Modules, Exists(rows[i]) => rows[i].module = m,
         ~Exists(rows[i]) =>
           \A k \in Items : rows[k].module = m => rows[k].position # 1,
         NEW text \in Titles, NEW row,
         row = IF Exists(rows[i]) THEN rows[i] ELSE NewItem(m, 1)
  PROVE  ItemTable([rows EXCEPT ![i] = Repaired(row, "PUBLISHED")],
                   WithLab(WithFirstVersion(versions, i, text), i))
<1> DEFINE siblings == {k \in Items : rows[k].module = m}
           after == Repaired(row, "PUBLISHED")
           new == [rows EXCEPT ![i] = after]
           n == Cardinality(siblings)
<1>1. IsFiniteSet(siblings) /\ n \in Nat
  <2>1. IsFiniteSet(siblings)
    BY CatalogKeysAssumption, FS_Subset
  <2> QED BY <2>1, FS_CardinalityType
<1>2. ~Exists(rows[i]) => n = 0
  <2>1. {rows[k].position : k \in siblings} = 1..n
    BY DEF ItemTable, Contiguous
  <2>2. ~Exists(rows[i]) => 1 \notin {rows[k].position : k \in siblings}
    OBVIOUS
  <2> HIDE DEF n, siblings
  <2> QED BY <1>1, <2>1, <2>2
<1>3. row \in ItemRow /\ row.module = m
  BY DEF NewItem, ItemRow, ItemTable
<1>4. /\ after \in ItemRow /\ after.status = "PUBLISHED" /\ after.module = m
      /\ after.position = row.position
      /\ after.published = IF row.published < 1 THEN 1 ELSE row.published
  BY <1>3 DEF Repaired, ItemRow
<1>5. after.published = IF rows[i].published < 1 THEN 1 ELSE rows[i].published
  <2>1. CASE Exists(rows[i])
    BY <1>4, <2>1
  <2>2. CASE ~Exists(rows[i])
    <3>1. row.published = 0 /\ rows[i].published = 0
      BY <2>2 DEF NewItem, ItemTable
    <3> QED BY <1>4, <3>1
  <2> QED BY <2>1, <2>2
<1>6. rows \in [Items -> ItemRow] /\ DOMAIN rows = Items
  BY DEF ItemTable
<1> DEFINE some == WithFirstVersion(versions, i, text)
           all == WithLab(some, i)
<1>7. some \subseteq VersionRow(Items)
  BY DEF WithFirstVersion, ItemTable, VersionRow
<1>8. Numbered(new, all) /\ all \subseteq VersionRow(Items)
  <2>1. \A j \in Items : rows[j].published \in Nat
    BY <1>6 DEF ItemRow
  <2>2. \A v \in versions : v.of \in Items
    BY DEF ItemTable, VersionRow
  <2> HIDE DEF after
  <2>3. Numbered(new, some)
    BY <1>5, <1>6, <2>1, <2>2, FirstVersion DEF ItemTable
  <2> HIDE DEF new, some
  <2> QED BY <1>7, <2>3, LabNumbered
<1> HIDE DEF after, all
<1>9. new \in [Items -> ItemRow] /\ new[i] = after
      /\ \A k \in Items \ {i} : new[k] = rows[k]
  BY <1>4, <1>6
<1>10. Exists(after)
  BY <1>4 DEF Exists
<1>11. ASSUME NEW u \in Modules
       PROVE  Contiguous(new, {k \in Items : new[k].module = u})
  <2> DEFINE others == {k \in Items : rows[k].module = u}
  <2>1. Contiguous(rows, others)
    BY DEF ItemTable
  <2>2. CASE u = m /\ ~Exists(rows[i])
    <3>1. i \notin siblings /\ \A k \in siblings : new[k].position = rows[k].position
      BY <1>9, <2>2, CatalogKeysAssumption DEF ItemTable
    <3>2. new[i].position = n + 1
      <4>1. row.position = 1
        BY <2>2 DEF NewItem
      <4> HIDE DEF n, new
      <4> QED BY <1>2, <1>4, <1>9, <2>2, <4>1
    <3>3. {k \in Items : new[k].module = u} = siblings \cup {i}
      BY <1>4, <1>9, <2>2
    <3>4. Contiguous(rows, siblings)
      BY <2>1, <2>2
    <3> HIDE DEF new, siblings
    <3> QED BY <1>1, <3>1, <3>2, <3>3, <3>4, AppendKeepsContiguous
  <2>3. CASE ~(u = m /\ ~Exists(rows[i]))
    <3>1. i \in others => u = m
      BY <2>3, CatalogKeysAssumption DEF ItemTable
    <3>2. {k \in Items : new[k].module = u} = others
      BY <1>3, <1>4, <1>9, <2>3, <3>1
    <3>3. \A k \in others : new[k].position = rows[k].position
      BY <1>4, <1>9, <2>3, <3>1
    <3> HIDE DEF new, others
    <3> QED BY <2>1, <3>2, <3>3, StayContiguous
  <2> QED BY <2>2, <2>3
<1>12. \A k \in Items : ~Exists(new[k]) =>
         new[k].revision = 0 /\ new[k].published = 0 /\ new[k].module = NoOwner
  BY <1>9, <1>10 DEF ItemTable
<1>13. ItemTable(new, all)
  BY <1>8, <1>9, <1>11, <1>12 DEF ItemTable
<1> QED BY <1>13 DEF after, all

\* The tables with one demonstration track more.
LEMMA SeededRows ==
  ASSUME NEW s, TablesInv(s), NEW d \in [text: Titles, module: Titles, payload: Titles],
         NEW r \in Seeded(s, d)
  PROVE  TablesInv(r)
<1>1. PICK t \in SeedTracks(s, d) : \E m \in SeedModules(s, d, t) :
             \E i \in SeedItems(s, m) : r = WithRows(s, d, t, m, i)
  BY DEF Seeded
<1>2. PICK m \in SeedModules(s, d, t) :
        \E i \in SeedItems(s, m) : r = WithRows(s, d, t, m, i)
  BY <1>1
<1>0. PICK i \in SeedItems(s, m) : r = WithRows(s, d, t, m, i)
  BY <1>2
<1>3. /\ DOMAIN s.tracks = Tracks /\ DOMAIN s.modules = Modules
      /\ DOMAIN s.items = Items
  BY DEF TablesInv, TrackTable, ModuleTable, ItemTable
<1>4. t \in Tracks
  BY <1>3 DEF SeedTracks, FoundOrFresh, Fresh
<1>5. m \in Modules /\ (Exists(s.modules[m]) => s.modules[m].track = t)
  BY <1>3 DEF SeedModules, FoundOrFresh, Fresh
<1>6. /\ i \in Items /\ (Exists(s.items[i]) => s.items[i].module = m)
      /\ ~Exists(s.items[i]) =>
           \A k \in Items : s.items[k].module = m => s.items[k].position # 1
  <2> DEFINE found == {k \in Items : s.items[k].module = m /\ s.items[k].position = 1}
  <2>1. CASE found = {}
    BY <1>3, <2>1 DEF SeedItems, FoundOrFresh, Fresh
  <2>2. CASE found # {}
    <3>1. i \in found
      BY <2>2 DEF SeedItems, FoundOrFresh
    <3>2. \A k \in Items : ~Exists(s.items[k]) => s.items[k].module = NoOwner
      BY DEF TablesInv, ItemTable
    <3> QED BY <1>5, <3>1, <3>2, CatalogKeysAssumption
  <2> QED BY <2>1, <2>2
<1>7. d.text \in Titles /\ d.module \in Titles /\ d.payload \in Titles
  OBVIOUS
<1> DEFINE used == {k \in Tracks : Exists(s.tracks[k])}
           siblings == {k \in Modules : s.modules[k].track = t}
           oldTrack == IF Exists(s.tracks[t]) THEN s.tracks[t]
                       ELSE NewTrack(d.text, NextPosition(s.tracks, used))
           oldModule == IF Exists(s.modules[m]) THEN s.modules[m]
                        ELSE NewModule(t, d.module, NextPosition(s.modules, siblings))
           oldItem == IF Exists(s.items[i]) THEN s.items[i] ELSE NewItem(m, 1)
           track == Repaired(oldTrack, "ACTIVE")
           module == Repaired(oldModule, "ACTIVE")
           item == Repaired(oldItem, "PUBLISHED")
<1>8. /\ r.tracks = [s.tracks EXCEPT ![t] = track]
      /\ r.modules = [s.modules EXCEPT ![m] = module]
      /\ r.items = [s.items EXCEPT ![i] = item]
      /\ r.trackVersions = WithFirstVersion(s.trackVersions, t, track.title)
      /\ r.moduleVersions = WithFirstVersion(s.moduleVersions, m, module.title)
      /\ r.contentVersions =
           WithLab(WithFirstVersion(s.contentVersions, i, d.payload), i)
  BY <1>0 DEF WithRows
<1>9. TrackTable(r.tracks, r.trackVersions) /\ track.status = "ACTIVE"
  <2>1. TrackTable(s.tracks, s.trackVersions)
    BY DEF TablesInv
  <2> DEFINE o == oldTrack
  <2>2. o = IF Exists(s.tracks[t]) THEN s.tracks[t]
            ELSE NewTrack(d.text, NextPosition(s.tracks,
                                    {k \in Tracks : Exists(s.tracks[k])}))
    OBVIOUS
  <2> HIDE DEF o
  <2>3. /\ TrackTable([s.tracks EXCEPT ![t] = Repaired(o, "ACTIVE")],
                      WithFirstVersion(s.trackVersions, t,
                        Repaired(o, "ACTIVE").title))
        /\ Repaired(o, "ACTIVE").status = "ACTIVE"
    BY <1>4, <1>7, <2>1, <2>2, TrackRepaired
  <2> QED BY <1>8, <2>3 DEF o
<1>10. /\ ModuleTable(r.modules, r.moduleVersions)
       /\ module.status = "ACTIVE" /\ module.track = t
  <2>1. ModuleTable(s.modules, s.moduleVersions)
    BY DEF TablesInv
  <2> DEFINE o == oldModule
  <2>2. o = IF Exists(s.modules[m]) THEN s.modules[m]
            ELSE NewModule(t, d.module, NextPosition(s.modules,
                             {k \in Modules : s.modules[k].track = t}))
    OBVIOUS
  <2> HIDE DEF o
  <2>3. /\ ModuleTable([s.modules EXCEPT ![m] = Repaired(o, "ACTIVE")],
                       WithFirstVersion(s.moduleVersions, m,
                         Repaired(o, "ACTIVE").title))
        /\ Repaired(o, "ACTIVE").status = "ACTIVE"
        /\ Repaired(o, "ACTIVE").track = t
    BY <1>4, <1>5, <1>7, <2>1, <2>2, ModuleRepaired
  <2> QED BY <1>8, <2>3 DEF o
<1>11. ItemTable(r.items, r.contentVersions)
  <2>1. ItemTable(s.items, s.contentVersions)
    BY DEF TablesInv
  <2> DEFINE o == oldItem
  <2>2. o = IF Exists(s.items[i]) THEN s.items[i] ELSE NewItem(m, 1)
    OBVIOUS
  <2> HIDE DEF o
  <2>3. ItemTable([s.items EXCEPT ![i] = Repaired(o, "PUBLISHED")],
                  WithLab(WithFirstVersion(s.contentVersions, i, d.payload), i))
    BY <1>5, <1>6, <1>7, <2>1, <2>2, ItemRepaired
  <2> QED BY <1>8, <2>3 DEF o
<1>12. ActiveHasActive(r.tracks, r.modules)
  <2> HIDE DEF track, module
  <2>1. r.modules[m] = module
    BY <1>3, <1>5, <1>8
  <2> SUFFICES ASSUME NEW u \in Tracks, r.tracks[u].status = "ACTIVE"
               PROVE  \E k \in Modules : /\ r.modules[k].track = u
                                         /\ r.modules[k].status = "ACTIVE"
    BY DEF ActiveHasActive
  <2>2. CASE u = t
    BY <1>5, <1>10, <2>1, <2>2
  <2>3. CASE u # t
    <3>1. r.tracks[u] = s.tracks[u]
      BY <1>3, <1>8, <2>3
    <3>2. PICK k \in Modules : s.modules[k].track = u /\ s.modules[k].status = "ACTIVE"
      BY <3>1 DEF TablesInv, ActiveHasActive
    <3>3. k # m
      BY <1>5, <2>3, <3>2 DEF Exists
    <3>4. r.modules[k] = s.modules[k]
      BY <1>3, <1>8, <3>2, <3>3
    <3> QED BY <3>2, <3>4
  <2> QED BY <2>2, <2>3
<1> QED BY <1>9, <1>10, <1>11, <1>12 DEF TablesInv

\* Induction, for a set instead of a predicate.
LEMMA SetInduction ==
  ASSUME NEW S, 0 \in S, \A n \in Nat : n \in S => n + 1 \in S
  PROVE  Nat \subseteq S
<1> DEFINE T == Nat \ S
           R == {p \in Nat \X Nat : p[1] < p[2]}
<1>1. ASSUME T # {}
      PROVE  FALSE
  <2>1. IsWellFoundedOn(R, Nat)
    BY NatLessThanWellFounded DEF OpToRel
  <2>2. PICK x \in T : \A y \in T : <<y, x>> \notin R
    <3> HIDE DEF R
    <3> QED BY <2>1, <1>1, WFMin
  <2>3. x \in Nat /\ x # 0 /\ x - 1 \in Nat /\ <<x - 1, x>> \in R
    OBVIOUS
  <2>4. x - 1 \in S
    BY <2>2, <2>3
  <2>5. (x - 1) + 1 \in S
    BY <2>3, <2>4
  <2> QED BY <2>3, <2>5
<1> QED BY <1>1

\* g is the beginning, up to n, of what SeededUpTo(s) describes.
Seeding(s, n, g) ==
  /\ g = [k \in 0..n |-> g[k]] /\ g[0] = {s}
  /\ \A k \in 1..n : g[k] = UNION {Seeded(r, Demo[k]) : r \in g[k - 1]}

LEMMA SeedingExists ==
  ASSUME NEW s PROVE \A n \in Nat : \E g : Seeding(s, n, g)
<1> DEFINE S == {n \in Nat : \E g : Seeding(s, n, g)}
<1>1. 0 \in S
  <2>1. Seeding(s, 0, [k \in 0..0 |-> {s}])
    BY DEF Seeding
  <2> QED BY <2>1
<1>2. ASSUME NEW n \in Nat, n \in S
      PROVE  n + 1 \in S
  <2>1. PICK g : Seeding(s, n, g)
    BY <1>2
  <2> DEFINE h == [k \in 0..(n + 1) |->
                     IF k = n + 1 THEN UNION {Seeded(r, Demo[n + 1]) : r \in g[n]}
                     ELSE g[k]]
  <2>2. h = [k \in 0..(n + 1) |-> h[k]] /\ h[0] = {s}
    BY <2>1 DEF Seeding
  <2>3. ASSUME NEW k \in 1..(n + 1)
        PROVE  h[k] = UNION {Seeded(r, Demo[k]) : r \in h[k - 1]}
    <3>1. CASE k = n + 1
      BY <3>1
    <3>2. CASE k \in 1..n
      <4>1. g[k] = UNION {Seeded(r, Demo[k]) : r \in g[k - 1]}
        BY <2>1, <3>2 DEF Seeding
      <4>2. h[k] = g[k] /\ h[k - 1] = g[k - 1]
        BY <3>2
      <4> QED BY <4>1, <4>2
    <3>3. k = n + 1 \/ k \in 1..n
      OBVIOUS
    <3> HIDE DEF h
    <3> QED BY <3>1, <3>2, <3>3
  <2> HIDE DEF h
  <2>4. Seeding(s, n + 1, h)
    BY <2>2, <2>3 DEF Seeding
  <2> QED BY <2>4
<1> HIDE DEF S
<1>3. Nat \subseteq S
  BY <1>1, <1>2, SetInduction
<1> QED BY <1>3 DEF S

\* So the recursive definition has the value that it describes.
LEMMA SeededUpToDef ==
  ASSUME NEW s
  PROVE  SeededUpTo(s) =
           [n \in 0..Len(Demo) |->
              IF n = 0 THEN {s}
              ELSE UNION {Seeded(r, Demo[n]) : r \in SeededUpTo(s)[n - 1]}]
<1>1. Len(Demo) \in Nat
  BY DeploymentAssumption
<1>2. PICK g : Seeding(s, Len(Demo), g)
  BY <1>1, SeedingExists
<1> DEFINE F == [n \in 0..Len(Demo) |->
                   IF n = 0 THEN {s} ELSE UNION {Seeded(r, Demo[n]) : r \in g[n - 1]}]
<1>3. \A n \in 0..Len(Demo) : g[n] = F[n]
  BY <1>1, <1>2 DEF Seeding
<1>4. g = [n \in 0..Len(Demo) |-> g[n]] /\ F = [n \in 0..Len(Demo) |-> F[n]]
  BY <1>2 DEF Seeding
<1>5. g = F
  <2> HIDE DEF F
  <2> QED BY <1>3, <1>4
<1> QED BY <1>5 DEF SeededUpTo

LEMMA SeededTables ==
  ASSUME NEW s, TablesInv(s), NEW r \in SeededUpTo(s)[Len(Demo)]
  PROVE  TablesInv(r)
<1> DEFINE N == Len(Demo)
           f == SeededUpTo(s)
           S == {n \in Nat : n \in 0..N => \A x \in f[n] : TablesInv(x)}
<1>1. N \in Nat /\ \A n \in 1..N : Demo[n] \in [text: Titles, module: Titles,
                                                 payload: Titles]
  <2> DEFINE R == [text: Titles, module: Titles, payload: Titles]
  <2>1. Demo \in Seq(R)
    BY DeploymentAssumption
  <2> HIDE DEF R
  <2>2. Len(Demo) \in Nat /\ \A n \in 1..Len(Demo) : Demo[n] \in R
    BY <2>1
  <2> QED BY <2>2 DEF R
<1>2. f = [n \in 0..N |-> IF n = 0 THEN {s}
                          ELSE UNION {Seeded(x, Demo[n]) : x \in f[n - 1]}]
  BY SeededUpToDef
<1> HIDE DEF f, N
<1>3. 0 \in S
  BY <1>1, <1>2
<1>4. ASSUME NEW n \in Nat, n \in S
      PROVE  n + 1 \in S
  <2> SUFFICES ASSUME n + 1 \in 0..N, NEW x \in f[n + 1]
               PROVE  TablesInv(x)
    OBVIOUS
  <2>1. n \in 0..N /\ n + 1 \in 1..N /\ (n + 1) - 1 = n /\ n + 1 # 0
    BY <1>1
  <2>2. f[n + 1] = UNION {Seeded(y, Demo[n + 1]) : y \in f[n]}
    BY <1>2, <2>1
  <2>3. PICK y \in f[n] : x \in Seeded(y, Demo[n + 1])
    BY <2>2
  <2>4. TablesInv(y)
    BY <1>4, <2>1
  <2> QED BY <1>1, <2>1, <2>3, <2>4, SeededRows
<1> HIDE DEF S
<1>5. Nat \subseteq S
  BY <1>3, <1>4, SetInduction
<1> QED BY <1>1, <1>5 DEF S, f, N

Tables ==
  [tracks |-> tracks, modules |-> modules, items |-> items,
   trackVersions |-> trackVersions, moduleVersions |-> moduleVersions,
   contentVersions |-> contentVersions]

LEMMA CatalogTables ==
  CatalogInv <=> /\ admins \subseteq Accounts /\ TablesInv(Tables)
                 /\ orderRevision \in Nat /\ log \in LogRow \cup {NoLog}
<1>1. TracksOrdered /\ Unwritten(tracks) /\ tracks \in [Tracks -> TrackRow] <=>
        /\ tracks \in [Tracks -> TrackRow]
        /\ \A t \in Tracks : ~Exists(tracks[t]) =>
             tracks[t].revision = 0 /\ tracks[t].published = 0
        /\ Contiguous(tracks, {t \in Tracks : Exists(tracks[t])})
  BY DEF TracksOrdered, Unwritten, UsedTracks, Exists
<1>2. ModulesOrdered /\ Unwritten(modules) /\ modules \in [Modules -> ModuleRow] <=>
        /\ modules \in [Modules -> ModuleRow]
        /\ \A m \in Modules : ~Exists(modules[m]) =>
             /\ modules[m].revision = 0 /\ modules[m].published = 0
             /\ modules[m].track = NoOwner
        /\ \A t \in Tracks : Contiguous(modules, {m \in Modules : modules[m].track = t})
  BY DEF ModulesOrdered, Unwritten, ModulesOf, Exists
<1>3. ItemsOrdered /\ Unwritten(items) /\ items \in [Items -> ItemRow] <=>
        /\ items \in [Items -> ItemRow]
        /\ \A i \in Items : ~Exists(items[i]) =>
             /\ items[i].revision = 0 /\ items[i].published = 0
             /\ items[i].module = NoOwner
        /\ \A m \in Modules : Contiguous(items, {i \in Items : items[i].module = m})
  BY DEF ItemsOrdered, Unwritten, ItemsOf, Exists
<1>4. ActiveTrackHasActiveModule <=> ActiveHasActive(tracks, modules)
  BY DEF ActiveTrackHasActiveModule, ActiveHasActive, ActiveModules, ModulesOf
<1>5. /\ Tables.tracks = tracks /\ Tables.modules = modules
      /\ Tables.items = items /\ Tables.trackVersions = trackVersions
      /\ Tables.moduleVersions = moduleVersions
      /\ Tables.contentVersions = contentVersions
  BY DEF Tables
<1> QED
  BY <1>1, <1>2, <1>3, <1>4, <1>5
     DEF CatalogInv, OrderInv, HistoryInv, TypeInv, TypeOK, RowsTitled,
         HistoryNumbered, TablesInv, TrackTable, ModuleTable, ItemTable

LEMMA SeedDemoKept ==
  ASSUME CatalogInv, SeedDemo
  PROVE  CatalogInv'
<1>1. /\ admins \subseteq Accounts /\ TablesInv(Tables)
      /\ orderRevision \in Nat /\ log \in LogRow \cup {NoLog}
  BY CatalogTables
<1>2. PICK s \in SeededUpTo(Tables)[Len(Demo)] :
        /\ tracks' = s.tracks /\ modules' = s.modules /\ items' = s.items
        /\ trackVersions' = s.trackVersions
        /\ moduleVersions' = s.moduleVersions
        /\ contentVersions' = s.contentVersions
  BY DEF SeedDemo, Tables
<1>3. TablesInv(s)
  BY <1>1, SeededTables
<1>4. /\ Tables'.tracks = s.tracks /\ Tables'.modules = s.modules
      /\ Tables'.items = s.items /\ Tables'.trackVersions = s.trackVersions
      /\ Tables'.moduleVersions = s.moduleVersions
      /\ Tables'.contentVersions = s.contentVersions
  BY <1>2 DEF Tables
<1>5. TablesInv(Tables')
  BY <1>3, <1>4 DEF TablesInv
<1>6. /\ admins' \subseteq Accounts /\ orderRevision' \in Nat
      /\ log' \in LogRow \cup {NoLog}
  BY <1>1, DeploymentAssumption DEF SeedDemo
<1>7. CatalogTables'
  BY CatalogTables, PTL
<1> QED BY <1>5, <1>6, <1>7

LEMMA SeedKept ==
  ASSUME DeployInv, Seed
  PROVE  DeployInv' /\ CommittedTables'
<1>1. ~Loading /\ SeedDemo /\ UNCHANGED jobVars
  BY DEF Seed
<1>2. CatalogInv'
  BY <1>1, SeedDemoKept DEF DeployInv
<1> QED BY <1>1, <1>2, IdleKept

-----------------------------------------------------------------------------
(* The theorems *)

LEMMA DeployInvInit == DeployInit => DeployInv
<1> SUFFICES ASSUME DeployInit PROVE DeployInv
  OBVIOUS
<1>1. /\ Init /\ job = NoJob /\ held = {} /\ saved = NothingSaved
  BY DEF DeployInit
<1>2. CatalogInv /\ TypeOK
  BY <1>1, CatalogInvInit, CatalogInvRules
<1>3. ~Loading /\ job.pc = "idle"
  BY <1>1 DEF Loading, NoJob
<1>4. CommittedTables /\ C!CatalogInv
  BY <1>1, <1>2, <1>3, WhenIdle
<1>5. JobInv
  <2>1. job \in JobRow
    BY <1>1 DEF NoJob, JobRow, PCs
  <2>2. /\ "idle" \notin InTrack /\ "idle" \notin InModule /\ "idle" \notin InUnits
    BY DEF InTrack, InModule, InUnits
  <2> QED BY <1>3, <2>1, <2>2 DEF JobInv, JobRow
<1>6. HeldInv
  BY <1>1, <1>3 DEF HeldInv
<1>7. SavedInv
  BY <1>1, <1>3, <1>4 DEF SavedInv, CommittedTables
<1> QED BY <1>2, <1>4, <1>5, <1>6, <1>7 DEF DeployInv

LEMMA DeployInvStep == DeployInv /\ [DeployNext]_deployVars => DeployInv'
<1> SUFFICES ASSUME DeployInv, [DeployNext]_deployVars PROVE DeployInv'
  OBVIOUS
<1>1. ASSUME NEW corpus \in Documents, BeginLoad(corpus) PROVE DeployInv'
  BY <1>1, BeginLoadKept
<1>2. CASE LoadStep
  BY <1>2, LoadStepsKept
<1>3. CASE Abort
  BY <1>3, AbortKept
<1>4. ASSUME NEW c \in Commands, OtherCommand(c) PROVE DeployInv'
  BY <1>4, OtherCommandKept
<1>5. ASSUME NEW a \in Accounts, OtherRole(a) PROVE DeployInv'
  BY <1>5, OtherRoleKept
<1>6. CASE Seed
  BY <1>6, SeedKept
<1>7. CASE UNCHANGED deployVars
  BY <1>7, DeployStutter
<1> QED BY <1>1, <1>2, <1>3, <1>4, <1>5, <1>6, <1>7 DEF DeployNext

LEMMA DeployInvariant == DeploySpec => []DeployInv
BY DeployInvInit, DeployInvStep, PTL DEF DeploySpec

\* The rules of the others' catalog are those of the committed one.
LEMMA RulesAreTheirs ==
  C!CatalogInv => CommittedRulesHold
<1> SUFFICES ASSUME C!CatalogInv PROVE CommittedRulesHold
  OBVIOUS
<1>1. C!ActiveTrackHasActiveModule /\ C!HistoryNumbered /\ C!PositionsContiguous
  BY C!CatalogInvRules, SameAssumptions
<1>2. D!ActiveTrackHasActiveModule
  BY <1>1 DEF D!ActiveTrackHasActiveModule, C!ActiveTrackHasActiveModule,
     D!ActiveModules, C!ActiveModules, D!ModulesOf, C!ModulesOf
<1>3. D!HistoryNumbered
  BY <1>1 DEF D!HistoryNumbered, C!HistoryNumbered, D!Numbered, C!Numbered
<1>4. D!PositionsContiguous
  <2>1. \A rows, keys : D!Contiguous(rows, keys) <=> C!Contiguous(rows, keys)
    BY DEF D!Contiguous, C!Contiguous, D!Cardinality, C!Cardinality
  <2>2. /\ D!UsedTracks = C!UsedTracks
        /\ \A t : D!ModulesOf(t) = C!ModulesOf(t)
        /\ \A m : D!ItemsOf(m) = C!ItemsOf(m)
    BY DEF D!UsedTracks, C!UsedTracks, D!ModulesOf, C!ModulesOf, D!ItemsOf,
       C!ItemsOf, D!Exists, C!Exists
  <2> QED BY <1>1, <2>1, <2>2 DEF D!PositionsContiguous, C!PositionsContiguous
<1> QED BY <1>2, <1>3, <1>4 DEF CommittedRulesHold

\* Administrators change the catalog between the steps of a load, and seeds run
\* between loads, each as one step; a load is refused or killed anywhere. What
\* everybody reads keeps an active module in every active track, positions
\* without gaps, numbered versions.
THEOREM CommittedCatalogSound == DeploySpec => []CommittedRulesHold
<1>1. DeployInv => CommittedRulesHold
  BY RulesAreTheirs DEF DeployInv
<1> QED BY <1>1, DeployInvariant, PTL
=============================================================================
