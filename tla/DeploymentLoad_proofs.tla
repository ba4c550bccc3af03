------------------------ MODULE DeploymentLoad_proofs ------------------------
(***************************************************************************)
(* Proofs about DeploymentTx: whatever happens next to it and wherever it  *)
(* fails, a load is one step of Deployment.                                *)
(***************************************************************************)
EXTENDS DeploymentTx_proofs

-----------------------------------------------------------------------------
(* What is done of the corpus at every point of a load *)

\* A row is, with its versions, as it was when the load took it.
SameTrack(t) ==
  /\ tracks[t] = Committed.tracks[t]
  /\ \A v : v.of = t => (v \in trackVersions <=> v \in Committed.trackVersions)

SameModule(m) ==
  /\ modules[m] = Committed.modules[m]
  /\ \A v : v.of = m => (v \in moduleVersions <=> v \in Committed.moduleVersions)

SameItem(i) ==
  /\ items[i] = Committed.items[i]
  /\ \A v : v.of = i => (v \in contentVersions <=> v \in Committed.contentVersions)

\* What readers of the given tables see of an item is the payload.
Shows(rows, versions, i, payload) ==
  /\ rows[i].status = "PUBLISHED"
  /\ [of |-> i, number |-> rows[i].published, title |-> payload] \in versions

\* InPlace, row by row.
Settled(trackRows, moduleRows, itemRows, versions, def, t, m) ==
  /\ trackRows[t].status = "ACTIVE" /\ trackRows[t].title = def.text
  /\ moduleRows[m].track = t
  /\ moduleRows[m].status = "ACTIVE" /\ Says(moduleRows[m].title, def.module)
  /\ Cardinality({i \in Items : itemRows[i].module = m}) = Len(def.units)
  /\ \A i \in Items : itemRows[i].module = m =>
       Shows(itemRows, versions, i, def.units[itemRows[i].position].payload)

Is(def, t, m) == Settled(tracks, modules, items, contentVersions, def, t, m)

Was(def, t, m) ==
  Settled(Committed.tracks, Committed.modules, Committed.items,
          Committed.contentVersions, def, t, m)

Untouched(t, m) ==
  /\ SameTrack(t) /\ SameModule(m)
  /\ \A i \in Items : items[i].module = m => SameItem(i)

\* The load holds a track, a module of it and its items.
Holds(t, m) ==
  /\ t \in Tracks /\ m \in Modules /\ modules[m].track = t
  /\ <<"track", t>> \in held /\ <<"module", m>> \in held
  /\ \A i \in Items : items[i].module = m => <<"item", i>> \in held

\* The definition recognizes itself in the committed rows.
KnownTrack(def, t) ==
  Exists(Committed.tracks[t]) =>
    KeyOf(Committed.tracks[t].title) \in TitleKeys(def)

KnownModule(def, m) ==
  Exists(Committed.modules[m]) =>
    KeyOf(Committed.modules[m].title) = KeyOf(def.module)

\* A definition that is done.
Placed(def, t, m) ==
  /\ Holds(t, m) /\ Is(def, t, m)
  /\ KnownTrack(def, t) /\ KnownModule(def, m) /\ D!OnlyManaged(m, def.units)
  /\ Was(def, t, m) => Untouched(t, m)

Done == {d \in DOMAIN job.corpus : d < job.def \/ job.pc = "commit"}

\* The tracks, modules and items that the load may have changed.
Taken(place, field) == {place[d][field] : d \in Done}

TakenTrack(place, t) ==
  t \in Taken(place, "track") \/ (job.pc \in InTrack /\ t = job.track)

TakenModule(place, m) ==
  m \in Taken(place, "module") \/ (job.pc \in InModule /\ m = job.module)

TakenItem(place, i) ==
  \/ items[i].module \in Taken(place, "module")
  \/ job.pc \in InUnits /\ items[i].module = job.module

\* It moves no row and adds one version at most. A track or a module gets it
\* when it is active in the end.
TrackBounded(t) ==
  /\ Exists(Committed.tracks[t]) =>
       /\ tracks[t].position = Committed.tracks[t].position
       /\ tracks[t].published <= Committed.tracks[t].published
                                   + (IF tracks[t].status = "ACTIVE" THEN 1 ELSE 0)
  /\ \A v \in Committed.trackVersions : v.of = t => v \in trackVersions

ModuleBounded(m) ==
  /\ Exists(Committed.modules[m]) =>
       /\ modules[m].position = Committed.modules[m].position
       /\ modules[m].published <= Committed.modules[m].published
                                    + (IF modules[m].status = "ACTIVE" THEN 1 ELSE 0)
  /\ \A v \in Committed.moduleVersions : v.of = m => v \in moduleVersions

ItemBounded(i) ==
  /\ Exists(Committed.items[i]) =>
       /\ items[i].position = Committed.items[i].position
       /\ items[i].published <= Committed.items[i].published + 1
  /\ \A v \in Committed.contentVersions : v.of = i => v \in contentVersions

Elsewhere(place) ==
  /\ \A t \in Tracks : ~SameTrack(t) => TakenTrack(place, t)
  /\ \A m \in Modules : ~SameModule(m) => TakenModule(place, m)
  /\ \A i \in Items : ~SameItem(i) => TakenItem(place, i)

Bounded ==
  /\ \A t \in Tracks : TrackBounded(t)
  /\ \A m \in Modules : ModuleBounded(m)
  /\ \A i \in Items : ItemBounded(i)

OrderKept ==
  orderRevision # Committed.orderRevision =>
    \E t \in Tracks : Exists(tracks[t]) /\ ~Exists(Committed.tracks[t])

\* The definition under way.
TrackFound ==
  job.pc = "settle track" /\ job.track # NoOwner =>
    KeyOf(tracks[job.track].title) \in TitleKeys(Def)

TrackSettled ==
  job.pc \in InTrack =>
    /\ tracks[job.track].title = Def.text /\ KnownTrack(Def, job.track)
    /\ (/\ job.pc # "module" => Exists(Committed.modules[job.module])
        /\ Committed.tracks[job.track].status = "ACTIVE"
        /\ Committed.tracks[job.track].title = Def.text) => SameTrack(job.track)

ModuleSettled ==
  job.pc \in InModule =>
    /\ Says(modules[job.module].title, Def.module)
    /\ KnownModule(Def, job.module)
    /\ (/\ Committed.modules[job.module].status = "ACTIVE"
        /\ Says(Committed.modules[job.module].title, Def.module)
        /\ Cardinality(D!ItemsOf(job.module)) = Len(Units)) => SameModule(job.module)
    /\ job.pc = "activate track" => modules[job.module].status = "ACTIVE"

UnitsSettled ==
  job.pc \in InUnits =>
    /\ D!OnlyManaged(job.module, Units)
    /\ Cardinality(ItemsOf(job.module)) <= Len(Units)
    /\ \A u \in DOMAIN Units : u < job.unit \/ job.pc # "unit" =>
         \E i \in ItemsOf(job.module) :
           items[i].position = u /\ Shows(items, contentVersions, i, Units[u].payload)
    /\ \A i \in ItemsOf(job.module) :
         job.pc = "unit" /\ items[i].position >= job.unit
           /\ Exists(Committed.items[i]) => SameItem(i)
    /\ \A i \in D!ItemsOf(job.module) :
         Shows(Committed.items, Committed.contentVersions, i,
               Units[Committed.items[i].position].payload) => SameItem(i)

FirstUnit ==
  job.pc \in {"track", "settle track", "module", "items"} => job.unit = 1

Underway == FirstUnit /\ TrackFound /\ TrackSettled /\ ModuleSettled /\ UnitsSettled

Loaded(place) ==
  /\ \A d \in Done : Placed(job.corpus[d], place[d].track, place[d].module)
  /\ Elsewhere(place) /\ Bounded /\ OrderKept

LoadInv ==
  Loading /\ job.pc # "conflict" =>
    /\ Author \in admins /\ Underway
    /\ \E place : Loaded(place)

-----------------------------------------------------------------------------
(* What readers find, row by row *)

\* A place in any tables, as InPlace says it.
FoundIn(trackRows, moduleRows, itemRows, versions, def, t, m) ==
  /\ trackRows[t].status = "ACTIVE" /\ trackRows[t].title = def.text
  /\ moduleRows[m].track = t
  /\ moduleRows[m].status = "ACTIVE" /\ Says(moduleRows[m].title, def.module)
  /\ Cardinality({i \in Items : itemRows[i].module = m}) = Len(def.units)
  /\ \A u \in DOMAIN def.units : \E v \in versions :
       /\ itemRows[v.of].module \in Modules
       /\ moduleRows[itemRows[v.of].module].track = t
       /\ moduleRows[itemRows[v.of].module].status = "ACTIVE"
       /\ itemRows[v.of].status = "PUBLISHED"
       /\ v.number = itemRows[v.of].published
       /\ moduleRows[itemRows[v.of].module].position = moduleRows[m].position
       /\ itemRows[v.of].position = u /\ v.title = def.units[u].payload

LEMMA FoundIsSettled ==
  ASSUME NEW trackRows, NEW moduleRows, NEW itemRows, NEW versions,
         versions \subseteq VersionRow(Items),
         NEW t \in Tracks, NEW m \in Modules,
         Contiguous(moduleRows, {k \in Modules : moduleRows[k].track = t}),
         Contiguous(itemRows, {i \in Items : itemRows[i].module = m}),
         NEW def, IsSequence(def.units)
  PROVE  FoundIn(trackRows, moduleRows, itemRows, versions, def, t, m) <=>
         Settled(trackRows, moduleRows, itemRows, versions, def, t, m)
<1> DEFINE mine == {i \in Items : itemRows[i].module = m}
           siblings == {k \in Modules : moduleRows[k].track = t}
<1>1. ASSUME Cardinality(mine) = Len(def.units)
      PROVE  {itemRows[i].position : i \in mine} = DOMAIN def.units
  BY <1>1 DEF Contiguous, IsSequence
<1>2. ASSUME FoundIn(trackRows, moduleRows, itemRows, versions, def, t, m)
      PROVE  Settled(trackRows, moduleRows, itemRows, versions, def, t, m)
  <2>1. Cardinality(mine) = Len(def.units) /\ m \in siblings
    BY <1>2 DEF FoundIn
  <2>2. ASSUME NEW i \in Items, itemRows[i].module = m
        PROVE  Shows(itemRows, versions, i, def.units[itemRows[i].position].payload)
    <3>1. i \in mine /\ itemRows[i].position \in DOMAIN def.units
      BY <1>1, <2>1, <2>2
    <3>2. PICK v \in versions :
            /\ itemRows[v.of].module \in Modules
            /\ moduleRows[itemRows[v.of].module].track = t
            /\ itemRows[v.of].status = "PUBLISHED"
            /\ v.number = itemRows[v.of].published
            /\ moduleRows[itemRows[v.of].module].position = moduleRows[m].position
            /\ itemRows[v.of].position = itemRows[i].position
            /\ v.title = def.units[itemRows[i].position].payload
      BY <3>1, <1>2 DEF FoundIn
    <3>3. v \in VersionRow(Items) /\ v.of \in Items
      BY DEF VersionRow
    <3>4. itemRows[v.of].module = m
      BY <3>2, <2>1 DEF Contiguous
    <3>5. v.of = i
      BY <3>1, <3>2, <3>3, <3>4 DEF Contiguous
    <3>6. v = [of |-> i, number |-> itemRows[i].published,
               title |-> def.units[itemRows[i].position].payload]
      BY <3>2, <3>3, <3>5 DEF VersionRow
    <3> QED BY <3>2, <3>5, <3>6 DEF Shows
  <2> QED BY <2>2, <1>2 DEF FoundIn, Settled
<1>3. ASSUME Settled(trackRows, moduleRows, itemRows, versions, def, t, m)
      PROVE  FoundIn(trackRows, moduleRows, itemRows, versions, def, t, m)
  <2>1. Cardinality(mine) = Len(def.units)
    BY <1>3 DEF Settled
  <2>2. ASSUME NEW u \in DOMAIN def.units
        PROVE  \E v \in versions :
                 /\ itemRows[v.of].module \in Modules
                 /\ moduleRows[itemRows[v.of].module].track = t
                 /\ moduleRows[itemRows[v.of].module].status = "ACTIVE"
                 /\ itemRows[v.of].status = "PUBLISHED"
                 /\ v.number = itemRows[v.of].published
                 /\ moduleRows[itemRows[v.of].module].position = moduleRows[m].position
                 /\ itemRows[v.of].position = u /\ v.title = def.units[u].payload
    <3>1. PICK i \in mine : itemRows[i].position = u
      BY <1>1, <2>1
    <3>2. Shows(itemRows, versions, i, def.units[u].payload)
      BY <3>1, <1>3 DEF Settled
    <3> DEFINE v == [of |-> i, number |-> itemRows[i].published,
                     title |-> def.units[u].payload]
    <3>3. v \in versions /\ v.of = i /\ v.number = itemRows[i].published
          /\ v.title = def.units[u].payload
      BY <3>2 DEF Shows
    <3>4. itemRows[i].status = "PUBLISHED"
      BY <3>2 DEF Shows
    <3> HIDE DEF v
    <3> QED BY <3>1, <3>3, <3>4, <1>3 DEF Settled
  <2> QED BY <2>2, <1>3 DEF FoundIn, Settled
<1> QED BY <1>2, <1>3

\* In what the load sees, and in what is committed.
LEMMA IsInPlace ==
  ASSUME CatalogInv, NEW t \in Tracks, NEW m \in Modules,
         NEW def, IsSequence(def.units)
  PROVE  InPlace(def, t, m) <=> Is(def, t, m)
<1>1. ASSUME NEW u
      PROVE  [module |-> modules[m].position, unit |-> u,
              payload |-> def.units[u].payload] \in PublishedVersions(t) <=>
             \E v \in contentVersions :
               /\ items[v.of].module \in Modules
               /\ modules[items[v.of].module].track = t
               /\ modules[items[v.of].module].status = "ACTIVE"
               /\ items[v.of].status = "PUBLISHED"
               /\ v.number = items[v.of].published
               /\ modules[items[v.of].module].position =
                    modules[m].position
               /\ items[v.of].position = u
               /\ v.title = def.units[u].payload
  <2>1. ASSUME NEW v
        PROVE  [module |-> modules[m].position, unit |-> u,
                payload |-> def.units[u].payload] =
               [module |-> modules[items[v.of].module].position,
                unit |-> items[v.of].position, payload |-> v.title]
               <=> /\ modules[items[v.of].module].position =
                         modules[m].position
                   /\ items[v.of].position = u
                   /\ v.title = def.units[u].payload
    OBVIOUS
  <2>2. \A v : v \in PublishedVersion(v.of) <=>
              /\ v \in contentVersions /\ items[v.of].status = "PUBLISHED"
              /\ v.number = items[v.of].published
    BY DEF PublishedVersion
  <2>3. \A v : items[v.of].module \in ActiveModules(t) <=>
              /\ items[v.of].module \in Modules
              /\ modules[items[v.of].module].track = t
              /\ modules[items[v.of].module].status = "ACTIVE"
    BY DEF ActiveModules, ModulesOf
  <2> QED BY <2>1, <2>2, <2>3 DEF PublishedVersions
<1>2. InPlace(def, t, m) <=>
      FoundIn(tracks, modules, items, contentVersions, def, t, m)
  BY <1>1 DEF InPlace, FoundIn, ActiveModules, ModulesOf, ItemsOf
<1>3. /\ contentVersions \subseteq VersionRow(Items)
      /\ Contiguous(modules, {k \in Modules : modules[k].track = t})
      /\ Contiguous(items, {i \in Items : items[i].module = m})
  BY CatalogInvRules DEF TypeOK, PositionsContiguous, ModulesOf, ItemsOf
<1> QED BY <1>2, <1>3, FoundIsSettled DEF Is

LEMMA WasInPlace ==
  ASSUME C!CatalogInv, NEW t \in Tracks, NEW m \in Modules,
         NEW def, IsSequence(def.units)
  PROVE  D!InPlace(def, t, m) <=> Was(def, t, m)
<1>1. ASSUME NEW u
      PROVE  [module |-> Committed.modules[m].position, unit |-> u,
              payload |-> def.units[u].payload] \in D!PublishedVersions(t) <=>
             \E v \in Committed.contentVersions :
               /\ Committed.items[v.of].module \in Modules
               /\ Committed.modules[Committed.items[v.of].module].track = t
               /\ Committed.modules[Committed.items[v.of].module].status = "ACTIVE"
               /\ Committed.items[v.of].status = "PUBLISHED"
               /\ v.number = Committed.items[v.of].published
               /\ Committed.modules[Committed.items[v.of].module].position =
                    Committed.modules[m].position
               /\ Committed.items[v.of].position = u
               /\ v.title = def.units[u].payload
  <2>1. ASSUME NEW v
        PROVE  [module |-> Committed.modules[m].position, unit |-> u,
                payload |-> def.units[u].payload] =
               [module |-> Committed.modules[Committed.items[v.of].module].position,
                unit |-> Committed.items[v.of].position, payload |-> v.title]
               <=> /\ Committed.modules[Committed.items[v.of].module].position =
                         Committed.modules[m].position
                   /\ Committed.items[v.of].position = u
                   /\ v.title = def.units[u].payload
    OBVIOUS
  <2>2. \A v : v \in D!PublishedVersion(v.of) <=>
              /\ v \in Committed.contentVersions /\ Committed.items[v.of].status = "PUBLISHED"
              /\ v.number = Committed.items[v.of].published
    BY DEF D!PublishedVersion
  <2>3. \A v : Committed.items[v.of].module \in D!ActiveModules(t) <=>
              /\ Committed.items[v.of].module \in Modules
              /\ Committed.modules[Committed.items[v.of].module].track = t
              /\ Committed.modules[Committed.items[v.of].module].status = "ACTIVE"
    BY DEF D!ActiveModules, D!ModulesOf
  <2> QED BY <2>1, <2>2, <2>3 DEF D!PublishedVersions
<1>2. D!InPlace(def, t, m) <=>
      FoundIn(Committed.tracks, Committed.modules, Committed.items, Committed.contentVersions, def, t, m)
  BY <1>1 DEF D!InPlace, FoundIn, D!ActiveModules, D!ModulesOf, D!ItemsOf,
                   D!Cardinality, Cardinality, D!Says, Says
<1>3. C!TypeOK /\ C!PositionsContiguous
  BY C!CatalogInvRules, SameAssumptions
<1>4. /\ Committed.contentVersions \subseteq VersionRow(Items)
      /\ Contiguous(Committed.modules,
                    {k \in Modules : Committed.modules[k].track = t})
      /\ Contiguous(Committed.items,
                    {i \in Items : Committed.items[i].module = m})
  BY <1>3, SameTypes, SameOrders
     DEF C!TypeOK, C!PositionsContiguous, C!ModulesOf, C!ItemsOf
<1> QED BY <1>2, <1>4, FoundIsSettled DEF Was

\* The operators of the instance are those of this module.
LEMMA SameAccepted == \A corpus : D!Accepted(corpus) <=> Accepted(corpus)
BY DEF D!Accepted, Accepted, D!FlattenSeq, FlattenSeq, D!Cardinality, Cardinality

LEMMA SameExists == \A row : D!Exists(row) <=> Exists(row)
BY DEF D!Exists, Exists

LEMMA SameTitleKeys == \A def : D!TitleKeys(def) = TitleKeys(def)
BY DEF D!TitleKeys, TitleKeys

LEMMA SameContiguous == \A rows, keys : D!Contiguous(rows, keys) <=> Contiguous(rows, keys)
BY DEF D!Contiguous, Contiguous, D!Cardinality, Cardinality

LEMMA SameAppends == \A a, b : D!Appends(a, b) <=> Appends(a, b)
BY DEF D!Appends, Appends

\* The two instances of the catalog's commands are the same.
LEMMA SameRules ==
  /\ \A a, k, c, f : D!CreateDecision(a, k, c, f) = C!CreateDecision(a, k, c, f)
  /\ \A a, k, r, c, f :
       D!EditDecision(a, k, r, c, f) = C!EditDecision(a, k, r, c, f)
  /\ \A a, k, o, c, n :
       D!MoveDecision(a, k, o, c, n) = C!MoveDecision(a, k, o, c, n)
  /\ \A a, r, c, h :
       D!TrackStatusDecision(a, r, c, h) = C!TrackStatusDecision(a, r, c, h)
  /\ \A a, r, o, c, s :
       D!ModuleStatusDecision(a, r, o, c, s) = C!ModuleStatusDecision(a, r, o, c, s)
  /\ \A a, k, r, l, u, v : D!Decision(a, k, r, l, u, v) = C!Decision(a, k, r, l, u, v)
<1>1. /\ \A a, k, r, l, u, v : D!Decision(a, k, r, l, u, v) = C!Decision(a, k, r, l, u, v)
      /\ \A x : D!Supported(x) = C!Supported(x)
      /\ \A x : D!Exists(x) = C!Exists(x)
      /\ \A o, s : D!IsLastActive(o, s) = C!IsLastActive(o, s)
  BY DEF D!Decision, C!Decision, D!Supported, C!Supported, D!Status, C!Status,
     D!Exists, C!Exists, D!IsLastActive, C!IsLastActive, D!Cardinality, C!Cardinality
<1>2. \A a, k, c, f : D!CreateDecision(a, k, c, f) = C!CreateDecision(a, k, c, f)
  BY <1>1 DEF D!CreateDecision, C!CreateDecision
<1>3. \A a, k, r, c, f :
       D!EditDecision(a, k, r, c, f) = C!EditDecision(a, k, r, c, f)
  BY <1>1 DEF D!EditDecision, C!EditDecision
<1>4. \A a, k, o, c, n :
       D!MoveDecision(a, k, o, c, n) = C!MoveDecision(a, k, o, c, n)
  BY <1>1 DEF D!MoveDecision, C!MoveDecision
<1>5. \A a, r, c, h :
       D!TrackStatusDecision(a, r, c, h) = C!TrackStatusDecision(a, r, c, h)
  BY <1>1 DEF D!TrackStatusDecision, C!TrackStatusDecision
<1>6. \A a, r, o, c, s :
       D!ModuleStatusDecision(a, r, o, c, s) = C!ModuleStatusDecision(a, r, o, c, s)
  <2> TAKE a, r, o, c, s
  <2>1. D!Supported(c.target) = C!Supported(c.target)
    BY <1>1
  <2>2. D!IsLastActive(o, s) = C!IsLastActive(o, s)
    BY <1>1
  <2> QED BY <1>1, <2>1, <2>2 DEF D!ModuleStatusDecision, C!ModuleStatusDecision
<1> QED BY <1>1, <1>2, <1>3, <1>4, <1>5, <1>6

LEMMA SameRowWrites ==
  /\ \A r : D!Exists(r) = C!Exists(r)
  /\ \A x, p : D!NewTrack(x, p) = C!NewTrack(x, p)
  /\ \A t, x, p : D!NewModule(t, x, p) = C!NewModule(t, x, p)
  /\ \A m, p : D!NewItem(m, p) = C!NewItem(m, p)
  /\ \A r, x : D!Edited(r, x) = C!Edited(r, x)
  /\ \A r, x : D!WithStatus(r, x) = C!WithStatus(r, x)
  /\ \A r : D!Published(r) = C!Published(r)
  /\ \A k, b, a, x : D!Snapshot(k, b, a, x) = C!Snapshot(k, b, a, x)
  /\ \A x : D!StatusAction(x) = C!StatusAction(x)
  /\ \A s : D!Cardinality(s) = C!Cardinality(s)
  /\ \A rows, keys, x, p : D!Displaced(rows, keys, x, p) = C!Displaced(rows, keys, x, p)
  /\ \A rows, keys, x, p, k : D!Moved(rows, keys, x, p, k) = C!Moved(rows, keys, x, p, k)
  /\ \A rows, keys, k, x : D!TitleFree(rows, keys, k, x) = C!TitleFree(rows, keys, k, x)
  /\ \A rows, keys, x, p : D!Insertable(rows, keys, x, p) = C!Insertable(rows, keys, x, p)
  /\ \A rows, keys : D!Contiguous(rows, keys) = C!Contiguous(rows, keys)
BY DEF D!Exists, C!Exists, D!NewTrack, C!NewTrack, D!NewModule, C!NewModule,
   D!NewItem, C!NewItem, D!Edited, C!Edited, D!WithStatus, C!WithStatus,
   D!Published, C!Published, D!Snapshot, C!Snapshot, D!StatusAction, C!StatusAction,
   D!Cardinality, C!Cardinality, D!Displaced, C!Displaced, D!Moved, C!Moved,
   D!MovedPosition, C!MovedPosition, D!Index, C!Index, D!TitleFree, C!TitleFree,
   D!Insertable, C!Insertable, D!Contiguous, C!Contiguous

LEMMA SameSets ==
  /\ D!UsedTracks = C!UsedTracks
  /\ \A t : D!ModulesOf(t) = C!ModulesOf(t)
  /\ \A m : D!ItemsOf(m) = C!ItemsOf(m)
  /\ \A t : D!ActiveModules(t) = C!ActiveModules(t)
BY DEF D!UsedTracks, C!UsedTracks, D!ModulesOf, C!ModulesOf, D!ItemsOf, C!ItemsOf,
   D!ActiveModules, C!ActiveModules, D!Exists, C!Exists

LEMMA SameExecute == \A c : C!Execute(c) => D!Execute(c)
<1> SUFFICES ASSUME NEW c, C!Execute(c) PROVE D!Execute(c)
  OBVIOUS
<1>1. CASE C!CreateTrack(c)
  <2>1. D!CreateTrack(c)
    BY <1>1, SameRules, SameRowWrites, SameSets
       DEF C!CreateTrack, D!CreateTrack, C!Record, D!Record
  <2> QED BY <2>1 DEF D!Execute
<1>2. CASE C!EditTrack(c)
  <2>1. D!EditTrack(c)
    BY <1>2, SameRules, SameRowWrites, SameSets
       DEF C!EditTrack, D!EditTrack, C!Record, D!Record
  <2> QED BY <2>1 DEF D!Execute
<1>3. CASE C!ChangeTrackStatus(c)
  <2>1. D!ChangeTrackStatus(c)
    BY <1>3, SameRules, SameRowWrites, SameSets
       DEF C!ChangeTrackStatus, D!ChangeTrackStatus, C!Record, D!Record
  <2> QED BY <2>1 DEF D!Execute
<1>4. CASE C!MoveTrack(c)
  <2>1. D!MoveTrack(c)
    BY <1>4, SameRules, SameRowWrites, SameSets
       DEF C!MoveTrack, D!MoveTrack, C!Record, D!Record
  <2> QED BY <2>1 DEF D!Execute
<1>5. CASE C!CreateModule(c)
  <2>1. D!CreateModule(c)
    BY <1>5, SameRules, SameRowWrites, SameSets
       DEF C!CreateModule, D!CreateModule, C!Record, D!Record
  <2> QED BY <2>1 DEF D!Execute
<1>6. CASE C!EditModule(c)
  <2>1. D!EditModule(c)
    BY <1>6, SameRules, SameRowWrites, SameSets
       DEF C!EditModule, D!EditModule, C!Record, D!Record
  <2> QED BY <2>1 DEF D!Execute
<1>7. CASE C!ChangeModuleStatus(c)
  <2>1. D!ChangeModuleStatus(c)
    BY <1>7, SameRules, SameRowWrites, SameSets
       DEF C!ChangeModuleStatus, D!ChangeModuleStatus, C!Record, D!Record
  <2> QED BY <2>1 DEF D!Execute
<1>8. CASE C!MoveModule(c)
  <2>1. D!MoveModule(c)
    BY <1>8, SameRules, SameRowWrites, SameSets
       DEF C!MoveModule, D!MoveModule, C!Record, D!Record
  <2> QED BY <2>1 DEF D!Execute
<1>9. CASE C!CreateContentDraft(c)
  <2>1. D!CreateContentDraft(c)
    BY <1>9, SameRules, SameRowWrites, SameSets
       DEF C!CreateContentDraft, D!CreateContentDraft
  <2> QED BY <2>1 DEF D!Execute
<1>10. CASE C!PublishContentItem(c)
  <2>1. D!PublishContentItem(c)
    BY <1>10, SameRules, SameRowWrites, SameSets
       DEF C!PublishContentItem, D!PublishContentItem
  <2> QED BY <2>1 DEF D!Execute
<1> QED BY <1>1, <1>2, <1>3, <1>4, <1>5, <1>6, <1>7, <1>8, <1>9, <1>10
        DEF C!Execute

\* While nothing is held, the tables are the committed ones, and a command of
\* theirs is one of the others'.
LEMMA IdleSets ==
  ASSUME CommittedTables
  PROVE  /\ C!UsedTracks = UsedTracks
         /\ \A t : C!ModulesOf(t) = ModulesOf(t)
         /\ \A m : C!ItemsOf(m) = ItemsOf(m)
         /\ \A t : C!ActiveModules(t) = ActiveModules(t)
BY DEF CommittedTables, C!UsedTracks, UsedTracks, C!ModulesOf, ModulesOf,
   C!ItemsOf, ItemsOf, C!ActiveModules, ActiveModules, C!Exists, Exists

LEMMA IdleExecute ==
  ASSUME CommittedTables, CommittedTables', NEW c, Execute(c)
  PROVE  C!Execute(c)
<1>1. CASE CreateTrack(c)
  <2>1. C!CreateTrack(c)
    BY <1>1, SameDecisions, SameWrites, SameOrders, IdleSets
       DEF C!CreateTrack, CreateTrack, C!Record, Record, CommittedTables
  <2> QED BY <2>1 DEF C!Execute
<1>2. CASE EditTrack(c)
  <2>1. C!EditTrack(c)
    BY <1>2, SameDecisions, SameWrites, SameOrders, IdleSets
       DEF C!EditTrack, EditTrack, C!Record, Record, CommittedTables
  <2> QED BY <2>1 DEF C!Execute
<1>3. CASE ChangeTrackStatus(c)
  <2>1. C!TrackStatusDecision(c.actor \in admins, Committed.tracks[c.track], c,
          C!ActiveModules(c.track) # {}) =
        TrackStatusDecision(c.actor \in admins, tracks[c.track], c,
          ActiveModules(c.track) # {})
    BY SameDecisions, SameWrites, SameOrders, IdleSets DEF CommittedTables
  <2>2. C!ChangeTrackStatus(c)
    BY <1>3, <2>1, SameWrites, SameOrders, IdleSets
       DEF C!ChangeTrackStatus, ChangeTrackStatus, C!Record, Record, CommittedTables
  <2> QED BY <2>2 DEF C!Execute
<1>4. CASE MoveTrack(c)
  <2>1. C!MoveTrack(c)
    BY <1>4, SameDecisions, SameWrites, SameOrders, IdleSets
       DEF C!MoveTrack, MoveTrack, C!Record, Record, CommittedTables
  <2> QED BY <2>1 DEF C!Execute
<1>5. CASE CreateModule(c)
  <2>1. C!CreateModule(c)
    BY <1>5, SameDecisions, SameWrites, SameOrders, IdleSets
       DEF C!CreateModule, CreateModule, C!Record, Record, CommittedTables
  <2> QED BY <2>1 DEF C!Execute
<1>6. CASE EditModule(c)
  <2>1. C!EditDecision(c.actor \in admins, Committed.modules[c.module].track = c.track,
          Committed.modules[c.module], c,
          C!TitleFree(Committed.modules, C!ModulesOf(c.track), c.module, c.title)) =
        EditDecision(c.actor \in admins, modules[c.module].track = c.track,
          modules[c.module], c,
          TitleFree(modules, ModulesOf(c.track), c.module, c.title))
    BY SameDecisions, SameWrites, SameOrders, IdleSets DEF CommittedTables
  <2>2. C!EditModule(c)
    BY <1>6, <2>1, SameWrites, SameOrders, IdleSets
       DEF C!EditModule, EditModule, C!Record, Record, CommittedTables
  <2> QED BY <2>2 DEF C!Execute
<1>7. CASE ChangeModuleStatus(c)
  <2>1. C!ModuleStatusDecision(c.actor \in admins, Committed.modules[c.module],
          Committed.tracks[c.track], c, C!ActiveModules(c.track)) =
        ModuleStatusDecision(c.actor \in admins, modules[c.module],
          tracks[c.track], c, ActiveModules(c.track))
    BY SameDecisions, SameWrites, SameOrders, IdleSets DEF CommittedTables
  <2>2. C!ChangeModuleStatus(c)
    BY <1>7, <2>1, SameWrites, SameOrders, IdleSets
       DEF C!ChangeModuleStatus, ChangeModuleStatus, C!Record, Record, CommittedTables
  <2> QED BY <2>2 DEF C!Execute
<1>8. CASE MoveModule(c)
  <2>1. C!MoveDecision(c.actor \in admins, c.module \in C!ModulesOf(c.track),
          Committed.tracks[c.track].moduleOrder, c, C!Cardinality(C!ModulesOf(c.track))) =
        MoveDecision(c.actor \in admins, c.module \in ModulesOf(c.track),
          tracks[c.track].moduleOrder, c, Cardinality(ModulesOf(c.track)))
    BY SameDecisions, SameWrites, SameOrders, IdleSets DEF CommittedTables
  <2>2. C!Displaced(Committed.modules, C!ModulesOf(c.track), c.module, c.position) =
        Displaced(modules, ModulesOf(c.track), c.module, c.position)
    BY SameOrders, IdleSets DEF CommittedTables
  <2>3. \A m : C!Moved(Committed.modules, C!ModulesOf(c.track), c.module,
                       c.position, m) =
               Moved(modules, ModulesOf(c.track), c.module, c.position, m)
    BY SameOrders, IdleSets DEF CommittedTables
  <2> DEFINE result == MoveDecision(c.actor \in admins, c.module \in ModulesOf(c.track),
                                    tracks[c.track].moduleOrder, c,
                                    Cardinality(ModulesOf(c.track)))
             changed ==
               /\ result = "SUCCESS"
               /\ Displaced(modules, ModulesOf(c.track), c.module, c.position) # {}
             moved(m) == Moved(modules, ModulesOf(c.track), c.module, c.position, m)
  <2>4. /\ c.op = "move_module"
        /\ tracks[c.track].moduleOrder < MaxOrder
        /\ \A m \in ModulesOf(c.track) : modules[m].revision < MaxRevision
        /\ modules' = [m \in Modules |-> IF changed /\ m \in ModulesOf(c.track)
                                        THEN moved(m) ELSE modules[m]]
        /\ tracks' = IF changed THEN [tracks EXCEPT ![c.track].moduleOrder = @ + 1]
                     ELSE tracks
        /\ C!Record(c, "REORDER", "MODULE", c.module, result, changed)
        /\ UNCHANGED <<admins, items, trackVersions, moduleVersions,
                       contentVersions, orderRevision>>
    BY <1>8 DEF MoveModule, Record, C!Record, CommittedTables
  <2> DEFINE theirs ==
               /\ C!MoveDecision(c.actor \in admins, c.module \in C!ModulesOf(c.track),
                                 Committed.tracks[c.track].moduleOrder, c,
                                 C!Cardinality(C!ModulesOf(c.track))) = "SUCCESS"
               /\ C!Displaced(Committed.modules, C!ModulesOf(c.track), c.module,
                              c.position) # {}
  <2>5. changed <=> theirs
    BY <2>1, <2>2
  <2>6. /\ \A m : C!Moved(Committed.modules, C!ModulesOf(c.track), c.module,
                           c.position, m) = moved(m)
        /\ C!ModulesOf(c.track) = ModulesOf(c.track)
    BY <2>3, IdleSets
  <2>7. C!MoveDecision(c.actor \in admins, c.module \in C!ModulesOf(c.track),
                       Committed.tracks[c.track].moduleOrder, c,
                       C!Cardinality(C!ModulesOf(c.track))) = result
    BY <2>1
  <2>8. Committed'.modules =
          [m \in Modules |-> IF theirs /\ m \in C!ModulesOf(c.track)
                             THEN C!Moved(Committed.modules, C!ModulesOf(c.track),
                                          c.module, c.position, m)
                             ELSE Committed.modules[m]]
    <3> HIDE DEF moved, changed, result, theirs
    <3> QED BY <2>4, <2>5, <2>6 DEF CommittedTables
  <2>9. /\ Committed'.tracks =
             IF theirs THEN [Committed.tracks EXCEPT ![c.track].moduleOrder = @ + 1]
             ELSE Committed.tracks
        /\ C!Record(c, "REORDER", "MODULE", c.module,
             C!MoveDecision(c.actor \in admins, c.module \in C!ModulesOf(c.track),
                            Committed.tracks[c.track].moduleOrder, c,
                            C!Cardinality(C!ModulesOf(c.track))), theirs)
    <3> HIDE DEF moved, changed, result, theirs
    <3> QED BY <2>4, <2>5, <2>7 DEF CommittedTables, C!Record
  <2>10. /\ c.op = "move_module"
         /\ Committed.tracks[c.track].moduleOrder < MaxOrder
         /\ \A m \in C!ModulesOf(c.track) : Committed.modules[m].revision < MaxRevision
         /\ UNCHANGED <<admins, Committed.items, Committed.trackVersions,
                        Committed.moduleVersions, Committed.contentVersions,
                        Committed.orderRevision>>
    <3> HIDE DEF moved, changed, result, theirs
    <3> QED BY <2>4, <2>6 DEF CommittedTables
  <2>11. C!MoveModule(c)
    BY <2>8, <2>9, <2>10 DEF C!MoveModule
  <2> QED BY <2>11 DEF C!Execute
<1>9. CASE CreateContentDraft(c)
  <2>1. C!CreateContentDraft(c)
    BY <1>9, SameDecisions, SameWrites, SameOrders, IdleSets
       DEF C!CreateContentDraft, CreateContentDraft, CommittedTables
  <2> QED BY <2>1 DEF C!Execute
<1>10. CASE PublishContentItem(c)
  <2>1. C!PublishContentItem(c)
    BY <1>10, SameDecisions, SameWrites, SameOrders, IdleSets
       DEF C!PublishContentItem, PublishContentItem, CommittedTables
  <2> QED BY <2>1 DEF C!Execute
<1> QED BY <1>1, <1>2, <1>3, <1>4, <1>5, <1>6, <1>7, <1>8, <1>9, <1>10
        DEF Execute

\* The seed computes the same from the same tables.
LEMMA SameSeeded ==
  /\ \A s, d : D!Seeded(s, d) = Seeded(s, d)
  /\ \A s : D!SeededUpTo(s) = SeededUpTo(s)
<1>1. /\ \A rows : D!Fresh(rows) = Fresh(rows)
      /\ \A rows, keys : D!NextPosition(rows, keys) = NextPosition(rows, keys)
      /\ \A row, s : D!Repaired(row, s) = Repaired(row, s)
      /\ \A v, k, x : D!WithFirstVersion(v, k, x) = WithFirstVersion(v, k, x)
      /\ \A row : D!Exists(row) = Exists(row)
      /\ \A x, p : D!NewTrack(x, p) = NewTrack(x, p)
      /\ \A t, x, p : D!NewModule(t, x, p) = NewModule(t, x, p)
      /\ \A m, p : D!NewItem(m, p) = NewItem(m, p)
  BY DEF D!Fresh, Fresh, D!NextPosition, NextPosition, D!Max, Max, D!Repaired,
     Repaired, D!WithFirstVersion, WithFirstVersion, D!Exists, Exists, D!NewTrack,
     NewTrack, D!NewModule, NewModule, D!NewItem, NewItem
<1>2. \A v, k : D!WithLab(v, k) = WithLab(v, k)
  BY DEF D!WithLab, WithLab, D!Completed, Completed
<1>3. \A f, rows : D!FoundOrFresh(f, rows) = FoundOrFresh(f, rows)
  BY <1>1 DEF D!FoundOrFresh, FoundOrFresh
<1>4. /\ \A s, d : D!SeedTracks(s, d) = SeedTracks(s, d)
      /\ \A s, d, t : D!SeedModules(s, d, t) = SeedModules(s, d, t)
      /\ \A s, m : D!SeedItems(s, m) = SeedItems(s, m)
  BY <1>1, <1>3 DEF D!SeedTracks, SeedTracks, D!SeedModules, SeedModules,
     D!SeedItems, SeedItems
<1>5. \A s, d, t, m, i : D!WithRows(s, d, t, m, i) = WithRows(s, d, t, m, i)
  <2> TAKE s, d, t, m, i
  <2>1. D!Repaired(IF D!Exists(s.tracks[t]) THEN s.tracks[t]
                   ELSE D!NewTrack(d.text, D!NextPosition(s.tracks,
                          {k \in Tracks : D!Exists(s.tracks[k])})), "ACTIVE") =
        Repaired(IF Exists(s.tracks[t]) THEN s.tracks[t]
                 ELSE NewTrack(d.text, NextPosition(s.tracks,
                        {k \in Tracks : Exists(s.tracks[k])})), "ACTIVE")
    <3>1. {k \in Tracks : D!Exists(s.tracks[k])} = {k \in Tracks : Exists(s.tracks[k])}
      BY <1>1
    <3> QED BY <1>1, <3>1
  <2>2. D!Repaired(IF D!Exists(s.modules[m]) THEN s.modules[m]
                   ELSE D!NewModule(t, d.module, D!NextPosition(s.modules,
                          {k \in Modules : s.modules[k].track = t})), "ACTIVE") =
        Repaired(IF Exists(s.modules[m]) THEN s.modules[m]
                 ELSE NewModule(t, d.module, NextPosition(s.modules,
                        {k \in Modules : s.modules[k].track = t})), "ACTIVE")
    BY <1>1
  <2>3. D!Repaired(IF D!Exists(s.items[i]) THEN s.items[i] ELSE D!NewItem(m, 1),
                   "PUBLISHED") =
        Repaired(IF Exists(s.items[i]) THEN s.items[i] ELSE NewItem(m, 1),
                 "PUBLISHED")
    BY <1>1
  <2> QED BY <1>1, <1>2, <2>1, <2>2, <2>3 DEF D!WithRows, WithRows
<1>6. \A s, d : D!Seeded(s, d) = Seeded(s, d)
  BY <1>4, <1>5 DEF D!Seeded, Seeded
<1>7. ASSUME NEW s PROVE D!SeededUpTo(s) = SeededUpTo(s)
  <2> DEFINE N == Len(Demo)
             f == SeededUpTo(s)
             g == D!SeededUpTo(s)
  <2>1. N \in Nat
    BY DeploymentAssumption
  <2>2. f = [n \in 0..N |-> IF n = 0 THEN {s}
                            ELSE UNION {Seeded(r, Demo[n]) : r \in f[n - 1]}]
    BY SeededUpToDef
  <2>3. ASSUME NEW rows, NEW n
        PROVE  UNION {Seeded(r, Demo[n]) : r \in rows} =
               UNION {D!Seeded(r, Demo[n]) : r \in rows}
    BY <1>6
  <2>4. f = [n \in 0..N |-> IF n = 0 THEN {s}
                            ELSE UNION {D!Seeded(r, Demo[n]) : r \in f[n - 1]}]
    <3> DEFINE A(n) == UNION {Seeded(r, Demo[n]) : r \in f[n - 1]}
               B(n) == UNION {D!Seeded(r, Demo[n]) : r \in f[n - 1]}
    <3>1. f = [n \in 0..N |-> IF n = 0 THEN {s} ELSE A(n)]
      BY <2>2
    <3>2. ASSUME NEW n PROVE A(n) = B(n)
      <4> HIDE DEF f
      <4> QED BY <1>6
    <3>3. [n \in 0..N |-> IF n = 0 THEN {s} ELSE A(n)] =
          [n \in 0..N |-> IF n = 0 THEN {s} ELSE B(n)]
      <4> HIDE DEF A, B, N
      <4> QED BY <3>2
    <3>4. f = [n \in 0..N |-> IF n = 0 THEN {s} ELSE B(n)]
      <4> HIDE DEF A, B, N, f
      <4> QED BY <3>1, <3>3
    <3> QED BY <3>4
  <2>5. g = [n \in 0..N |-> IF n = 0 THEN {s}
                            ELSE UNION {D!Seeded(r, Demo[n]) : r \in g[n - 1]}]
    <3> HIDE DEF f
    <3> QED BY <2>4 DEF D!SeededUpTo
  <2> DEFINE S == {n \in Nat : n \in 0..N => g[n] = f[n]}
  <2> HIDE DEF f, g, N
  <2>6. 0 \in S
    BY <2>1, <2>4, <2>5
  <2>7. ASSUME NEW n \in Nat, n \in S PROVE n + 1 \in S
    <3> SUFFICES ASSUME n + 1 \in 0..N PROVE g[n + 1] = f[n + 1]
      OBVIOUS
    <3>1. n \in 0..N /\ (n + 1) - 1 = n /\ n + 1 # 0
      BY <2>1
    <3>2. g[n] = f[n]
      BY <2>7, <3>1
    <3>3. f[n + 1] = UNION {D!Seeded(r, Demo[n + 1]) : r \in f[n]}
      BY <2>4, <3>1
    <3>4. g[n + 1] = UNION {D!Seeded(r, Demo[n + 1]) : r \in g[n]}
      BY <2>5, <3>1
    <3> QED BY <3>2, <3>3, <3>4
  <2>8. Nat \subseteq S
    <3> HIDE DEF S
    <3> QED BY <2>6, <2>7, SetInduction
  <2>9. \A n \in 0..N : g[n] = f[n]
    BY <2>1, <2>8
  <2>10. g = [n \in 0..N |-> g[n]] /\ f = [n \in 0..N |-> f[n]]
    BY <2>4, <2>5
  <2>11. g = f
    BY <2>9, <2>10
  <2> QED BY <2>11 DEF f, g
<1> QED BY <1>6, <1>7

\* So a seed between two loads is the others' seed, and both start alike.
LEMMA IdleSeed ==
  ASSUME CommittedTables, CommittedTables', SeedDemo
  PROVE  D!SeedDemo
BY SameSeeded DEF SeedDemo, D!SeedDemo, CommittedTables

LEMMA IdleInit ==
  ASSUME CommittedTables, Init
  PROVE  D!Init
BY DEF CommittedTables, Init, D!Init, AbsentTrack, D!AbsentTrack, AbsentModule,
   D!AbsentModule, AbsentItem, D!AbsentItem, NoLog, D!NoLog

-----------------------------------------------------------------------------
(* What a step leaves as it is *)

TrackStays(t) ==
  /\ tracks'[t] = tracks[t]
  /\ \A v : v.of = t => (v \in trackVersions' <=> v \in trackVersions)
  /\ Committed'.tracks[t] = Committed.tracks[t]
  /\ \A v : v.of = t =>
       (v \in Committed'.trackVersions <=> v \in Committed.trackVersions)

ModuleStays(m) ==
  /\ modules'[m] = modules[m]
  /\ \A v : v.of = m => (v \in moduleVersions' <=> v \in moduleVersions)
  /\ Committed'.modules[m] = Committed.modules[m]
  /\ \A v : v.of = m =>
       (v \in Committed'.moduleVersions <=> v \in Committed.moduleVersions)

ItemStays(i) ==
  /\ items'[i] = items[i]
  /\ \A v : v.of = i => (v \in contentVersions' <=> v \in contentVersions)
  /\ Committed'.items[i] = Committed.items[i]
  /\ \A v : v.of = i =>
       (v \in Committed'.contentVersions <=> v \in Committed.contentVersions)

\* What stays is as it was if it was before.
LEMMA StaysSame ==
  /\ \A t : TrackStays(t) => /\ SameTrack(t)' <=> SameTrack(t)
                             /\ TrackBounded(t)' <=> TrackBounded(t)
                             /\ \A def : KnownTrack(def, t)' <=> KnownTrack(def, t)
  /\ \A m : ModuleStays(m) => /\ SameModule(m)' <=> SameModule(m)
                              /\ ModuleBounded(m)' <=> ModuleBounded(m)
                              /\ \A def : KnownModule(def, m)' <=> KnownModule(def, m)
  /\ \A i : ItemStays(i) => /\ SameItem(i)' <=> SameItem(i)
                            /\ ItemBounded(i)' <=> ItemBounded(i)
<1>1. ASSUME NEW t, TrackStays(t)
      PROVE  /\ SameTrack(t)' <=> SameTrack(t)
             /\ TrackBounded(t)' <=> TrackBounded(t)
             /\ \A def : KnownTrack(def, t)' <=> KnownTrack(def, t)
  BY <1>1 DEF TrackStays, SameTrack, TrackBounded, KnownTrack
<1>2. ASSUME NEW m, ModuleStays(m)
      PROVE  /\ SameModule(m)' <=> SameModule(m)
             /\ ModuleBounded(m)' <=> ModuleBounded(m)
             /\ \A def : KnownModule(def, m)' <=> KnownModule(def, m)
  BY <1>2 DEF ModuleStays, SameModule, ModuleBounded, KnownModule
<1>3. ASSUME NEW i, ItemStays(i)
      PROVE  /\ SameItem(i)' <=> SameItem(i)
             /\ ItemBounded(i)' <=> ItemBounded(i)
  BY <1>3 DEF ItemStays, SameItem, ItemBounded
<1> QED BY <1>1, <1>2, <1>3

\* Shows, Settled and OnlyManaged depend on nothing else.
LEMMA SettledSame ==
  ASSUME NEW trackRows, NEW moduleRows, NEW itemRows, NEW versions,
         NEW trackRows2, NEW moduleRows2, NEW itemRows2, NEW versions2,
         NEW t, NEW m, NEW def,
         trackRows2[t] = trackRows[t], moduleRows2[m] = moduleRows[m],
         \A i \in Items : itemRows[i].module = m \/ itemRows2[i].module = m =>
           /\ itemRows2[i] = itemRows[i]
           /\ \A v : v.of = i => (v \in versions2 <=> v \in versions)
  PROVE  Settled(trackRows2, moduleRows2, itemRows2, versions2, def, t, m) <=>
         Settled(trackRows, moduleRows, itemRows, versions, def, t, m)
<1>1. {i \in Items : itemRows2[i].module = m} = {i \in Items : itemRows[i].module = m}
  OBVIOUS
<1>2. ASSUME NEW i \in Items, itemRows[i].module = m
      PROVE  Shows(itemRows2, versions2, i, def.units[itemRows2[i].position].payload)
             <=> Shows(itemRows, versions, i, def.units[itemRows[i].position].payload)
  BY <1>2 DEF Shows
<1>3. \A i \in Items : itemRows2[i].module = m <=> itemRows[i].module = m
  OBVIOUS
<1> QED BY <1>1, <1>2, <1>3 DEF Settled

ManagedIn(rows, versions, m, units) ==
  /\ Cardinality({i \in Items : rows[i].module = m}) <= Len(units)
  /\ Contiguous(rows, {i \in Items : rows[i].module = m})
  /\ \A i \in Items : rows[i].module = m =>
       \/ rows[i].status = "DRAFT" /\ \A v \in versions : v.of # i
       \/ \E v \in versions :
            /\ rows[i].status = "PUBLISHED"
            /\ v.of = i /\ v.number = rows[i].published
            /\ \/ v.title.marker = units[rows[i].position].marker
               \/ v.title = units[rows[i].position].legacy

\* The items of a module, and what readers see of them, decide what is managed.
LEMMA ManagedSame ==
  ASSUME NEW rows, NEW versions, NEW rows2, NEW versions2, NEW m, NEW units,
         \A i \in Items : rows[i].module = m \/ rows2[i].module = m =>
           /\ rows2[i] = rows[i]
           /\ \A v : v.of = i => (v \in versions2 <=> v \in versions),
         ManagedIn(rows, versions, m, units)
  PROVE  ManagedIn(rows2, versions2, m, units)
<1> DEFINE mine == {i \in Items : rows[i].module = m}
<1>1. {i \in Items : rows2[i].module = m} = mine
  OBVIOUS
<1>2. Contiguous(rows2, mine)
  <2>1. \A i \in mine : rows2[i] = rows[i]
    OBVIOUS
  <2>2. {rows2[i].position : i \in mine} = {rows[i].position : i \in mine}
    BY <2>1
  <2>3. Contiguous(rows, mine)
    BY DEF ManagedIn
  <2> HIDE DEF mine
  <2> QED BY <2>1, <2>2, <2>3 DEF Contiguous
<1>3. ASSUME NEW i \in Items, rows2[i].module = m
      PROVE  \/ rows2[i].status = "DRAFT" /\ \A v \in versions2 : v.of # i
             \/ \E v \in versions2 :
                  /\ rows2[i].status = "PUBLISHED"
                  /\ v.of = i /\ v.number = rows2[i].published
                  /\ \/ v.title.marker = units[rows2[i].position].marker
                     \/ v.title = units[rows2[i].position].legacy
  <2>1. /\ rows[i].module = m /\ rows2[i] = rows[i]
        /\ \A v : v.of = i => (v \in versions2 <=> v \in versions)
    BY <1>3
  <2> QED BY <2>1 DEF ManagedIn
<1> QED BY <1>1, <1>2, <1>3 DEF ManagedIn

LEMMA OnlyManagedIs ==
  /\ \A m, units : OnlyManaged(m, units) <=>
                     ManagedIn(items, contentVersions, m, units)
  /\ \A m, units : D!OnlyManaged(m, units) <=>
                     ManagedIn(Committed.items, Committed.contentVersions, m, units)
  /\ \A m, units : D!OnlyManaged(m, units)' <=>
                     ManagedIn(Committed'.items, Committed'.contentVersions, m, units)
<1>1. \A m, units : OnlyManaged(m, units) <=>
                     ManagedIn(items, contentVersions, m, units)
  BY DEF OnlyManaged, ManagedIn, ItemsOf, Managed, PublishedVersion
<1>2. \A m, units : D!OnlyManaged(m, units) <=>
                     ManagedIn(Committed.items, Committed.contentVersions, m, units)
  BY SameContiguous DEF D!OnlyManaged, ManagedIn, D!ItemsOf, D!Managed,
     D!PublishedVersion, D!Cardinality, Cardinality
<1>3. \A m, units : D!OnlyManaged(m, units)' <=>
                     ManagedIn(Committed'.items, Committed'.contentVersions, m, units)
  BY SameContiguous DEF D!OnlyManaged, ManagedIn, D!ItemsOf, D!Managed,
     D!PublishedVersion, D!Cardinality, Cardinality
<1> QED BY <1>1, <1>2, <1>3

\* Every row of a place stays as it is.
AllStay(t, m) ==
  /\ TrackStays(t) /\ ModuleStays(m)
  /\ \A i \in Items : items[i].module = m \/ items'[i].module = m => ItemStays(i)
  /\ \A i \in Items :
       Committed.items[i].module = m \/ Committed'.items[i].module = m => ItemStays(i)

\* A definition that is done stays done where every row of its place stays.
LEMMA PlacedStays ==
  ASSUME NEW def, NEW t, NEW m, Placed(def, t, m), AllStay(t, m), held \subseteq held'
  PROVE  Placed(def, t, m)'
<1>1. Is(def, t, m)' <=> Is(def, t, m)
  <2>1. \A i \in Items : items[i].module = m \/ items'[i].module = m =>
          /\ items'[i] = items[i]
          /\ \A v : v.of = i => (v \in contentVersions' <=> v \in contentVersions)
    BY DEF AllStay, ItemStays
  <2>2. tracks'[t] = tracks[t] /\ modules'[m] = modules[m]
    BY DEF AllStay, TrackStays, ModuleStays
  <2> QED BY <2>1, <2>2, SettledSame DEF Is
<1>2. \A i \in Items : Committed.items[i].module = m \/ Committed'.items[i].module = m =>
        /\ Committed'.items[i] = Committed.items[i]
        /\ \A v : v.of = i =>
             (v \in Committed'.contentVersions <=> v \in Committed.contentVersions)
  BY DEF AllStay, ItemStays
<1>3. Was(def, t, m)' <=> Was(def, t, m)
  <2>1. /\ Committed'.tracks[t] = Committed.tracks[t]
        /\ Committed'.modules[m] = Committed.modules[m]
    BY DEF AllStay, TrackStays, ModuleStays
  <2> QED BY <1>2, <2>1, SettledSame DEF Was
<1>4. Untouched(t, m) => Untouched(t, m)'
  BY StaysSame DEF Untouched, AllStay, ItemStays
<1>5. Holds(t, m)'
  BY DEF Placed, Holds, AllStay, ModuleStays, ItemStays
<1>6. KnownTrack(def, t)' /\ KnownModule(def, m)'
  BY StaysSame DEF Placed, AllStay
<1>7. D!OnlyManaged(m, def.units)'
  BY <1>2, OnlyManagedIs, ManagedSame DEF Placed
<1> QED BY <1>1, <1>3, <1>4, <1>5, <1>6, <1>7 DEF Placed

\* What a step of the load may write: rows of the definition under way.
MayTrack(t) ==
  ~Exists(tracks[t]) \/ (job.pc \in InTrack \cup {"settle track"} /\ t = job.track)

MayModule(m) == job.pc \in InTrack /\ modules'[m].track = job.track

MayItem(i) == job.pc \in InUnits /\ items'[i].module = job.module

LEMMA NotLess == \A n \in Nat : ~(n < n)
OBVIOUS

\* No definition that is done has the track of the one under way: a text by
\* which one is recognized is not the text of the other.
LEMMA TrackIsNew ==
  ASSUME DeployInv, Loading, Underway, job.pc \in InTrack \cup {"settle track"},
         NEW d \in Done, NEW t, NEW m, Placed(job.corpus[d], t, m)
  PROVE  t # job.track
<1> SUFFICES ASSUME t = job.track PROVE FALSE
  OBVIOUS
<1>1. /\ t \in Tracks /\ t # NoOwner
      /\ tracks[t].title = job.corpus[d].text
  BY CatalogKeysAssumption DEF Placed, Holds, Is, Settled
<1>2. KeyOf(tracks[t].title) \in TitleKeys(Def)
  BY <1>1 DEF Underway, TrackFound, TrackSettled, TitleKeys
<1>3. d \in DOMAIN job.corpus /\ d < job.def
  BY DEF Done, InTrack
<1>4. JobInv
  BY DEF DeployInv
<1>5. job.corpus \in Documents /\ job.def \in DOMAIN job.corpus
  BY <1>4 DEF JobInv
<1>6. d = job.def
  BY <1>1, <1>2, <1>3, <1>5, DeploymentAssumption DEF Def
<1>7. job.def \in Nat
  BY <1>4 DEF JobInv
<1>8. job.def < job.def
  BY <1>3, <1>6
<1> QED BY <1>7, <1>8, NotLess

\* A step on the definition under way leaves those that are done.
LEMMA PlaceStaysDone ==
  ASSUME DeployInv, RowsRemain, UNCHANGED Committed, held \subseteq held',
         Loading, Underway,
         \A t \in Tracks : ~TrackStays(t) => MayTrack(t),
         \A m \in Modules : ~ModuleStays(m) => MayModule(m),
         \A i \in Items : ~ItemStays(i) => MayItem(i),
         NEW d \in Done, NEW def, def = job.corpus[d],
         NEW t, NEW m, Placed(def, t, m)
  PROVE  Placed(def, t, m)'
<1>1. /\ t \in Tracks /\ m \in Modules /\ modules[m].track = t
      /\ <<"track", t>> \in held
  BY DEF Placed, Holds
<1>2. CatalogInv /\ C!CatalogInv /\ JobInv /\ HeldInv /\ SavedInv
  BY DEF DeployInv
<1>3. job.pc \in InTrack \cup {"settle track"} => t # job.track
  BY TrackIsNew
<1>4. TrackStays(t)
  BY <1>1, <1>2, <1>3 DEF MayTrack, HeldInv
<1>5. ModuleStays(m)
  BY <1>1, <1>2, <1>3, PlacedExist DEF MayModule, RowsRemain
<1>6. ASSUME NEW i \in Items,
             \/ items[i].module = m \/ items'[i].module = m
             \/ Committed.items[i].module = m \/ Committed'.items[i].module = m
      PROVE  ItemStays(i)
  <2> SUFFICES ASSUME MayItem(i) PROVE FALSE
    OBVIOUS
  <2>1. items'[i].module = m
    <3>1. CASE items[i].module = m
      BY <3>1, <1>1, <1>2, PlacedExist DEF RowsRemain
    <3>2. CASE Committed.items[i].module = m
      <4>1. items[i].module = m
        BY <3>2, <1>1, <1>2, CommittedPlacedExist DEF SavedInv
      <4> QED BY <4>1, <3>1
    <3> QED BY <3>1, <3>2, <1>6
  <2>2. m = job.module /\ job.pc \in InUnits
    BY <2>1 DEF MayItem
  <2>3. job.pc \in InTrack /\ job.pc \in InModule
    BY <2>2 DEF InUnits, InTrack, InModule
  <2> QED BY <1>1, <1>2, <1>3, <2>2, <2>3 DEF JobInv
<1>7. AllStay(t, m)
  BY <1>4, <1>5, <1>6 DEF AllStay
<1> QED BY <1>7, PlacedStays

\* So of a load only what it does with the definition under way has to be
\* looked at.
LEMMA LoadFrame ==
  ASSUME DeployInv, RowsRemain, UNCHANGED Committed, held \subseteq held',
         Loading, Underway, NEW place, Loaded(place), NEW new,
         job'.corpus = job.corpus, Done \subseteq Done',
         \A d \in Done : new[d] = place[d],
         \A d \in Done' \ Done :
           Placed(job.corpus[d], new[d].track, new[d].module)',
         \A t \in Tracks : TakenTrack(place, t) => TakenTrack(new, t)',
         \A m \in Modules : TakenModule(place, m) => TakenModule(new, m)',
         \A i \in Items : TakenItem(place, i) /\ items'[i].module = items[i].module
                            => TakenItem(new, i)',
         \A t \in Tracks : ~TrackStays(t) =>
           MayTrack(t) /\ TakenTrack(new, t)' /\ TrackBounded(t)',
         \A m \in Modules : ~ModuleStays(m) =>
           MayModule(m) /\ TakenModule(new, m)' /\ ModuleBounded(m)',
         \A i \in Items : ~ItemStays(i) =>
           MayItem(i) /\ TakenItem(new, i)' /\ ItemBounded(i)',
         orderRevision' # orderRevision =>
           \E t \in Tracks : Exists(tracks'[t]) /\ ~Exists(Committed.tracks[t])
  PROVE  Loaded(new)'
<1>1. ASSUME NEW d \in Done'
      PROVE  Placed(job.corpus[d], new[d].track, new[d].module)'
  <2>1. CASE d \in Done
    <3>1. PICK def : def = job.corpus[d]
      OBVIOUS
    <3>2. Placed(def, new[d].track, new[d].module)
      BY <2>1, <3>1 DEF Loaded
    <3>3. Placed(def, new[d].track, new[d].module)'
      BY <2>1, <3>1, <3>2, PlaceStaysDone
    <3>4. job'.corpus[d] = def
      BY <3>1
    <3> QED BY <3>3, <3>4
  <2>2. CASE d \notin Done
    BY <2>2
  <2> QED BY <2>1, <2>2
<1>2. Bounded'
  <2>1. \A t \in Tracks : TrackBounded(t)'
    BY StaysSame DEF Loaded, Bounded
  <2>2. \A m \in Modules : ModuleBounded(m)'
    BY StaysSame DEF Loaded, Bounded
  <2>3. \A i \in Items : ItemBounded(i)'
    BY StaysSame DEF Loaded, Bounded
  <2> QED BY <2>1, <2>2, <2>3 DEF Bounded
<1>3. Elsewhere(new)'
  <2>1. ASSUME NEW t \in Tracks, ~SameTrack(t)' PROVE TakenTrack(new, t)'
    BY <2>1, StaysSame DEF Loaded, Elsewhere
  <2>2. ASSUME NEW m \in Modules, ~SameModule(m)' PROVE TakenModule(new, m)'
    BY <2>2, StaysSame DEF Loaded, Elsewhere
  <2>3. ASSUME NEW i \in Items, ~SameItem(i)' PROVE TakenItem(new, i)'
    <3>1. CASE ItemStays(i)
      <4>1. TakenItem(place, i)
        BY <2>3, <3>1, StaysSame DEF Loaded, Elsewhere
      <4>2. items'[i].module = items[i].module
        BY <3>1 DEF ItemStays
      <4> QED BY <4>1, <4>2
    <3> QED BY <3>1
  <2> QED BY <2>1, <2>2, <2>3 DEF Elsewhere
<1>4. OrderKept'
  <2>1. CASE orderRevision' = orderRevision
    <3>1. orderRevision' # Committed'.orderRevision =>
            \E t \in Tracks : Exists(tracks[t]) /\ ~Exists(Committed.tracks[t])
      BY <2>1 DEF Loaded, OrderKept
    <3> QED BY <3>1 DEF OrderKept, RowsRemain
  <2> QED BY <2>1 DEF OrderKept
<1> QED BY <1>1, <1>2, <1>3, <1>4 DEF Loaded

-----------------------------------------------------------------------------
(* The definition under way *)

\* The statements come in order: each set of them contains the later ones.
LEMMA PcSets ==
  /\ \A pc \in InModule : pc \in InTrack /\ pc # "module" /\ pc # "settle track"
  /\ \A pc \in InUnits : pc \in InModule /\ pc # "items"
  /\ \A pc \in InTrack : pc \notin {"idle", "track", "settle track", "commit", "conflict"}
  /\ \A pc \in InTrack : pc = "module" \/ pc \in InModule
  /\ \A pc \in InModule : pc = "items" \/ pc \in InUnits
  /\ \A pc \in InUnits : pc \in {"unit", "activate module", "activate track"}
  /\ "module" \in InTrack /\ "items" \in InModule /\ "unit" \in InUnits
  /\ "activate module" \in InUnits /\ "activate track" \in InUnits
BY DEF InTrack, InModule, InUnits

\* What the load has not come to yet is as it was.
LEMMA NotYetWritten ==
  ASSUME DeployInv, Loading, Underway, NEW place, Loaded(place)
  PROVE  /\ job.pc = "settle track" /\ job.track # NoOwner => SameTrack(job.track)
         /\ job.pc = "module" => \A m \in ModulesOf(job.track) : SameModule(m)
         /\ job.pc = "items" => \A i \in ItemsOf(job.module) : SameItem(i)
<1>1. ASSUME job.pc \in InTrack \cup {"settle track"}, NEW d \in Done
      PROVE  /\ place[d].track # job.track
             /\ modules[place[d].module].track # job.track
  <2>1. Placed(job.corpus[d], place[d].track, place[d].module)
    BY DEF Loaded
  <2>2. place[d].track # job.track
    BY <1>1, <2>1, TrackIsNew
  <2> QED BY <2>1, <2>2 DEF Placed, Holds
<1>2. JobInv /\ Elsewhere(place)
  BY DEF DeployInv, Loaded
<1>3. ASSUME job.pc = "settle track", job.track # NoOwner
      PROVE  SameTrack(job.track)
  <2>1. job.track \in Tracks
    BY <1>2, <1>3 DEF JobInv
  <2> QED BY <1>1, <1>2, <1>3, <2>1, PcSets DEF Elsewhere, TakenTrack, Taken
<1>4. ASSUME job.pc = "module", NEW m \in ModulesOf(job.track)
      PROVE  SameModule(m)
  <2>1. m \in Modules /\ modules[m].track = job.track
    BY DEF ModulesOf
  <2> QED BY <1>1, <1>2, <1>4, <2>1, PcSets DEF Elsewhere, TakenModule, Taken
<1>5. ASSUME job.pc = "items", NEW i \in ItemsOf(job.module)
      PROVE  SameItem(i)
  <2>1. i \in Items /\ items[i].module = job.module
    BY DEF ItemsOf
  <2>2. job.pc \in InModule /\ job.pc \in InTrack /\ job.pc \notin InUnits
    BY <1>5, PcSets
  <2>3. modules[job.module].track = job.track
    BY <1>2, <2>2 DEF JobInv
  <2> QED BY <1>1, <1>2, <2>1, <2>2, <2>3 DEF Elsewhere, TakenItem, Taken
<1> QED BY <1>3, <1>4, <1>5

\* The load goes on with the same definition.
JobMoves ==
  /\ job'.corpus = job.corpus /\ job'.def = job.def
  /\ job.pc # "commit" /\ job'.pc # "commit"
  /\ job.pc \in InTrack => job'.pc \in InTrack /\ job'.track = job.track
  /\ job.pc \in InModule => job'.pc \in InModule /\ job'.module = job.module
  /\ job.pc \in InUnits => job'.pc \in InUnits

\* A step that writes at most the rows under way keeps what is done.
LEMMA LoadMoves ==
  ASSUME DeployInv, RowsRemain, UNCHANGED Committed, held \subseteq held',
         Loading, Underway, NEW place, Loaded(place), JobMoves,
         \A t \in Tracks : ~TrackStays(t) =>
           /\ MayTrack(t) /\ TrackBounded(t)'
           /\ job'.pc \in InTrack /\ t = job'.track,
         \A m \in Modules : ~ModuleStays(m) =>
           /\ MayModule(m) /\ ModuleBounded(m)'
           /\ job'.pc \in InModule /\ m = job'.module,
         \A i \in Items : ~ItemStays(i) => MayItem(i) /\ ItemBounded(i)',
         orderRevision' # orderRevision =>
           \E t \in Tracks : Exists(tracks'[t]) /\ ~Exists(Committed.tracks[t])
  PROVE  Loaded(place)'
<1>1. Done' = Done
  BY DEF JobMoves, Done
<1>2. \A f : Taken(place, f)' = Taken(place, f)
  BY <1>1 DEF Taken
<1>3. /\ \A t \in Tracks : TakenTrack(place, t) => TakenTrack(place, t)'
      /\ \A t \in Tracks : ~TrackStays(t) => TakenTrack(place, t)'
  BY <1>2 DEF TakenTrack, JobMoves
<1>4. /\ \A m \in Modules : TakenModule(place, m) => TakenModule(place, m)'
      /\ \A m \in Modules : ~ModuleStays(m) => TakenModule(place, m)'
  BY <1>2 DEF TakenModule, JobMoves
<1>5. /\ \A i \in Items : TakenItem(place, i) /\ items'[i].module = items[i].module
                            => TakenItem(place, i)'
      /\ \A i \in Items : ~ItemStays(i) => TakenItem(place, i)'
  BY <1>2, PcSets DEF TakenItem, JobMoves, MayItem
<1>6. job'.corpus = job.corpus
  BY DEF JobMoves
<1> QED BY <1>1, <1>3, <1>4, <1>5, <1>6, LoadFrame

LEMMA AllStaysQuiet ==
  ASSUME UNCHANGED vars, UNCHANGED Committed
  PROVE  /\ \A t : TrackStays(t)
         /\ \A m : ModuleStays(m)
         /\ \A i : ItemStays(i)
         /\ RowsRemain /\ orderRevision' = orderRevision /\ admins' = admins
BY DEF vars, TrackStays, ModuleStays, ItemStays, RowsRemain

\* So does a step that writes nothing.
LEMMA QuietMoves ==
  ASSUME DeployInv, UNCHANGED vars, UNCHANGED Committed, held \subseteq held',
         Loading, Underway, NEW place, Loaded(place), JobMoves
  PROVE  Loaded(place)'
BY AllStaysQuiet, LoadMoves

-----------------------------------------------------------------------------
(* The steps of a load *)

\* The load goes on and keeps what it has done, or gives up.
LoadGoes == job'.pc # "conflict" => Underway' /\ \E place : Loaded(place)'

\* Where a step leads.
LEMMA GoesTo ==
  ASSUME DeployInv, NEW p \in PCs, job' = Goto(p)
  PROVE  /\ job'.pc = p /\ job'.corpus = job.corpus /\ job'.def = job.def
         /\ job'.unit = job.unit /\ job'.track = job.track
         /\ job'.module = job.module
  BY DEF DeployInv, JobInv, Goto

LEMMA SameDefinition ==
  ASSUME job'.corpus = job.corpus, job'.def = job.def
  PROVE  Def' = Def /\ Units' = Units
  BY DEF Def, Units

LEMMA QuietSame ==
  ASSUME UNCHANGED vars, UNCHANGED Committed
  PROVE  /\ \A t : SameTrack(t)' <=> SameTrack(t)
         /\ \A m : SameModule(m)' <=> SameModule(m)
         /\ \A i : SameItem(i)' <=> SameItem(i)
         /\ \A def, t : KnownTrack(def, t)' <=> KnownTrack(def, t)
         /\ \A def, m : KnownModule(def, m)' <=> KnownModule(def, m)
  BY AllStaysQuiet, StaysSame

\* What is known of the track under way outlasts a step that leaves its text.
LEMMA TrackSettledStays ==
  ASSUME TrackSettled, UNCHANGED Committed, job.pc \in InTrack,
         job'.corpus = job.corpus, job'.def = job.def,
         job'.track = job.track, job'.pc # "module",
         job.pc # "module" => job'.module = job.module,
         tracks'[job.track].title = tracks[job.track].title,
         Exists(Committed.modules[job'.module]) /\ SameTrack(job.track)
           => SameTrack(job.track)'
            \/ Committed.tracks[job.track].status # "ACTIVE"
            \/ Committed.tracks[job.track].title # Def.text
  PROVE  TrackSettled'
<1>1. Def' = Def
  BY SameDefinition
<1>2. PICK t : t = job.track
  OBVIOUS
<1>3. KnownTrack(Def, t)' <=> KnownTrack(Def, t)
  BY <1>1 DEF KnownTrack
<1>4. SameTrack(job.track)' <=> SameTrack(t)'
  BY <1>2 DEF SameTrack
<1>5. KnownTrack(Def, job.track)' <=> KnownTrack(Def, t)'
  BY <1>2 DEF KnownTrack
<1> QED BY <1>1, <1>2, <1>3, <1>4, <1>5 DEF TrackSettled

LEMMA ModuleSettledStays ==
  ASSUME ModuleSettled, UNCHANGED Committed, job.pc \in InModule,
         job'.corpus = job.corpus, job'.def = job.def,
         job'.module = job.module,
         modules'[job.module].title = modules[job.module].title,
         SameModule(job.module) => SameModule(job.module)'
            \/ Committed.modules[job.module].status # "ACTIVE"
            \/ Cardinality(D!ItemsOf(job.module)) # Len(Units),
         job'.pc = "activate track" => modules'[job.module].status = "ACTIVE"
  PROVE  ModuleSettled'
<1>1. Def' = Def /\ Units' = Units
  BY SameDefinition
<1>2. PICK m : m = job.module
  OBVIOUS
<1>3. KnownModule(Def, m)' <=> KnownModule(Def, m)
  BY <1>1 DEF KnownModule
<1>4. SameModule(job.module)' <=> SameModule(m)'
  BY <1>2 DEF SameModule
<1>5. KnownModule(Def, job.module)' <=> KnownModule(Def, m)'
  BY <1>2 DEF KnownModule
<1>6. D!ItemsOf(job.module)' = D!ItemsOf(m)
  BY <1>2 DEF D!ItemsOf
<1> QED BY <1>1, <1>2, <1>3, <1>4, <1>5, <1>6 DEF ModuleSettled

\* _resolve_track, and a track that says what the author wants already.
LEMMA SelectTrackLoads ==
  ASSUME DeployInv, SelectTrack, Underway, NEW place, Loaded(place)
  PROVE  LoadGoes
<1>1. /\ job.pc = "track" /\ UNCHANGED vars
      /\ held \subseteq held'
      /\ job' = IF Cardinality(Matching(Def)) > 1 THEN Goto("conflict")
                ELSE [Goto("settle track") EXCEPT
                        !.track = IF Matching(Def) = {} THEN NoOwner
                                  ELSE CHOOSE t \in Matching(Def) : TRUE]
  BY DEF SelectTrack, At, Hold
<1>2. UNCHANGED Committed /\ Loading
  BY <1>1, SelectTrackKept DEF Loading
<1>3. CASE job' = Goto("conflict")
  BY <1>3, GoesTo DEF LoadGoes, PCs
<1>4. CASE job' = [Goto("settle track") EXCEPT
                     !.track = IF Matching(Def) = {} THEN NoOwner
                               ELSE CHOOSE t \in Matching(Def) : TRUE]
  <2>1. PICK t : /\ t # NoOwner => t \in Matching(Def)
                 /\ job' = [Goto("settle track") EXCEPT !.track = t]
    BY <1>4
  <2>2. /\ job'.pc = "settle track" /\ job'.corpus = job.corpus
        /\ job'.def = job.def /\ job'.unit = job.unit /\ job'.track = t
    BY <2>1 DEF DeployInv, JobInv, Goto
  <2>3. /\ job.pc \notin InTrack /\ job'.pc \notin InTrack
        /\ job.pc \notin InModule /\ job'.pc \notin InModule
        /\ job.pc \notin InUnits /\ job'.pc \notin InUnits
    BY <1>1, <2>2 DEF InTrack, InModule, InUnits
  <2>4. Loaded(place)'
    BY <1>1, <1>2, <2>2, <2>3, QuietMoves DEF JobMoves
  <2>5. Def' = Def
    BY <2>2, SameDefinition
  <2>6. TrackFound'
    BY <2>1, <2>2, <2>5, <1>1 DEF TrackFound, Matching, vars
  <2>7. FirstUnit'
    BY <1>1, <2>2 DEF Underway, FirstUnit
  <2> QED BY <2>2, <2>3, <2>4, <2>6, <2>7
          DEF LoadGoes, Underway, TrackSettled, ModuleSettled, UnitsSettled
<1> QED BY <1>1, <1>3, <1>4

LEMMA KeepTrackLoads ==
  ASSUME DeployInv, KeepTrack, Underway, NEW place, Loaded(place)
  PROVE  LoadGoes
<1>1. /\ job.pc = "settle track" /\ job.track # NoOwner /\ UNCHANGED vars
      /\ tracks[job.track].title = Def.text
      /\ held' = held /\ job' = Goto("module")
  BY DEF KeepTrack, At
<1>2. UNCHANGED Committed /\ Loading
  BY <1>1, KeepTrackKept DEF Loading
<1>3. /\ job'.pc = "module" /\ job'.corpus = job.corpus /\ job'.def = job.def
      /\ job'.unit = job.unit /\ job'.track = job.track
  BY <1>1, GoesTo DEF PCs
<1>4. /\ job.pc \notin InTrack /\ job'.pc \in InTrack
      /\ job.pc \notin InModule /\ job'.pc \notin InModule
      /\ job.pc \notin InUnits /\ job'.pc \notin InUnits
  BY <1>1, <1>3 DEF InTrack, InModule, InUnits
<1>5. Loaded(place)'
  BY <1>1, <1>2, <1>3, <1>4, QuietMoves DEF JobMoves
<1>6. Def' = Def
  BY <1>3, SameDefinition
<1>7. TrackSettled'
  <2>1. PICK t : t = job.track
    OBVIOUS
  <2>2. SameTrack(t) /\ tracks[t].title = Def.text
    BY <1>1, <1>2, <2>1, NotYetWritten
  <2>3. SameTrack(t)' /\ KnownTrack(Def, t)'
    BY <1>1, <1>2, <1>6, <2>2, QuietSame DEF KnownTrack, SameTrack, TitleKeys
  <2>4. job'.track = t /\ tracks'[t].title = Def.text
    BY <1>1, <1>3, <2>1, <2>2 DEF vars
  <2> QED BY <1>6, <2>3, <2>4 DEF TrackSettled, SameTrack, KnownTrack
<1>8. FirstUnit'
  BY <1>1, <1>3 DEF Underway, FirstUnit
<1> QED BY <1>3, <1>4, <1>5, <1>7, <1>8
        DEF LoadGoes, Underway, TrackFound, ModuleSettled, UnitsSettled

\* A module that says what the author wants already.
LEMMA KeepModuleLoads ==
  ASSUME DeployInv, KeepModule, Underway, NEW place, Loaded(place)
  PROVE  LoadGoes
<1>1. PICK m \in NamedModules :
        /\ Says(modules[m].title, Def.module)
        /\ job' = [Goto("items") EXCEPT !.module = m]
        /\ Hold({<<"module", m>>})
  BY DEF KeepModule
<1>2. job.pc = "module" /\ UNCHANGED vars /\ held \subseteq held'
  BY <1>1 DEF KeepModule, At, Hold
<1>3. UNCHANGED Committed /\ Loading
  BY <1>2, KeepModuleKept DEF Loading
<1>4. /\ job'.pc = "items" /\ job'.corpus = job.corpus /\ job'.def = job.def
      /\ job'.unit = job.unit /\ job'.track = job.track /\ job'.module = m
  BY <1>1 DEF DeployInv, JobInv, Goto
<1>5. /\ job.pc \in InTrack /\ job'.pc \in InTrack
      /\ job.pc \notin InModule /\ job'.pc \in InModule
      /\ job.pc \notin InUnits /\ job'.pc \notin InUnits
  BY <1>2, <1>4 DEF InTrack, InModule, InUnits
<1>6. Loaded(place)'
  BY <1>2, <1>3, <1>4, <1>5, QuietMoves DEF JobMoves
<1>7. Def' = Def
  BY <1>4, SameDefinition
<1>8. TrackSettled'
  <2>1. tracks' = tracks /\ TrackSettled
    BY <1>2 DEF vars, Underway
  <2>2. PICK t : t = job.track
    OBVIOUS
  <2>3. SameTrack(t)' <=> SameTrack(t)
    BY <1>2, <1>3, QuietSame
  <2>4. SameTrack(job.track) => SameTrack(job.track)'
    BY <2>2, <2>3, <1>4 DEF SameTrack
  <2> QED BY <1>2, <1>3, <1>4, <1>5, <2>1, <2>4, TrackSettledStays
<1>9. ModuleSettled'
  <2>1. SameModule(m) /\ m \in ModulesOf(job.track)
    BY <1>1, <1>2, <1>3, NotYetWritten DEF NamedModules, Named
  <2>2. SameModule(m)' /\ KnownModule(Def, m)'
    BY <1>1, <1>2, <1>3, <1>7, <2>1, QuietSame DEF Says, KnownModule, SameModule
  <2> QED BY <1>1, <1>2, <1>4, <1>7, <2>2
          DEF ModuleSettled, SameModule, KnownModule, vars
<1>10. FirstUnit'
  BY <1>2, <1>4 DEF Underway, FirstUnit
<1> QED BY <1>4, <1>5, <1>6, <1>8, <1>9, <1>10
        DEF LoadGoes, Underway, TrackFound, UnitsSettled

\* _validate_existing_content: what is committed is the definition's.
LEMMA CommittedItemsOf ==
  ASSUME DeployInv, NEW m \in Modules
  PROVE  D!ItemsOf(m) \subseteq ItemsOf(m)
BY CommittedPlacedExist DEF DeployInv, SavedInv, D!ItemsOf, ItemsOf

LEMMA ValidateItemsLoads ==
  ASSUME DeployInv, ValidateItems, Underway, NEW place, Loaded(place)
  PROVE  LoadGoes
<1>1. /\ job.pc = "items" /\ UNCHANGED vars /\ held \subseteq held'
      /\ job' = Goto(IF OnlyManaged(job.module, Units) THEN "unit" ELSE "conflict")
  BY DEF ValidateItems, At, Hold
<1>2. UNCHANGED Committed /\ Loading
  BY <1>1, ValidateItemsKept DEF Loading
<1>3. CASE ~OnlyManaged(job.module, Units)
  <2>1. job' = Goto("conflict")
    BY <1>1, <1>3
  <2> QED BY <2>1, GoesTo DEF LoadGoes, PCs
<1>4. CASE OnlyManaged(job.module, Units)
  <2>1. job' = Goto("unit")
    BY <1>1, <1>4
  <2>2. /\ job'.pc = "unit" /\ job'.corpus = job.corpus /\ job'.def = job.def
        /\ job'.unit = job.unit /\ job'.track = job.track
        /\ job'.module = job.module
    BY <2>1, GoesTo DEF PCs
  <2>3. /\ job.pc \in InTrack /\ job'.pc \in InTrack
        /\ job.pc \in InModule /\ job'.pc \in InModule
        /\ job.pc \notin InUnits /\ job'.pc \in InUnits
    BY <1>1, <2>2 DEF InTrack, InModule, InUnits
  <2>4. Loaded(place)'
    BY <1>1, <1>2, <2>2, <2>3, QuietMoves DEF JobMoves
  <2>5. Def' = Def /\ Units' = Units
    BY <2>2, SameDefinition
  <2>6. PICK m : m = job.module
    OBVIOUS
  <2>7. PICK t : t = job.track
    OBVIOUS
  <2>8. TrackSettled'
    <3>1. tracks' = tracks /\ TrackSettled
      BY <1>1 DEF vars, Underway
    <3>2. SameTrack(job.track) => SameTrack(job.track)'
      BY <2>7, <1>1, <1>2, <2>2, QuietSame DEF SameTrack
    <3> QED BY <1>1, <1>2, <2>2, <2>3, <3>1, <3>2, TrackSettledStays
  <2>9. ModuleSettled'
    <3>1. modules' = modules /\ ModuleSettled
      BY <1>1 DEF vars, Underway
    <3>2. SameModule(job.module) => SameModule(job.module)'
      BY <2>6, <1>1, <1>2, <2>2, QuietSame DEF SameModule
    <3> QED BY <1>1, <1>2, <2>2, <2>3, <3>1, <3>2, ModuleSettledStays
  <2>10. UnitsSettled'
    <3>1. m \in Modules
      BY <2>3, <2>6 DEF DeployInv, JobInv
    <3>2. \A i \in ItemsOf(m) : SameItem(i)
      BY <1>1, <1>2, <2>6, NotYetWritten
    <3>3. D!ItemsOf(m) \subseteq ItemsOf(m)
      BY <3>1, CommittedItemsOf
    <3>4. D!OnlyManaged(m, Units)
      <4>1. \A i \in Items : items[i].module = m \/ Committed.items[i].module = m =>
              /\ Committed.items[i] = items[i]
              /\ \A v : v.of = i => (v \in Committed.contentVersions <=> v \in contentVersions)
        BY <3>2, <3>3 DEF ItemsOf, D!ItemsOf, SameItem
      <4>2. ManagedIn(items, contentVersions, m, Units)
        BY <1>4, <2>6, OnlyManagedIs
      <4> QED BY <4>1, <4>2, ManagedSame, OnlyManagedIs
    <3>5. D!OnlyManaged(m, Units)'
      <4>1. PICK units : units = Units
        OBVIOUS
      <4>2. D!OnlyManaged(m, units)' <=> D!OnlyManaged(m, units)
        BY <1>2, OnlyManagedIs
      <4> QED BY <3>4, <4>1, <4>2, <2>5
    <3>6. D!ItemsOf(m)' = D!ItemsOf(m) /\ ItemsOf(m)' = ItemsOf(m)
      BY <1>1, <1>2 DEF D!ItemsOf, ItemsOf, vars
    <3>7. \A i \in ItemsOf(m) : SameItem(i)'
      BY <1>1, <1>2, <3>2, QuietSame
    <3>8. job'.unit = 1
      BY <1>1, <2>2 DEF Underway, FirstUnit
    <3>9. \A u \in DOMAIN Units : ~(u < 1)
      BY <1>2, DefinitionFields DEF DeployInv
    <3>10. Cardinality(ItemsOf(m)) <= Len(Units)
      BY <1>4, <2>6 DEF OnlyManaged
    <3> QED BY <2>2, <2>5, <2>6, <3>3, <3>5, <3>6, <3>7, <3>8, <3>9, <3>10
            DEF UnitsSettled
  <2> QED BY <2>2, <2>4, <2>8, <2>9, <2>10 DEF LoadGoes, Underway, FirstUnit, TrackFound
<1> QED BY <1>3, <1>4

\* The load goes on with the next unit, or with the module.
LEMMA NextUnitGoes ==
  ASSUME DeployInv, job.pc = "unit", job' = NextUnit
  PROVE  /\ job'.corpus = job.corpus /\ job'.def = job.def
         /\ job'.track = job.track /\ job'.module = job.module
         /\ \/ job'.pc = "unit" /\ job'.unit = job.unit + 1
            \/ job'.pc = "activate module" /\ job.unit = Len(Units)
         /\ job.pc \in InTrack /\ job.pc \in InModule /\ job.pc \in InUnits
         /\ job'.pc \in InTrack /\ job'.pc \in InModule /\ job'.pc \in InUnits
<1>1. JobInv /\ Loading
  BY DEF DeployInv, Loading
<1>2. job \in JobRow
  BY <1>1 DEF JobInv, JobRow
<1>3. CASE job.unit < Len(Units)
  <2>1. job' = [job EXCEPT !.unit = job.unit + 1]
    BY <1>3 DEF NextUnit
  <2>2. /\ job'.pc = "unit" /\ job'.unit = job.unit + 1
        /\ job'.corpus = job.corpus /\ job'.def = job.def
        /\ job'.track = job.track /\ job'.module = job.module
    BY <1>2, <2>1 DEF JobRow
  <2> QED BY <2>2 DEF InTrack, InModule, InUnits
<1>4. CASE ~(job.unit < Len(Units))
  <2>1. job' = [job EXCEPT !.pc = "activate module"]
    BY <1>4 DEF NextUnit, Goto
  <2>2. /\ job'.pc = "activate module"
        /\ job'.corpus = job.corpus /\ job'.def = job.def
        /\ job'.track = job.track /\ job'.module = job.module
    BY <1>2, <2>1 DEF JobRow
  <2>3. job.unit = Len(Units)
    BY <1>1, <1>4, DefinitionFields
  <2> QED BY <2>2, <2>3 DEF InTrack, InModule, InUnits
<1> QED BY <1>3, <1>4

LEMMA NotLast == \A n \in Nat : \A u \in 1..n : u # n => u < n
  OBVIOUS

\* The unit under way is settled, and the others stay what they are.
LEMMA UnitSettles ==
  ASSUME DeployInv, job.pc = "unit", job' = NextUnit, UNCHANGED Committed,
         UnitsSettled, ItemsOf(job.module)' = ItemsOf(job.module),
         \A i \in ItemsOf(job.module) : items'[i].position = items[i].position,
         NEW i \in ItemsOf(job.module), items[i].position = job.unit,
         Shows(items', contentVersions', i, Units[job.unit].payload),
         \A j \in ItemsOf(job.module) \ {i} :
           /\ \A x : Shows(items, contentVersions, j, x) =>
                     Shows(items', contentVersions', j, x)
           /\ SameItem(j) => SameItem(j)',
         Shows(Committed.items, Committed.contentVersions, i,
               Units[Committed.items[i].position].payload) => SameItem(i)'
  PROVE  UnitsSettled'
<1>1. /\ job'.corpus = job.corpus /\ job'.def = job.def /\ job'.module = job.module
      /\ \/ job'.pc = "unit" /\ job'.unit = job.unit + 1
         \/ job'.pc = "activate module" /\ job.unit = Len(Units)
      /\ job.pc \in InUnits /\ job.pc \in InModule
  BY NextUnitGoes
<1>2. Def' = Def /\ Units' = Units
  BY <1>1, SameDefinition
<1>3. PICK m : m = job.module
  OBVIOUS
<1>4. /\ m \in Modules /\ JobInv /\ Loading
  BY <1>1, <1>3 DEF DeployInv, JobInv, Loading
<1>5. /\ Len(Units) \in Nat /\ DOMAIN Units = 1..Len(Units)
      /\ job.unit \in 1..Len(Units)
  BY <1>4, DefinitionFields
<1>6. ItemsOf(m)' = ItemsOf(m) /\ D!ItemsOf(m)' = D!ItemsOf(m)
      /\ D!ItemsOf(m) \subseteq ItemsOf(m)
  BY <1>3, <1>1, <1>4, CommittedItemsOf DEF ItemsOf, D!ItemsOf
<1>7. TypeOK /\ CatalogInv
  BY CatalogInvRules DEF DeployInv
<1>8. \A j \in ItemsOf(m) : items[j].position \in Nat
  BY <1>7 DEF TypeOK, ItemRow, ItemsOf
<1>9. D!OnlyManaged(m, Units)'
  <2>1. PICK units : units = Units
    OBVIOUS
  <2>2. D!OnlyManaged(m, units)' <=> D!OnlyManaged(m, units)
    BY OnlyManagedIs
  <2> QED BY <2>1, <2>2, <1>1, <1>2, <1>3 DEF UnitsSettled
<1>10. ASSUME NEW u \in DOMAIN Units, u < job'.unit \/ job'.pc # "unit"
       PROVE  \E j \in ItemsOf(m) :
                /\ items'[j].position = u
                /\ Shows(items', contentVersions', j, Units[u].payload)
  <2>1. CASE u = job.unit
    BY <2>1, <1>3
  <2>2. CASE u # job.unit
    <3>1. u < job.unit
      <4>1. u \in 1..Len(Units)
        BY <1>5
      <4>2. CASE job'.pc = "unit" /\ job'.unit = job.unit + 1
        BY <4>1, <4>2, <1>5, <1>10, <2>2
      <4>3. CASE job'.pc = "activate module" /\ job.unit = Len(Units)
        BY <4>1, <4>3, <1>5, <2>2, NotLast
      <4> QED BY <4>2, <4>3, <1>1
    <3>2. PICK j \in ItemsOf(m) :
            items[j].position = u /\ Shows(items, contentVersions, j, Units[u].payload)
      BY <3>1, <1>1, <1>3 DEF UnitsSettled
    <3>3. j # i
      BY <2>2, <3>2
    <3> QED BY <1>3, <3>2, <3>3
  <2> QED BY <2>1, <2>2
<1>11. ASSUME NEW j \in ItemsOf(m), job'.pc = "unit",
              items'[j].position >= job'.unit, Exists(Committed.items[j])
       PROVE  SameItem(j)'
  <2>1. items'[j].position = items[j].position
    BY <1>3
  <2>2. items[j].position >= job.unit + 1
    BY <2>1, <1>11, <1>1
  <2>3. j # i /\ items[j].position >= job.unit
    BY <2>2, <1>5, <1>8
  <2>4. SameItem(j)
    BY <2>3, <1>1, <1>3, <1>11 DEF UnitsSettled
  <2> QED BY <2>3, <2>4, <1>3
<1>12. ASSUME NEW j \in D!ItemsOf(m),
              Shows(Committed.items, Committed.contentVersions, j,
                    Units[Committed.items[j].position].payload)
       PROVE  SameItem(j)'
  <2>1. CASE j = i
    BY <2>1, <1>12
  <2>2. CASE j # i
    <3>1. SameItem(j)
      BY <1>12, <1>1, <1>3 DEF UnitsSettled
    <3> QED BY <2>2, <3>1, <1>3, <1>6
  <2> QED BY <2>1, <2>2
<1>13. Cardinality(ItemsOf(m)) <= Len(Units)
  BY <1>1, <1>3 DEF UnitsSettled
<1>14. job'.module = m
  BY <1>1, <1>3
<1> QED BY <1>2, <1>6, <1>9, <1>10, <1>11, <1>12, <1>13, <1>14 DEF UnitsSettled

\* A unit that readers see already is passed over.
LEMMA KeepUnitLoads ==
  ASSUME DeployInv, KeepUnit, Underway, NEW place, Loaded(place)
  PROVE  LoadGoes
<1>1. /\ job.pc = "unit" /\ UNCHANGED vars /\ held' = held /\ job' = NextUnit
  BY DEF KeepUnit, At
<1>2. PICK i \in UnitItem : Matches(i)
  BY DEF KeepUnit
<1>3. UNCHANGED Committed /\ Loading
  BY <1>1, KeepUnitKept DEF Loading
<1>4. /\ job'.corpus = job.corpus /\ job'.def = job.def
      /\ job'.track = job.track /\ job'.module = job.module
      /\ job'.pc \in {"unit", "activate module"}
      /\ job.pc \in InTrack /\ job.pc \in InModule /\ job.pc \in InUnits
      /\ job'.pc \in InTrack /\ job'.pc \in InModule /\ job'.pc \in InUnits
  BY <1>1, NextUnitGoes
<1>5. Loaded(place)'
  BY <1>1, <1>3, <1>4, QuietMoves DEF JobMoves
<1>6. PICK m : m = job.module
  OBVIOUS
<1>7. PICK t : t = job.track
  OBVIOUS
<1>8. TrackSettled'
  <2>1. tracks' = tracks /\ TrackSettled
    BY <1>1 DEF vars, Underway
  <2>2. SameTrack(job.track) => SameTrack(job.track)'
    <3>1. SameTrack(t) => SameTrack(t)'
      BY <1>1, <1>3, QuietSame
    <3>2. (SameTrack(job.track) <=> SameTrack(t))
          /\ (SameTrack(job.track)' <=> SameTrack(t)')
      BY <1>7, <1>4 DEF SameTrack
    <3> QED BY <3>1, <3>2
  <2> QED BY <1>1, <1>3, <1>4, <2>1, <2>2, TrackSettledStays
<1>9. ModuleSettled'
  <2>1. modules' = modules /\ ModuleSettled
    BY <1>1 DEF vars, Underway
  <2>2. SameModule(job.module) => SameModule(job.module)'
    <3>1. SameModule(m) => SameModule(m)'
      BY <1>1, <1>3, QuietSame
    <3>2. (SameModule(job.module) <=> SameModule(m))
          /\ (SameModule(job.module)' <=> SameModule(m)')
      BY <1>6, <1>4 DEF SameModule
    <3> QED BY <3>1, <3>2
  <2> QED BY <1>1, <1>3, <1>4, <2>1, <2>2, ModuleSettledStays
<1>10. UnitsSettled'
  <2>1. i \in ItemsOf(job.module) /\ items[i].position = job.unit
    BY <1>2 DEF UnitItem
  <2>2. Shows(items, contentVersions, i, Units[job.unit].payload)
    <3>1. PICK v : /\ v \in contentVersions /\ items[i].status = "PUBLISHED"
                   /\ v.of = i /\ v.number = items[i].published
                   /\ v.title = Units[job.unit].payload
      BY <1>2 DEF Matches, PublishedVersion
    <3>2. contentVersions \subseteq VersionRow(Items)
      BY CatalogInvRules DEF DeployInv, TypeOK
    <3>3. v = [of |-> i, number |-> items[i].published,
               title |-> Units[job.unit].payload]
      BY <3>1, <3>2 DEF VersionRow
    <3> QED BY <3>1, <3>3 DEF Shows
  <2>3. items' = items /\ contentVersions' = contentVersions /\ UnitsSettled
    BY <1>1 DEF vars, Underway
  <2>4. Shows(items', contentVersions', i, Units[job.unit].payload)
    BY <2>2, <2>3
  <2>5. ItemsOf(job.module)' = ItemsOf(job.module)
    BY <2>3, <1>4 DEF ItemsOf
  <2>6. \A j : SameItem(j) => SameItem(j)'
    BY <1>1, <1>3, QuietSame
  <2>7. Shows(Committed.items, Committed.contentVersions, i,
              Units[Committed.items[i].position].payload) => SameItem(i)'
    <3>1. SUFFICES ASSUME Shows(Committed.items, Committed.contentVersions, i,
                                Units[Committed.items[i].position].payload)
                   PROVE  SameItem(i)
      BY <2>6
    <3>2. Exists(Committed.items[i])
      BY <3>1 DEF Shows, Exists
    <3>3. items[i].position >= job.unit
      BY <2>1, <1>3, DefinitionFields DEF DeployInv
    <3> QED BY <1>1, <1>4, <2>1, <2>3, <3>2, <3>3 DEF UnitsSettled
  <2> QED BY <1>1, <1>3, <2>1, <2>3, <2>4, <2>5, <2>6, <2>7, UnitSettles
<1> QED BY <1>4, <1>5, <1>8, <1>9, <1>10
        DEF LoadGoes, Underway, FirstUnit, TrackFound

\* The items are settled, and a step writes none of them.
LEMMA UnitsSettledStays ==
  ASSUME DeployInv, UNCHANGED Committed, job.pc \in InUnits, job'.pc \in InUnits,
         UnitsSettled, items' = items, contentVersions' = contentVersions,
         job.pc # "unit", job'.pc # "unit", job'.corpus = job.corpus,
         job'.def = job.def, job'.module = job.module
  PROVE  UnitsSettled'
<1>1. Def' = Def /\ Units' = Units
  BY SameDefinition
<1>2. PICK m : m = job.module
  OBVIOUS
<1>3. ItemsOf(m)' = ItemsOf(m) /\ D!ItemsOf(m)' = D!ItemsOf(m)
  BY DEF ItemsOf, D!ItemsOf
<1>4. D!OnlyManaged(m, Units)'
  <2>1. PICK units : units = Units
    OBVIOUS
  <2>2. D!OnlyManaged(m, units)' <=> D!OnlyManaged(m, units)
    BY OnlyManagedIs
  <2> QED BY <2>1, <2>2, <1>1, <1>2 DEF UnitsSettled
<1>5. \A i : SameItem(i)' <=> SameItem(i)
  BY DEF SameItem
<1> QED BY <1>1, <1>2, <1>3, <1>4, <1>5 DEF UnitsSettled

\* A module that is active already.
LEMMA KeepModuleActiveLoads ==
  ASSUME DeployInv, KeepModuleActive, Underway, NEW place, Loaded(place)
  PROVE  LoadGoes
<1>1. /\ job.pc = "activate module" /\ UNCHANGED vars
      /\ modules[job.module].status = "ACTIVE"
      /\ held' = held /\ job' = Goto("activate track")
  BY DEF KeepModuleActive, At
<1>2. UNCHANGED Committed /\ Loading
  BY <1>1, KeepModuleActiveKept DEF Loading
<1>3. /\ job'.pc = "activate track" /\ job'.corpus = job.corpus
      /\ job'.def = job.def
      /\ job'.unit = job.unit /\ job'.track = job.track
      /\ job'.module = job.module
  BY <1>1, GoesTo DEF PCs
<1>4. /\ job.pc \in InTrack /\ job'.pc \in InTrack
      /\ job.pc \in InModule /\ job'.pc \in InModule
      /\ job.pc \in InUnits /\ job'.pc \in InUnits
  BY <1>1, <1>3 DEF InTrack, InModule, InUnits
<1>5. Loaded(place)'
  BY <1>1, <1>2, <1>3, <1>4, QuietMoves DEF JobMoves
<1>6. PICK m : m = job.module
  OBVIOUS
<1>7. PICK t : t = job.track
  OBVIOUS
<1>8. TrackSettled'
  <2>1. tracks' = tracks /\ TrackSettled
    BY <1>1 DEF vars, Underway
  <2>2. SameTrack(t) => SameTrack(t)'
    BY <1>1, <1>2, QuietSame
  <2>3. SameTrack(job.track) => SameTrack(job.track)'
    BY <1>7, <2>2, <1>3 DEF SameTrack
  <2> QED BY <1>1, <1>2, <1>3, <1>4, <2>1, <2>3, TrackSettledStays
<1>9. ModuleSettled'
  <2>1. modules' = modules /\ ModuleSettled
    BY <1>1 DEF vars, Underway
  <2>2. SameModule(m) => SameModule(m)'
    BY <1>1, <1>2, QuietSame
  <2>3. SameModule(job.module) => SameModule(job.module)'
    BY <1>6, <2>2, <1>3 DEF SameModule
  <2> QED BY <1>1, <1>2, <1>3, <1>4, <2>1, <2>3, ModuleSettledStays
<1>10. UnitsSettled'
  BY <1>1, <1>2, <1>3, <1>4, UnitsSettledStays DEF vars, Underway
<1> QED BY <1>3, <1>5, <1>8, <1>9, <1>10
        DEF LoadGoes, Underway, FirstUnit, TrackFound

\* One row is written, the others stay.
LEMMA OneTrackWritten ==
  ASSUME UNCHANGED Committed, NEW t, NEW row, tracks' = [tracks EXCEPT ![t] = row],
         NEW a, NEW b, NEW x,
         trackVersions' = trackVersions \cup Snapshot(t, a, b, x)
  PROVE  \A k : ~TrackStays(k) => k = t
<1>1. \A v : (v \in trackVersions) # (v \in trackVersions') => v.of = t
  BY DEF Snapshot
<1> QED BY <1>1 DEF TrackStays

LEMMA OneModuleWritten ==
  ASSUME UNCHANGED Committed, NEW m, NEW row, modules' = [modules EXCEPT ![m] = row],
         NEW a, NEW b, NEW x,
         moduleVersions' = moduleVersions \cup Snapshot(m, a, b, x)
  PROVE  \A k : ~ModuleStays(k) => k = m
<1>1. \A v : (v \in moduleVersions) # (v \in moduleVersions') => v.of = m
  BY DEF Snapshot
<1> QED BY <1>1 DEF ModuleStays

LEMMA OneItemWritten ==
  ASSUME UNCHANGED Committed, NEW i, NEW row, items' = [items EXCEPT ![i] = row],
         NEW a, NEW b, NEW x,
         contentVersions' = contentVersions \cup Snapshot(i, a, b, x)
  PROVE  \A k : ~ItemStays(k) => k = i
<1>1. \A v : (v \in contentVersions) # (v \in contentVersions') => v.of = i
  BY DEF Snapshot
<1> QED BY <1>1 DEF ItemStays

LEMMA TablesStay ==
  ASSUME UNCHANGED Committed
  PROVE  /\ UNCHANGED <<tracks, trackVersions>> => \A t : TrackStays(t)
         /\ UNCHANGED <<modules, moduleVersions>> => \A m : ModuleStays(m)
         /\ UNCHANGED <<items, contentVersions>> => \A i : ItemStays(i)
  BY DEF TrackStays, ModuleStays, ItemStays

\* What a successful edit of a track writes.
LEMMA EditTrackWrites ==
  ASSUME NEW c, EditTrack(c), log'.result = "SUCCESS"
  PROVE  /\ tracks' = [tracks EXCEPT ![c.track] = Edited(tracks[c.track], c.title)]
         /\ trackVersions' = trackVersions \cup
              Snapshot(c.track, tracks[c.track],
                       Edited(tracks[c.track], c.title), c.title)
         /\ UNCHANGED <<admins, modules, items, moduleVersions, contentVersions,
                        orderRevision>>
<1> DEFINE t == c.track
           row == tracks[t]
           result == EditDecision(c.actor \in admins, Exists(row), row, c,
                       TitleFree(tracks, UsedTracks, t, c.title))
           after == IF result = "SUCCESS" THEN Edited(row, c.title) ELSE row
<1>1. /\ tracks' = [tracks EXCEPT ![t] = after]
      /\ trackVersions' = trackVersions \cup Snapshot(t, row, after, c.title)
      /\ Record(c, "EDIT", "TRACK", t, result, result = "SUCCESS")
      /\ UNCHANGED <<admins, modules, items, moduleVersions, contentVersions,
                     orderRevision>>
  BY DEF EditTrack
<1> HIDE DEF result
<1>2. log'.result = result
  BY <1>1 DEF Record
<1> QED BY <1>1, <1>2

\* The track of the definition is created or gets its text back.
LEMMA CreateMissingTrackLoads ==
  ASSUME DeployInv, CreateMissingTrack, Underway, NEW place, Loaded(place)
  PROVE  LoadGoes
<1> DEFINE c == [op |-> "create_track", actor |-> Author, title |-> Def.text,
                 ok |-> TRUE]
<1>1. /\ job.pc = "settle track" /\ job.track = NoOwner /\ CreateTrack(c)
      /\ held \subseteq held' /\ Require([Goto("module") EXCEPT !.track = log'.key])
  BY DEF CreateMissingTrack, At, Hold
<1>2. UNCHANGED Committed /\ Loading /\ TypeOK
  BY <1>1, CreateMissingTrackKept, CatalogInvRules DEF Loading, DeployInv
<1>3. UNCHANGED <<admins, modules, items, trackVersions, moduleVersions,
                  contentVersions>>
  BY <1>1 DEF CreateTrack
<1>4. CASE log'.result # "SUCCESS"
  <2>1. job' = Goto("conflict")
    BY <1>1, <1>4 DEF Require
  <2> QED BY <2>1, GoesTo DEF LoadGoes, PCs
<1>5. CASE log'.result = "SUCCESS"
  <2>1. PICK t, p : /\ t \in Tracks \ UsedTracks
                    /\ tracks' = [tracks EXCEPT ![t] = NewTrack(Def.text, p)]
                    /\ log'.key = t
    <3>1. c.title = Def.text /\ CreateTrack(c)
      BY <1>1
    <3> HIDE DEF c
    <3> QED BY <3>1, <1>5, CreatedTrack
  <2>2. job' = [Goto("module") EXCEPT !.track = t]
    BY <2>1, <1>1, <1>5 DEF Require
  <2>3. /\ job'.pc = "module" /\ job'.corpus = job.corpus /\ job'.def = job.def
        /\ job'.unit = job.unit /\ job'.track = t
    BY <2>2 DEF DeployInv, JobInv, Goto
  <2>4. /\ job.pc \notin InTrack /\ job'.pc \in InTrack
        /\ job.pc \notin InModule /\ job'.pc \notin InModule
        /\ job.pc \notin InUnits /\ job'.pc \notin InUnits
    BY <1>1, <2>3 DEF InTrack, InModule, InUnits
  <2>5. /\ tracks'[t] = NewTrack(Def.text, p) /\ ~Exists(tracks[t])
        /\ \A k \in Tracks \ {t} : tracks'[k] = tracks[k]
    BY <1>2, <2>1 DEF TypeOK, UsedTracks
  <2>6. Exists(tracks'[t]) /\ tracks'[t].title = Def.text
        /\ ~Exists(Committed.tracks[t])
    BY <2>1, <2>5 DEF NewTrack, Exists, DeployInv, SavedInv
  <2>7. RowsRemain
    BY <1>3, <2>5, <2>6 DEF RowsRemain
  <2>8. Loaded(place)'
    <3>1. /\ \A m : ModuleStays(m)
          /\ \A i : ItemStays(i)
      BY <1>2, <1>3, TablesStay
    <3>2. \A k \in Tracks : ~TrackStays(k) => k = t
      BY <1>2, <1>3, <2>5 DEF TrackStays
    <3>3. MayTrack(t)
      BY <2>5 DEF MayTrack
    <3>4. TrackBounded(t)'
      <4>1. TrackBounded(t)
        BY <2>1 DEF Loaded, Bounded
      <4> QED BY <4>1, <1>2, <1>3, <2>6 DEF TrackBounded
    <3>5. JobMoves
      BY <1>1, <2>3, <2>4 DEF JobMoves
    <3>6. \E k \in Tracks : Exists(tracks'[k]) /\ ~Exists(Committed.tracks[k])
      BY <2>1, <2>6
    <3> QED BY <1>1, <1>2, <2>3, <2>4, <2>7, <3>1, <3>2, <3>3, <3>4, <3>5, <3>6,
            LoadMoves
  <2>9. Def' = Def
    BY <2>3, SameDefinition
  <2>10. TrackSettled'
    <3>1. /\ ~Exists(Committed'.tracks[t])
          /\ Committed'.tracks[t].status # "ACTIVE"
      BY <1>2, <2>6 DEF Exists
    <3> QED BY <2>3, <2>6, <2>9, <3>1 DEF TrackSettled, KnownTrack
  <2>11. FirstUnit'
    BY <1>1, <2>3 DEF Underway, FirstUnit
  <2> QED BY <2>3, <2>4, <2>8, <2>10, <2>11
          DEF LoadGoes, Underway, TrackFound, ModuleSettled, UnitsSettled
<1> QED BY <1>4, <1>5

LEMMA RestoreTrackLoads ==
  ASSUME DeployInv, RestoreTrack, Underway, NEW place, Loaded(place)
  PROVE  LoadGoes
<1> DEFINE c == [op |-> "edit_track", actor |-> Author, track |-> job.track,
                 rev |-> tracks[job.track].revision, title |-> Def.text,
                 ok |-> TRUE, pub |-> TRUE]
<1>1. /\ job.pc = "settle track" /\ job.track # NoOwner
      /\ tracks[job.track].title # Def.text /\ EditTrack(c)
      /\ held' = held /\ Require(Goto("module"))
  BY DEF RestoreTrack, At
<1>2. UNCHANGED Committed /\ Loading /\ TypeOK
  BY <1>1, RestoreTrackKept, CatalogInvRules DEF Loading, DeployInv
<1>3. PICK t : t = job.track
  OBVIOUS
<1>4. CASE log'.result # "SUCCESS"
  <2>1. job' = Goto("conflict")
    BY <1>1, <1>4 DEF Require
  <2> QED BY <2>1, GoesTo DEF LoadGoes, PCs
<1>5. CASE log'.result = "SUCCESS"
  <2>1. /\ tracks' = [tracks EXCEPT ![t] = Edited(tracks[t], Def.text)]
        /\ trackVersions' = trackVersions \cup
             Snapshot(t, tracks[t], Edited(tracks[t], Def.text), Def.text)
        /\ UNCHANGED <<admins, modules, items, moduleVersions, contentVersions,
                       orderRevision>>
    <3>1. c.title = Def.text /\ c.track = t /\ EditTrack(c)
      BY <1>1, <1>3
    <3> HIDE DEF c
    <3> QED BY <3>1, <1>5, EditTrackWrites
  <2>2. job' = Goto("module")
    BY <1>1, <1>5 DEF Require
  <2>3. /\ job'.pc = "module" /\ job'.corpus = job.corpus /\ job'.def = job.def
        /\ job'.unit = job.unit /\ job'.track = t
    BY <2>2, <1>3, GoesTo DEF PCs
  <2>4. /\ job.pc \notin InTrack /\ job'.pc \in InTrack
        /\ job.pc \notin InModule /\ job'.pc \notin InModule
        /\ job.pc \notin InUnits /\ job'.pc \notin InUnits
    BY <1>1, <2>3 DEF InTrack, InModule, InUnits
  <2>5. t \in Tracks /\ tracks[t] \in TrackRow /\ Exists(tracks[t])
    BY <1>1, <1>2, <1>3 DEF DeployInv, JobInv, TypeOK
  <2>6. /\ tracks'[t] = Edited(tracks[t], Def.text)
        /\ \A k \in Tracks \ {t} : tracks'[k] = tracks[k]
    BY <1>2, <2>1, <2>5 DEF TypeOK
  <2>7. /\ tracks'[t].title = Def.text /\ tracks'[t].status = tracks[t].status
        /\ tracks'[t].position = tracks[t].position
        /\ tracks'[t].published = IF tracks[t].status = "ACTIVE"
                                  THEN tracks[t].published + 1
                                  ELSE tracks[t].published
        /\ tracks[t].published \in Nat
    BY <2>5, <2>6, TrackFields, TrackCounts
  <2>8. RowsRemain
    BY <2>1, <2>6, <2>7 DEF RowsRemain, Exists
  <2>9. SameTrack(t)
    BY <1>1, <1>2, <1>3, NotYetWritten
  <2>10. Loaded(place)'
    <3>1. /\ \A m : ModuleStays(m)
          /\ \A i : ItemStays(i)
      BY <1>2, <2>1, TablesStay
    <3>2. \A k \in Tracks : ~TrackStays(k) => k = t
      BY <1>2, <2>1, OneTrackWritten
    <3>3. MayTrack(t)
      BY <1>1, <1>3 DEF MayTrack
    <3>4. TrackBounded(t)'
      BY <1>2, <2>1, <2>7, <2>9 DEF TrackBounded, SameTrack
    <3>5. JobMoves
      BY <1>1, <2>3, <2>4 DEF JobMoves
    <3> QED BY <1>1, <1>2, <2>1, <2>3, <2>4, <2>8, <3>1, <3>2, <3>3, <3>4, <3>5,
            LoadMoves
  <2>11. Def' = Def
    BY <2>3, SameDefinition
  <2>12. TrackSettled'
    <3>1. Committed'.tracks[t].title # Def.text
      BY <1>1, <1>2, <1>3, <2>9 DEF SameTrack
    <3>2. KnownTrack(Def, t)'
      <4>1. KeyOf(tracks[t].title) \in TitleKeys(Def)
        BY <1>1, <1>3 DEF Underway, TrackFound
      <4> QED BY <4>1, <1>2, <2>9, <2>11 DEF KnownTrack, SameTrack
    <3> QED BY <2>3, <2>7, <2>11, <3>1, <3>2 DEF TrackSettled, KnownTrack
  <2>13. FirstUnit'
    BY <1>1, <2>3 DEF Underway, FirstUnit
  <2> QED BY <2>3, <2>4, <2>10, <2>12, <2>13
          DEF LoadGoes, Underway, TrackFound, ModuleSettled, UnitsSettled
<1> QED BY <1>4, <1>5

\* What the commands on a module, and the activation of a track, write.
LEMMA EditModuleWrites ==
  ASSUME NEW c, EditModule(c), log'.result = "SUCCESS"
  PROVE  /\ modules' = [modules EXCEPT ![c.module] = Edited(modules[c.module], c.title)]
         /\ moduleVersions' = moduleVersions \cup
              Snapshot(c.module, modules[c.module],
                       Edited(modules[c.module], c.title), c.title)
         /\ UNCHANGED <<admins, tracks, items, trackVersions, contentVersions,
                        orderRevision>>
<1> DEFINE m == c.module
           row == modules[m]
           result == EditDecision(c.actor \in admins, row.track = c.track, row, c,
                       TitleFree(modules, ModulesOf(c.track), m, c.title))
           after == IF result = "SUCCESS" THEN Edited(row, c.title) ELSE row
<1>1. /\ modules' = [modules EXCEPT ![m] = after]
      /\ moduleVersions' = moduleVersions \cup Snapshot(m, row, after, c.title)
      /\ Record(c, "EDIT", "MODULE", m, result, result = "SUCCESS")
      /\ UNCHANGED <<admins, tracks, items, trackVersions, contentVersions,
                     orderRevision>>
  BY DEF EditModule
<1> HIDE DEF result
<1>2. log'.result = result
  BY <1>1 DEF Record
<1> QED BY <1>1, <1>2

LEMMA ActivateModuleWrites ==
  ASSUME NEW c, ChangeModuleStatus(c), log'.result = "SUCCESS",
         modules[c.module].status # c.target
  PROVE  /\ modules' = [modules EXCEPT ![c.module] =
                          WithStatus(modules[c.module], c.target)]
         /\ moduleVersions' = moduleVersions \cup
              Snapshot(c.module, modules[c.module],
                       WithStatus(modules[c.module], c.target),
                       modules[c.module].title)
         /\ UNCHANGED <<admins, tracks, items, trackVersions, contentVersions,
                        orderRevision>>
<1> DEFINE m == c.module
           row == modules[m]
           result == ModuleStatusDecision(c.actor \in admins, row,
                       tracks[c.track], c, ActiveModules(c.track))
           changed == result = "SUCCESS" /\ row.status # c.target
           after == IF changed THEN WithStatus(row, c.target) ELSE row
<1>1. /\ modules' = [modules EXCEPT ![m] = after]
      /\ moduleVersions' = moduleVersions \cup Snapshot(m, row, after, row.title)
      /\ Record(c, StatusAction(c.target), "MODULE", m, result, changed)
      /\ UNCHANGED <<admins, tracks, items, trackVersions, contentVersions,
                     orderRevision>>
  BY DEF ChangeModuleStatus
<1> HIDE DEF result
<1>2. log'.result = result
  BY <1>1 DEF Record
<1> QED BY <1>1, <1>2

LEMMA ActivateTrackWrites ==
  ASSUME NEW c, ChangeTrackStatus(c), log'.result = "SUCCESS",
         tracks[c.track].status # c.target
  PROVE  /\ tracks' = [tracks EXCEPT ![c.track] =
                         WithStatus(tracks[c.track], c.target)]
         /\ trackVersions' = trackVersions \cup
              Snapshot(c.track, tracks[c.track],
                       WithStatus(tracks[c.track], c.target),
                       tracks[c.track].title)
         /\ UNCHANGED <<admins, modules, items, moduleVersions, contentVersions,
                        orderRevision>>
<1> DEFINE t == c.track
           row == tracks[t]
           result == TrackStatusDecision(c.actor \in admins, row, c,
                       ActiveModules(t) # {})
           changed == result = "SUCCESS" /\ row.status # c.target
           after == IF changed THEN WithStatus(row, c.target) ELSE row
<1>1. /\ tracks' = [tracks EXCEPT ![t] = after]
      /\ trackVersions' = trackVersions \cup Snapshot(t, row, after, row.title)
      /\ Record(c, StatusAction(c.target), "TRACK", t, result, changed)
      /\ UNCHANGED <<admins, modules, items, moduleVersions, contentVersions,
                     orderRevision>>
  BY DEF ChangeTrackStatus
<1> HIDE DEF result
<1>2. log'.result = result
  BY <1>1 DEF Record
<1> QED BY <1>1, <1>2

\* The module of the definition is created or gets its text back.
LEMMA CreateMissingModuleLoads ==
  ASSUME DeployInv, CreateMissingModule, Underway, NEW place, Loaded(place)
  PROVE  LoadGoes
<1> DEFINE c == [op |-> "create_module", actor |-> Author,
                 track |-> job.track, title |-> Def.module, ok |-> TRUE]
<1>1. /\ job.pc = "module" /\ CreateModule(c)
      /\ held \subseteq held' /\ Require([Goto("items") EXCEPT !.module = log'.key])
  BY DEF CreateMissingModule, At, HoldModules, Hold
<1>2. UNCHANGED Committed /\ Loading /\ TypeOK
  BY <1>1, CreateMissingModuleKept, CatalogInvRules DEF Loading, DeployInv
<1>3. UNCHANGED <<admins, items, trackVersions, moduleVersions,
                  contentVersions, orderRevision>>
  BY <1>1 DEF CreateModule
<1>4. CASE log'.result # "SUCCESS"
  <2>1. job' = Goto("conflict")
    BY <1>1, <1>4 DEF Require
  <2> QED BY <2>1, GoesTo DEF LoadGoes, PCs
<1>5. CASE log'.result = "SUCCESS"
  <2>0. PICK t : t = job.track
    OBVIOUS
  <2>1. /\ \E m \in Modules : \E p :
             /\ ~Exists(modules[m]) /\ log'.key = m
             /\ modules' = [modules EXCEPT ![m] = NewModule(t, Def.module, p)]
        /\ \E n : tracks' = [tracks EXCEPT ![t].moduleOrder = n]
    <3>1. c.title = Def.module /\ c.track = t /\ CreateModule(c)
      BY <1>1, <2>0
    <3> HIDE DEF c
    <3>2. /\ \E m \in Modules : \E p :
               /\ ~Exists(modules[m]) /\ log'.key = m
               /\ modules' = [modules EXCEPT ![m] = NewModule(c.track, c.title, p)]
          /\ \E n : tracks' = [tracks EXCEPT ![c.track].moduleOrder = n]
      BY <3>1, <1>5, CreatedModule
    <3> QED BY <3>1, <3>2
  <2>2. PICK m, p : /\ m \in Modules /\ ~Exists(modules[m]) /\ log'.key = m
                    /\ modules' = [modules EXCEPT ![m] = NewModule(t, Def.module, p)]
    BY <2>1
  <2>3. PICK n : tracks' = [tracks EXCEPT ![t].moduleOrder = n]
    BY <2>1
  <2>4. job' = [Goto("items") EXCEPT !.module = m]
    BY <2>2, <1>1, <1>5 DEF Require
  <2>5. /\ job'.pc = "items" /\ job'.corpus = job.corpus /\ job'.def = job.def
        /\ job'.unit = job.unit /\ job'.track = t /\ job'.module = m
    BY <2>0, <2>4 DEF DeployInv, JobInv, Goto
  <2>6. /\ job.pc \in InTrack /\ job'.pc \in InTrack
        /\ job.pc \notin InModule /\ job'.pc \in InModule
        /\ job.pc \notin InUnits /\ job'.pc \notin InUnits
    BY <1>1, <2>5 DEF InTrack, InModule, InUnits
  <2>7. /\ modules'[m] = NewModule(t, Def.module, p)
        /\ \A k \in Modules \ {m} : modules'[k] = modules[k]
    BY <1>2, <2>2 DEF TypeOK
  <2>8. t \in Tracks /\ Exists(tracks[t])
    BY <2>0, <2>6 DEF DeployInv, JobInv
  <2>9. /\ tracks'[t].title = tracks[t].title /\ tracks'[t].status = tracks[t].status
        /\ tracks'[t].position = tracks[t].position
        /\ tracks'[t].published = tracks[t].published
        /\ \A k \in Tracks \ {t} : tracks'[k] = tracks[k]
    BY <1>2, <2>3, <2>8 DEF TypeOK, TrackRow
  <2>10. /\ Exists(modules'[m]) /\ modules'[m].title = Def.module
         /\ modules'[m].track = t
         /\ Says(modules'[m].title, Def.module)
         /\ ~Exists(Committed.modules[m])
    BY <2>2, <2>7 DEF NewModule, Exists, DeployInv, SavedInv, Says
  <2>11. RowsRemain
    <3>1. \A k \in Tracks : Exists(tracks[k]) => Exists(tracks'[k])
      BY <2>8, <2>9 DEF Exists
    <3> QED BY <3>1, <1>3, <2>2, <2>7 DEF RowsRemain
  <2>12. Loaded(place)'
    <3>1. \A i : ItemStays(i)
      BY <1>2, <1>3, TablesStay
    <3>2. \A k \in Tracks : ~TrackStays(k) => k = t
      BY <1>2, <1>3, <2>9 DEF TrackStays
    <3>3. MayTrack(t)
      BY <2>0, <2>6 DEF MayTrack
    <3>4. TrackBounded(t)'
      <4>1. TrackBounded(t)
        BY <2>8 DEF Loaded, Bounded
      <4> QED BY <4>1, <1>2, <1>3, <2>9 DEF TrackBounded
    <3>5. \A k \in Modules : ~ModuleStays(k) => k = m
      BY <1>2, <1>3, <2>7 DEF ModuleStays
    <3>6. MayModule(m)
      BY <2>0, <2>6, <2>10 DEF MayModule
    <3>7. ModuleBounded(m)'
      <4>1. ModuleBounded(m)
        BY <2>2 DEF Loaded, Bounded
      <4> QED BY <4>1, <1>2, <1>3, <2>10 DEF ModuleBounded
    <3>8. JobMoves
      BY <1>1, <2>0, <2>5, <2>6 DEF JobMoves
    <3> QED BY <1>1, <1>2, <1>3, <2>5, <2>6, <2>11, <3>1, <3>2, <3>3, <3>4, <3>5,
            <3>6, <3>7, <3>8, LoadMoves
  <2>13. Def' = Def
    BY <2>5, SameDefinition
  <2>14. TrackSettled'
    <3>1. TrackSettled
      BY DEF Underway
    <3>2. ~Exists(Committed.modules[job'.module])
      BY <2>5, <2>10
    <3>3. tracks'[job.track].title = tracks[job.track].title
      BY <2>0, <2>9
    <3> QED BY <3>1, <3>2, <3>3, <1>1, <1>2, <2>0, <2>5, <2>6, TrackSettledStays
  <2>15. ModuleSettled'
    <3>1. /\ ~Exists(Committed'.modules[m])
          /\ Committed'.modules[m].status # "ACTIVE"
      BY <1>2, <2>10 DEF Exists
    <3> QED BY <2>5, <2>10, <2>13, <3>1 DEF ModuleSettled, KnownModule
  <2>16. FirstUnit'
    BY <1>1, <2>5 DEF Underway, FirstUnit
  <2> QED BY <2>5, <2>6, <2>12, <2>14, <2>15, <2>16
          DEF LoadGoes, Underway, TrackFound, UnitsSettled
<1> QED BY <1>4, <1>5

LEMMA RestoreModuleLoads ==
  ASSUME DeployInv, RestoreModule, Underway, NEW place, Loaded(place)
  PROVE  LoadGoes
<1>1. PICK m \in NamedModules :
        /\ ~Says(modules[m].title, Def.module)
        /\ EditModule([op |-> "edit_module", actor |-> Author,
                       track |-> job.track, module |-> m,
                       rev |-> modules[m].revision, title |-> Def.module,
                       ok |-> TRUE, pub |-> TRUE])
        /\ HoldModules({})
        /\ Require([Goto("items") EXCEPT !.module = m])
  BY DEF RestoreModule
<1> DEFINE c == [op |-> "edit_module", actor |-> Author,
                 track |-> job.track, module |-> m,
                 rev |-> modules[m].revision, title |-> Def.module,
                 ok |-> TRUE, pub |-> TRUE]
<1>2. job.pc = "module" /\ held \subseteq held'
  BY <1>1 DEF RestoreModule, At, HoldModules, Hold
<1>3. UNCHANGED Committed /\ Loading /\ TypeOK
  BY <1>2, RestoreModuleKept, CatalogInvRules DEF Loading, DeployInv
<1>4. CASE log'.result # "SUCCESS"
  <2>1. job' = Goto("conflict")
    BY <1>1, <1>4 DEF Require
  <2> QED BY <2>1, GoesTo DEF LoadGoes, PCs
<1>5. CASE log'.result = "SUCCESS"
  <2>1. /\ modules' = [modules EXCEPT ![m] = Edited(modules[m], Def.module)]
        /\ moduleVersions' = moduleVersions \cup
             Snapshot(m, modules[m], Edited(modules[m], Def.module), Def.module)
        /\ UNCHANGED <<admins, tracks, items, trackVersions, contentVersions,
                       orderRevision>>
    <3>1. c.title = Def.module /\ c.module = m /\ EditModule(c)
      BY <1>1
    <3> HIDE DEF c
    <3> QED BY <3>1, <1>5, EditModuleWrites
  <2>2. job' = [Goto("items") EXCEPT !.module = m]
    BY <1>1, <1>5 DEF Require
  <2>3. /\ job'.pc = "items" /\ job'.corpus = job.corpus /\ job'.def = job.def
        /\ job'.unit = job.unit /\ job'.track = job.track /\ job'.module = m
    BY <2>2 DEF DeployInv, JobInv, Goto
  <2>4. /\ job.pc \in InTrack /\ job'.pc \in InTrack
        /\ job.pc \notin InModule /\ job'.pc \in InModule
        /\ job.pc \notin InUnits /\ job'.pc \notin InUnits
    BY <1>2, <2>3 DEF InTrack, InModule, InUnits
  <2>5. /\ m \in Modules /\ modules[m] \in ModuleRow
        /\ modules[m].track = job.track /\ m \in ModulesOf(job.track)
        /\ KeyOf(modules[m].title) = KeyOf(Def.module)
    BY <1>1, <1>3 DEF NamedModules, Named, ModulesOf, TypeOK
  <2>6. /\ modules'[m] = Edited(modules[m], Def.module)
        /\ \A k \in Modules \ {m} : modules'[k] = modules[k]
    BY <1>3, <2>1, <2>5 DEF TypeOK
  <2>7. /\ modules'[m].title = Def.module /\ modules'[m].status = modules[m].status
        /\ modules'[m].position = modules[m].position
        /\ modules'[m].track = modules[m].track
        /\ modules'[m].published = IF modules[m].status = "ACTIVE"
                                   THEN modules[m].published + 1
                                   ELSE modules[m].published
        /\ modules[m].published \in Nat
    BY <2>5, <2>6, ModuleFields, ModuleCounts
  <2>8. RowsRemain
    BY <2>1, <2>6, <2>7 DEF RowsRemain, Exists
  <2>9. SameModule(m)
    BY <1>2, <1>3, <2>5, NotYetWritten
  <2>10. Loaded(place)'
    <3>1. /\ \A t : TrackStays(t)
          /\ \A i : ItemStays(i)
      BY <1>3, <2>1, TablesStay
    <3>2. \A k \in Modules : ~ModuleStays(k) => k = m
      BY <1>3, <2>1, OneModuleWritten
    <3>3. MayModule(m)
      BY <2>4, <2>5, <2>7 DEF MayModule
    <3>4. ModuleBounded(m)'
      BY <1>3, <2>1, <2>7, <2>9 DEF ModuleBounded, SameModule
    <3>5. JobMoves
      BY <1>2, <2>3, <2>4 DEF JobMoves
    <3> QED BY <1>2, <1>3, <2>1, <2>3, <2>4, <2>8, <3>1, <3>2, <3>3, <3>4, <3>5,
            LoadMoves
  <2>11. Def' = Def
    BY <2>3, SameDefinition
  <2>12. TrackSettled'
    <3>1. TrackSettled
      BY DEF Underway
    <3>2. SameTrack(job.track) => SameTrack(job.track)'
      <4>1. PICK t : t = job.track
        OBVIOUS
      <4>2. SameTrack(t) => SameTrack(t)'
        BY <1>3, <2>1 DEF SameTrack
      <4> QED BY <4>1, <4>2, <2>3 DEF SameTrack
    <3> QED BY <3>1, <3>2, <1>2, <1>3, <2>1, <2>3, <2>4, TrackSettledStays
  <2>13. ModuleSettled'
    <3>1. ~Says(Committed'.modules[m].title, Def.module)
      BY <1>1, <1>3, <2>9 DEF SameModule
    <3>2. KnownModule(Def, m)'
      BY <1>3, <2>5, <2>9, <2>11 DEF KnownModule, SameModule
    <3>3. Says(modules'[m].title, Def.module)
      BY <2>7 DEF Says
    <3> QED BY <2>3, <2>11, <3>1, <3>2, <3>3 DEF ModuleSettled, KnownModule
  <2>14. FirstUnit'
    BY <1>2, <2>3 DEF Underway, FirstUnit
  <2> QED BY <2>3, <2>4, <2>10, <2>12, <2>13, <2>14
          DEF LoadGoes, Underway, TrackFound, UnitsSettled
<1> QED BY <1>4, <1>5

\* _activate_module: it has items now, so it takes no refusal.
LEMMA ActivateModuleLoads ==
  ASSUME DeployInv, ActivateModule, Underway, NEW place, Loaded(place)
  PROVE  LoadGoes
<1> DEFINE c == [op |-> "change_module_status", actor |-> Author,
                 track |-> job.track, module |-> job.module,
                 rev |-> modules[job.module].revision,
                 target |-> "ACTIVE", pub |-> TRUE]
<1>1. /\ job.pc = "activate module" /\ ChangeModuleStatus(c)
      /\ modules[job.module].status # "ACTIVE"
      /\ held \subseteq held' /\ Require(Goto("activate track"))
  BY DEF ActivateModule, At, HoldModules, Hold
<1>2. UNCHANGED Committed /\ Loading /\ TypeOK
  BY <1>1, ActivateModuleKept, CatalogInvRules DEF Loading, DeployInv
<1>3. PICK m : m = job.module
  OBVIOUS
<1>4. CASE log'.result # "SUCCESS"
  <2>1. job' = Goto("conflict")
    BY <1>1, <1>4 DEF Require
  <2> QED BY <2>1, GoesTo DEF LoadGoes, PCs
<1>5. CASE log'.result = "SUCCESS"
  <2>1. /\ modules' = [modules EXCEPT ![m] = WithStatus(modules[m], "ACTIVE")]
        /\ moduleVersions' = moduleVersions \cup
             Snapshot(m, modules[m], WithStatus(modules[m], "ACTIVE"),
                      modules[m].title)
        /\ UNCHANGED <<admins, tracks, items, trackVersions, contentVersions,
                       orderRevision>>
    <3>1. /\ c.target = "ACTIVE" /\ c.module = m /\ ChangeModuleStatus(c)
          /\ modules[m].status # "ACTIVE"
      BY <1>1, <1>3
    <3> HIDE DEF c
    <3> QED BY <3>1, <1>5, ActivateModuleWrites
  <2>2. job' = Goto("activate track")
    BY <1>1, <1>5 DEF Require
  <2>3. /\ job'.pc = "activate track" /\ job'.corpus = job.corpus
        /\ job'.def = job.def
        /\ job'.unit = job.unit /\ job'.track = job.track /\ job'.module = m
    BY <2>2, <1>3, GoesTo DEF PCs
  <2>4. /\ job.pc \in InTrack /\ job'.pc \in InTrack
        /\ job.pc \in InModule /\ job'.pc \in InModule
        /\ job.pc \in InUnits /\ job'.pc \in InUnits
    BY <1>1, <2>3 DEF InTrack, InModule, InUnits
  <2>5. m \in Modules /\ modules[m] \in ModuleRow /\ modules[m].track = job.track
    BY <1>2, <1>3, <2>4 DEF DeployInv, JobInv, TypeOK
  <2>6. /\ modules'[m] = WithStatus(modules[m], "ACTIVE")
        /\ \A k \in Modules \ {m} : modules'[k] = modules[k]
    BY <1>2, <2>1, <2>5 DEF TypeOK
  <2>7. /\ modules'[m].title = modules[m].title /\ modules'[m].status = "ACTIVE"
        /\ modules'[m].position = modules[m].position
        /\ modules'[m].track = modules[m].track
        /\ modules'[m].published = modules[m].published + 1
        /\ modules[m].published \in Nat
    BY <2>5, <2>6, ModuleFields, ModuleCounts
  <2>8. RowsRemain
    BY <2>1, <2>6, <2>7 DEF RowsRemain, Exists
  <2>9. Loaded(place)'
    <3>1. /\ \A t : TrackStays(t)
          /\ \A i : ItemStays(i)
      BY <1>2, <2>1, TablesStay
    <3>2. \A k \in Modules : ~ModuleStays(k) => k = m
      BY <1>2, <2>1, OneModuleWritten
    <3>3. MayModule(m)
      BY <2>4, <2>5, <2>7 DEF MayModule
    <3>4. ModuleBounded(m)'
      <4>1. ModuleBounded(m) /\ modules[m].status # "ACTIVE"
        BY <1>1, <1>3, <2>5 DEF Loaded, Bounded
      <4>2. Exists(Committed.modules[m]) => Committed.modules[m].published \in Nat
        <5>1. Committed.modules \in [Modules -> ModuleRow]
          BY C!CatalogInvRules, SameAssumptions, SameTypes DEF DeployInv, C!TypeOK
        <5> QED BY <5>1, <2>5 DEF ModuleRow
      <4> QED BY <4>1, <4>2, <1>2, <2>1, <2>7 DEF ModuleBounded
    <3>5. JobMoves
      BY <1>1, <1>3, <2>3, <2>4 DEF JobMoves
    <3> QED BY <1>1, <1>2, <2>1, <2>3, <2>4, <2>8, <3>1, <3>2, <3>3, <3>4, <3>5,
            LoadMoves
  <2>10. TrackSettled'
    <3>1. TrackSettled
      BY DEF Underway
    <3>2. SameTrack(job.track) => SameTrack(job.track)'
      <4>1. PICK t : t = job.track
        OBVIOUS
      <4>2. SameTrack(t) => SameTrack(t)'
        BY <1>2, <2>1 DEF SameTrack
      <4> QED BY <4>1, <4>2, <2>3 DEF SameTrack
    <3> QED BY <3>1, <3>2, <1>1, <1>2, <1>3, <2>1, <2>3, <2>4, TrackSettledStays
  <2>11. ModuleSettled'
    <3>1. ModuleSettled
      BY DEF Underway
    <3>2. SameModule(job.module) => Committed.modules[job.module].status # "ACTIVE"
      BY <1>1 DEF SameModule
    <3>3. /\ modules'[job.module].title = modules[job.module].title
          /\ modules'[job.module].status = "ACTIVE"
      BY <1>3, <2>7
    <3> QED BY <3>1, <3>2, <3>3, <1>2, <1>3, <2>3, <2>4, ModuleSettledStays
  <2>12. UnitsSettled'
    BY <1>1, <1>2, <1>3, <2>1, <2>3, <2>4, UnitsSettledStays DEF Underway
  <2> QED BY <2>3, <2>9, <2>10, <2>11, <2>12
          DEF LoadGoes, Underway, FirstUnit, TrackFound
<1> QED BY <1>4, <1>5

\* A list without the position under way has room for it.
LEMMA RoomLeft ==
  ASSUME NEW rows, NEW keys, IsFiniteSet(keys), Contiguous(rows, keys),
         NEW len \in Nat, NEW unit \in 1..len, \A k \in keys : rows[k].position # unit
  PROVE  Cardinality(keys) < unit
<1>1. Cardinality(keys) \in Nat
  BY FS_CardinalityType
<1>2. unit \notin 1..Cardinality(keys)
  BY DEF Contiguous
<1> QED BY <1>1, <1>2

\* While a unit has no item, fewer items than units are committed.
LEMMA FewerCommitted ==
  ASSUME DeployInv, NEW m \in Modules
  PROVE  /\ Cardinality(D!ItemsOf(m)) \in Nat
         /\ Cardinality(D!ItemsOf(m)) <= Cardinality(ItemsOf(m))
         /\ Cardinality(D!ItemsOf(m)) = Cardinality(ItemsOf(m)) =>
              D!ItemsOf(m) = ItemsOf(m)
<1>1. D!ItemsOf(m) \subseteq ItemsOf(m) /\ IsFiniteSet(ItemsOf(m))
  BY CommittedItemsOf, RowsFinite
<1> QED BY <1>1, FS_Subset, FS_CardinalityType

\* A missing unit gets a draft after the others.
LEMMA DraftUnitLoads ==
  ASSUME DeployInv, DraftUnit, Underway, NEW place, Loaded(place)
  PROVE  LoadGoes
<1> DEFINE c == [op |-> "create_content_draft", actor |-> Author,
                 module |-> job.module, rev |-> modules[job.module].revision]
<1>1. /\ job.pc = "unit" /\ UnitItem = {} /\ CreateContentDraft(c)
      /\ held \subseteq held' /\ job' = job
  BY DEF DraftUnit, At, Hold
<1>2. UNCHANGED Committed /\ Loading /\ TypeOK
  BY <1>1, DraftUnitKept, CatalogInvRules DEF Loading, DeployInv
<1>3. PICK m : m = job.module
  OBVIOUS
<1>4. /\ UNCHANGED <<admins, tracks, trackVersions, moduleVersions,
                     contentVersions, orderRevision>>
      /\ modules' = [modules EXCEPT ![m].revision = @ + 1]
      /\ \E k \in {j \in Items : ~Exists(items[j])} :
           items' = [items EXCEPT ![k] = NewItem(m, Cardinality(ItemsOf(m)) + 1)]
  <2>1. CreateContentDraft(c) /\ c.module = m
    BY <1>1, <1>3
  <2> HIDE DEF c
  <2> QED BY <2>1 DEF CreateContentDraft
<1>5. PICK k \in Items :
        /\ ~Exists(items[k])
        /\ items' = [items EXCEPT ![k] = NewItem(m, Cardinality(ItemsOf(m)) + 1)]
  BY <1>4
<1>6. /\ job.pc \in InTrack /\ job.pc \in InModule /\ job.pc \in InUnits
      /\ JobInv /\ CatalogInv
  BY <1>1, PcSets DEF DeployInv
<1>7. m \in Modules /\ modules[m] \in ModuleRow /\ modules[m].track = job.track
  BY <1>2, <1>3, <1>6 DEF JobInv, TypeOK
<1>8. /\ items'[k].module = m /\ Exists(items'[k])
      /\ \A i \in Items \ {k} : items'[i] = items[i]
      /\ items[k].module # m
  <2>1. items'[k] = NewItem(m, Cardinality(ItemsOf(m)) + 1)
    BY <1>2, <1>5 DEF TypeOK
  <2>2. \A i \in Items \ {k} : items'[i] = items[i]
    BY <1>2, <1>5 DEF TypeOK
  <2>3. items[k].module # m
    BY <1>5, <1>6, <1>7, PlacedExist
  <2> QED BY <2>1, <2>2, <2>3 DEF NewItem, Exists
<1>9. /\ modules'[m].title = modules[m].title /\ modules'[m].status = modules[m].status
      /\ modules'[m].position = modules[m].position
      /\ modules'[m].published = modules[m].published
      /\ modules'[m].track = modules[m].track
      /\ \A j \in Modules \ {m} : modules'[j] = modules[j]
  BY <1>2, <1>4, <1>7 DEF TypeOK, ModuleRow
<1>10. ~Exists(Committed.items[k])
  BY <1>5 DEF DeployInv, SavedInv
<1>11. RowsRemain
  BY <1>4, <1>5, <1>8, <1>9 DEF RowsRemain, Exists
<1>12. ItemsOf(m)' = ItemsOf(m) \cup {k} /\ k \notin ItemsOf(m)
  BY <1>8 DEF ItemsOf
<1>13. /\ Len(Units) \in Nat /\ job.unit \in 1..Len(Units)
       /\ Cardinality(ItemsOf(m)) \in Nat
       /\ Cardinality(ItemsOf(m)) < Len(Units)
  <2>1. Len(Units) \in Nat /\ job.unit \in 1..Len(Units)
    BY <1>2, <1>6, DefinitionFields
  <2>2. Contiguous(items, ItemsOf(m)) /\ IsFiniteSet(ItemsOf(m))
        /\ Cardinality(ItemsOf(m)) \in Nat
    BY <1>6, <1>7, RowsFinite DEF CatalogInv, OrderInv, ItemsOrdered
  <2>3. \A i \in ItemsOf(m) : items[i].position # job.unit
    BY <1>1, <1>3 DEF UnitItem
  <2>4. PICK unit : unit = job.unit
    OBVIOUS
  <2>5. Cardinality(ItemsOf(m)) < unit
    BY <2>1, <2>2, <2>3, <2>4, RoomLeft
  <2> QED BY <2>1, <2>2, <2>4, <2>5
<1>14. Cardinality(ItemsOf(m)') <= Len(Units)
  <2>1. Cardinality(ItemsOf(m)') = Cardinality(ItemsOf(m)) + 1
    BY <1>12, RowsFinite, FS_AddElement
  <2> QED BY <1>13, <2>1
<1>15. Loaded(place)'
  <2>1. \A t : TrackStays(t)
    BY <1>2, <1>4, TablesStay
  <2>2. \A j \in Modules : ~ModuleStays(j) => j = m
    BY <1>2, <1>4, <1>9 DEF ModuleStays
  <2>3. MayModule(m)
    BY <1>6, <1>7, <1>9 DEF MayModule
  <2>4. ModuleBounded(m)'
    <3>1. ModuleBounded(m)
      BY <1>7 DEF Loaded, Bounded
    <3> QED BY <3>1, <1>2, <1>4, <1>9 DEF ModuleBounded
  <2>5. \A i \in Items : ~ItemStays(i) => i = k
    BY <1>2, <1>4, <1>8 DEF ItemStays
  <2>6. MayItem(k)
    BY <1>3, <1>6, <1>8 DEF MayItem
  <2>7. ItemBounded(k)'
    <3>1. ItemBounded(k)
      BY DEF Loaded, Bounded
    <3> QED BY <3>1, <1>2, <1>4, <1>10 DEF ItemBounded
  <2>8. JobMoves
    BY <1>1 DEF JobMoves
  <2> QED BY <1>1, <1>2, <1>3, <1>4, <1>6, <1>11, <2>1, <2>2, <2>3, <2>4, <2>5,
          <2>6, <2>7, <2>8, LoadMoves
<1>16. TrackSettled'
  <2>1. TrackSettled
    BY DEF Underway
  <2>2. SameTrack(job.track) => SameTrack(job.track)'
    BY <1>1, <1>2, <1>4 DEF SameTrack
  <2> QED BY <2>1, <2>2, <1>1, <1>2, <1>4, <1>6, TrackSettledStays
<1>17. ModuleSettled'
  <2>1. ModuleSettled
    BY DEF Underway
  <2>2. Cardinality(D!ItemsOf(job.module)) # Len(Units)
    BY <1>3, <1>7, <1>13, FewerCommitted
  <2> QED BY <2>1, <2>2, <1>1, <1>2, <1>3, <1>6, <1>9, ModuleSettledStays
<1>18. UnitsSettled'
  <2>1. Def' = Def /\ Units' = Units
    BY <1>1, SameDefinition
  <2>2. D!ItemsOf(m)' = D!ItemsOf(m) /\ D!ItemsOf(m) \subseteq ItemsOf(m)
    BY <1>2, <1>7, CommittedItemsOf DEF D!ItemsOf
  <2>3. D!OnlyManaged(m, Units)'
    <3>1. PICK units : units = Units
      OBVIOUS
    <3>2. D!OnlyManaged(m, units)' <=> D!OnlyManaged(m, units)
      BY <1>2, OnlyManagedIs
    <3> QED BY <3>1, <3>2, <2>1, <1>3, <1>6 DEF Underway, UnitsSettled
  <2>4. \A i \in ItemsOf(m) : /\ items'[i] = items[i] /\ i # k
                              /\ SameItem(i) => SameItem(i)'
    BY <1>2, <1>4, <1>8 DEF ItemsOf, SameItem
  <2>5. UnitsSettled
    BY DEF Underway
  <2>6. ASSUME NEW u \in DOMAIN Units, u < job.unit \/ job.pc # "unit"
        PROVE  \E i \in ItemsOf(m)' :
                 items'[i].position = u /\ Shows(items', contentVersions', i, Units[u].payload)
    <3>1. PICK i \in ItemsOf(m) :
            items[i].position = u /\ Shows(items, contentVersions, i, Units[u].payload)
      BY <2>5, <2>6, <1>3, <1>6 DEF UnitsSettled
    <3>2. Shows(items', contentVersions', i, Units[u].payload)
      BY <3>1, <2>4, <1>4 DEF Shows
    <3> QED BY <3>1, <3>2, <2>4, <1>12
  <2>7. ASSUME NEW i \in ItemsOf(m)', items'[i].position >= job.unit,
               Exists(Committed'.items[i])
        PROVE  SameItem(i)'
    <3>1. i # k
      BY <2>7, <1>2, <1>10
    <3>2. i \in ItemsOf(m)
      BY <3>1, <1>12
    <3>3. items[i].position >= job.unit /\ Exists(Committed.items[i])
      BY <3>2, <2>4, <2>7, <1>2
    <3> QED BY <3>2, <3>3, <2>4, <2>5, <1>1, <1>3, <1>6 DEF UnitsSettled
  <2>8. ASSUME NEW i \in D!ItemsOf(m),
               Shows(Committed.items, Committed.contentVersions, i,
                     Units[Committed.items[i].position].payload)
        PROVE  SameItem(i)'
    BY <2>2, <2>4, <2>5, <2>8, <1>3, <1>6 DEF UnitsSettled
  <2> QED BY <1>1, <1>2, <1>3, <1>14, <2>1, <2>2, <2>3, <2>6, <2>7, <2>8
          DEF UnitsSettled
<1> QED BY <1>1, <1>15, <1>16, <1>17, <1>18
        DEF LoadGoes, Underway, FirstUnit, TrackFound

LEMMA ItemFields ==
  ASSUME NEW row \in ItemRow
  PROVE  /\ row.published \in Nat
         /\ Published(row).status = "PUBLISHED"
         /\ Published(row).published = row.published + 1
         /\ Published(row).published # row.published
         /\ Published(row).position = row.position
         /\ Published(row).module = row.module
BY DEF ItemRow, Published

\* What the publication of an item writes.
LEMMA PublishWrites ==
  ASSUME NEW c, PublishContentItem(c)
  PROVE  /\ items' = [items EXCEPT ![c.item] = Published(items[c.item])]
         /\ contentVersions' = contentVersions \cup
              Snapshot(c.item, items[c.item], Published(items[c.item]), c.title)
         /\ UNCHANGED <<admins, tracks, modules, trackVersions, moduleVersions,
                        orderRevision>>
BY DEF PublishContentItem

\* A unit that readers see otherwise, or not at all, is published.
LEMMA PublishUnitLoads ==
  ASSUME DeployInv, PublishUnit, Underway, NEW place, Loaded(place)
  PROVE  LoadGoes
<1>1. PICK i \in UnitItem :
        /\ ~Matches(i)
        /\ PublishContentItem([op |-> "publish_content_item", actor |-> Author,
                               item |-> i, rev |-> items[i].revision,
                               title |-> Units[job.unit].payload, ok |-> TRUE])
  BY DEF PublishUnit
<1> DEFINE c == [op |-> "publish_content_item", actor |-> Author,
                 item |-> i, rev |-> items[i].revision,
                 title |-> Units[job.unit].payload, ok |-> TRUE]
<1>2. job.pc = "unit" /\ job' = NextUnit /\ held' = held
  BY DEF PublishUnit, At
<1>3. UNCHANGED Committed /\ Loading /\ TypeOK
  BY <1>2, PublishUnitKept, CatalogInvRules DEF Loading, DeployInv
<1>4. PICK payload : payload = Units[job.unit].payload
  OBVIOUS
<1>5. /\ items' = [items EXCEPT ![i] = Published(items[i])]
      /\ contentVersions' = contentVersions \cup
           Snapshot(i, items[i], Published(items[i]), payload)
      /\ UNCHANGED <<admins, tracks, modules, trackVersions, moduleVersions,
                     orderRevision>>
  <2>1. PublishContentItem(c) /\ c.item = i /\ c.title = payload
    BY <1>1, <1>4
  <2> HIDE DEF c
  <2> QED BY <2>1, PublishWrites
<1>6. /\ job'.corpus = job.corpus /\ job'.def = job.def
      /\ job'.track = job.track /\ job'.module = job.module
      /\ job'.pc \in {"unit", "activate module"}
      /\ job.pc \in InTrack /\ job.pc \in InModule /\ job.pc \in InUnits
      /\ job'.pc \in InTrack /\ job'.pc \in InModule /\ job'.pc \in InUnits
  BY <1>2, NextUnitGoes
<1>7. PICK m : m = job.module
  OBVIOUS
<1>8. PICK t : t = job.track
  OBVIOUS
<1>9. /\ i \in Items /\ items[i].module = m /\ i \in ItemsOf(job.module)
      /\ items[i].position = job.unit /\ items[i] \in ItemRow
  BY <1>1, <1>3, <1>7 DEF UnitItem, ItemsOf, TypeOK
<1>10. /\ items'[i] = Published(items[i])
       /\ \A k \in Items \ {i} : items'[k] = items[k]
  BY <1>3, <1>5, <1>9 DEF TypeOK
<1>11. /\ items'[i].status = "PUBLISHED" /\ items[i].published \in Nat
       /\ items'[i].published = items[i].published + 1
       /\ items'[i].position = items[i].position
       /\ items'[i].module = items[i].module
       /\ contentVersions' = contentVersions \cup
            {[of |-> i, number |-> items'[i].published, title |-> payload]}
  BY <1>5, <1>9, <1>10, ItemFields DEF Snapshot
<1>12. Shows(items', contentVersions', i, payload)
  BY <1>11 DEF Shows
<1>13. ~Shows(items, contentVersions, i, payload)
  BY <1>1, <1>4 DEF Shows, Matches, PublishedVersion
<1>14. Exists(Committed.items[i]) => SameItem(i)
  <2>1. items[i].position >= job.unit
    BY <1>3, <1>9, DefinitionFields DEF DeployInv
  <2> QED BY <2>1, <1>2, <1>6, <1>9 DEF Underway, UnitsSettled
<1>15. RowsRemain
  BY <1>5, <1>10, <1>11 DEF RowsRemain, Exists
<1>16. \A k : ~ItemStays(k) => k = i
  BY <1>3, <1>5, OneItemWritten
<1>17. Loaded(place)'
  <2>1. /\ \A k : TrackStays(k)
        /\ \A k : ModuleStays(k)
    BY <1>3, <1>5, TablesStay
  <2>2. MayItem(i)
    BY <1>6, <1>7, <1>9, <1>11 DEF MayItem
  <2>3. ItemBounded(i)'
    <3>1. ItemBounded(i)
      BY <1>9 DEF Loaded, Bounded
    <3>2. Exists(Committed'.items[i]) =>
            /\ items'[i].position = Committed'.items[i].position
            /\ items'[i].published <= Committed'.items[i].published + 1
      BY <1>3, <1>11, <1>14 DEF SameItem
    <3> QED BY <3>1, <3>2, <1>3, <1>11 DEF ItemBounded
  <2>4. JobMoves
    BY <1>2, <1>6 DEF JobMoves
  <2> QED BY <1>2, <1>3, <1>5, <1>15, <1>16, <2>1, <2>2, <2>3, <2>4, LoadMoves
<1>18. TrackSettled'
  <2>1. TrackSettled
    BY DEF Underway
  <2>2. SameTrack(t) => SameTrack(t)'
    BY <1>3, <1>5 DEF SameTrack
  <2>3. SameTrack(job.track) => SameTrack(job.track)'
    BY <1>8, <2>2, <1>6 DEF SameTrack
  <2> QED BY <1>2, <1>3, <1>5, <1>6, <2>1, <2>3, TrackSettledStays
<1>19. ModuleSettled'
  <2>1. ModuleSettled
    BY DEF Underway
  <2>2. SameModule(m) => SameModule(m)'
    BY <1>3, <1>5 DEF SameModule
  <2>3. SameModule(job.module) => SameModule(job.module)'
    BY <1>7, <2>2, <1>6 DEF SameModule
  <2> QED BY <1>2, <1>3, <1>5, <1>6, <2>1, <2>3, ModuleSettledStays
<1>20. UnitsSettled'
  <2>1. UnitsSettled
    BY DEF Underway
  <2>2. ItemsOf(job.module)' = ItemsOf(job.module)
    <3>1. \A k \in Items : items'[k].module = items[k].module
      BY <1>10, <1>11
    <3> QED BY <3>1, <1>6 DEF ItemsOf
  <2>3. \A k \in ItemsOf(job.module) : items'[k].position = items[k].position
    BY <1>10, <1>11 DEF ItemsOf
  <2>4. \A k \in ItemsOf(job.module) \ {i} :
          /\ \A x : Shows(items, contentVersions, k, x) =>
                    Shows(items', contentVersions', k, x)
          /\ SameItem(k) => SameItem(k)'
    BY <1>3, <1>10, <1>11 DEF ItemsOf, Shows, SameItem
  <2>5. Shows(Committed.items, Committed.contentVersions, i,
              Units[Committed.items[i].position].payload) => SameItem(i)'
    <3> SUFFICES ASSUME Shows(Committed.items, Committed.contentVersions, i,
                              Units[Committed.items[i].position].payload)
                 PROVE  FALSE
      OBVIOUS
    <3>1. Exists(Committed.items[i])
      BY DEF Shows, Exists
    <3>2. SameItem(i)
      BY <3>1, <1>14
    <3>3. Committed.items[i].position = job.unit
      BY <3>2, <1>9 DEF SameItem
    <3>4. Shows(Committed.items, Committed.contentVersions, i, payload)
      BY <3>3, <1>4
    <3> QED BY <3>2, <3>4, <1>13 DEF SameItem, Shows
  <2>6. Shows(items', contentVersions', i, Units[job.unit].payload)
    BY <1>4, <1>12
  <2> QED BY <1>2, <1>3, <1>9, <2>1, <2>2, <2>3, <2>4, <2>5, <2>6, UnitSettles
<1> QED BY <1>6, <1>17, <1>18, <1>19, <1>20
        DEF LoadGoes, Underway, FirstUnit, TrackFound

-----------------------------------------------------------------------------
(* The load is done with a definition *)

LEMMA NotIn == \A n, k \in Nat : k <= n /\ k # n => n \in 1..n /\ n \notin 1..k
OBVIOUS

\* Counting up to the last one.
LEMMA UpTo ==
  \A last \in Nat : \A n \in 1..last :
    /\ n \in Nat /\ ~(n < n)
    /\ \A d \in 1..last : /\ d \in Nat
                          /\ d < n + 1 <=> d < n \/ d = n
                          /\ ~(n < last) => d < n \/ d = n
OBVIOUS

\* Once the units are settled, the module has their items and no other.
LEMMA ItemsComplete ==
  ASSUME DeployInv, UnitsSettled, job.pc = "activate track"
  PROVE  /\ Cardinality(ItemsOf(job.module)) = Len(Units)
         /\ \A i \in ItemsOf(job.module) :
              Shows(items, contentVersions, i, Units[items[i].position].payload)
<1>1. PICK m : m = job.module
  OBVIOUS
<1>2. Loading /\ JobInv /\ CatalogInv /\ job.pc \in InModule /\ job.pc \in InUnits
  BY PcSets DEF DeployInv, Loading
<1>3. m \in Modules
  BY <1>1, <1>2 DEF JobInv
<1>4. /\ Len(Units) \in Nat /\ DOMAIN Units = 1..Len(Units)
      /\ Cardinality(ItemsOf(m)) \in Nat
      /\ Cardinality(ItemsOf(m)) <= Len(Units)
      /\ Contiguous(items, ItemsOf(m))
  BY <1>1, <1>2, <1>3, DefinitionFields, RowsFinite
     DEF UnitsSettled, CatalogInv, OrderInv, ItemsOrdered
<1>5. \A u \in DOMAIN Units : \E i \in ItemsOf(m) :
        items[i].position = u /\ Shows(items, contentVersions, i, Units[u].payload)
  BY <1>1, <1>2 DEF UnitsSettled
<1>6. \A i \in ItemsOf(m) : items[i].position \in 1..Cardinality(ItemsOf(m))
  BY <1>4 DEF Contiguous
<1>7. Cardinality(ItemsOf(m)) = Len(Units)
  <2>1. PICK n, k : n = Len(Units) /\ k = Cardinality(ItemsOf(m))
    OBVIOUS
  <2>2. n \in Nat /\ k \in Nat /\ k <= n /\ DOMAIN Units = 1..n
    BY <1>4, <2>1
  <2>3. ASSUME k # n PROVE FALSE
    <3>1. n \in 1..n /\ n \notin 1..k
      BY <2>2, <2>3, NotIn
    <3>2. PICK i \in ItemsOf(m) : items[i].position = n
      BY <1>5, <2>2, <3>1
    <3> QED BY <1>6, <2>1, <3>1, <3>2
  <2> QED BY <2>1, <2>3
<1>8. ASSUME NEW i \in ItemsOf(m)
      PROVE  Shows(items, contentVersions, i, Units[items[i].position].payload)
  <2>1. items[i].position \in DOMAIN Units
    BY <1>4, <1>6, <1>7
  <2>2. PICK j \in ItemsOf(m) :
          /\ items[j].position = items[i].position
          /\ Shows(items, contentVersions, j, Units[items[i].position].payload)
    BY <1>5, <2>1
  <2>3. j = i
    BY <1>4, <2>2 DEF Contiguous
  <2> QED BY <2>2, <2>3
<1> QED BY <1>1, <1>7, <1>8

\* What it did of the definition is in place, and if it was in place before,
\* the load has written nothing of it.
LEMMA DefinitionIsPlaced ==
  ASSUME DeployInv, Underway, job.pc = "activate track",
         RowsRemain, UNCHANGED Committed, held \subseteq held',
         UNCHANGED <<modules, items, moduleVersions, contentVersions>>,
         NEW t, t = job.track, NEW m, m = job.module, NEW def, def = Def,
         tracks'[t].status = "ACTIVE", tracks'[t].title = def.text,
         SameTrack(t) /\ tracks[t].status = "ACTIVE" => SameTrack(t)'
  PROVE  Placed(def, t, m)'
<1>1. /\ job.pc \in InTrack /\ job.pc \in InModule /\ job.pc \in InUnits
      /\ Loading /\ JobInv
  BY PcSets DEF DeployInv, Loading
<1>2. TrackSettled /\ ModuleSettled /\ UnitsSettled
  BY DEF Underway
<1>3. /\ t \in Tracks /\ m \in Modules /\ modules[m].track = t
      /\ <<"track", t>> \in held /\ <<"module", m>> \in held
      /\ \A i \in Items : items[i].module = m => <<"item", i>> \in held
  BY <1>1 DEF JobInv
<1>4. Holds(t, m)'
  BY <1>3 DEF Holds
<1>5. /\ Cardinality(ItemsOf(m)) = Len(def.units)
      /\ \A i \in ItemsOf(m) :
           Shows(items, contentVersions, i, def.units[items[i].position].payload)
  BY <1>2, ItemsComplete DEF Units
<1>6. Is(def, t, m)'
  <2>1. modules[m].status = "ACTIVE" /\ Says(modules[m].title, def.module)
    BY <1>1, <1>2 DEF ModuleSettled
  <2>2. /\ Cardinality({i \in Items : items[i].module = m}) = Len(def.units)
        /\ \A i \in Items : items[i].module = m =>
             Shows(items, contentVersions, i, def.units[items[i].position].payload)
    BY <1>5 DEF ItemsOf
  <2>3. \A i, x : Shows(items', contentVersions', i, x) <=>
                  Shows(items, contentVersions, i, x)
    OBVIOUS
  <2> QED BY <1>3, <2>1, <2>2, <2>3 DEF Is, Settled
<1>7. KnownTrack(def, t)'
  <2>1. KnownTrack(def, t)
    BY <1>1, <1>2 DEF TrackSettled, KnownTrack
  <2> QED BY <2>1 DEF KnownTrack
<1>8. KnownModule(def, m)'
  <2>1. KnownModule(def, m)
    BY <1>1, <1>2 DEF ModuleSettled, KnownModule
  <2> QED BY <2>1 DEF KnownModule
<1>9. D!OnlyManaged(m, def.units)'
  <2>1. D!OnlyManaged(m, def.units)
    BY <1>1, <1>2 DEF UnitsSettled, Units
  <2> QED BY <2>1, OnlyManagedIs
<1>10. ASSUME Was(def, t, m)'
       PROVE  Untouched(t, m)'
  <2>1. Was(def, t, m)
    BY <1>10 DEF Was
  <2>2. /\ Committed.tracks[t].status = "ACTIVE"
        /\ Committed.tracks[t].title = def.text
        /\ Committed.modules[m].status = "ACTIVE"
        /\ Says(Committed.modules[m].title, def.module)
        /\ Cardinality({i \in Items : Committed.items[i].module = m}) = Len(def.units)
        /\ \A i \in Items : Committed.items[i].module = m =>
             Shows(Committed.items, Committed.contentVersions, i,
                   def.units[Committed.items[i].position].payload)
    BY <2>1 DEF Was, Settled
  <2>3. SameTrack(t)
    BY <1>1, <1>2, <2>2 DEF TrackSettled, SameTrack, Exists
  <2>4. tracks[t].status = "ACTIVE"
    BY <2>2, <2>3 DEF SameTrack
  <2>5. SameTrack(t)'
    BY <2>3, <2>4
  <2>6. D!ItemsOf(m) = {i \in Items : Committed.items[i].module = m}
    BY DEF D!ItemsOf
  <2>7. SameModule(m)
    <3>1. Cardinality(D!ItemsOf(m)) = Len(Units)
      BY <2>2, <2>6 DEF Units
    <3> QED BY <1>1, <1>2, <2>2, <3>1 DEF ModuleSettled, SameModule
  <2>8. SameModule(m)'
    BY <2>7 DEF SameModule
  <2>9. D!ItemsOf(m) = ItemsOf(m)
    BY <1>3, <1>5, <2>2, <2>6, FewerCommitted
  <2>10. ASSUME NEW i \in Items, items'[i].module = m
         PROVE  SameItem(i)'
    <3>1. i \in D!ItemsOf(m)
      BY <2>9, <2>10 DEF ItemsOf
    <3>2. Shows(Committed.items, Committed.contentVersions, i,
                Units[Committed.items[i].position].payload)
      BY <3>1, <2>2, <2>6 DEF Units
    <3>3. SameItem(i)
      BY <3>1, <3>2, <1>1, <1>2 DEF UnitsSettled
    <3> QED BY <3>3 DEF SameItem
  <2> QED BY <2>5, <2>8, <2>10 DEF Untouched
<1> QED BY <1>4, <1>6, <1>7, <1>8, <1>9, <1>10 DEF Placed

\* The next definition starts with nothing known; after the last comes the commit.
LEMMA NextDefinitionGoes ==
  ASSUME DeployInv, Loading, job.pc = "activate track", job' = NextDefinition
  PROVE  /\ job'.corpus = job.corpus /\ Done' = Done \cup {job.def}
         /\ job.def \notin Done /\ job.def \in Nat /\ Done \subseteq Nat
         /\ job'.pc \in {"track", "commit"}
         /\ job'.pc = "track" => job'.unit = 1
<1>1. JobInv /\ job \in JobRow
  BY DEF DeployInv, JobInv, JobRow
<1>2. /\ Len(job.corpus) \in Nat /\ DOMAIN job.corpus = 1..Len(job.corpus)
      /\ job.def \in 1..Len(job.corpus)
  BY <1>1, DefinitionFields
<1>3. PICK last, n : last = Len(job.corpus) /\ n = job.def
  OBVIOUS
<1>4. /\ last \in Nat /\ n \in 1..last /\ DOMAIN job.corpus = 1..last
      /\ Done = {d \in 1..last : d < n}
  BY <1>2, <1>3 DEF Done
<1>5. /\ n \in Nat /\ n \notin Done /\ Done \subseteq Nat
      /\ {d \in 1..last : d < n + 1} = Done \cup {n}
      /\ ~(n < last) => 1..last = Done \cup {n}
  <2>1. /\ n \in Nat /\ ~(n < n)
        /\ \A d \in 1..last : /\ d \in Nat
                              /\ d < n + 1 <=> d < n \/ d = n
                              /\ ~(n < last) => d < n \/ d = n
    BY <1>4, UpTo
  <2>2. \A d : d \in Done <=> d \in 1..last /\ d < n
    BY <1>4
  <2>3. n \in 1..last
    BY <1>4
  <2>4. \A d : d \in Done \cup {n} <=> d \in 1..last /\ (d < n \/ d = n)
    BY <2>2, <2>3
  <2>5. n \in Nat /\ n \notin Done /\ Done \subseteq Nat
    BY <2>1, <2>2
  <2>6. {d \in 1..last : d < n + 1} = Done \cup {n}
    BY <2>1, <2>4
  <2>7. ~(n < last) => 1..last = Done \cup {n}
    BY <2>1, <2>4
  <2> QED BY <2>5, <2>6, <2>7
<1>6. CASE n < last
  <2>1. job' = [NoJob EXCEPT !.pc = "track", !.corpus = job.corpus,
                             !.def = job.def + 1]
    BY <1>3, <1>6 DEF NextDefinition
  <2>2. /\ job'.pc = "track" /\ job'.corpus = job.corpus
        /\ job'.def = n + 1 /\ job'.unit = 1
    BY <1>3, <2>1 DEF NoJob
  <2>3. Done' = {d \in 1..last : d < n + 1}
    BY <1>4, <2>2 DEF Done
  <2>4. Done' = Done \cup {n}
    BY <1>5, <2>3
  <2> QED BY <1>3, <1>5, <2>2, <2>4
<1>7. CASE ~(n < last)
  <2>1. job' = Goto("commit")
    BY <1>3, <1>7 DEF NextDefinition
  <2>2. job'.pc = "commit" /\ job'.corpus = job.corpus /\ job'.def = job.def
    BY <1>1, <2>1 DEF Goto, JobRow
  <2>3. Done' = 1..last
    BY <1>4, <2>2 DEF Done
  <2>4. Done' = Done \cup {n}
    BY <1>5, <1>7, <2>3
  <2> QED BY <1>3, <1>5, <2>2, <2>4
<1> QED BY <1>6, <1>7

LEMMA NextDefinitionLoads ==
  ASSUME DeployInv, Underway, NEW place, Loaded(place),
         job.pc = "activate track", job' = NextDefinition,
         RowsRemain, UNCHANGED Committed, held \subseteq held',
         UNCHANGED <<modules, items, moduleVersions, contentVersions, orderRevision>>,
         NEW t, t = job.track,
         tracks'[t].status = "ACTIVE", tracks'[t].title = Def.text,
         SameTrack(t) /\ tracks[t].status = "ACTIVE" => SameTrack(t)',
         \A k \in Tracks : ~TrackStays(k) => k = t,
         TrackBounded(t)'
  PROVE  LoadGoes
<1>1. /\ job.pc \in InTrack /\ job.pc \in InModule /\ job.pc \in InUnits
      /\ Loading
  BY PcSets DEF Loading
<1>2. PICK m : m = job.module
  OBVIOUS
<1>3. PICK def : def = Def
  OBVIOUS
<1>4. PICK n : n = job.def
  OBVIOUS
<1>5. Placed(def, t, m)'
  BY <1>2, <1>3, DefinitionIsPlaced
<1>6. /\ job'.corpus = job.corpus /\ Done' = Done \cup {n}
      /\ n \notin Done /\ n \in Nat /\ Done \subseteq Nat
      /\ job'.pc \in {"track", "commit"}
      /\ job'.pc = "track" => job'.unit = 1
  BY <1>1, <1>4, NextDefinitionGoes
<1> DEFINE new == [d \in Nat |-> IF d = n THEN [track |-> t, module |-> m]
                                 ELSE place[d]]
<1>7. /\ \A d \in Done : new[d] = place[d]
      /\ new[n].track = t /\ new[n].module = m
      /\ new[n]["track"] = t /\ new[n]["module"] = m
  BY <1>6
<1> HIDE DEF new
<1>8. /\ \A f : Taken(place, f) \subseteq Taken(new, f)'
      /\ t \in Taken(new, "track")' /\ m \in Taken(new, "module")'
  BY <1>6, <1>7 DEF Taken
<1>9. Loaded(new)'
  <2>1. \A d \in Done' \ Done :
          Placed(job.corpus[d], new[d].track, new[d].module)'
    <3>1. job'.corpus[n] = def
      BY <1>3, <1>4, <1>6 DEF Def
    <3>2. Placed(job.corpus[n], new[n].track, new[n].module)'
      BY <1>5, <1>7, <3>1
    <3> QED BY <1>6, <3>2
  <2>2. \A k \in Tracks : TakenTrack(place, k) => TakenTrack(new, k)'
    BY <1>8 DEF TakenTrack
  <2>3. \A k \in Modules : TakenModule(place, k) => TakenModule(new, k)'
    BY <1>2, <1>8 DEF TakenModule
  <2>4. \A i \in Items : TakenItem(place, i) => TakenItem(new, i)'
    BY <1>2, <1>8 DEF TakenItem
  <2>5. MayTrack(t) /\ TakenTrack(new, t)'
    BY <1>1, <1>8 DEF MayTrack, TakenTrack
  <2>6. /\ \A k : ModuleStays(k)
        /\ \A i : ItemStays(i)
    BY TablesStay
  <2>7. Done \subseteq Done'
    BY <1>6
  <2> QED BY <1>1, <1>6, <1>7, <2>1, <2>2, <2>3, <2>4, <2>5, <2>6, <2>7, LoadFrame
<1>10. Underway'
  <2>1. \A pc \in {"track", "commit"} :
          /\ pc \notin InTrack /\ pc \notin InModule /\ pc \notin InUnits
          /\ pc # "settle track" /\ pc # "module" /\ pc # "items"
    BY DEF InTrack, InModule, InUnits
  <2>2. /\ job'.pc \notin InTrack /\ job'.pc \notin InModule
        /\ job'.pc \notin InUnits /\ job'.pc # "settle track"
        /\ job'.pc # "module" /\ job'.pc # "items"
    BY <1>6, <2>1
  <2>3. FirstUnit'
    BY <1>6, <2>2 DEF FirstUnit
  <2> QED BY <2>2, <2>3
          DEF Underway, TrackFound, TrackSettled, ModuleSettled, UnitsSettled
<1> QED BY <1>9, <1>10 DEF LoadGoes

\* _activate_track, for an active track and for any other.
LEMMA KeepTrackActiveLoads ==
  ASSUME DeployInv, KeepTrackActive, Underway, NEW place, Loaded(place)
  PROVE  LoadGoes
<1>1. /\ job.pc = "activate track" /\ UNCHANGED vars /\ held' = held
      /\ tracks[job.track].status = "ACTIVE" /\ job' = NextDefinition
  BY DEF KeepTrackActive, At
<1>2. UNCHANGED Committed
  BY KeepTrackActiveKept
<1>3. PICK t : t = job.track
  OBVIOUS
<1>4. job.pc \in InTrack
  BY <1>1, PcSets
<1>5. t \in Tracks /\ tracks[t].title = Def.text
  BY <1>3, <1>4 DEF DeployInv, JobInv, Underway, TrackSettled
<1>6. tracks'[t].title = Def.text /\ tracks'[t].status = "ACTIVE"
  BY <1>1, <1>3, <1>5 DEF vars
<1>7. TrackBounded(t)'
  BY <1>1, <1>2, <1>5, AllStaysQuiet, StaysSame DEF Loaded, Bounded
<1>8. /\ \A k \in Tracks : TrackStays(k)
      /\ RowsRemain
      /\ SameTrack(t) => SameTrack(t)'
  BY <1>1, <1>2, AllStaysQuiet, QuietSame
<1>9. UNCHANGED <<modules, items, moduleVersions, contentVersions, orderRevision>>
  BY <1>1 DEF vars
<1> QED BY <1>1, <1>2, <1>3, <1>6, <1>7, <1>8, <1>9, NextDefinitionLoads

LEMMA ActivateTrackLoads ==
  ASSUME DeployInv, ActivateTrack, Underway, NEW place, Loaded(place)
  PROVE  LoadGoes
<1> DEFINE c == [op |-> "change_track_status", actor |-> Author,
                 track |-> job.track, rev |-> tracks[job.track].revision,
                 target |-> "ACTIVE", pub |-> TRUE]
<1>1. /\ job.pc = "activate track" /\ ChangeTrackStatus(c)
      /\ tracks[job.track].status # "ACTIVE"
      /\ held \subseteq held' /\ Require(NextDefinition)
  BY DEF ActivateTrack, At, HoldModules, Hold
<1>2. UNCHANGED Committed /\ Loading /\ TypeOK
  BY <1>1, ActivateTrackKept, CatalogInvRules DEF Loading, DeployInv
<1>3. PICK t : t = job.track
  OBVIOUS
<1>4. CASE log'.result # "SUCCESS"
  <2>1. job' = Goto("conflict")
    BY <1>1, <1>4 DEF Require
  <2> QED BY <2>1, GoesTo DEF LoadGoes, PCs
<1>5. CASE log'.result = "SUCCESS"
  <2>1. /\ tracks' = [tracks EXCEPT ![t] = WithStatus(tracks[t], "ACTIVE")]
        /\ trackVersions' = trackVersions \cup
             Snapshot(t, tracks[t], WithStatus(tracks[t], "ACTIVE"), tracks[t].title)
        /\ UNCHANGED <<admins, modules, items, moduleVersions, contentVersions,
                       orderRevision>>
    <3>1. /\ c.target = "ACTIVE" /\ c.track = t /\ ChangeTrackStatus(c)
          /\ tracks[t].status # "ACTIVE"
      BY <1>1, <1>3
    <3> HIDE DEF c
    <3> QED BY <3>1, <1>5, ActivateTrackWrites
  <2>2. job' = NextDefinition
    BY <1>1, <1>5 DEF Require
  <2>3. job.pc \in InTrack
    BY <1>1, PcSets
  <2>4. t \in Tracks /\ tracks[t] \in TrackRow /\ tracks[t].title = Def.text
    BY <1>2, <1>3, <2>3 DEF DeployInv, JobInv, TypeOK, Underway, TrackSettled
  <2>5. /\ tracks'[t] = WithStatus(tracks[t], "ACTIVE")
        /\ \A k \in Tracks \ {t} : tracks'[k] = tracks[k]
    BY <1>2, <2>1, <2>4 DEF TypeOK
  <2>6. /\ tracks'[t].title = tracks[t].title /\ tracks'[t].status = "ACTIVE"
        /\ tracks'[t].position = tracks[t].position
        /\ tracks'[t].published = tracks[t].published + 1
        /\ tracks[t].published \in Nat
    BY <2>4, <2>5, TrackFields, TrackCounts
  <2>7. RowsRemain
    BY <2>1, <2>5, <2>6 DEF RowsRemain, Exists
  <2>8. \A k \in Tracks : ~TrackStays(k) => k = t
    BY <1>2, <2>1, OneTrackWritten
  <2>9. TrackBounded(t)'
    <3>1. TrackBounded(t) /\ tracks[t].status # "ACTIVE"
      BY <1>1, <1>3, <2>4 DEF Loaded, Bounded
    <3>2. Committed.tracks[t].published \in Nat
      <4>1. Committed.tracks \in [Tracks -> TrackRow]
        BY C!CatalogInvRules, SameAssumptions, SameTypes DEF DeployInv, C!TypeOK
      <4> QED BY <4>1, <2>4 DEF TrackRow
    <3> QED BY <3>1, <3>2, <1>2, <2>1, <2>6 DEF TrackBounded
  <2> QED BY <1>1, <1>2, <1>3, <2>1, <2>2, <2>4, <2>6, <2>7, <2>8, <2>9,
          NextDefinitionLoads
<1> QED BY <1>4, <1>5

-----------------------------------------------------------------------------
(* The other administrators *)

\* They leave the held rows alone.
HeldRowsStay ==
  /\ \A t \in Tracks : <<"track", t>> \in held =>
       /\ tracks'[t] = tracks[t]
       /\ \A v : v.of = t => (v \in trackVersions' <=> v \in trackVersions)
  /\ \A m \in Modules : <<"module", m>> \in held =>
       /\ modules'[m] = modules[m]
       /\ \A v : v.of = m => (v \in moduleVersions' <=> v \in moduleVersions)
  /\ \A i \in Items : <<"item", i>> \in held =>
       /\ items'[i] = items[i]
       /\ \A v : v.of = i => (v \in contentVersions' <=> v \in contentVersions)
  /\ orderRevision' = orderRevision

\* A version of another row is not one of a held row.
LEMMA NotOfHeld ==
  ASSUME NEW kind, NEW versions, NEW versions2, NEW k, <<kind, k>> \notin held,
         NEW a, NEW b, NEW x, versions2 = versions \cup Snapshot(k, a, b, x)
  PROVE  \A j : <<kind, j>> \in held =>
           \A v : v.of = j => (v \in versions2 <=> v \in versions)
BY DEF Snapshot

LEMMA TrackCommandLeaves ==
  ASSUME DeployInv, NEW c, c.track \in Tracks, <<"track", c.track>> \notin held,
         EditTrack(c) \/ ChangeTrackStatus(c)
  PROVE  HeldRowsStay
<1>1. /\ \E row : tracks' = [tracks EXCEPT ![c.track] = row]
      /\ \E a, b, x : trackVersions' = trackVersions \cup Snapshot(c.track, a, b, x)
      /\ UNCHANGED <<admins, modules, items, moduleVersions, contentVersions,
                     orderRevision>>
  BY DEF EditTrack, ChangeTrackStatus
<1>2. \A t \in Tracks : <<"track", t>> \in held => tracks'[t] = tracks[t]
  BY <1>1
<1>3. \A t : <<"track", t>> \in held =>
        \A v : v.of = t => (v \in trackVersions' <=> v \in trackVersions)
  BY <1>1, NotOfHeld
<1> QED BY <1>1, <1>2, <1>3 DEF HeldRowsStay

LEMMA ModuleWriteLeaves ==
  ASSUME NEW m, <<"module", m>> \notin held,
         \E row : modules' = [modules EXCEPT ![m] = row],
         \E a, b, x : moduleVersions' = moduleVersions \cup Snapshot(m, a, b, x),
         UNCHANGED <<admins, tracks, items, trackVersions, contentVersions,
                     orderRevision>>
  PROVE  HeldRowsStay
<1>1. \A k \in Modules : <<"module", k>> \in held => modules'[k] = modules[k]
  OBVIOUS
<1>2. \A k : <<"module", k>> \in held =>
        \A v : v.of = k => (v \in moduleVersions' <=> v \in moduleVersions)
  BY NotOfHeld
<1> QED BY <1>1, <1>2 DEF HeldRowsStay

\* A module is written only through the track it is of.
LEMMA OwnModule ==
  ASSUME DeployInv, NEW c \in Commands, OtherCommand(c),
         EditModule(c) \/ ChangeModuleStatus(c)
  PROVE  c.module \in Modules /\ modules[c.module].track = c.track
<1> DEFINE m == c.module
           row == modules[m]
<1>1. /\ TypeOK /\ c \in Command /\ tables' # tables
  BY OtherFrame
<1>2. modules = [k \in Modules |-> modules[k]]
  BY <1>1 DEF TypeOK
<1>3. CASE EditModule(c)
  <2> DEFINE free == TitleFree(modules, ModulesOf(c.track), m, c.title)
             known == row.track = c.track
             result == EditDecision(c.actor \in admins, known, row, c, free)
             after == IF result = "SUCCESS" THEN Edited(row, c.title) ELSE row
  <2>1. /\ c.op = "edit_module"
        /\ modules' = [modules EXCEPT ![m] = after]
        /\ moduleVersions' = moduleVersions \cup Snapshot(m, row, after, c.title)
        /\ UNCHANGED <<admins, tracks, items, trackVersions, contentVersions,
                       orderRevision>>
    BY <1>3 DEF EditModule
  <2>2. /\ c.rev \in Int /\ c.ok \in BOOLEAN /\ c.pub \in BOOLEAN /\ m \in Modules
    BY <1>1, <2>1, CommandShapes DEF EditModuleCmd
  <2>3. CASE result = "SUCCESS"
    <3>1. free \in BOOLEAN /\ known \in BOOLEAN /\ (c.actor \in admins) \in BOOLEAN
      BY DEF TitleFree
    <3>2. row.revision \in Nat
      BY <1>1, <2>2 DEF TypeOK, ModuleRow
    <3> HIDE DEF free, known
    <3>3. known
      BY <2>2, <2>3, <3>1, <3>2, EditSuccess
    <3> QED BY <2>2, <3>3 DEF known
  <2>4. CASE result # "SUCCESS"
    <3>1. after = row /\ Snapshot(m, row, row, c.title) = {}
      BY <2>4 DEF Snapshot
    <3>2. modules' = modules /\ moduleVersions' = moduleVersions
      <4> HIDE DEF after
      <4> QED BY <3>1, <1>2, <2>1, <2>2
    <3> QED BY <3>2, <1>1, <2>1 DEF tables
  <2> QED BY <2>3, <2>4
<1>4. CASE ChangeModuleStatus(c)
  <2> DEFINE owner == tracks[c.track]
             actives == ActiveModules(c.track)
             result == ModuleStatusDecision(c.actor \in admins, row, owner, c, actives)
             changed == result = "SUCCESS" /\ row.status # c.target
             after == IF changed THEN WithStatus(row, c.target) ELSE row
  <2>1. /\ c.op = "change_module_status"
        /\ modules' = [modules EXCEPT ![m] = after]
        /\ moduleVersions' = moduleVersions \cup Snapshot(m, row, after, row.title)
        /\ UNCHANGED <<admins, tracks, items, trackVersions, contentVersions,
                       orderRevision>>
    BY <1>4 DEF ChangeModuleStatus
  <2>2. /\ c.rev \in Int /\ c.pub \in BOOLEAN /\ m \in Modules
    BY <1>1, <2>1, CommandShapes DEF ModuleStatusCmd
  <2>3. CASE result = "SUCCESS"
    <3> DEFINE authorized == c.actor \in admins
    <3>1. /\ authorized \in BOOLEAN /\ row.revision \in Nat
          /\ result = ModuleStatusDecision(authorized, row, owner, c, actives)
      BY <1>1, <2>2 DEF TypeOK, ModuleRow
    <3>2. result = "SUCCESS" /\ m \in Modules
      BY <2>2, <2>3
    <3> HIDE DEF actives, owner, row, authorized, result
    <3>3. ModuleStatusDecision(authorized, row, owner, c, actives) = "SUCCESS" =>
            row.track = c.track
      <4>1. c.rev \in Int /\ c.pub \in BOOLEAN
        BY <2>2
      <4> QED BY <3>1, <4>1, StatusOfOwnModule
    <3>4. row.track = c.track
      BY <3>1, <3>2, <3>3
    <3> QED BY <3>2, <3>4 DEF row
  <2>4. CASE result # "SUCCESS"
    <3>1. after = row /\ Snapshot(m, row, row, row.title) = {}
      BY <2>4 DEF Snapshot
    <3>2. modules' = modules /\ moduleVersions' = moduleVersions
      <4> HIDE DEF after
      <4> QED BY <3>1, <1>2, <2>1, <2>2
    <3> QED BY <3>2, <1>1, <2>1 DEF tables
  <2> QED BY <2>3, <2>4
<1> QED BY <1>3, <1>4

\* Whatever they do, they leave the held rows.
LEMMA OthersLeaveHeld ==
  ASSUME DeployInv, Loading, NEW c \in Commands, OtherCommand(c)
  PROVE  HeldRowsStay /\ admins' = admins
<1>1. /\ Execute(c) /\ TypeOK /\ RowsOf(c) \cap held = {} /\ HeldInv /\ CatalogInv
      /\ <<"state", 1>> \in held
  BY OtherFrame DEF OtherCommand, DeployInv, HeldInv
<1>2. /\ DOMAIN tracks = Tracks /\ DOMAIN modules = Modules /\ DOMAIN items = Items
  BY <1>1, TableDomains
<1>3. CASE CreateTrack(c) \/ MoveTrack(c)
  BY <1>1, <1>3, NamedRows DEF CreateTrack, MoveTrack
<1>4. CASE EditTrack(c) \/ ChangeTrackStatus(c)
  <2>1. c.track \in Tracks /\ <<"track", c.track>> \notin held
    BY <1>1, <1>4, NamedRows DEF EditTrack, ChangeTrackStatus
  <2>2. HeldRowsStay
    BY <1>4, <2>1, TrackCommandLeaves
  <2>3. UNCHANGED admins
    BY <1>4 DEF EditTrack, ChangeTrackStatus
  <2> QED BY <2>2, <2>3
<1>5. CASE EditModule(c) \/ ChangeModuleStatus(c)
  <2>1. c.track \in Tracks /\ <<"track", c.track>> \notin held
    BY <1>1, <1>5, NamedRows DEF EditModule, ChangeModuleStatus
  <2>2. <<"module", c.module>> \notin held
    BY <1>5, <2>1, OwnModule, FreeModules
  <2>3. /\ \E row : modules' = [modules EXCEPT ![c.module] = row]
        /\ \E a, b, x : moduleVersions' = moduleVersions \cup
                          Snapshot(c.module, a, b, x)
        /\ UNCHANGED <<admins, tracks, items, trackVersions, contentVersions,
                       orderRevision>>
    BY <1>5 DEF EditModule, ChangeModuleStatus
  <2>4. HeldRowsStay
    BY <2>2, <2>3, ModuleWriteLeaves
  <2> QED BY <2>3, <2>4
<1>6. CASE CreateModule(c)
  <2>1. c.track \in Tracks /\ <<"track", c.track>> \notin held
    BY <1>1, <1>6, NamedRows DEF CreateModule
  <2>2. UNCHANGED <<admins, items, trackVersions, moduleVersions,
                    contentVersions, orderRevision>>
    BY <1>6 DEF CreateModule
  <2>3. log'.result # "SUCCESS" => modules' = modules /\ tracks' = tracks
    BY <1>6, CreatedModule
  <2>4. log'.result = "SUCCESS" =>
          /\ \E m \in Modules : \E row :
               ~Exists(modules[m]) /\ modules' = [modules EXCEPT ![m] = row]
          /\ \E row : tracks' = [tracks EXCEPT ![c.track] = row]
    <3> SUFFICES ASSUME log'.result = "SUCCESS"
                 PROVE  /\ \E m \in Modules : \E row :
                             /\ ~Exists(modules[m])
                             /\ modules' = [modules EXCEPT ![m] = row]
                        /\ \E row : tracks' = [tracks EXCEPT ![c.track] = row]
      OBVIOUS
    <3>1. /\ \E m \in Modules : \E p :
               /\ ~Exists(modules[m]) /\ log'.key = m
               /\ modules' = [modules EXCEPT ![m] = NewModule(c.track, c.title, p)]
          /\ \E n : tracks' = [tracks EXCEPT ![c.track].moduleOrder = n]
      BY <1>6, CreatedModule
    <3> QED BY <3>1
  <2>6. /\ \A t \in Tracks : t # c.track => tracks'[t] = tracks[t]
        /\ \A m \in Modules : Exists(modules[m]) => modules'[m] = modules[m]
    BY <1>2, <2>3, <2>4
  <2>5. \A m \in Modules : <<"module", m>> \in held => Exists(modules[m])
    BY <1>1, PlacedExist DEF HeldInv
  <2> QED BY <2>1, <2>2, <2>5, <2>6 DEF HeldRowsStay
<1>7. CASE MoveModule(c)
  <2>1. c.track \in Tracks /\ <<"track", c.track>> \notin held
    BY <1>1, <1>7, NamedRows DEF MoveModule
  <2>2. UNCHANGED <<admins, items, trackVersions, moduleVersions,
                    contentVersions, orderRevision>>
    BY <1>7 DEF MoveModule
  <2>3. \A t \in Tracks : t # c.track => tracks'[t] = tracks[t]
    BY <1>7 DEF MoveModule
  <2>4. \A m \in Modules : modules[m].track # c.track => modules'[m] = modules[m]
    BY <1>7 DEF MoveModule, ModulesOf
  <2>5. \A m \in Modules : <<"module", m>> \in held => modules[m].track # c.track
    BY <2>1, FreeModules
  <2> QED BY <2>1, <2>2, <2>3, <2>4, <2>5 DEF HeldRowsStay
<1>8. CASE CreateContentDraft(c)
  <2>1. c.module \in Modules /\ <<"module", c.module>> \notin held
    BY <1>1, <1>8, NamedRows DEF CreateContentDraft
  <2>2. UNCHANGED <<admins, tracks, trackVersions, moduleVersions,
                    contentVersions, orderRevision>>
    BY <1>8 DEF CreateContentDraft
  <2>3. \A m \in Modules : m # c.module => modules'[m] = modules[m]
    BY <1>8 DEF CreateContentDraft
  <2>4. \A i \in Items : Exists(items[i]) => items'[i] = items[i]
    BY <1>8 DEF CreateContentDraft
  <2>5. \A i \in Items : <<"item", i>> \in held => Exists(items[i])
    BY <1>1, PlacedExist DEF HeldInv
  <2> QED BY <2>1, <2>2, <2>3, <2>4, <2>5 DEF HeldRowsStay
<1>9. CASE PublishContentItem(c)
  <2>1. c.item \in Items /\ <<"item", c.item>> \notin held
    BY <1>1, <1>9, NamedRows DEF PublishContentItem
  <2>2. /\ items' = [items EXCEPT ![c.item] = Published(items[c.item])]
        /\ contentVersions' = contentVersions \cup
             Snapshot(c.item, items[c.item], Published(items[c.item]), c.title)
        /\ UNCHANGED <<admins, tracks, modules, trackVersions, moduleVersions,
                       orderRevision>>
    BY <1>9, PublishWrites
  <2>3. \A i : <<"item", i>> \in held =>
          \A v : v.of = i => (v \in contentVersions' <=> v \in contentVersions)
    BY <2>1, <2>2, NotOfHeld
  <2> QED BY <2>1, <2>2, <2>3 DEF HeldRowsStay
<1>10. HeldRowsStay
  BY <1>1, <1>3, <1>4, <1>5, <1>6, <1>7, <1>8, <1>9 DEF Execute
<1>11. admins' = admins
  BY <1>1 DEF Execute, CreateTrack, EditTrack, ChangeTrackStatus, MoveTrack,
     CreateModule, EditModule, ChangeModuleStatus, MoveModule,
     CreateContentDraft, PublishContentItem
<1> QED BY <1>10, <1>11

\* What the load has done and knows is about rows it holds, so it outlasts
\* what they do.
LEMMA LoadOutlasts ==
  ASSUME DeployInv, DeployInv', Loading, SameHeld, RowsRemain, HeldRowsStay,
         \A i \in Items : \/ items'[i].module = items[i].module
                          \/ /\ items'[i].module \in Modules
                             /\ <<"module", items'[i].module>> \notin held,
         Underway, NEW place, Loaded(place)
  PROVE  Underway' /\ Loaded(place)'
<1>1. /\ job' = job /\ held' = held /\ TypeOK /\ TypeOK'
      /\ JobInv /\ SavedInv /\ CatalogInv /\ C!CatalogInv
  <2>1. (CatalogInv => TypeOK)'
    BY CatalogInvRules, PTL
  <2> QED BY <2>1, CatalogInvRules DEF SameHeld, DeployInv
<1>2. /\ \A t \in Tracks : <<"track", t>> \in held => TrackStays(t)
      /\ \A m \in Modules : <<"module", m>> \in held => ModuleStays(m)
      /\ \A i \in Items : <<"item", i>> \in held => ItemStays(i)
  <2>1. /\ \A t \in Tracks : <<"track", t>> \in held =>
             Committed'.tracks[t] = Committed.tracks[t]
        /\ \A m \in Modules : <<"module", m>> \in held =>
             Committed'.modules[m] = Committed.modules[m]
        /\ \A i \in Items : <<"item", i>> \in held =>
             Committed'.items[i] = Committed.items[i]
    BY <1>1, CommittedAfter, CommittedRows
  <2>2. \A t \in Tracks : <<"track", t>> \in held =>
          \A v : v.of = t =>
            (v \in Committed'.trackVersions <=> v \in Committed.trackVersions)
    BY <1>1, CommittedAfter, CommittedVersions
  <2>3. \A m \in Modules : <<"module", m>> \in held =>
          \A v : v.of = m =>
            (v \in Committed'.moduleVersions <=> v \in Committed.moduleVersions)
    BY <1>1, CommittedAfter, CommittedVersions
  <2>4. \A i \in Items : <<"item", i>> \in held =>
          \A v : v.of = i =>
            (v \in Committed'.contentVersions <=> v \in Committed.contentVersions)
    BY <1>1, CommittedAfter, CommittedVersions
  <2> QED BY <2>1, <2>2, <2>3, <2>4 DEF HeldRowsStay, TrackStays, ModuleStays, ItemStays
<1>3. /\ \A t \in Tracks : <<"track", t>> \notin held => SameTrack(t)'
      /\ \A m \in Modules : <<"module", m>> \notin held => SameModule(m)'
      /\ \A i \in Items : <<"item", i>> \notin held => SameItem(i)'
  <2>1. /\ \A t \in Tracks : <<"track", t>> \notin held =>
             Committed'.tracks[t] = tracks'[t]
        /\ \A m \in Modules : <<"module", m>> \notin held =>
             Committed'.modules[m] = modules'[m]
        /\ \A i \in Items : <<"item", i>> \notin held =>
             Committed'.items[i] = items'[i]
    BY <1>1, CommittedAfter
  <2>2. \A t \in Tracks : <<"track", t>> \notin held =>
          \A v : v.of = t =>
            (v \in Committed'.trackVersions <=> v \in trackVersions')
    BY <1>1, CommittedAfter
  <2>3. \A m \in Modules : <<"module", m>> \notin held =>
          \A v : v.of = m =>
            (v \in Committed'.moduleVersions <=> v \in moduleVersions')
    BY <1>1, CommittedAfter
  <2>4. \A i \in Items : <<"item", i>> \notin held =>
          \A v : v.of = i =>
            (v \in Committed'.contentVersions <=> v \in contentVersions')
    BY <1>1, CommittedAfter
  <2> QED BY <2>1, <2>2, <2>3, <2>4 DEF SameTrack, SameModule, SameItem
\* The items of a held module.
<1>4. ASSUME NEW m \in Modules, <<"module", m>> \in held
      PROVE  /\ ItemsOf(m)' = ItemsOf(m) /\ D!ItemsOf(m)' = D!ItemsOf(m)
             /\ D!ItemsOf(m) \subseteq ItemsOf(m)
  <2>1. \A i \in Items : items[i].module = m => items'[i].module = m
    BY <1>1, PlacedExist DEF RowsRemain
  <2>2. \A i \in Items : items'[i].module = m => items[i].module = m
    BY <1>4
  <2>3. \A i \in Items : <<"item", i>> \in held \/
          /\ Committed.items[i] = items[i] /\ Committed'.items[i] = items'[i]
    BY <1>1, <1>3, FreeRows DEF SameItem
  <2>4. \A i \in Items : Committed'.items[i].module = m <=>
                         Committed.items[i].module = m
    BY <1>2, <2>1, <2>2, <2>3 DEF ItemStays
  <2>5. ItemsOf(m)' = ItemsOf(m)
    BY <2>1, <2>2 DEF ItemsOf
  <2>6. D!ItemsOf(m)' = D!ItemsOf(m)
    BY <2>4 DEF D!ItemsOf
  <2> QED BY <2>5, <2>6, CommittedItemsOf
<1>5. ASSUME NEW t, NEW m, Holds(t, m) PROVE AllStay(t, m)
  <2>1. /\ t \in Tracks /\ m \in Modules /\ <<"track", t>> \in held
        /\ <<"module", m>> \in held
        /\ \A i \in Items : items[i].module = m => <<"item", i>> \in held
    BY <1>5 DEF Holds
  <2>2. \A i \in Items :
          \/ items[i].module = m \/ items'[i].module = m
          \/ Committed.items[i].module = m \/ Committed'.items[i].module = m
            => items[i].module = m
    BY <1>4, <2>1 DEF ItemsOf, D!ItemsOf
  <2> QED BY <1>2, <2>1, <2>2 DEF AllStay
<1>6. Def' = Def /\ Units' = Units
  BY <1>1, SameDefinition
<1>7. /\ job.pc \in InTrack => job.track \in Tracks /\ <<"track", job.track>> \in held
      /\ job.pc = "settle track" /\ job.track # NoOwner =>
           job.track \in Tracks /\ <<"track", job.track>> \in held
      /\ job.pc \in InModule => job.module \in Modules /\ <<"module", job.module>> \in held
      /\ job.pc \in InUnits =>
           \A i \in Items : items[i].module = job.module => <<"item", i>> \in held
  BY <1>1 DEF JobInv
<1>8. FirstUnit' /\ TrackFound'
  BY <1>1, <1>2, <1>6, <1>7 DEF Underway, FirstUnit, TrackFound, TrackStays
<1>9. TrackSettled'
  <2> SUFFICES ASSUME job.pc \in InTrack
               PROVE  /\ tracks'[job.track].title = Def.text
                      /\ KnownTrack(Def, job.track)'
                      /\ (/\ job.pc # "module" => Exists(Committed'.modules[job.module])
                          /\ Committed'.tracks[job.track].status = "ACTIVE"
                          /\ Committed'.tracks[job.track].title = Def.text)
                            => SameTrack(job.track)'
    BY <1>1, <1>6 DEF TrackSettled
  <2>1. PICK t, m, def : t = job.track /\ m = job.module /\ def = Def
    OBVIOUS
  <2>2. TrackStays(t)
    BY <1>2, <1>7, <2>1
  <2>3. /\ SameTrack(t)' <=> SameTrack(t)
        /\ KnownTrack(def, t)' <=> KnownTrack(def, t)
    BY <2>2, StaysSame
  <2>4. job.pc # "module" => Committed'.modules[m] = Committed.modules[m]
    BY <1>2, <1>7, <2>1, PcSets DEF ModuleStays
  <2>5. /\ SameTrack(job.track)' <=> SameTrack(t)'
        /\ KnownTrack(Def, job.track)' <=> KnownTrack(def, t)'
    BY <1>1, <1>6, <2>1 DEF SameTrack, KnownTrack
  <2> QED BY <2>1, <2>2, <2>3, <2>4, <2>5 DEF Underway, TrackSettled, TrackStays
<1>10. ModuleSettled'
  <2> SUFFICES ASSUME job.pc \in InModule
               PROVE  /\ Says(modules'[job.module].title, Def.module)
                      /\ KnownModule(Def, job.module)'
                      /\ (/\ Committed'.modules[job.module].status = "ACTIVE"
                          /\ Says(Committed'.modules[job.module].title, Def.module)
                          /\ Cardinality(D!ItemsOf(job.module)') = Len(Units))
                            => SameModule(job.module)'
                      /\ job.pc = "activate track" =>
                           modules'[job.module].status = "ACTIVE"
    BY <1>1, <1>6 DEF ModuleSettled
  <2>1. PICK m, def : m = job.module /\ def = Def
    OBVIOUS
  <2>2. ModuleStays(m) /\ D!ItemsOf(m)' = D!ItemsOf(m)
    BY <1>2, <1>4, <1>7, <2>1
  <2>3. /\ SameModule(m)' <=> SameModule(m)
        /\ KnownModule(def, m)' <=> KnownModule(def, m)
    BY <2>2, StaysSame
  <2>4. /\ SameModule(job.module)' <=> SameModule(m)'
        /\ KnownModule(Def, job.module)' <=> KnownModule(def, m)'
        /\ D!ItemsOf(job.module)' = D!ItemsOf(m)'
    BY <1>1, <1>6, <2>1 DEF SameModule, KnownModule, D!ItemsOf
  <2> QED BY <2>1, <2>2, <2>3, <2>4 DEF Underway, ModuleSettled, ModuleStays
<1>11. UnitsSettled'
  <2> SUFFICES ASSUME job.pc \in InUnits PROVE UnitsSettled'
    BY <1>1 DEF UnitsSettled
  <2>1. PICK m : m = job.module
    OBVIOUS
  <2>2. /\ m \in Modules /\ <<"module", m>> \in held
        /\ \A i \in Items : items[i].module = m => <<"item", i>> \in held
    BY <1>7, <2>1, PcSets
  <2>3. /\ ItemsOf(m)' = ItemsOf(m) /\ D!ItemsOf(m)' = D!ItemsOf(m)
        /\ D!ItemsOf(m) \subseteq ItemsOf(m)
    BY <1>4, <2>2
  <2>4. \A i \in ItemsOf(m) : ItemStays(i) /\ (SameItem(i)' <=> SameItem(i))
    BY <1>2, <2>2, StaysSame DEF ItemsOf
  <2>5. \A i \in ItemsOf(m) : \A x :
          /\ Shows(items', contentVersions', i, x) <=>
               Shows(items, contentVersions, i, x)
          /\ Shows(Committed'.items, Committed'.contentVersions, i, x) <=>
               Shows(Committed.items, Committed.contentVersions, i, x)
    BY <2>4 DEF ItemStays, Shows
  <2>6. D!OnlyManaged(m, Units)'
    <3>1. PICK units : units = Units
      OBVIOUS
    <3>2. D!OnlyManaged(m, units)
      BY <3>1, <2>1 DEF Underway, UnitsSettled
    <3>3. \A i \in Items :
            Committed.items[i].module = m \/ Committed'.items[i].module = m =>
              /\ Committed'.items[i] = Committed.items[i]
              /\ \A v : v.of = i =>
                   (v \in Committed'.contentVersions <=> v \in Committed.contentVersions)
      BY <2>3, <2>4 DEF D!ItemsOf, ItemStays
    <3>4. D!OnlyManaged(m, units)'
      BY <3>2, <3>3, OnlyManagedIs, ManagedSame
    <3> QED BY <3>1, <3>4, <1>6
  <2>7. UnitsSettled
    BY DEF Underway
  <2>8. \A i \in ItemsOf(m) : items'[i] = items[i] /\ Committed'.items[i] = Committed.items[i]
    BY <2>4 DEF ItemStays
  <2>9. ASSUME NEW u \in DOMAIN Units, u < job.unit \/ job.pc # "unit"
        PROVE  \E i \in ItemsOf(m) :
                 items'[i].position = u /\ Shows(items', contentVersions', i, Units[u].payload)
    <3>1. PICK i \in ItemsOf(m) :
            items[i].position = u /\ Shows(items, contentVersions, i, Units[u].payload)
      BY <2>7, <2>9, <2>1 DEF UnitsSettled
    <3> QED BY <3>1, <2>5, <2>8
  <2>10. ASSUME NEW i \in ItemsOf(m), job.pc = "unit",
                items'[i].position >= job.unit, Exists(Committed'.items[i])
         PROVE  SameItem(i)'
    <3>1. items[i].position >= job.unit /\ Exists(Committed.items[i])
      BY <2>8, <2>10
    <3> QED BY <3>1, <2>1, <2>4, <2>7, <2>10 DEF UnitsSettled
  <2>11. ASSUME NEW i \in D!ItemsOf(m),
                Shows(Committed'.items, Committed'.contentVersions, i,
                      Units[Committed'.items[i].position].payload)
         PROVE  SameItem(i)'
    <3>1. Shows(Committed.items, Committed.contentVersions, i,
                Units[Committed.items[i].position].payload)
      BY <2>3, <2>5, <2>8, <2>11
    <3> QED BY <3>1, <2>1, <2>3, <2>4, <2>7 DEF UnitsSettled
  <2>12. Cardinality(ItemsOf(m)) <= Len(Units)
    BY <2>1, <2>7 DEF UnitsSettled
  <2> QED BY <1>1, <1>6, <2>1, <2>3, <2>6, <2>9, <2>10, <2>11, <2>12 DEF UnitsSettled
<1>12. Done' = Done
  BY <1>1 DEF Done
<1>13. ASSUME NEW d \in Done'
       PROVE  Placed(job.corpus[d], place[d].track, place[d].module)'
  <2>1. PICK def : def = job.corpus[d]
    OBVIOUS
  <2>2. Placed(def, place[d].track, place[d].module)
    BY <1>12, <2>1 DEF Loaded
  <2>3. AllStay(place[d].track, place[d].module)
    BY <1>5, <2>2 DEF Placed
  <2>4. Placed(def, place[d].track, place[d].module)'
    BY <1>1, <2>2, <2>3, PlacedStays
  <2>5. job'.corpus[d] = def
    BY <1>1, <2>1
  <2> QED BY <2>4, <2>5
<1>14. Elsewhere(place)'
  <2>1. \A f : Taken(place, f)' = Taken(place, f)
    BY <1>1, <1>12 DEF Taken
  <2>2. ASSUME NEW t \in Tracks, ~SameTrack(t)' PROVE TakenTrack(place, t)'
    <3>1. ~SameTrack(t)
      BY <1>2, <1>3, <2>2, StaysSame
    <3>2. TakenTrack(place, t)
      BY <3>1 DEF Loaded, Elsewhere
    <3> QED BY <3>2, <2>1, <1>1 DEF TakenTrack
  <2>3. ASSUME NEW m \in Modules, ~SameModule(m)' PROVE TakenModule(place, m)'
    <3>1. ~SameModule(m)
      BY <1>2, <1>3, <2>3, StaysSame
    <3>2. TakenModule(place, m)
      BY <3>1 DEF Loaded, Elsewhere
    <3> QED BY <3>2, <2>1, <1>1 DEF TakenModule
  <2>4. ASSUME NEW i \in Items, ~SameItem(i)' PROVE TakenItem(place, i)'
    <3>1. ItemStays(i)
      BY <1>2, <1>3, <2>4
    <3>2. ~SameItem(i)
      BY <3>1, <2>4, StaysSame
    <3>3. TakenItem(place, i)
      BY <3>2 DEF Loaded, Elsewhere
    <3> QED BY <3>1, <3>3, <2>1, <1>1 DEF TakenItem, ItemStays
  <2> QED BY <2>2, <2>3, <2>4 DEF Elsewhere
<1>15. Bounded'
  <2>1. ASSUME NEW t \in Tracks PROVE TrackBounded(t)'
    <3>1. CASE SameTrack(t)'
      <4>1. tracks'[t].published \in Nat
        BY <1>1 DEF TypeOK, TrackRow
      <4> QED BY <3>1, <4>1 DEF SameTrack, TrackBounded
    <3>2. CASE TrackStays(t)
      BY <3>2, StaysSame DEF Loaded, Bounded
    <3> QED BY <1>2, <1>3, <3>1, <3>2
  <2>2. ASSUME NEW m \in Modules PROVE ModuleBounded(m)'
    <3>1. CASE SameModule(m)'
      <4>1. modules'[m].published \in Nat
        BY <1>1 DEF TypeOK, ModuleRow
      <4> QED BY <3>1, <4>1 DEF SameModule, ModuleBounded
    <3>2. CASE ModuleStays(m)
      BY <3>2, StaysSame DEF Loaded, Bounded
    <3> QED BY <1>2, <1>3, <3>1, <3>2
  <2>3. ASSUME NEW i \in Items PROVE ItemBounded(i)'
    <3>1. CASE SameItem(i)'
      <4>1. items'[i].published \in Nat
        BY <1>1 DEF TypeOK, ItemRow
      <4> QED BY <3>1, <4>1 DEF SameItem, ItemBounded
    <3>2. CASE ItemStays(i)
      BY <3>2, StaysSame DEF Loaded, Bounded
    <3> QED BY <1>2, <1>3, <3>1, <3>2
  <2> QED BY <2>1, <2>2, <2>3 DEF Bounded
<1>16. OrderKept'
  <2>1. orderRevision' = orderRevision /\ Committed'.orderRevision = Committed.orderRevision
    BY <1>1, CommittedAfter, CommittedOrder DEF HeldRowsStay
  <2>2. \A t \in Tracks : Exists(tracks[t]) /\ ~Exists(Committed.tracks[t]) =>
                          Exists(tracks'[t]) /\ ~Exists(Committed'.tracks[t])
    BY <1>1, <1>2, FreeRows DEF TrackStays
  <2> QED BY <2>1, <2>2 DEF Loaded, OrderKept
<1>17. Underway'
  BY <1>8, <1>9, <1>10, <1>11 DEF Underway
<1>18. Loaded(place)'
  BY <1>13, <1>14, <1>15, <1>16 DEF Loaded
<1> QED BY <1>17, <1>18

-----------------------------------------------------------------------------
(* The invariant *)

\* Every step of a load but its last ones reads and writes as its place says.
LEMMA LoadStepGoes ==
  ASSUME DeployInv, LoadStep, Underway, NEW place, Loaded(place)
  PROVE  LoadGoes \/ Commit \/ Conflict
<1>1. CASE SelectTrack
  BY <1>1, SelectTrackLoads
<1>2. CASE CreateMissingTrack
  BY <1>2, CreateMissingTrackLoads
<1>3. CASE RestoreTrack
  BY <1>3, RestoreTrackLoads
<1>4. CASE KeepTrack
  BY <1>4, KeepTrackLoads
<1>5. CASE CreateMissingModule
  BY <1>5, CreateMissingModuleLoads
<1>6. CASE RestoreModule
  BY <1>6, RestoreModuleLoads
<1>7. CASE KeepModule
  BY <1>7, KeepModuleLoads
<1>8. CASE ValidateItems
  BY <1>8, ValidateItemsLoads
<1>9. CASE DraftUnit
  BY <1>9, DraftUnitLoads
<1>10. CASE PublishUnit
  BY <1>10, PublishUnitLoads
<1>11. CASE KeepUnit
  BY <1>11, KeepUnitLoads
<1>12. CASE ActivateModule
  BY <1>12, ActivateModuleLoads
<1>13. CASE KeepModuleActive
  BY <1>13, KeepModuleActiveLoads
<1>14. CASE ActivateTrack
  BY <1>14, ActivateTrackLoads
<1>15. CASE KeepTrackActive
  BY <1>15, KeepTrackActiveLoads
<1> QED BY <1>1, <1>2, <1>3, <1>4, <1>5, <1>6, <1>7, <1>8, <1>9, <1>10, <1>11,
           <1>12, <1>13, <1>14, <1>15 DEF LoadStep

\* A step of a load is its last one or starts within the load.
LEMMA LoadStepFrame ==
  ASSUME LoadStep
  PROVE  /\ admins' = admins
         /\ Commit \/ Conflict => ~Loading'
         /\ Commit \/ Conflict \/ (Loading /\ job.pc # "conflict")
<1>1. \/ Commit \/ Conflict
      \/ Loading /\ job.pc # "conflict"
  BY DEF LoadStep, At, Loading, SelectTrack, CreateMissingTrack, RestoreTrack,
         KeepTrack, CreateMissingModule, RestoreModule, KeepModule, ValidateItems,
         DraftUnit, PublishUnit, KeepUnit, ActivateModule, KeepModuleActive,
         ActivateTrack, KeepTrackActive
<1>2. Commit \/ Conflict => ~Loading'
  BY DEF Commit, Conflict, Release, NoJob, Loading
<1>3. \A c : \/ CreateTrack(c) \/ EditTrack(c) \/ ChangeTrackStatus(c)
             \/ CreateModule(c) \/ EditModule(c) \/ ChangeModuleStatus(c)
             \/ CreateContentDraft(c) \/ PublishContentItem(c)
             => admins' = admins
  BY DEF CreateTrack, EditTrack, ChangeTrackStatus, CreateModule, EditModule,
         ChangeModuleStatus, CreateContentDraft, PublishContentItem
<1>4. UNCHANGED vars \/ Rollback => admins' = admins
  BY DEF vars, Rollback
<1>5. admins' = admins
  BY <1>3, <1>4 DEF LoadStep, SelectTrack, KeepTrack, KeepModule, ValidateItems,
                    KeepUnit, KeepModuleActive, KeepTrackActive, Commit, Conflict,
                    CreateMissingTrack, RestoreTrack, CreateMissingModule,
                    RestoreModule, DraftUnit, PublishUnit, ActivateModule,
                    ActivateTrack
<1> QED BY <1>1, <1>2, <1>5

\* So every step of a load keeps the invariant.
LEMMA LoadStepLoads ==
  ASSUME DeployInv, LoadInv, LoadStep
  PROVE  LoadInv'
<1>1. /\ admins' = admins
      /\ Commit \/ Conflict => ~Loading'
      /\ Commit \/ Conflict \/ (Loading /\ job.pc # "conflict")
  BY LoadStepFrame
<1>2. CASE Commit \/ Conflict
  BY <1>1, <1>2 DEF LoadInv
<1>3. CASE ~(Commit \/ Conflict)
  <2>1. Author \in admins /\ Underway /\ \E place : Loaded(place)
    BY <1>1, <1>3 DEF LoadInv
  <2>2. LoadGoes
    BY <2>1, <1>3, LoadStepGoes
  <2> QED BY <1>1, <2>1, <2>2 DEF LoadGoes, LoadInv
<1> QED BY <1>2, <1>3

\* A load begins with nothing done.
LEMMA BeginLoadLoads ==
  ASSUME DeployInv, NEW corpus \in Documents, BeginLoad(corpus)
  PROVE  LoadInv'
<1>1. /\ ~Loading /\ UNCHANGED vars /\ Author \in admins
      /\ job' = [NoJob EXCEPT !.pc = "track", !.corpus = corpus]
      /\ TypeOK /\ held = {}
  BY CatalogInvRules DEF BeginLoad, DeployInv, HeldInv
<1>2. /\ UNCHANGED <<tracks, modules, items, trackVersions, moduleVersions,
                     contentVersions, orderRevision, admins>>
      /\ CommittedTables /\ UNCHANGED Committed
  BY <1>1, WhenIdle, BeginLoadKept DEF vars
<1>3. /\ tracks' = Committed'.tracks /\ modules' = Committed'.modules
      /\ items' = Committed'.items
      /\ trackVersions' = Committed'.trackVersions
      /\ moduleVersions' = Committed'.moduleVersions
      /\ contentVersions' = Committed'.contentVersions
      /\ orderRevision' = Committed'.orderRevision
  BY <1>2 DEF CommittedTables
<1>4. /\ job'.pc = "track" /\ job'.def = 1 /\ job'.unit = 1
      /\ job'.corpus = corpus
  BY <1>1 DEF NoJob
<1>5. Underway'
  BY <1>4 DEF Underway, FirstUnit, TrackFound, TrackSettled, ModuleSettled,
              UnitsSettled, InTrack, InModule, InUnits
<1>6. Done' = {}
  <2>1. DOMAIN corpus \subseteq Int /\ \A d \in DOMAIN corpus : ~(d < 1)
    <3>1. Len(corpus) \in Nat /\ DOMAIN corpus = 1..Len(corpus)
      BY DeploymentAssumption DEF IsSequence
    <3> QED BY <3>1
  <2> QED BY <1>4, <2>1 DEF Done
<1>7. /\ \A t \in Tracks : SameTrack(t)'
      /\ \A m \in Modules : SameModule(m)'
      /\ \A i \in Items : SameItem(i)'
  BY <1>3 DEF SameTrack, SameModule, SameItem
<1>8. Bounded'
  <2>1. /\ \A t \in Tracks : tracks[t].published \in Nat
        /\ \A m \in Modules : modules[m].published \in Nat
        /\ \A i \in Items : items[i].published \in Nat
    BY <1>1 DEF TypeOK, TrackRow, ModuleRow, ItemRow
  <2>2. /\ \A t \in Tracks : tracks'[t].published \in Nat
        /\ \A m \in Modules : modules'[m].published \in Nat
        /\ \A i \in Items : items'[i].published \in Nat
    BY <1>2, <2>1
  <2>3. \A n \in Nat : n <= n + 0 /\ n <= n + 1
    OBVIOUS
  <2>4. \A t \in Tracks : TrackBounded(t)'
    BY <1>3, <2>2, <2>3 DEF TrackBounded
  <2>5. \A m \in Modules : ModuleBounded(m)'
    BY <1>3, <2>2, <2>3 DEF ModuleBounded
  <2>6. \A i \in Items : ItemBounded(i)'
    BY <1>3, <2>2, <2>3 DEF ItemBounded
  <2> QED BY <2>4, <2>5, <2>6 DEF Bounded
<1>9. \A place : Loaded(place)'
  BY <1>3, <1>6, <1>7, <1>8 DEF Loaded, Elsewhere, OrderKept
<1> QED BY <1>1, <1>2, <1>5, <1>9 DEF LoadInv

\* What the others do leaves it all where it is.
LEMMA OthersLoad ==
  ASSUME DeployInv, LoadInv, NEW c \in Commands, OtherCommand(c)
  PROVE  LoadInv'
<1>1. SameHeld /\ RowsRemain /\ DeployInv'
  BY OtherFrame, OtherCommandKept
<1>2. job' = job
  BY <1>1 DEF SameHeld
<1>3. CASE Loading /\ job.pc # "conflict"
  <2>1. HeldRowsStay /\ admins' = admins
    BY <1>3, OthersLeaveHeld
  <2>2. /\ Author \in admins /\ Underway
        /\ \E place : Loaded(place)
    BY <1>3 DEF LoadInv
  <2>3. PICK place : Loaded(place)
    BY <2>2
  <2>4. Underway' /\ Loaded(place)'
    BY <1>1, <1>3, <2>1, <2>2, <2>3, OtherItems, LoadOutlasts
  <2> QED BY <2>1, <2>2, <2>4 DEF LoadInv
<1>4. CASE ~(Loading /\ job.pc # "conflict")
  BY <1>2, <1>4 DEF LoadInv, Loading
<1> QED BY <1>3, <1>4

\* A step that writes no row, and leaves the author the role, keeps it too.
LEMMA RoleLoads ==
  ASSUME DeployInv, LoadInv, DeployInv', UNCHANGED jobVars, UNCHANGED Committed,
         UNCHANGED <<tracks, modules, items, trackVersions, moduleVersions,
                     contentVersions, orderRevision>>,
         Loading => (Author \in admins => Author \in admins')
  PROVE  LoadInv'
<1>1. SameHeld /\ job' = job
  BY DEF SameHeld, jobVars
<1>2. CASE Loading /\ job.pc # "conflict"
  <2>1. HeldRowsStay
    BY DEF HeldRowsStay
  <2>2. /\ Author \in admins /\ Underway
        /\ \E place : Loaded(place)
    BY <1>2 DEF LoadInv
  <2>3. PICK place : Loaded(place)
    BY <2>2
  <2>4. RowsRemain
    BY DEF RowsRemain
  <2>5. \A i \in Items : items'[i].module = items[i].module
    OBVIOUS
  <2>6. Underway' /\ Loaded(place)'
    BY <1>1, <1>2, <2>1, <2>2, <2>3, <2>4, <2>5, LoadOutlasts
  <2> QED BY <1>2, <2>2, <2>6 DEF LoadInv
<1>3. CASE ~(Loading /\ job.pc # "conflict")
  BY <1>1, <1>3 DEF LoadInv, Loading
<1> QED BY <1>2, <1>3

LEMMA OtherRoleLoads ==
  ASSUME DeployInv, LoadInv, NEW a \in Accounts, OtherRole(a)
  PROVE  LoadInv'
<1>1. /\ UNCHANGED jobVars /\ ChangeContentRole(a) /\ <<"account", a>> \notin held
      /\ DeployInv' /\ UNCHANGED Committed
  BY OtherRoleKept DEF OtherRole
<1>2. UNCHANGED <<tracks, modules, items, trackVersions, moduleVersions,
                  contentVersions, orderRevision>>
  BY <1>1 DEF ChangeContentRole
<1>3. Loading => a # Author
  BY <1>1 DEF DeployInv, HeldInv
<1>4. a # Author /\ Author \in admins => Author \in admins'
  BY <1>1 DEF ChangeContentRole
<1> QED BY <1>1, <1>2, <1>3, <1>4, RoleLoads

\* Every step keeps it.
LEMMA LoadInvStep == DeployInv /\ LoadInv /\ [DeployNext]_deployVars => LoadInv'
<1> SUFFICES ASSUME DeployInv, LoadInv, [DeployNext]_deployVars PROVE LoadInv'
  OBVIOUS
<1>1. CASE \E corpus \in Documents : BeginLoad(corpus)
  BY <1>1, BeginLoadLoads
<1>2. CASE LoadStep
  BY <1>2, LoadStepLoads
<1>3. CASE Abort
  BY <1>3 DEF Abort, Release, NoJob, LoadInv, Loading
<1>4. CASE \E c \in Commands : OtherCommand(c)
  BY <1>4, OthersLoad
<1>5. CASE \E a \in Accounts : OtherRole(a)
  BY <1>5, OtherRoleLoads
<1>6. CASE Seed
  BY <1>6 DEF Seed, jobVars, LoadInv, Loading
<1>7. CASE UNCHANGED deployVars
  <2>1. /\ UNCHANGED jobVars /\ DeployInv' /\ UNCHANGED Committed
        /\ UNCHANGED <<tracks, modules, items, trackVersions, moduleVersions,
                       contentVersions, orderRevision>>
        /\ admins' = admins
    BY <1>7, DeployStutter DEF deployVars, vars
  <2> QED BY <2>1, RoleLoads
<1> QED BY <1>1, <1>2, <1>3, <1>4, <1>5, <1>6, <1>7 DEF DeployNext

-----------------------------------------------------------------------------
(* The commit is the load of Deployment *)

\* Histories that are numbered, one in the other, differ by later versions.
LEMMA NumberedAppends ==
  ASSUME NEW keys, NEW rows, NEW new, NEW versions, NEW added,
         DOMAIN rows = keys, Numbered(rows, versions), Numbered(new, added),
         versions \subseteq VersionRow(keys), added \subseteq VersionRow(keys),
         versions \subseteq added,
         \A k \in keys : rows[k].published \in Nat /\ new[k].published \in Nat
  PROVE  Appends(versions, added)
<1> SUFFICES ASSUME NEW v \in added \ versions, NEW w \in versions, w.of = v.of
             PROVE  w.number < v.number
  BY DEF Appends
<1>1. /\ v.of \in keys /\ v.number \in Nat /\ w.number \in Nat
  BY DEF VersionRow
<1>2. PICK k : k = v.of
  OBVIOUS
<1>3. /\ v.number \in 1..new[k].published
      /\ w.number \in 1..rows[k].published
  BY <1>2 DEF Numbered
<1>4. v.number \notin 1..rows[k].published
  <2> SUFFICES ASSUME v.number \in 1..rows[k].published PROVE FALSE
    OBVIOUS
  <2>1. PICK u \in versions : u.of = k /\ u.number = v.number
    BY <1>1, <1>2 DEF Numbered
  <2>2. u = v
    BY <1>2, <2>1 DEF Numbered
  <2> QED BY <2>1, <2>2
<1>5. rows[k].published \in Nat /\ new[k].published \in Nat
  BY <1>1, <1>2
<1> QED BY <1>1, <1>3, <1>4, <1>5

\* After a commit everybody sees the tables.
LEMMA CommitSees ==
  ASSUME DeployInv, Commit
  PROVE  /\ DeployInv' /\ admins' = admins
         /\ Committed'.tracks = tracks /\ Committed'.modules = modules
         /\ Committed'.items = items
         /\ Committed'.trackVersions = trackVersions
         /\ Committed'.moduleVersions = moduleVersions
         /\ Committed'.contentVersions = contentVersions
         /\ Committed'.orderRevision = orderRevision
<1>1. DeployInv' /\ CommittedTables' /\ UNCHANGED vars
  BY CommitKept DEF Commit
<1> QED BY <1>1 DEF CommittedTables, vars

\* What a definition found in place is in place for everybody.
LEMMA CommitInPlace ==
  ASSUME DeployInv, Commit, NEW t \in Tracks, NEW m \in Modules, NEW def,
         IsSequence(def.units), Is(def, t, m)
  PROVE  D!InPlace(def, t, m)'
<1>1. InPlace(def, t, m)
  BY IsInPlace DEF DeployInv
<1>2. D!PublishedVersions(t)' = PublishedVersions(t)
  BY CommitSees DEF D!PublishedVersions, PublishedVersions, D!ActiveModules,
       ActiveModules, D!ModulesOf, ModulesOf, D!PublishedVersion, PublishedVersion
<1>3. /\ (m \in D!ActiveModules(t))' <=> m \in ActiveModules(t)
      /\ D!ItemsOf(m)' = ItemsOf(m)
  BY CommitSees DEF D!ActiveModules, ActiveModules, D!ModulesOf, ModulesOf,
                    D!ItemsOf, ItemsOf
<1>4. \A s : D!Cardinality(s) = Cardinality(s)
  BY DEF D!Cardinality, Cardinality
<1> QED BY <1>1, <1>2, <1>3, <1>4, CommitSees DEF D!InPlace, InPlace, D!Says, Says

\* What is known of a place recognizes the definition.
LEMMA PlacedIsRecognized ==
  ASSUME DeployInv, NEW def, NEW t \in Tracks, NEW m \in Modules,
         Placed(def, t, m), NEW at, at.track = t, at.module = m
  PROVE  D!Recognized(def, at)
<1>1. /\ modules[m].track = t /\ KnownTrack(def, t) /\ KnownModule(def, m)
      /\ D!OnlyManaged(m, def.units)
  BY DEF Placed, Holds
<1>2. D!Exists(Committed.tracks[t]) => t \in D!Matching(def)
  BY <1>1, SameExists, SameTitleKeys DEF KnownTrack, D!Matching, D!UsedTracks
<1>3. D!Exists(Committed.modules[m]) => m \in D!Named(t, def.module)
  BY <1>1, SameExists DEF KnownModule, D!Named, D!ModulesOf, DeployInv, SavedInv
<1> QED BY <1>1, <1>2, <1>3 DEF D!Recognized

\* The types of both sides.
LEMMA BothTyped ==
  ASSUME DeployInv
  PROVE  /\ DOMAIN tracks = Tracks /\ DOMAIN modules = Modules
         /\ DOMAIN items = Items
         /\ tracks = [t \in Tracks |-> tracks[t]]
         /\ modules = [m \in Modules |-> modules[m]]
         /\ items = [i \in Items |-> items[i]]
         /\ Committed.tracks = [t \in Tracks |-> Committed.tracks[t]]
         /\ Committed.modules = [m \in Modules |-> Committed.modules[m]]
         /\ Committed.items = [i \in Items |-> Committed.items[i]]
         /\ trackVersions \subseteq VersionRow(Tracks)
         /\ moduleVersions \subseteq VersionRow(Modules)
         /\ contentVersions \subseteq VersionRow(Items)
         /\ Committed.trackVersions \subseteq VersionRow(Tracks)
         /\ Committed.moduleVersions \subseteq VersionRow(Modules)
         /\ Committed.contentVersions \subseteq VersionRow(Items)
         /\ \A t \in Tracks : tracks[t].published \in Nat
                              /\ Committed.tracks[t].published \in Nat
         /\ \A m \in Modules : modules[m].published \in Nat
                               /\ Committed.modules[m].published \in Nat
         /\ \A i \in Items : items[i].published \in Nat
                             /\ Committed.items[i].published \in Nat
<1>1. TypeOK /\ C!TypeOK
  BY CatalogInvRules, C!CatalogInvRules, SameAssumptions DEF DeployInv
<1>2. /\ Committed.tracks \in [Tracks -> TrackRow]
      /\ Committed.modules \in [Modules -> ModuleRow]
      /\ Committed.items \in [Items -> ItemRow]
      /\ Committed.trackVersions \subseteq VersionRow(Tracks)
      /\ Committed.moduleVersions \subseteq VersionRow(Modules)
      /\ Committed.contentVersions \subseteq VersionRow(Items)
  BY <1>1, SameTypes DEF C!TypeOK
<1>3. /\ tracks \in [Tracks -> TrackRow]
      /\ modules \in [Modules -> ModuleRow]
      /\ items \in [Items -> ItemRow]
      /\ trackVersions \subseteq VersionRow(Tracks)
      /\ moduleVersions \subseteq VersionRow(Modules)
      /\ contentVersions \subseteq VersionRow(Items)
  BY <1>1 DEF TypeOK
<1>4. /\ \A row \in TrackRow : row.published \in Nat
      /\ \A row \in ModuleRow : row.published \in Nat
      /\ \A row \in ItemRow : row.published \in Nat
  BY DEF TrackRow, ModuleRow, ItemRow
<1>5. /\ \A t \in Tracks : tracks[t] \in TrackRow /\ Committed.tracks[t] \in TrackRow
      /\ \A m \in Modules : modules[m] \in ModuleRow /\ Committed.modules[m] \in ModuleRow
      /\ \A i \in Items : items[i] \in ItemRow /\ Committed.items[i] \in ItemRow
  BY <1>2, <1>3
<1>6. /\ tracks = [t \in Tracks |-> tracks[t]]
      /\ modules = [m \in Modules |-> modules[m]]
      /\ items = [i \in Items |-> items[i]]
      /\ DOMAIN tracks = Tracks /\ DOMAIN modules = Modules
      /\ DOMAIN items = Items
  BY <1>3
<1>7. /\ Committed.tracks = [t \in Tracks |-> Committed.tracks[t]]
      /\ Committed.modules = [m \in Modules |-> Committed.modules[m]]
      /\ Committed.items = [i \in Items |-> Committed.items[i]]
  BY <1>2
<1> QED BY <1>2, <1>3, <1>4, <1>5, <1>6, <1>7

\* A load only adds versions.
LEMMA CommitAppends ==
  ASSUME DeployInv, Bounded
  PROVE  /\ Appends(Committed.trackVersions, trackVersions)
         /\ Appends(Committed.moduleVersions, moduleVersions)
         /\ Appends(Committed.contentVersions, contentVersions)
<1>1. HistoryNumbered /\ C!HistoryNumbered
  BY CatalogInvRules, C!CatalogInvRules, SameAssumptions DEF DeployInv
<1>2. \A rows, versions : C!Numbered(rows, versions) <=> Numbered(rows, versions)
  BY DEF C!Numbered, Numbered
<1>3. /\ Numbered(tracks, trackVersions) /\ Numbered(modules, moduleVersions)
      /\ Numbered(items, contentVersions)
      /\ Numbered(Committed.tracks, Committed.trackVersions)
      /\ Numbered(Committed.modules, Committed.moduleVersions)
      /\ Numbered(Committed.items, Committed.contentVersions)
  BY <1>1, <1>2 DEF HistoryNumbered, C!HistoryNumbered
<1>4. /\ DOMAIN Committed.tracks = Tracks /\ DOMAIN Committed.modules = Modules
      /\ DOMAIN Committed.items = Items
  BY BothTyped
<1>5. \A keys : \A v \in VersionRow(keys) : v.of \in keys
  BY DEF VersionRow
<1>6. Committed.trackVersions \subseteq trackVersions
  BY <1>5, BothTyped DEF Bounded, TrackBounded
<1>7. Committed.moduleVersions \subseteq moduleVersions
  BY <1>5, BothTyped DEF Bounded, ModuleBounded
<1>8. Committed.contentVersions \subseteq contentVersions
  BY <1>5, BothTyped DEF Bounded, ItemBounded
<1>9. Appends(Committed.trackVersions, trackVersions)
  BY <1>3, <1>4, <1>6, BothTyped, NumberedAppends
<1>10. Appends(Committed.moduleVersions, moduleVersions)
  BY <1>3, <1>4, <1>7, BothTyped, NumberedAppends
<1>11. Appends(Committed.contentVersions, contentVersions)
  BY <1>3, <1>4, <1>8, BothTyped, NumberedAppends
<1> QED BY <1>9, <1>10, <1>11

\* Where every definition was in place, the load changed nothing.
LEMMA AllWasThere ==
  ASSUME DeployInv, job.pc = "commit", NEW place, Loaded(place),
         \A d \in Done : Was(job.corpus[d], place[d].track, place[d].module)
  PROVE  /\ tracks = Committed.tracks /\ modules = Committed.modules
         /\ items = Committed.items
         /\ trackVersions = Committed.trackVersions
         /\ moduleVersions = Committed.moduleVersions
         /\ contentVersions = Committed.contentVersions
         /\ orderRevision = Committed.orderRevision
<1>1. \A d \in Done : Untouched(place[d].track, place[d].module)
  BY DEF Loaded, Placed
<1>2. \A t \in Tracks : SameTrack(t)
  BY <1>1 DEF Loaded, Elsewhere, TakenTrack, Taken, InTrack, Untouched
<1>3. \A m \in Modules : SameModule(m)
  BY <1>1 DEF Loaded, Elsewhere, TakenModule, Taken, InModule, Untouched
<1>4. \A i \in Items : SameItem(i)
  BY <1>1 DEF Loaded, Elsewhere, TakenItem, Taken, InUnits, Untouched
<1>5. /\ tracks = Committed.tracks /\ modules = Committed.modules
      /\ items = Committed.items
  BY <1>2, <1>3, <1>4, BothTyped DEF SameTrack, SameModule, SameItem
<1>6. /\ \A v : v \in trackVersions \/ v \in Committed.trackVersions
              => v.of \in Tracks
      /\ \A v : v \in moduleVersions \/ v \in Committed.moduleVersions
              => v.of \in Modules
      /\ \A v : v \in contentVersions \/ v \in Committed.contentVersions
              => v.of \in Items
  <2>1. \A keys : \A v \in VersionRow(keys) : v.of \in keys
    BY DEF VersionRow
  <2>2. /\ trackVersions \subseteq VersionRow(Tracks)
        /\ moduleVersions \subseteq VersionRow(Modules)
        /\ contentVersions \subseteq VersionRow(Items)
        /\ Committed.trackVersions \subseteq VersionRow(Tracks)
        /\ Committed.moduleVersions \subseteq VersionRow(Modules)
        /\ Committed.contentVersions \subseteq VersionRow(Items)
    BY BothTyped
  <2> QED BY <2>1, <2>2
<1>7. trackVersions = Committed.trackVersions
  <2>1. \A v : v \in trackVersions <=> v \in Committed.trackVersions
    BY <1>2, <1>6 DEF SameTrack
  <2> QED BY <2>1
<1>8. moduleVersions = Committed.moduleVersions
  <2>1. \A v : v \in moduleVersions <=> v \in Committed.moduleVersions
    BY <1>3, <1>6 DEF SameModule
  <2> QED BY <2>1
<1>9. contentVersions = Committed.contentVersions
  <2>1. \A v : v \in contentVersions <=> v \in Committed.contentVersions
    BY <1>4, <1>6 DEF SameItem
  <2> QED BY <2>1
<1>10. orderRevision = Committed.orderRevision
  BY <1>5 DEF Loaded, OrderKept
<1> QED BY <1>5, <1>7, <1>8, <1>9, <1>10

\* It writes nothing but its places.
LEMMA CommitMovesPlacesOnly ==
  ASSUME DeployInv, Commit, job.pc = "commit", Done = DOMAIN job.corpus,
         NEW place, Loaded(place),
         NEW at, DOMAIN at = DOMAIN job.corpus,
         \A d \in DOMAIN job.corpus :
           /\ at[d].track = place[d].track /\ at[d].module = place[d].module
           /\ at[d] = [track |-> place[d].track, module |-> place[d].module]
  PROVE  D!OnlyPlacesChange(at)
<1> DEFINE ofPlace(field) == {at[d][field] : d \in DOMAIN at}
<1>1. /\ ofPlace("track") = Taken(place, "track")
      /\ ofPlace("module") = Taken(place, "module")
  <2>1. /\ \A d \in DOMAIN at : at[d]["track"] = place[d]["track"]
        /\ \A d \in DOMAIN at : at[d]["module"] = place[d]["module"]
    OBVIOUS
  <2> QED BY <2>1 DEF Taken
<1> HIDE DEF ofPlace
<1>2. \A t \in Tracks :
        Committed'.tracks[t] # Committed.tracks[t] => t \in ofPlace("track")
  BY <1>1, CommitSees DEF Loaded, Elsewhere, TakenTrack, InTrack, SameTrack
<1>3. \A m \in Modules :
        Committed'.modules[m] # Committed.modules[m] => m \in ofPlace("module")
  BY <1>1, CommitSees DEF Loaded, Elsewhere, TakenModule, InModule, SameModule
<1>4. \A i \in Items :
        Committed'.items[i] # Committed.items[i] =>
          Committed'.items[i].module \in ofPlace("module")
  BY <1>1, CommitSees DEF Loaded, Elsewhere, TakenItem, InUnits, SameItem
<1>5. /\ DOMAIN Committed.tracks = Tracks /\ DOMAIN Committed.modules = Modules
      /\ DOMAIN Committed.items = Items
  BY BothTyped
<1>6. \A a, b \in Nat : \A s : a <= b + (IF s = "ACTIVE" THEN 1 ELSE 0) => a <= b + 1
  OBVIOUS
<1>7. D!Reconciled(Committed.tracks, tracks)
  BY <1>5, <1>6, BothTyped, SameExists DEF Loaded, Bounded, TrackBounded, D!Reconciled
<1>8. D!Reconciled(Committed.modules, modules)
  BY <1>5, <1>6, BothTyped, SameExists DEF Loaded, Bounded, ModuleBounded, D!Reconciled
<1>9. D!Reconciled(Committed.items, items)
  BY <1>5, SameExists DEF Loaded, Bounded, ItemBounded, D!Reconciled
<1>10. /\ D!Reconciled(Committed.tracks, Committed'.tracks)
       /\ D!Reconciled(Committed.modules, Committed'.modules)
       /\ D!Reconciled(Committed.items, Committed'.items)
  BY <1>7, <1>8, <1>9, CommitSees
<1> QED BY <1>2, <1>3, <1>4, <1>10 DEF D!OnlyPlacesChange, ofPlace

\* A commit is a load of the corpus.
LEMMA CommitLoads ==
  ASSUME DeployInv, LoadInv, Commit
  PROVE  \E corpus \in Documents : D!LoadLearningContent(corpus)
<1>1. /\ job.pc = "commit" /\ Loading /\ JobInv
  BY DEF Commit, At, Loading, DeployInv
<1>2. /\ job.corpus \in Documents /\ Accepted(job.corpus)
      /\ Done = DOMAIN job.corpus
  BY <1>1 DEF JobInv, Done
<1>3. Author \in admins /\ \E place : Loaded(place)
  BY <1>1 DEF LoadInv
<1>4. PICK place : Loaded(place)
  BY <1>3
<1>5. PICK corpus : corpus = job.corpus
  OBVIOUS
<1>6. \A d \in DOMAIN corpus : Placed(corpus[d], place[d].track, place[d].module)
  BY <1>2, <1>4, <1>5 DEF Loaded
<1>7. \A d \in DOMAIN corpus :
        /\ place[d].track \in Tracks /\ place[d].module \in Modules
        /\ modules[place[d].module].track = place[d].track
        /\ IsSequence(corpus[d].units)
        /\ Is(corpus[d], place[d].track, place[d].module)
  BY <1>2, <1>5, <1>6, DeploymentAssumption DEF Placed, Holds
<1> DEFINE at == [d \in DOMAIN corpus |->
                    [track |-> place[d].track, module |-> place[d].module]]
<1>8. /\ DOMAIN at = DOMAIN corpus
      /\ \A d \in DOMAIN corpus :
           /\ at[d].track = place[d].track /\ at[d].module = place[d].module
           /\ at[d] = [track |-> place[d].track, module |-> place[d].module]
  OBVIOUS
<1>9. at \in D!Places(corpus)'
  BY <1>7, CommitSees DEF D!Places
<1> HIDE DEF at
<1>10. \A d \in DOMAIN corpus : D!InPlace(corpus[d], at[d].track, at[d].module)'
  BY <1>7, <1>8, CommitInPlace
<1>11. \A d \in DOMAIN corpus : D!Recognized(corpus[d], at[d])
  BY <1>6, <1>7, <1>8, PlacedIsRecognized
<1>12. (\A d \in DOMAIN corpus : D!InPlace(corpus[d], at[d].track, at[d].module))
         => UNCHANGED D!tables
  <2> SUFFICES ASSUME \A d \in DOMAIN corpus :
                        D!InPlace(corpus[d], at[d].track, at[d].module)
               PROVE  UNCHANGED D!tables
    OBVIOUS
  <2>1. \A d \in DOMAIN corpus : Was(corpus[d], place[d].track, place[d].module)
    BY <1>7, <1>8, WasInPlace DEF DeployInv
  <2>2. /\ tracks = Committed.tracks /\ modules = Committed.modules
        /\ items = Committed.items
        /\ trackVersions = Committed.trackVersions
        /\ moduleVersions = Committed.moduleVersions
        /\ contentVersions = Committed.contentVersions
        /\ orderRevision = Committed.orderRevision
    BY <1>1, <1>2, <1>4, <1>5, <2>1, AllWasThere
  <2> QED BY <2>2, CommitSees DEF D!tables
<1>13. D!OnlyPlacesChange(at)
  BY <1>1, <1>2, <1>4, <1>5, <1>8, CommitMovesPlacesOnly
<1>14. /\ D!Appends(Committed.trackVersions, Committed'.trackVersions)
       /\ D!Appends(Committed.moduleVersions, Committed'.moduleVersions)
       /\ D!Appends(Committed.contentVersions, Committed'.contentVersions)
  <2>1. Bounded
    BY <1>4 DEF Loaded
  <2> QED BY <2>1, CommitAppends, CommitSees, SameAppends
<1>15. D!Accepted(corpus) /\ admins' = admins
  BY <1>2, <1>5, SameAccepted, CommitSees
<1>16. D!LoadLearningContent(corpus)
  BY <1>3, <1>9, <1>10, <1>11, <1>12, <1>13, <1>14, <1>15
     DEF D!LoadLearningContent
<1> QED BY <1>2, <1>5, <1>16

-----------------------------------------------------------------------------
(* The refinement *)

\* Both start alike.
LEMMA DeployInitIsInit == DeployInit => D!Init /\ LoadInv
<1> SUFFICES ASSUME DeployInit PROVE D!Init /\ LoadInv
  OBVIOUS
<1>1. /\ Init /\ ~Loading /\ held = {} /\ DeployInv
  BY DeployInvInit DEF DeployInit, NoJob, Loading
<1>2. CommittedTables
  BY <1>1, CatalogInvRules, WhenIdle DEF DeployInv
<1> QED BY <1>1, <1>2, IdleInit DEF LoadInv

\* Nothing of it is seen: neither the committed tables nor the roles change.
LEMMA Unseen ==
  ASSUME UNCHANGED Committed, admins' = admins
  PROVE  UNCHANGED D!vars
BY DEF D!vars

\* A command of the others is the same command on what everybody reads.
LEMMA OthersAreThemselves ==
  ASSUME DeployInv, NEW c \in Commands, OtherCommand(c)
  PROVE  D!Next
<1>1. C!Execute(c)
  <2>1. CASE Loading
    BY <2>1, OtherSeen
  <2>2. CASE ~Loading
    <3>1. Execute(c) /\ job' = job /\ held' = held /\ held = {} /\ DeployInv'
      BY <2>2, OtherCommandKept DEF OtherCommand, DeployInv, HeldInv
    <3>2. CommittedTables
      BY <2>2, <3>1, CatalogInvRules, WhenIdle DEF DeployInv
    <3>3. TypeOK' /\ ~Loading'
      BY <2>2, <3>1, OtherFrame DEF Loading
    <3>4. (TypeOK /\ ~Loading /\ held = {} => CommittedTables)'
      BY WhenIdle, PTL
    <3>5. CommittedTables'
      BY <3>1, <3>3, <3>4
    <3> QED BY <3>1, <3>2, <3>5, IdleExecute
  <2> QED BY <2>1, <2>2
<1> QED BY <1>1, SameExecute DEF D!Next

\* Every step is one of Deployment or is not seen.
LEMMA DeployStepIsAStep ==
  DeployInv /\ LoadInv /\ [DeployNext]_deployVars => [D!DeploymentNext]_(D!vars)
<1> SUFFICES ASSUME DeployInv, LoadInv, [DeployNext]_deployVars
             PROVE  [D!DeploymentNext]_(D!vars)
  OBVIOUS
<1>1. CASE \E corpus \in Documents : BeginLoad(corpus)
  <2>1. UNCHANGED Committed /\ admins' = admins
    BY <1>1, BeginLoadKept DEF BeginLoad, vars
  <2> QED BY <2>1, Unseen
<1>2. CASE LoadStep
  <2>1. admins' = admins
    BY <1>2, LoadStepFrame
  <2>2. CASE UNCHANGED Committed
    BY <2>1, <2>2, Unseen
  <2>3. CASE Commit
    BY <2>3, CommitLoads DEF D!DeploymentNext
  <2> QED BY <1>2, <2>2, <2>3, LoadStepsKept
<1>3. CASE Abort
  <2>1. UNCHANGED Committed /\ admins' = admins
    BY <1>3, AbortKept DEF Abort, Rollback
  <2> QED BY <2>1, Unseen
<1>4. CASE \E c \in Commands : OtherCommand(c)
  BY <1>4, OthersAreThemselves DEF D!DeploymentNext
<1>5. CASE \E a \in Accounts : OtherRole(a)
  <2>1. PICK a \in Accounts : OtherRole(a)
    BY <1>5
  <2>2. ChangeContentRole(a) /\ UNCHANGED Committed
    BY <2>1, OtherRoleKept DEF OtherRole
  <2>3. D!ChangeContentRole(a)
    BY <2>2 DEF ChangeContentRole, D!ChangeContentRole
  <2> QED BY <2>3 DEF D!Next, D!DeploymentNext
<1>6. CASE Seed
  <2>1. /\ ~Loading /\ held = {} /\ SeedDemo /\ CommittedTables'
    BY <1>6, SeedKept DEF Seed, DeployInv, HeldInv
  <2>2. CommittedTables
    BY <2>1, CatalogInvRules, WhenIdle DEF DeployInv
  <2>3. D!SeedDemo
    BY <2>1, <2>2, IdleSeed
  <2> QED BY <2>3 DEF D!DeploymentNext
<1>7. CASE UNCHANGED deployVars
  <2>1. UNCHANGED Committed /\ admins' = admins
    BY <1>7, DeployStutter DEF deployVars, vars
  <2> QED BY <2>1, Unseen
<1> QED BY <1>1, <1>2, <1>3, <1>4, <1>5, <1>6, <1>7 DEF DeployNext

\* Whatever other administrators do in between, wherever a load fails or is
\* killed and whatever seed_demo put there, the committed catalog moves by
\* whole loads only. After a load every module of the corpus has the key of its
\* title and its objective; the letter case of the title is an administrator's.
THEOREM LoadsAreAtomic == DeploySpec => LoadIsAtomic
<1>1. DeployInit => D!Init /\ LoadInv
  BY DeployInitIsInit
<1>2. DeployInv /\ LoadInv /\ [DeployNext]_deployVars => LoadInv'
  BY LoadInvStep
<1>3. DeployInv /\ LoadInv /\ [DeployNext]_deployVars => [D!DeploymentNext]_(D!vars)
  BY DeployStepIsAStep
<1>4. DeploySpec => D!Init /\ [][D!DeploymentNext]_(D!vars)
  BY <1>1, <1>2, <1>3, DeployInvariant, PTL DEF DeploySpec
<1> QED BY <1>4 DEF LoadIsAtomic, D!DeploymentSpec
=============================================================================
