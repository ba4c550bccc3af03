----------------------------- MODULE Deployment -----------------------------
(***************************************************************************)
(* What the two deployment commands promise about the catalog of Catalog:  *)
(* load_learning_content reconciles the approved corpus in one step, and   *)
(* seed_demo creates or repairs the demonstration graph in one step, next  *)
(* to the administrators' commands. DeploymentTx runs the load statement   *)
(* by statement and is shown to implement this module.                     *)
(*                                                                         *)
(* A corpus is a sequence of track definitions                             *)
(*   [text, legacy, module, units]: the track's text, the title keys of    *)
(*   its legacy titles, the module's text, the units;                      *)
(* a unit is [position, marker, payload, legacy], where `legacy` is the    *)
(* payload of its legacy fingerprint or NoTitle; a payload (all the text,  *)
(* choices and laboratory of a content version) is [marker, body, lab],    *)
(* where `marker` is the source marker its source starts with.             *)
(***************************************************************************)
EXTENDS Catalog, SequencesExt

CONSTANTS
  Author,      \* settings.CONTENT_AUTHOR_ACCOUNT_ID
  Documents,   \* the corpora that successive releases ship
  Expected,    \* per track: [title, units, labs, alias] that a corpus must have
  DemoAdmin,   \* the content administrator that seed_demo creates
  Demo,        \* DEMO_TRACKS: a sequence of [text, module, payload]
  ObjectiveOf(_)   \* the objective in a module's text, next to its title

\* LabExercise.get_or_create: a content version has its laboratory from now on.
\* The texts of tracks and modules know of none.
Completed(title) ==
  IF "lab" \in DOMAIN title THEN [title EXCEPT !.lab = TRUE] ELSE title

IsSequence(s) == Len(s) \in Nat /\ DOMAIN s = 1..Len(s)

\* title_keys: the keys by which a definition recognizes its track.
TitleKeys(def) == {KeyOf(def.text)} \cup def.legacy

\* The documents are parsed: sequences of definitions and units, all of whose
\* texts a row may hold. No track of a shipped document has a title or a legacy
\* title that another track of it has; _validate_corpus would not notice one.
ASSUME DeploymentAssumption ==
  /\ Tracks \subseteq Int /\ Modules \subseteq Int /\ Items \subseteq Int
  /\ Author \in Accounts /\ DemoAdmin \in Accounts
  /\ Demo \in Seq([text: Titles, module: Titles, payload: Titles])
  /\ \A d \in DOMAIN Demo : Demo[d].payload.lab
  /\ \A title \in Titles : Completed(title) \in Titles
  /\ IsSequence(Expected) /\ Expected # <<>>
  /\ \A d \in DOMAIN Expected : Expected[d].units > 0
  /\ \A corpus \in Documents :
       /\ IsSequence(corpus)
       /\ \A d, e \in DOMAIN corpus :
            KeyOf(corpus[d].text) \in TitleKeys(corpus[e]) => d = e
       /\ \A d \in DOMAIN corpus :
            /\ corpus[d].text \in Titles /\ corpus[d].module \in Titles
            /\ IsSequence(corpus[d].units)
            /\ \A u \in DOMAIN corpus[d].units :
                 corpus[d].units[u].payload \in Titles

tables == <<tracks, modules, items, trackVersions, moduleVersions,
            contentVersions, orderRevision>>

\* _validate_corpus and _validate_load_definitions: titles and their order,
\* unit counts and positions, laboratories, the legacy alias, unique markers.
\* A source contains its marker; every shipped one starts with it.
Accepted(corpus) ==
  LET units == [d \in DOMAIN corpus |-> corpus[d].units]
      all == FlattenSeq(units)
  IN  /\ DOMAIN corpus = DOMAIN Expected
      /\ \A d \in DOMAIN corpus :
           /\ KeyOf(corpus[d].text) = Expected[d].title
           /\ Len(units[d]) = Expected[d].units
           /\ Expected[d].alias \subseteq corpus[d].legacy
           /\ \A u \in DOMAIN units[d] :
                /\ units[d][u].position = u
                /\ units[d][u].payload.lab = Expected[d].labs
                /\ units[d][u].payload.marker = units[d][u].marker
      /\ Cardinality({all[u].marker : u \in DOMAIN all}) = Len(all)

-----------------------------------------------------------------------------
(* What readers of the catalog find *)

\* get_published_version, as a set: the snapshot that published_version
\* names, or nothing.
PublishedVersion(i) ==
  {v \in contentVersions :
     /\ items[i].status = "PUBLISHED"
     /\ v.of = i /\ v.number = items[i].published}

\* list_published_versions: the snapshots of the active modules of a track,
\* each with the two positions that order the list.
PublishedVersions(t) ==
  {[module |-> modules[items[v.of].module].position,
    unit |-> items[v.of].position, payload |-> v.title] :
     v \in {w \in contentVersions : /\ items[w.of].module \in ActiveModules(t)
                                    /\ w \in PublishedVersion(w.of)}}

\* The rows in which a definition recognizes itself: the tracks with its title
\* key or a legacy one, and the modules of such a track with its module's key.
Matching(def) ==
  {t \in UsedTracks : KeyOf(tracks[t].title) \in TitleKeys(def)}

Named(t, text) ==
  {m \in ModulesOf(t) : KeyOf(modules[m].title) = KeyOf(text)}

\* What _resolve_module asks of a module before it leaves it alone: the title
\* key and the objective. A title that differs in letter case passes.
Says(title, text) ==
  KeyOf(title) = KeyOf(text) /\ ObjectiveOf(title) = ObjectiveOf(text)

\* Mutation: legacy fingerprints are forgotten.
ManagedByMarker(i, unit) ==
  \/ /\ items[i].status = "DRAFT"
     /\ \A v \in contentVersions : v.of # i
  \/ \E v \in PublishedVersion(i) : v.title.marker = unit.marker

\* _content_item_is_managed: a draft without versions, or a published version
\* with the unit's source marker or its legacy fingerprint.
Managed(i, unit) ==
  \/ /\ items[i].status = "DRAFT"
     /\ \A v \in contentVersions : v.of # i
  \/ \E v \in PublishedVersion(i) :
       v.title.marker = unit.marker \/ v.title = unit.legacy

\* _validate_existing_content: nothing but units of the definition, in place.
OnlyManaged(m, units) ==
  /\ Cardinality(ItemsOf(m)) <= Len(units)
  /\ Contiguous(items, ItemsOf(m))
  /\ \A i \in ItemsOf(m) : Managed(i, units[items[i].position])

\* What a successful load leaves to a learner: the track t active with its
\* text, its module m active with its objective under its title in some letter
\* case, and the units current, in order, without more.
InPlace(def, t, m) ==
  /\ tracks[t].status = "ACTIVE" /\ tracks[t].title = def.text
  /\ m \in ActiveModules(t) /\ Says(modules[m].title, def.module)
  /\ Cardinality(ItemsOf(m)) = Len(def.units)
  /\ \A u \in DOMAIN def.units :
       [module |-> modules[m].position, unit |-> u,
        payload |-> def.units[u].payload] \in PublishedVersions(t)

-----------------------------------------------------------------------------
(* The two deployment commands *)

\* Rows that were there before keep their position, and an entity gets at most
\* one new version.
Reconciled(rows, new) ==
  \A k \in DOMAIN rows : Exists(rows[k]) =>
    /\ new[k].position = rows[k].position
    /\ new[k].published <= rows[k].published + 1

\* Where a load puts the definitions: a track and a module of it for each.
Places(corpus) ==
  [DOMAIN corpus -> {at \in [track: Tracks, module: Modules] :
                       modules[at.module].track = at.track}]

\* A place is new or the definition recognizes itself in it, and the items it
\* has are the definition's.
Recognized(def, at) ==
  /\ Exists(tracks[at.track]) => at.track \in Matching(def)
  /\ Exists(modules[at.module]) => at.module \in Named(at.track, def.module)
  /\ OnlyManaged(at.module, def.units)

\* Nothing but the places and their items changes.
OnlyPlacesChange(place) ==
  LET ofPlace(field) == {place[d][field] : d \in DOMAIN place}
  IN  /\ \A t \in Tracks : tracks'[t] # tracks[t] => t \in ofPlace("track")
      /\ \A m \in Modules : modules'[m] # modules[m] => m \in ofPlace("module")
      /\ \A i \in Items :
           items'[i] # items[i] => items'[i].module \in ofPlace("module")
      /\ Reconciled(tracks, tracks') /\ Reconciled(modules, modules')
      /\ Reconciled(items, items')

\* load_learning_content, when it succeeds: all of the corpus or, if it was in
\* place already, nothing. It says nothing of other rows: a lookalike of a
\* definition may have appeared while the load ran.
LoadLearningContent(corpus) ==
  /\ Author \in admins
  /\ Accepted(corpus)
  /\ \E place \in Places(corpus)' :
       LET allInPlace == \A d \in DOMAIN corpus :
             InPlace(corpus[d], place[d].track, place[d].module)
       IN  /\ allInPlace'
           /\ \A d \in DOMAIN corpus : Recognized(corpus[d], place[d])
           /\ allInPlace => UNCHANGED tables
           /\ OnlyPlacesChange(place)
  /\ Appends(trackVersions, trackVersions')
  /\ Appends(moduleVersions, moduleVersions')
  /\ Appends(contentVersions, contentVersions')
  /\ UNCHANGED admins

\* The key of a new row is the least that is unused; none when they ran out
\* (bound: the number of keys).
Fresh(rows) ==
  {k \in DOMAIN rows : /\ ~Exists(rows[k])
                       /\ \A j \in DOMAIN rows : Exists(rows[j]) \/ k <= j}

\* get_or_create: the row found, or a new one.
FoundOrFresh(found, rows) == IF found = {} THEN Fresh(rows) ELSE found

\* Mutation: a new row takes the greatest position instead of the next one.
LastPosition(rows, keys) == Max({1} \cup {rows[k].position : k \in keys})

\* aggregate(Max("position")), plus one.
NextPosition(rows, keys) == Max({0} \cup {rows[k].position : k \in keys}) + 1

\* The repair of one row: the given status, and a published version.
Repaired(row, status) ==
  [row EXCEPT !.status = status, !.published = IF @ < 1 THEN 1 ELSE @]

\* get_or_create of version 1, with the given text.
WithFirstVersion(versions, key, title) ==
  IF \E v \in versions : v.of = key /\ v.number = 1 THEN versions
  ELSE versions \cup {[of |-> key, number |-> 1, title |-> title]}

\* LabExercise.get_or_create on version 1 of an item.
WithLab(versions, key) ==
  {IF v.of = key /\ v.number = 1 THEN [v EXCEPT !.title = Completed(@)] ELSE v :
     v \in versions}

SeedTracks(s, d) ==
  FoundOrFresh({t \in Tracks : /\ Exists(s.tracks[t])
                               /\ KeyOf(s.tracks[t].title) = KeyOf(d.text)},
               s.tracks)

SeedModules(s, d, t) ==
  FoundOrFresh({m \in Modules : /\ s.modules[m].track = t
                                /\ KeyOf(s.modules[m].title) = KeyOf(d.module)},
               s.modules)

SeedItems(s, m) ==
  FoundOrFresh({i \in Items : s.items[i].module = m /\ s.items[i].position = 1},
               s.items)

\* The tables s with the rows t, m and i of the demonstration track d inserted
\* or repaired, and versioned.
WithRows(s, d, t, m, i) ==
  LET used == {k \in Tracks : Exists(s.tracks[k])}
      siblings == {k \in Modules : s.modules[k].track = t}
      track == Repaired(IF Exists(s.tracks[t]) THEN s.tracks[t]
                        ELSE NewTrack(d.text, NextPosition(s.tracks, used)),
                        "ACTIVE")
      module == Repaired(IF Exists(s.modules[m]) THEN s.modules[m]
                         ELSE NewModule(t, d.module,
                                        NextPosition(s.modules, siblings)),
                         "ACTIVE")
      item == Repaired(IF Exists(s.items[i]) THEN s.items[i] ELSE NewItem(m, 1),
                       "PUBLISHED")
  IN  [tracks |-> [s.tracks EXCEPT ![t] = track],
       modules |-> [s.modules EXCEPT ![m] = module],
       items |-> [s.items EXCEPT ![i] = item],
       trackVersions |-> WithFirstVersion(s.trackVersions, t, track.title),
       moduleVersions |-> WithFirstVersion(s.moduleVersions, m, module.title),
       contentVersions |->
         WithLab(WithFirstVersion(s.contentVersions, i, d.payload), i)]

\* Command._track, _module and _content.
Seeded(s, d) ==
  UNION {UNION {{WithRows(s, d, t, m, i) : i \in SeedItems(s, m)} :
                  m \in SeedModules(s, d, t)} : t \in SeedTracks(s, d)}

\* What the tables s may be after the first n demonstration tracks.
SeededUpTo(s) ==
  LET after[n \in 0..Len(Demo)] ==
        IF n = 0 THEN {s}
        ELSE UNION {Seeded(r, Demo[n]) : r \in after[n - 1]}
  IN  after

\* seed_demo, in one transaction; no administrator writes while it runs. The
\* demonstration administrator gets the role, again if it was revoked.
SeedDemo ==
  /\ \E s \in SeededUpTo([tracks |-> tracks, modules |-> modules,
                           items |-> items, trackVersions |-> trackVersions,
                           moduleVersions |-> moduleVersions,
                           contentVersions |-> contentVersions])[Len(Demo)] :
       /\ tracks' = s.tracks /\ modules' = s.modules /\ items' = s.items
       /\ trackVersions' = s.trackVersions
       /\ moduleVersions' = s.moduleVersions
       /\ contentVersions' = s.contentVersions
  /\ admins' = admins \cup {DemoAdmin}
  /\ UNCHANGED <<orderRevision, log>>

\* A load that is refused or fails changes nothing.
DeploymentNext ==
  \/ UNCHANGED vars
  \/ \E corpus \in Documents : LoadLearningContent(corpus)
  \/ SeedDemo
  \/ Next

DeploymentSpec == Init /\ [][DeploymentNext]_vars
=============================================================================
