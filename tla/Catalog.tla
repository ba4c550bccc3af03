------------------------------ MODULE Catalog ------------------------------
(***************************************************************************)
(* The catalog of catalog/services/content.py and ordering.py, with every  *)
(* command one atomic step: what the services promise to their callers.    *)
(* CatalogTx shows that the row locks of the code keep this promise.       *)
(*                                                                         *)
(* Each action is one service function, refusals included: it decides from *)
(* the current rows, writes them, appends the snapshots and appends one    *)
(* row to CatalogChangeLog. `log` is the row appended last.                *)
(***************************************************************************)
EXTENDS CatalogRules

CONSTANTS
  Commands,     \* the calls that may be issued, a finite subset of Command
  MaxRevision,  \* bound: no row's revision grows beyond it
  MaxOrder      \* bound: no order revision grows beyond it

ASSUME CatalogAssumption ==
  /\ Commands \subseteq Command
  /\ MaxRevision \in Nat /\ MaxOrder \in Nat

VARIABLES
  admins,          \* active accounts that hold the content-admin role
  tracks, modules, items,
  trackVersions, moduleVersions, contentVersions,
  orderRevision,   \* CatalogState.track_order_revision
  log              \* the CatalogChangeLog row appended last

vars == <<admins, tracks, modules, items, trackVersions, moduleVersions,
          contentVersions, orderRevision, log>>

Actions == {"CREATE", "EDIT", "ACTIVATE", "DEACTIVATE", "REORDER"}

LogRow ==
  [actor: Accounts, action: Actions, entity: {"TRACK", "MODULE"},
   key: Tracks \cup Modules \cup {NoOwner}, result: Results, changed: BOOLEAN]

NoLog ==
  [actor |-> NoOwner, action |-> "CREATE", entity |-> "TRACK", key |-> NoOwner,
   result |-> "SUCCESS", changed |-> FALSE]

UsedTracks == {t \in Tracks : Exists(tracks[t])}
ModulesOf(t) == {m \in Modules : modules[m].track = t}
ItemsOf(m) == {i \in Items : items[i].module = m}
ActiveModules(t) == {m \in ModulesOf(t) : modules[m].status = "ACTIVE"}

Init ==
  /\ admins \in SUBSET Accounts
  /\ tracks = [t \in Tracks |-> AbsentTrack]
  /\ modules = [m \in Modules |-> AbsentModule]
  /\ items = [i \in Items |-> AbsentItem]
  /\ trackVersions = {} /\ moduleVersions = {} /\ contentVersions = {}
  /\ orderRevision = 0
  /\ log = NoLog

\* Mutation: every success is logged as a change.
RecordEverySuccess(c, action, entity, key, result, changed) ==
  log' = [actor |-> c.actor, action |-> action, entity |-> entity,
          key |-> IF result \in {"DENIED", "NOT_FOUND"} THEN NoOwner ELSE key,
          result |-> result, changed |-> (result = "SUCCESS")]

\* record_catalog_outcome: an entity is named only once it was resolved.
Record(c, action, entity, key, result, changed) ==
  log' = [actor |-> c.actor, action |-> action, entity |-> entity,
          key |-> IF result \in {"DENIED", "NOT_FOUND"} THEN NoOwner ELSE key,
          result |-> result, changed |-> changed]

StatusAction(target) == IF target = "ACTIVE" THEN "ACTIVATE" ELSE "DEACTIVATE"

-----------------------------------------------------------------------------
(* Commands on tracks *)

CreateTrack(c) ==
  /\ c.op = "create_track"
  /\ orderRevision < MaxOrder
  /\ LET position == Cardinality(UsedTracks) + 1
         result == CreateDecision(c.actor \in admins, TRUE, c,
                     Insertable(tracks, UsedTracks, c.title, position))
     IN \/ /\ result = "SUCCESS"
           /\ \E t \in Tracks \ UsedTracks :
                /\ tracks' = [tracks EXCEPT ![t] = NewTrack(c.title, position)]
                /\ Record(c, "CREATE", "TRACK", t, result, TRUE)
           /\ orderRevision' = orderRevision + 1
        \/ /\ result # "SUCCESS"
           /\ Record(c, "CREATE", "TRACK", NoOwner, result, FALSE)
           /\ UNCHANGED <<tracks, orderRevision>>
  /\ UNCHANGED <<admins, modules, items, trackVersions, moduleVersions,
                 contentVersions>>

EditTrack(c) ==
  /\ c.op = "edit_track"
  /\ LET t == c.track
         row == tracks[t]
         result == EditDecision(c.actor \in admins, Exists(row), row, c,
                     TitleFree(tracks, UsedTracks, t, c.title))
         after == IF result = "SUCCESS" THEN Edited(row, c.title) ELSE row
     IN /\ row.revision < MaxRevision
        /\ tracks' = [tracks EXCEPT ![t] = after]
        /\ trackVersions' =
             trackVersions \cup Snapshot(t, row, after, c.title)
        /\ Record(c, "EDIT", "TRACK", t, result, result = "SUCCESS")
  /\ UNCHANGED <<admins, modules, items, moduleVersions, contentVersions,
                 orderRevision>>

ChangeTrackStatus(c) ==
  /\ c.op = "change_track_status"
  /\ LET t == c.track
         row == tracks[t]
         result == TrackStatusDecision(c.actor \in admins, row, c,
                     ActiveModules(t) # {})
         changed == result = "SUCCESS" /\ row.status # c.target
         after == IF changed THEN WithStatus(row, c.target) ELSE row
     IN /\ row.revision < MaxRevision
        /\ tracks' = [tracks EXCEPT ![t] = after]
        /\ trackVersions' =
             trackVersions \cup Snapshot(t, row, after, row.title)
        /\ Record(c, StatusAction(c.target), "TRACK", t, result, changed)
  /\ UNCHANGED <<admins, modules, items, moduleVersions, contentVersions,
                 orderRevision>>

MoveTrack(c) ==
  /\ c.op = "move_track"
  /\ orderRevision < MaxOrder
  /\ \A t \in Tracks : tracks[t].revision < MaxRevision
  /\ LET result == MoveDecision(c.actor \in admins, Exists(tracks[c.track]),
                     orderRevision, c, Cardinality(UsedTracks))
         changed == /\ result = "SUCCESS"
                    /\ Displaced(tracks, UsedTracks, c.track, c.position) # {}
     IN /\ tracks' = [t \in Tracks |->
             IF changed /\ t \in UsedTracks
             THEN Moved(tracks, UsedTracks, c.track, c.position, t)
             ELSE tracks[t]]
        /\ orderRevision' = orderRevision + (IF changed THEN 1 ELSE 0)
        /\ Record(c, "REORDER", "TRACK", c.track, result, changed)
  /\ UNCHANGED <<admins, modules, items, trackVersions, moduleVersions,
                 contentVersions>>

-----------------------------------------------------------------------------
(* Commands on the modules of a track *)

CreateModule(c) ==
  /\ c.op = "create_module"
  /\ LET owner == tracks[c.track]
         siblings == ModulesOf(c.track)
         position == Cardinality(siblings) + 1
         result == CreateDecision(c.actor \in admins, Exists(owner), c,
                     Insertable(modules, siblings, c.title, position))
     IN /\ owner.moduleOrder < MaxOrder
        /\ \/ /\ result = "SUCCESS"
              /\ \E m \in {k \in Modules : ~Exists(modules[k])} :
                   /\ modules' = [modules EXCEPT
                                    ![m] = NewModule(c.track, c.title, position)]
                   /\ Record(c, "CREATE", "MODULE", m, result, TRUE)
              /\ tracks' = [tracks EXCEPT ![c.track].moduleOrder = @ + 1]
           \/ /\ result # "SUCCESS"
              /\ Record(c, "CREATE", "MODULE", NoOwner, result, FALSE)
              /\ UNCHANGED <<tracks, modules>>
  /\ UNCHANGED <<admins, items, trackVersions, moduleVersions,
                 contentVersions, orderRevision>>

EditModule(c) ==
  /\ c.op = "edit_module"
  /\ LET m == c.module
         row == modules[m]
         result == EditDecision(c.actor \in admins, row.track = c.track, row,
                     c, TitleFree(modules, ModulesOf(c.track), m, c.title))
         after == IF result = "SUCCESS" THEN Edited(row, c.title) ELSE row
     IN /\ row.revision < MaxRevision
        /\ modules' = [modules EXCEPT ![m] = after]
        /\ moduleVersions' =
             moduleVersions \cup Snapshot(m, row, after, c.title)
        /\ Record(c, "EDIT", "MODULE", m, result, result = "SUCCESS")
  /\ UNCHANGED <<admins, tracks, items, trackVersions, contentVersions,
                 orderRevision>>

ChangeModuleStatus(c) ==
  /\ c.op = "change_module_status"
  /\ LET m == c.module
         row == modules[m]
         result == ModuleStatusDecision(c.actor \in admins, row,
                     tracks[c.track], c, ActiveModules(c.track))
         changed == result = "SUCCESS" /\ row.status # c.target
         after == IF changed THEN WithStatus(row, c.target) ELSE row
     IN /\ row.revision < MaxRevision
        /\ modules' = [modules EXCEPT ![m] = after]
        /\ moduleVersions' =
             moduleVersions \cup Snapshot(m, row, after, row.title)
        /\ Record(c, StatusAction(c.target), "MODULE", m, result, changed)
  /\ UNCHANGED <<admins, tracks, items, trackVersions, contentVersions,
                 orderRevision>>

MoveModule(c) ==
  /\ c.op = "move_module"
  /\ LET t == c.track
         siblings == ModulesOf(t)
         result == MoveDecision(c.actor \in admins, c.module \in siblings,
                     tracks[t].moduleOrder, c, Cardinality(siblings))
         changed == /\ result = "SUCCESS"
                    /\ Displaced(modules, siblings, c.module, c.position) # {}
     IN /\ tracks[t].moduleOrder < MaxOrder
        /\ \A m \in siblings : modules[m].revision < MaxRevision
        /\ modules' = [m \in Modules |->
             IF changed /\ m \in siblings
             THEN Moved(modules, siblings, c.module, c.position, m)
             ELSE modules[m]]
        /\ tracks' = IF changed
                     THEN [tracks EXCEPT ![t].moduleOrder = @ + 1]
                     ELSE tracks
        /\ Record(c, "REORDER", "MODULE", c.module, result, changed)
  /\ UNCHANGED <<admins, items, trackVersions, moduleVersions,
                 contentVersions, orderRevision>>

-----------------------------------------------------------------------------
(* Content items. Their services raise on every refusal, which rolls back   *)
(* the transaction and writes no log row, so only the accepted call steps.  *)

CreateContentDraft(c) ==
  /\ c.op = "create_content_draft"
  /\ LET m == c.module
         row == modules[m]
         siblings == ItemsOf(m)
     IN /\ row.revision < MaxRevision
        /\ Decision(c.actor \in admins, Exists(row), c.rev, 1, row.revision,
                    Contiguous(items, siblings)) = "SUCCESS"
        /\ \E i \in {k \in Items : ~Exists(items[k])} :
             items' = [items EXCEPT ![i] =
                         NewItem(m, Cardinality(siblings) + 1)]
        /\ modules' = [modules EXCEPT ![m].revision = @ + 1]
  /\ UNCHANGED <<admins, tracks, trackVersions, moduleVersions,
                 contentVersions, orderRevision, log>>

PublishContentItem(c) ==
  /\ c.op = "publish_content_item"
  /\ LET i == c.item
         row == items[i]
     IN /\ row.revision < MaxRevision
        /\ Decision(c.actor \in admins, Exists(row), c.rev, 1, row.revision,
                    c.ok) = "SUCCESS"
        /\ items' = [items EXCEPT ![i] = Published(row)]
        /\ contentVersions' = contentVersions
             \cup Snapshot(i, row, Published(row), c.title)
  /\ UNCHANGED <<admins, tracks, modules, trackVersions, moduleVersions,
                 orderRevision, log>>

-----------------------------------------------------------------------------

\* change_content_role, as the catalog sees it.
ChangeContentRole(a) ==
  /\ \/ a \notin admins /\ admins' = admins \cup {a}
     \/ a \in admins /\ admins' = admins \ {a}
  /\ UNCHANGED <<tracks, modules, items, trackVersions, moduleVersions,
                 contentVersions, orderRevision, log>>

Execute(c) ==
  \/ CreateTrack(c)
  \/ EditTrack(c)
  \/ ChangeTrackStatus(c)
  \/ MoveTrack(c)
  \/ CreateModule(c)
  \/ EditModule(c)
  \/ ChangeModuleStatus(c)
  \/ MoveModule(c)
  \/ CreateContentDraft(c)
  \/ PublishContentItem(c)

Next ==
  \/ \E c \in Commands : Execute(c)
  \/ \E a \in Accounts : ChangeContentRole(a)

Spec == Init /\ [][Next]_vars

-----------------------------------------------------------------------------
(* Properties *)

\* Every table holds well-typed rows.
TypeOK ==
  /\ admins \subseteq Accounts
  /\ tracks \in [Tracks -> TrackRow]
  /\ modules \in [Modules -> ModuleRow]
  /\ items \in [Items -> ItemRow]
  /\ trackVersions \subseteq VersionRow(Tracks)
  /\ moduleVersions \subseteq VersionRow(Modules)
  /\ contentVersions \subseteq VersionRow(Items)
  /\ orderRevision \in Nat
  /\ log \in LogRow \cup {NoLog}

\* A learner who opens an active track always finds a module in it: whatever
\* the order of status changes of the track and of its modules.
ActiveTrackHasActiveModule ==
  \A t \in Tracks : tracks[t].status = "ACTIVE" => ActiveModules(t) # {}

\* What an active row shows is a published snapshot: the row's text is the
\* text of the version its published_version names (edit of an active entity,
\* edit while inactive followed by reactivation, publication of an item).
LiveContentIsPublished ==
  /\ \A t \in Tracks : tracks[t].status = "ACTIVE" =>
       [of |-> t, number |-> tracks[t].published, title |-> tracks[t].title]
         \in trackVersions
  /\ \A m \in Modules : modules[m].status = "ACTIVE" =>
       [of |-> m, number |-> modules[m].published, title |-> modules[m].title]
         \in moduleVersions
  /\ \A i \in Items : items[i].status = "PUBLISHED" =>
       \E v \in contentVersions : v.of = i /\ v.number = items[i].published

\* The versions of every entity are numbered 1..published_version, each
\* number once.
Numbered(rows, versions) ==
  /\ \A v \in versions : v.number \in 1..rows[v.of].published
  /\ \A v, w \in versions : v.of = w.of /\ v.number = w.number => v = w
  /\ \A k \in DOMAIN rows : \A n \in 1..rows[k].published :
       \E v \in versions : v.of = k /\ v.number = n

HistoryNumbered ==
  /\ Numbered(tracks, trackVersions)
  /\ Numbered(modules, moduleVersions)
  /\ Numbered(items, contentVersions)

\* Positions stay 1..N without gap or duplicate, for the tracks, the modules
\* of each track and the items of each module, through creations and moves.
PositionsContiguous ==
  /\ Contiguous(tracks, UsedTracks)
  /\ \A t \in Tracks : Contiguous(modules, ModulesOf(t))
  /\ \A m \in Modules : Contiguous(items, ItemsOf(m))

\* The token a form carries identifies what its user saw: a row whose text,
\* status, snapshot or position changes gets the next revision, and a sequence
\* whose positions change gets the next order revision.
Shown(row) == <<row.status, row.title, row.published, row.position>>

TokensIdentify ==
  [][/\ \A t \in Tracks : Shown(tracks'[t]) # Shown(tracks[t]) =>
          tracks'[t].revision = tracks[t].revision + 1
     /\ \A m \in Modules : Shown(modules'[m]) # Shown(modules[m]) =>
          modules'[m].revision = modules[m].revision + 1
     /\ \A i \in Items : items'[i] # items[i] =>
          items'[i].revision = items[i].revision + 1
     /\ (\E t \in Tracks : tracks'[t].position # tracks[t].position) =>
          orderRevision' = orderRevision + 1
     /\ \A m \in Modules : modules'[m].position # modules[m].position =>
          tracks'[modules'[m].track].moduleOrder =
            tracks[modules'[m].track].moduleOrder + 1]_vars

\* Published history is append-only, and a new snapshot is numbered after
\* every earlier snapshot of its entity: reactivation never rewrites or
\* backdates a version.
Appends(versions, new) ==
  /\ versions \subseteq new
  /\ \A v \in new \ versions : \A w \in versions :
       w.of = v.of => w.number < v.number

HistoryAppendOnly ==
  [][/\ Appends(trackVersions, trackVersions')
     /\ Appends(moduleVersions, moduleVersions')
     /\ Appends(contentVersions, contentVersions')]_vars

\* Every change of a track, a module or the track order is attributed by the
\* log row of the same command: marked changed, issued by an account that
\* holds the role, naming an entity that did change; and a row that says
\* changed never accompanies a step that left the catalog as it was.
AuditAttributesChange ==
  [][/\ \/ tracks' # tracks
        \/ orderRevision' # orderRevision
        \/ modules' # modules /\ items' = items
       => /\ log'.changed
          /\ log'.actor \in admins
          /\ \/ /\ log'.entity = "TRACK" /\ log'.key \in Tracks
                /\ tracks'[log'.key] # tracks[log'.key]
             \/ /\ log'.entity = "MODULE" /\ log'.key \in Modules
                /\ modules'[log'.key] # modules[log'.key]
     /\ log' # log /\ log'.changed => tracks' # tracks \/ modules' # modules
    ]_vars
=============================================================================
