----------------------------- MODULE CatalogTx -----------------------------
(***************************************************************************)
(* The same commands as Catalog, as the PostgreSQL transactions that run   *)
(* them concurrently under READ COMMITTED. A transaction executes its      *)
(* SELECT ... FOR UPDATE statements one after the other, each statement    *)
(* locking its rows one by one, in the documented order: actor, catalog    *)
(* state, owning aggregate, child rows. It then decides from the rows as   *)
(* it read them (its private copy) and commits its writes in one step.     *)
(*                                                                         *)
(* Every private copy could be stale; that no decision is taken on a stale *)
(* one, that the commit is therefore a step of Catalog, and that the       *)
(* transactions never wait in a circle is what this module is for.         *)
(*                                                                         *)
(* Primary keys are ordered: Tracks and Modules are sets of numbers.       *)
(***************************************************************************)
EXTENDS Catalog, Sequences

CONSTANTS
  Workers,      \* server processes, each running one transaction at a time
  MaxCommands   \* bound: commands started in all

\* The bounds of Catalog leave room for every command this module starts.
ASSUME WorkersAssumption ==
  /\ Tracks \subseteq Nat /\ Modules \subseteq Nat /\ Items \subseteq Nat
  /\ IsFiniteSet(Workers)
  /\ MaxCommands \in Nat
  /\ MaxCommands <= MaxRevision /\ MaxCommands <= MaxOrder

VARIABLES
  tx,      \* the transaction of each worker
  runs     \* commands started so far

txVars == <<vars, tx, runs>>

NoCommand == [op |-> "none"]

\* `plan` holds the locking statements still to execute, `scan` the rows that
\* the running statement still has to lock, `locks` the rows locked so far;
\* the other fields are the copies read under those locks.
Idle ==
  [cmd |-> NoCommand, plan |-> <<>>, scan |-> {}, locks |-> {},
   authorized |-> FALSE, order |-> 0, count |-> 0,
   tracks |-> [t \in Tracks |-> AbsentTrack],
   modules |-> [m \in Modules |-> AbsentModule],
   items |-> [i \in Items |-> AbsentItem]]

Running(w) == tx[w].cmd # NoCommand

TxInit ==
  /\ tx = [w \in Workers |-> Idle]
  /\ runs = 0

-----------------------------------------------------------------------------
(* Statements *)

\* Mutation: change_track_status locks the modules before their track.
PlanModulesFirst(op) ==
  CASE op = "create_track" -> <<"actor", "state">>
    [] op = "move_track" -> <<"actor", "state", "tracks">>
    [] op = "edit_track" -> <<"actor", "track">>
    [] op = "change_track_status" -> <<"actor", "modules", "track">>
    [] op \in {"create_module", "edit_module", "change_module_status",
               "move_module"} -> <<"actor", "track", "modules">>
    [] op = "create_content_draft" -> <<"actor", "module", "items">>
    [] op = "publish_content_item" -> <<"actor", "item">>

\* The locking statements of each command, in the order of the code.
Plan(op) ==
  CASE op = "create_track" -> <<"actor", "state">>
    [] op = "move_track" -> <<"actor", "state", "tracks">>
    [] op = "edit_track" -> <<"actor", "track">>
    [] op = "change_track_status" -> <<"actor", "track", "modules">>
    [] op \in {"create_module", "edit_module", "change_module_status",
               "move_module"} -> <<"actor", "track", "modules">>
    [] op = "create_content_draft" -> <<"actor", "module", "items">>
    [] op = "publish_content_item" -> <<"actor", "item">>

\* Mutation: move_track locks and reads the moved track alone.
SelectedMovedTrackOnly(statement, c) ==
  CASE statement = "actor" -> {<<"account", c.actor>>}
    [] statement = "state" -> {<<"state", 1>>}
    [] statement \in {"track", "tracks"} ->
         {<<"track", t>> : t \in UsedTracks \cap {c.track}}
    [] statement = "modules" -> {<<"module", m>> : m \in ModulesOf(c.track)}
    [] statement = "module" -> {<<"module", c.module>>}
    [] statement = "items" -> {<<"item", i>> : i \in ItemsOf(c.module)}
    [] statement = "item" -> {<<"item", c.item>>}

\* The rows a statement finds when it starts.
Selected(statement, c) ==
  CASE statement = "actor" -> {<<"account", c.actor>>}
    [] statement = "state" -> {<<"state", 1>>}
    [] statement = "track" -> {<<"track", t>> : t \in UsedTracks \cap {c.track}}
    [] statement = "tracks" -> {<<"track", t>> : t \in UsedTracks}
    [] statement = "modules" -> {<<"module", m>> : m \in ModulesOf(c.track)}
    [] statement = "module" ->
         {<<"module", m>> : m \in {k \in {c.module} : Exists(modules[k])}}
    [] statement = "items" -> {<<"item", i>> : i \in ItemsOf(c.module)}
    [] statement = "item" ->
         {<<"item", i>> : i \in {k \in {c.item} : Exists(items[k])}}

\* ORDER BY pk, but position for the items of a module.
Before(r, s) ==
  IF r[1] = "item" THEN items[r[2]].position <= items[s[2]].position
                   ELSE r[2] <= s[2]

NextRow(rows) ==
  IF Cardinality(rows) = 1 THEN CHOOSE r \in rows : TRUE
  ELSE CHOOSE r \in rows : \A s \in rows : Before(r, s)

\* Mutations: the track, or the catalog state, is read without FOR UPDATE.
AvailableUnlessTrack(w, row) ==
  row[1] = "track" \/ \A v \in Workers \ {w} : row \notin tx[v].locks

AvailableUnlessState(w, row) ==
  row[1] = "state" \/ \A v \in Workers \ {w} : row \notin tx[v].locks

Available(w, row) == \A v \in Workers \ {w} : row \notin tx[v].locks

\* The early returns that come before a later statement.
Settled(x) ==
  /\ x.locks # {}
  /\ \/ ~x.authorized
     \/ x.cmd.op = "create_track" /\ ~x.cmd.ok
     \/ /\ x.cmd.op = "change_track_status" /\ x.plan = <<"modules">>
        /\ LET row == x.tracks[x.cmd.track]
           IN \/ ~Exists(row)
              \/ row.revision # x.cmd.rev
              \/ x.cmd.target # "ACTIVE"
              \/ row.status = "ACTIVE"
     \/ /\ x.cmd.op \in {"create_module", "edit_module",
                         "change_module_status", "move_module"}
        /\ x.plan = <<"modules">>
        /\ ~Exists(x.tracks[x.cmd.track])

\* All reads are done: the command decides and commits.
Decides(w) ==
  /\ Running(w)
  /\ tx[w].scan = {}
  /\ Settled(tx[w]) \/ tx[w].plan = <<>>

-----------------------------------------------------------------------------
(* Steps of a transaction *)

Begin(w, c) ==
  /\ ~Running(w) /\ runs < MaxCommands
  /\ tx' = [tx EXCEPT ![w] = [Idle EXCEPT !.cmd = c, !.plan = Plan(c.op)]]
  /\ runs' = runs + 1
  /\ UNCHANGED vars

\* The next locking statement starts and fixes the rows it will lock. The
\* actor's row is read by primary key and always exists.
StartStatement(w) ==
  /\ Running(w) /\ ~Decides(w) /\ tx[w].scan = {}
  /\ tx' = [tx EXCEPT ![w].scan = Selected(Head(tx[w].plan), tx[w].cmd),
                      ![w].plan = Tail(@)]
  /\ UNCHANGED <<vars, runs>>

\* The statement locks its next row, waiting for whoever holds it, and reads
\* it as it is then. create_track counts the tracks once it holds the state.
LockRow(w) ==
  /\ Running(w) /\ tx[w].scan # {}
  /\ LET row == NextRow(tx[w].scan)
         read == [tx[w] EXCEPT !.scan = @ \ {row}, !.locks = @ \cup {row}]
     IN /\ Available(w, row)
        /\ tx' = [tx EXCEPT ![w] =
             CASE row[1] = "account" ->
                    [read EXCEPT !.authorized = row[2] \in admins]
               [] row[1] = "state" ->
                    [read EXCEPT !.order = orderRevision,
                                 !.count = Cardinality(UsedTracks)]
               [] row[1] = "track" ->
                    [read EXCEPT !.tracks[row[2]] = tracks[row[2]]]
               [] row[1] = "module" ->
                    [read EXCEPT !.modules[row[2]] = modules[row[2]]]
               [] row[1] = "item" ->
                    [read EXCEPT !.items[row[2]] = items[row[2]]]]
  /\ UNCHANGED <<vars, runs>>

End(w) == tx' = [tx EXCEPT ![w] = Idle] /\ UNCHANGED runs

\* The connection is lost, the worker dies or PostgreSQL cancels the
\* transaction: nothing was written, the locks are released.
Abort(w) ==
  /\ Running(w)
  /\ End(w)
  /\ UNCHANGED vars

-----------------------------------------------------------------------------
(* Commits: decide from the private copies x, write the real tables. *)

ReadTracks(x) == {t \in Tracks : Exists(x.tracks[t])}
ReadModules(x) == {m \in Modules : Exists(x.modules[m])}
ReadActive(x) == {m \in ReadModules(x) : x.modules[m].status = "ACTIVE"}
ReadItems(x) == {i \in Items : Exists(x.items[i])}

\* A new row's key is a fresh uuid4: no call under way can be naming it.
Named(field, key) ==
  \E v \in Workers :
    field \in DOMAIN tx[v].cmd /\ tx[v].cmd[field] = key

CommitCreateTrack(w) ==
  /\ Decides(w) /\ tx[w].cmd.op = "create_track"
  /\ LET x == tx[w]  c == x.cmd  position == x.count + 1
         result == CreateDecision(x.authorized, TRUE, c,
                     Insertable(tracks, UsedTracks, c.title, position))
     IN \/ /\ result = "SUCCESS"
           /\ \E t \in {k \in Tracks \ UsedTracks : ~Named("track", k)} :
                /\ tracks' = [tracks EXCEPT ![t] = NewTrack(c.title, position)]
                /\ Record(c, "CREATE", "TRACK", t, result, TRUE)
           /\ orderRevision' = x.order + 1
        \/ /\ result # "SUCCESS"
           /\ Record(c, "CREATE", "TRACK", NoOwner, result, FALSE)
           /\ UNCHANGED <<tracks, orderRevision>>
  /\ End(w)
  /\ UNCHANGED <<admins, modules, items, trackVersions, moduleVersions,
                 contentVersions>>

CommitEditTrack(w) ==
  /\ Decides(w) /\ tx[w].cmd.op = "edit_track"
  /\ LET x == tx[w]  c == x.cmd  t == c.track  row == x.tracks[t]
         result == EditDecision(x.authorized, Exists(row), row, c,
                     TitleFree(tracks, UsedTracks, t, c.title))
         after == Edited(row, c.title)
     IN /\ Record(c, "EDIT", "TRACK", t, result, result = "SUCCESS")
        /\ \/ /\ result = "SUCCESS"
              /\ tracks' = [tracks EXCEPT ![t] = after]
              /\ trackVersions' =
                   trackVersions \cup Snapshot(t, row, after, c.title)
           \/ result # "SUCCESS" /\ UNCHANGED <<tracks, trackVersions>>
  /\ End(w)
  /\ UNCHANGED <<admins, modules, items, moduleVersions, contentVersions,
                 orderRevision>>

CommitChangeTrackStatus(w) ==
  /\ Decides(w) /\ tx[w].cmd.op = "change_track_status"
  /\ LET x == tx[w]  c == x.cmd  t == c.track  row == x.tracks[t]
         result == TrackStatusDecision(x.authorized, row, c, ReadActive(x) # {})
         changed == result = "SUCCESS" /\ row.status # c.target
         after == WithStatus(row, c.target)
     IN /\ Record(c, StatusAction(c.target), "TRACK", t, result, changed)
        /\ \/ /\ changed
              /\ tracks' = [tracks EXCEPT ![t] = after]
              /\ trackVersions' =
                   trackVersions \cup Snapshot(t, row, after, row.title)
           \/ ~changed /\ UNCHANGED <<tracks, trackVersions>>
  /\ End(w)
  /\ UNCHANGED <<admins, modules, items, moduleVersions, contentVersions,
                 orderRevision>>

\* The write is of the columns position and revision only.
CommitMoveTrack(w) ==
  /\ Decides(w) /\ tx[w].cmd.op = "move_track"
  /\ LET x == tx[w]  c == x.cmd  keys == ReadTracks(x)
         result == MoveDecision(x.authorized, c.track \in keys, x.order, c,
                     Cardinality(keys))
         changed == /\ result = "SUCCESS"
                    /\ Displaced(x.tracks, keys, c.track, c.position) # {}
         after(t) == Moved(x.tracks, keys, c.track, c.position, t)
     IN /\ Record(c, "REORDER", "TRACK", c.track, result, changed)
        /\ \/ /\ changed
              /\ tracks' = [t \in Tracks |->
                   IF t \in keys
                   THEN [tracks[t] EXCEPT !.position = after(t).position,
                                          !.revision = after(t).revision]
                   ELSE tracks[t]]
              /\ orderRevision' = x.order + 1
           \/ ~changed /\ UNCHANGED <<tracks, orderRevision>>
  /\ End(w)
  /\ UNCHANGED <<admins, modules, items, trackVersions, moduleVersions,
                 contentVersions>>

CommitCreateModule(w) ==
  /\ Decides(w) /\ tx[w].cmd.op = "create_module"
  /\ LET x == tx[w]  c == x.cmd  owner == x.tracks[c.track]
         position == Cardinality(ReadModules(x)) + 1
         result == CreateDecision(x.authorized, Exists(owner), c,
                     Insertable(modules, ModulesOf(c.track), c.title, position))
     IN \/ /\ result = "SUCCESS"
           /\ \E m \in {k \in Modules : ~Exists(modules[k]) /\ ~Named("module", k)} :
                /\ modules' = [modules EXCEPT
                                 ![m] = NewModule(c.track, c.title, position)]
                /\ Record(c, "CREATE", "MODULE", m, result, TRUE)
           /\ tracks' = [tracks EXCEPT
                           ![c.track].moduleOrder = owner.moduleOrder + 1]
        \/ /\ result # "SUCCESS"
           /\ Record(c, "CREATE", "MODULE", NoOwner, result, FALSE)
           /\ UNCHANGED <<tracks, modules>>
  /\ End(w)
  /\ UNCHANGED <<admins, items, trackVersions, moduleVersions,
                 contentVersions, orderRevision>>

CommitEditModule(w) ==
  /\ Decides(w) /\ tx[w].cmd.op = "edit_module"
  /\ LET x == tx[w]  c == x.cmd  m == c.module  row == x.modules[m]
         result == EditDecision(x.authorized, m \in ReadModules(x), row, c,
                     TitleFree(modules, ModulesOf(c.track), m, c.title))
         after == Edited(row, c.title)
     IN /\ Record(c, "EDIT", "MODULE", m, result, result = "SUCCESS")
        /\ \/ /\ result = "SUCCESS"
              /\ modules' = [modules EXCEPT ![m] = after]
              /\ moduleVersions' =
                   moduleVersions \cup Snapshot(m, row, after, c.title)
           \/ result # "SUCCESS" /\ UNCHANGED <<modules, moduleVersions>>
  /\ End(w)
  /\ UNCHANGED <<admins, tracks, items, trackVersions, contentVersions,
                 orderRevision>>

CommitChangeModuleStatus(w) ==
  /\ Decides(w) /\ tx[w].cmd.op = "change_module_status"
  /\ LET x == tx[w]  c == x.cmd  m == c.module  row == x.modules[m]
         result == ModuleStatusDecision(x.authorized, row, x.tracks[c.track],
                     c, ReadActive(x))
         changed == result = "SUCCESS" /\ row.status # c.target
         after == WithStatus(row, c.target)
     IN /\ Record(c, StatusAction(c.target), "MODULE", m, result, changed)
        /\ \/ /\ changed
              /\ modules' = [modules EXCEPT ![m] = after]
              /\ moduleVersions' =
                   moduleVersions \cup Snapshot(m, row, after, row.title)
           \/ ~changed /\ UNCHANGED <<modules, moduleVersions>>
  /\ End(w)
  /\ UNCHANGED <<admins, tracks, items, trackVersions, contentVersions,
                 orderRevision>>

CommitMoveModule(w) ==
  /\ Decides(w) /\ tx[w].cmd.op = "move_module"
  /\ LET x == tx[w]  c == x.cmd  keys == ReadModules(x)
         owner == x.tracks[c.track]
         result == MoveDecision(x.authorized, c.module \in keys,
                     owner.moduleOrder, c, Cardinality(keys))
         changed == /\ result = "SUCCESS"
                    /\ Displaced(x.modules, keys, c.module, c.position) # {}
         after(m) == Moved(x.modules, keys, c.module, c.position, m)
     IN /\ Record(c, "REORDER", "MODULE", c.module, result, changed)
        /\ \/ /\ changed
              /\ modules' = [m \in Modules |->
                   IF m \in keys
                   THEN [modules[m] EXCEPT !.position = after(m).position,
                                           !.revision = after(m).revision]
                   ELSE modules[m]]
              /\ tracks' = [tracks EXCEPT
                              ![c.track].moduleOrder = owner.moduleOrder + 1]
           \/ ~changed /\ UNCHANGED <<modules, tracks>>
  /\ End(w)
  /\ UNCHANGED <<admins, items, trackVersions, moduleVersions,
                 contentVersions, orderRevision>>

\* A refused draft or publication raises: Abort covers it.
CommitCreateContentDraft(w) ==
  /\ Decides(w) /\ tx[w].cmd.op = "create_content_draft"
  /\ LET x == tx[w]  c == x.cmd  m == c.module  row == x.modules[m]
     IN /\ Decision(x.authorized, Exists(row), c.rev, 1, row.revision,
                    Contiguous(x.items, ReadItems(x))) = "SUCCESS"
        /\ \E i \in {k \in Items : ~Exists(items[k]) /\ ~Named("item", k)} :
             items' = [items EXCEPT ![i] =
                         NewItem(m, Cardinality(ReadItems(x)) + 1)]
        /\ modules' = [modules EXCEPT ![m].revision = row.revision + 1]
  /\ End(w)
  /\ UNCHANGED <<admins, tracks, trackVersions, moduleVersions,
                 contentVersions, orderRevision, log>>

CommitPublishContentItem(w) ==
  /\ Decides(w) /\ tx[w].cmd.op = "publish_content_item"
  /\ LET x == tx[w]  c == x.cmd  i == c.item  row == x.items[i]
     IN /\ Decision(x.authorized, Exists(row), c.rev, 1, row.revision,
                    c.ok) = "SUCCESS"
        /\ items' = [items EXCEPT ![i] = Published(row)]
        /\ contentVersions' = contentVersions
             \cup Snapshot(i, row, Published(row), c.title)
  /\ End(w)
  /\ UNCHANGED <<admins, tracks, modules, trackVersions, moduleVersions,
                 orderRevision, log>>

-----------------------------------------------------------------------------

\* Mutation: the commands read their actor without FOR UPDATE.
UnlockedRoleChange(a) ==
  /\ ChangeContentRole(a)
  /\ UNCHANGED <<tx, runs>>

\* change_content_role and the account admin update the account row, and wait
\* for its lock.
LockedRoleChange(a) ==
  /\ \A w \in Workers : <<"account", a>> \notin tx[w].locks
  /\ ChangeContentRole(a)
  /\ UNCHANGED <<tx, runs>>

Commit(w) ==
  \/ CommitCreateTrack(w)
  \/ CommitEditTrack(w)
  \/ CommitChangeTrackStatus(w)
  \/ CommitMoveTrack(w)
  \/ CommitCreateModule(w)
  \/ CommitEditModule(w)
  \/ CommitChangeModuleStatus(w)
  \/ CommitMoveModule(w)
  \/ CommitCreateContentDraft(w)
  \/ CommitPublishContentItem(w)

TxNext ==
  \/ \E w \in Workers :
       \/ \E c \in Commands : Begin(w, c)
       \/ StartStatement(w)
       \/ LockRow(w)
       \/ Commit(w)
       \/ Abort(w)
  \/ \E a \in Accounts : LockedRoleChange(a)

TxSpec == Init /\ TxInit /\ [][TxNext]_txVars

-----------------------------------------------------------------------------
(* Properties *)

\* Every commit is one atomic command of Catalog, decided on the state it
\* changes: the interleavings of statements add no behaviour of their own.
CommandsAreAtomic == [][Next]_vars

\* What a transaction has read and locked is still what the tables hold, until
\* it ends: no decision is ever taken on a stale role, revision, status,
\* position or count.
ReadsStayCurrent ==
  \A w \in Workers : \A r \in tx[w].locks :
    CASE r[1] = "account" -> tx[w].authorized = (r[2] \in admins)
      [] r[1] = "state" -> /\ tx[w].order = orderRevision
                           /\ tx[w].count = Cardinality(UsedTracks)
      [] r[1] = "track" -> tx[w].tracks[r[2]] = tracks[r[2]]
      [] r[1] = "module" -> tx[w].modules[r[2]] = modules[r[2]]
      [] r[1] = "item" -> tx[w].items[r[2]] = items[r[2]]

\* No set of transactions waits for row locks in a circle, so PostgreSQL never
\* has to cancel one because of the order in which rows are locked. Waits at
\* the unique indexes of titles are not modelled.
Waits(w) ==
  /\ Running(w) /\ tx[w].scan # {}
  /\ ~Available(w, NextRow(tx[w].scan))

NoWaitCircle ==
  \A S \in (SUBSET Workers) \ {{}} : \E w \in S :
    \/ ~Waits(w)
    \/ \A v \in S \ {w} : NextRow(tx[w].scan) \notin tx[v].locks
=============================================================================
