--------------------------- MODULE Catalog_proofs ---------------------------
(***************************************************************************)
(* What Catalog promises its readers, for every set of accounts, keys,     *)
(* titles and commands and without any bound on the length of a behaviour: *)
(* the tables stay well-typed, an active track has an active module, the   *)
(* versions of an entity are numbered without gaps and never rewritten,    *)
(* and what is live is a published snapshot. Then the order of tracks,     *)
(* modules and items: a move permutes 1..N, so positions never have a gap  *)
(* or a duplicate; the tokens of the forms identify what their user saw;   *)
(* and the change log names the row that a change wrote.                   *)
(***************************************************************************)
EXTENDS Catalog, TLAPS, FiniteSetTheorems

-----------------------------------------------------------------------------
(* What the operators of CatalogRules return *)

\* A command with a given op is a record of that op's shape.
LEMMA CommandShapes ==
  ASSUME NEW c \in Command
  PROVE  /\ c.op = "create_track" => c \in CreateTrackCmd
         /\ c.op = "edit_track" => c \in EditTrackCmd
         /\ c.op = "change_track_status" => c \in TrackStatusCmd
         /\ c.op = "move_track" => c \in MoveTrackCmd
         /\ c.op = "create_module" => c \in CreateModuleCmd
         /\ c.op = "edit_module" => c \in EditModuleCmd
         /\ c.op = "change_module_status" => c \in ModuleStatusCmd
         /\ c.op = "move_module" => c \in MoveModuleCmd
         /\ c.op = "create_content_draft" => c \in CreateDraftCmd
         /\ c.op = "publish_content_item" => c \in PublishItemCmd
  BY DEF Command, CreateTrackCmd, EditTrackCmd, TrackStatusCmd, MoveTrackCmd,
         CreateModuleCmd, EditModuleCmd, ModuleStatusCmd, MoveModuleCmd,
         CreateDraftCmd, PublishItemCmd

\* The chain of early returns always ends in a result, and in success only
\* for an authorized call on a known target with a current token.
LEMMA DecisionResult ==
  ASSUME NEW a \in BOOLEAN, NEW k \in BOOLEAN, NEW r \in Int, NEW l \in Int,
         NEW cur \in Int, NEW valid \in BOOLEAN
  PROVE  /\ Decision(a, k, r, l, cur, valid) \in Results
         /\ Decision(a, k, r, l, cur, valid) = "SUCCESS"
              => a /\ k /\ r = cur /\ r >= l /\ valid
  BY DEF Decision, Results

\* What each command's success has checked.
LEMMA CreateSuccess ==
  ASSUME NEW a \in BOOLEAN, NEW known \in BOOLEAN, NEW free \in BOOLEAN,
         NEW c, c.ok \in BOOLEAN
  PROVE  /\ CreateDecision(a, known, c, free) \in Results
         /\ CreateDecision(a, known, c, free) = "SUCCESS" => known /\ free
  BY DecisionResult DEF CreateDecision

LEMMA EditSuccess ==
  ASSUME NEW a \in BOOLEAN, NEW known \in BOOLEAN, NEW free \in BOOLEAN,
         NEW row, row.revision \in Nat,
         NEW c, c.rev \in Int, c.ok \in BOOLEAN, c.pub \in BOOLEAN
  PROVE  /\ EditDecision(a, known, row, c, free) \in Results
         /\ EditDecision(a, known, row, c, free) = "SUCCESS" => known /\ free
<1> DEFINE valid == c.ok /\ (row.status = "ACTIVE" => c.pub) /\ free
<1>1. valid \in BOOLEAN /\ (valid => free)
  OBVIOUS
<1> HIDE DEF valid
<1>2. EditDecision(a, known, row, c, free) =
        Decision(a, known, c.rev, 1, row.revision, valid)
  BY DEF EditDecision, valid
<1> QED BY <1>1, <1>2, DecisionResult

LEMMA MoveSuccess ==
  ASSUME NEW a \in BOOLEAN, NEW known \in BOOLEAN, NEW order \in Nat,
         NEW n \in Nat, NEW c, c.rev \in Int
  PROVE  /\ MoveDecision(a, known, order, c, n) \in Results
         /\ MoveDecision(a, known, order, c, n) = "SUCCESS" =>
              known /\ c.position \in 1..n
<1> DEFINE valid == c.position \in 1..n
<1>1. valid \in BOOLEAN
  OBVIOUS
<1>2. MoveDecision(a, known, order, c, n) =
        Decision(a, known, c.rev, 0, order, valid)
  BY DEF MoveDecision
<1>3. valid => c.position \in 1..n
  OBVIOUS
<1> HIDE DEF valid
<1> QED BY <1>1, <1>2, <1>3, DecisionResult

LEMMA TrackStatusSuccess ==
  ASSUME NEW a \in BOOLEAN, NEW hasActive \in BOOLEAN,
         NEW row, row.revision \in Nat,
         NEW c, c.rev \in Int, c.pub \in BOOLEAN
  PROVE  /\ TrackStatusDecision(a, row, c, hasActive) \in Results
         /\ TrackStatusDecision(a, row, c, hasActive) = "SUCCESS" =>
              /\ Exists(row)
              /\ c.target \in Status
              /\ c.target = row.status \/ c.target = "INACTIVE" \/ hasActive
<1> DEFINE valid == /\ Supported(c.target)
                    /\ \/ c.target = row.status
                       \/ c.target = "INACTIVE"
                       \/ c.pub /\ hasActive
<1>1. /\ valid \in BOOLEAN
      /\ valid => /\ c.target \in Status
                  /\ \/ c.target = row.status
                     \/ c.target = "INACTIVE"
                     \/ hasActive
  BY DEF Supported
<1>2. TrackStatusDecision(a, row, c, hasActive) =
        Decision(a, Exists(row), c.rev, 1, row.revision, valid)
  BY DEF TrackStatusDecision
<1>3. Exists(row) \in BOOLEAN
  BY DEF Exists
<1> HIDE DEF valid
<1> QED BY <1>1, <1>2, <1>3, DecisionResult

LEMMA ModuleStatusSuccess ==
  ASSUME NEW a \in BOOLEAN, NEW actives, NEW owner,
         NEW row, row.revision \in Nat,
         NEW c, c.rev \in Int, c.pub \in BOOLEAN
  PROVE  /\ ModuleStatusDecision(a, row, owner, c, actives) \in Results
         /\ ModuleStatusDecision(a, row, owner, c, actives) = "SUCCESS" =>
              /\ row.track = c.track
              /\ c.target \in Status
              /\ \/ c.target = row.status
                 \/ c.target = "ACTIVE"
                 \/ ~IsLastActive(owner, actives)
<1> DEFINE known == row.track = c.track
           valid == /\ Supported(c.target)
                    /\ \/ c.target = row.status
                       \/ c.target = "ACTIVE" /\ c.pub
                       \/ c.target = "INACTIVE" /\ ~IsLastActive(owner, actives)
<1>1. /\ valid \in BOOLEAN
      /\ valid => /\ c.target \in Status
                  /\ \/ c.target = row.status
                     \/ c.target = "ACTIVE"
                     \/ ~IsLastActive(owner, actives)
  BY DEF Supported
<1>2. ModuleStatusDecision(a, row, owner, c, actives) =
        Decision(a, known, c.rev, 1, row.revision, valid)
  BY DEF ModuleStatusDecision
<1>3. known \in BOOLEAN /\ (known => row.track = c.track)
  OBVIOUS
<1> HIDE DEF known, valid
<1> QED BY <1>1, <1>2, <1>3, DecisionResult

\* The writes return well-typed rows.
LEMMA TrackWrites ==
  ASSUME NEW row \in TrackRow
  PROVE  /\ \A x \in Titles : Edited(row, x) \in TrackRow
         /\ \A s \in Status : WithStatus(row, s) \in TrackRow
<1>1. ASSUME NEW x \in Titles PROVE Edited(row, x) \in TrackRow
  <2> DEFINE p == IF row.status = "ACTIVE" THEN row.published + 1
                                          ELSE row.published
  <2>1. p \in Nat /\ row.revision + 1 \in Nat
    BY DEF TrackRow
  <2>2. Edited(row, x) = [row EXCEPT !.title = x,
                                     !.revision = row.revision + 1,
                                     !.published = p]
    BY DEF Edited
  <2> HIDE DEF p
  <2> QED BY <2>1, <2>2 DEF TrackRow
<1>2. ASSUME NEW s \in Status PROVE WithStatus(row, s) \in TrackRow
  <2> DEFINE p == IF s = "ACTIVE" THEN row.published + 1 ELSE row.published
  <2>1. p \in Nat /\ row.revision + 1 \in Nat
    BY DEF TrackRow
  <2>2. WithStatus(row, s) = [row EXCEPT !.status = s,
                                         !.revision = row.revision + 1,
                                         !.published = p]
    BY DEF WithStatus
  <2> HIDE DEF p
  <2> QED BY <2>1, <2>2 DEF TrackRow, Status
<1> QED BY <1>1, <1>2

LEMMA ModuleWrites ==
  ASSUME NEW row \in ModuleRow
  PROVE  /\ \A x \in Titles : Edited(row, x) \in ModuleRow
         /\ \A s \in Status : WithStatus(row, s) \in ModuleRow
<1>1. ASSUME NEW x \in Titles PROVE Edited(row, x) \in ModuleRow
  <2> DEFINE p == IF row.status = "ACTIVE" THEN row.published + 1
                                          ELSE row.published
  <2>1. p \in Nat /\ row.revision + 1 \in Nat
    BY DEF ModuleRow
  <2>2. Edited(row, x) = [row EXCEPT !.title = x,
                                     !.revision = row.revision + 1,
                                     !.published = p]
    BY DEF Edited
  <2> HIDE DEF p
  <2> QED BY <2>1, <2>2 DEF ModuleRow
<1>2. ASSUME NEW s \in Status PROVE WithStatus(row, s) \in ModuleRow
  <2> DEFINE p == IF s = "ACTIVE" THEN row.published + 1 ELSE row.published
  <2>1. p \in Nat /\ row.revision + 1 \in Nat
    BY DEF ModuleRow
  <2>2. WithStatus(row, s) = [row EXCEPT !.status = s,
                                         !.revision = row.revision + 1,
                                         !.published = p]
    BY DEF WithStatus
  <2> HIDE DEF p
  <2> QED BY <2>1, <2>2 DEF ModuleRow, Status
<1> QED BY <1>1, <1>2

LEMMA ItemWrites ==
  ASSUME NEW row \in ItemRow
  PROVE  Published(row) \in ItemRow
<1> DEFINE p == row.published + 1
           r == row.revision + 1
<1>1. p \in Nat /\ r \in Nat
  BY DEF ItemRow
<1>2. Published(row) = [row EXCEPT !.status = "PUBLISHED", !.revision = r,
                                   !.published = p]
  BY DEF Published
<1> HIDE DEF p, r
<1> QED BY <1>1, <1>2 DEF ItemRow

\* A snapshot of a titled row is a version row.
LEMMA SnapshotType ==
  ASSUME NEW keys, NEW key \in keys, NEW before, NEW after, NEW title \in Titles,
         after.published \in Nat
  PROVE  Snapshot(key, before, after, title) \subseteq VersionRow(keys)
  BY DEF Snapshot, VersionRow

\* Every row of the sorted sequence has a 1-based index.
LEMMA IndexType ==
  ASSUME NEW keys, IsFiniteSet(keys), NEW rows,
         \A j \in keys : rows[j].position \in Nat,
         NEW k \in keys
  PROVE  Index(rows, keys, k) \in Nat /\ Index(rows, keys, k) >= 1
<1> DEFINE upTo == {j \in keys : rows[j].position <= rows[k].position}
<1>1. IsFiniteSet(upTo)
  BY FS_Subset
<1>2. k \in upTo
  OBVIOUS
<1>3. Cardinality(upTo) \in Nat /\ Cardinality(upTo) # 0
  BY <1>1, <1>2, FS_CardinalityType, FS_EmptySet
<1> QED BY <1>3 DEF Index

\* A move inside the sequence gives every row a position.
LEMMA MovedPositionType ==
  ASSUME NEW keys, IsFiniteSet(keys), NEW rows,
         \A j \in keys : rows[j].position \in Nat,
         NEW x \in keys, NEW p \in Nat, NEW k \in keys
  PROVE  MovedPosition(rows, keys, x, p, k) \in Nat
<1>1. Index(rows, keys, k) \in Nat /\ Index(rows, keys, k) >= 1
  BY IndexType
<1>2. Index(rows, keys, x) \in Nat
  BY IndexType
<1> QED BY <1>1, <1>2 DEF MovedPosition

\* A move returns rows of the type it was given, and only touches position
\* and revision.
LEMMA MovedTrack ==
  ASSUME NEW keys \in SUBSET Tracks, IsFiniteSet(keys),
         NEW rows \in [Tracks -> TrackRow],
         NEW x \in keys, NEW p \in Nat, NEW k \in keys
  PROVE  /\ Moved(rows, keys, x, p, k) \in TrackRow
         /\ Moved(rows, keys, x, p, k).status = rows[k].status
         /\ Moved(rows, keys, x, p, k).title = rows[k].title
         /\ Moved(rows, keys, x, p, k).published = rows[k].published
<1> DEFINE q == MovedPosition(rows, keys, x, p, k)
           r == rows[k].revision + 1
<1>1. rows[k] \in TrackRow /\ \A j \in keys : rows[j].position \in Nat
  BY DEF TrackRow
<1>2. q \in Nat /\ r \in Nat
  BY <1>1, MovedPositionType DEF TrackRow
<1>3. \/ Moved(rows, keys, x, p, k) = rows[k]
      \/ Moved(rows, keys, x, p, k) =
           [rows[k] EXCEPT !.position = q, !.revision = r]
  BY DEF Moved
<1> HIDE DEF q, r
<1> QED BY <1>1, <1>2, <1>3 DEF TrackRow

LEMMA MovedModule ==
  ASSUME NEW keys \in SUBSET Modules, IsFiniteSet(keys),
         NEW rows \in [Modules -> ModuleRow],
         NEW x \in keys, NEW p \in Nat, NEW k \in keys
  PROVE  /\ Moved(rows, keys, x, p, k) \in ModuleRow
         /\ Moved(rows, keys, x, p, k).track = rows[k].track
         /\ Moved(rows, keys, x, p, k).status = rows[k].status
         /\ Moved(rows, keys, x, p, k).title = rows[k].title
         /\ Moved(rows, keys, x, p, k).published = rows[k].published
<1> DEFINE q == MovedPosition(rows, keys, x, p, k)
           r == rows[k].revision + 1
<1>1. rows[k] \in ModuleRow /\ \A j \in keys : rows[j].position \in Nat
  BY DEF ModuleRow
<1>2. q \in Nat /\ r \in Nat
  BY <1>1, MovedPositionType DEF ModuleRow
<1>3. \/ Moved(rows, keys, x, p, k) = rows[k]
      \/ Moved(rows, keys, x, p, k) =
           [rows[k] EXCEPT !.position = q, !.revision = r]
  BY DEF Moved
<1> HIDE DEF q, r
<1> QED BY <1>1, <1>2, <1>3 DEF ModuleRow

-----------------------------------------------------------------------------
(* Type correctness. TypeOK is not inductive: a status change publishes the *)
(* title the row has, which is a title because the row exists.              *)

RowsTitled ==
  /\ \A t \in Tracks : Exists(tracks[t]) => tracks[t].title \in Titles
  /\ \A m \in Modules : modules[m].track \in Tracks =>
       modules[m].title \in Titles

TypeInv == TypeOK /\ RowsTitled

\* The sets of rows that a command reads are finite.
LEMMA RowsFinite ==
  /\ IsFiniteSet(UsedTracks) /\ Cardinality(UsedTracks) \in Nat
  /\ \A t : IsFiniteSet(ModulesOf(t)) /\ Cardinality(ModulesOf(t)) \in Nat
  /\ \A t : IsFiniteSet(ActiveModules(t))
  /\ \A m : IsFiniteSet(ItemsOf(m)) /\ Cardinality(ItemsOf(m)) \in Nat
<1>1. IsFiniteSet(Tracks) /\ IsFiniteSet(Modules) /\ IsFiniteSet(Items)
  BY CatalogKeysAssumption
<1>2. /\ UsedTracks \in SUBSET Tracks
      /\ \A t : ModulesOf(t) \in SUBSET Modules
      /\ \A t : ActiveModules(t) \in SUBSET Modules
      /\ \A m : ItemsOf(m) \in SUBSET Items
  BY DEF UsedTracks, ModulesOf, ActiveModules, ItemsOf
<1>3. /\ IsFiniteSet(UsedTracks)
      /\ \A t : IsFiniteSet(ModulesOf(t)) /\ IsFiniteSet(ActiveModules(t))
      /\ \A m : IsFiniteSet(ItemsOf(m))
  BY <1>1, <1>2, FS_Subset
<1> QED BY <1>3, FS_CardinalityType

\* One log row per command, well-typed.
LEMMA RecordType ==
  ASSUME NEW c, c.actor \in Accounts, NEW action \in Actions,
         NEW entity \in {"TRACK", "MODULE"},
         NEW key \in Tracks \cup Modules \cup {NoOwner},
         NEW result \in Results, NEW changed \in BOOLEAN,
         Record(c, action, entity, key, result, changed)
  PROVE  log' \in LogRow
  BY DEF Record, LogRow

LEMMA CreateTrackType ==
  ASSUME TypeInv, NEW c \in Command, CreateTrack(c)
  PROVE  TypeInv'
<1> DEFINE position == Cardinality(UsedTracks) + 1
           result == CreateDecision(c.actor \in admins, TRUE, c,
                       Insertable(tracks, UsedTracks, c.title, position))
<1>1. c \in CreateTrackCmd /\ c.actor \in Accounts /\ c.title \in Titles
  BY CommandShapes, CatalogAssumption DEF CreateTrack, CreateTrackCmd
<1>2. position \in Nat
  BY RowsFinite
<1> HIDE DEF position
<1>3. result \in Results
  <2>1. /\ (c.actor \in admins) \in BOOLEAN
        /\ Insertable(tracks, UsedTracks, c.title, position) \in BOOLEAN
        /\ c.ok \in BOOLEAN
    BY <1>1 DEF CreateTrackCmd, Insertable
  <2> QED BY <2>1 DEF CreateDecision, Decision, Results
<1> HIDE DEF result
<1>4. UNCHANGED <<admins, modules, items, trackVersions, moduleVersions,
                  contentVersions>>
  BY DEF CreateTrack
<1>5. CASE /\ \E t \in Tracks \ UsedTracks :
                /\ tracks' = [tracks EXCEPT ![t] = NewTrack(c.title, position)]
                /\ Record(c, "CREATE", "TRACK", t, result, TRUE)
           /\ orderRevision' = orderRevision + 1
  <2> PICK t \in Tracks \ UsedTracks :
                /\ tracks' = [tracks EXCEPT ![t] = NewTrack(c.title, position)]
                /\ Record(c, "CREATE", "TRACK", t, result, TRUE)
    BY <1>5
  <2>1. log' \in LogRow
    BY <1>1, <1>3, RecordType DEF Actions
  <2>2. /\ NewTrack(c.title, position) \in TrackRow
        /\ NewTrack(c.title, position).title \in Titles
    BY <1>1, <1>2 DEF NewTrack, TrackRow, Status
  <2>3. TypeOK'
    BY <1>4, <1>5, <2>1, <2>2 DEF TypeInv, TypeOK
  <2>4. RowsTitled'
    BY <1>4, <2>2 DEF TypeInv, TypeOK, RowsTitled
  <2> QED BY <2>3, <2>4 DEF TypeInv
<1>6. CASE /\ Record(c, "CREATE", "TRACK", NoOwner, result, FALSE)
           /\ UNCHANGED <<tracks, orderRevision>>
  <2>1. log' \in LogRow
    BY <1>1, <1>3, <1>6, RecordType DEF Actions
  <2> QED BY <1>4, <1>6, <2>1 DEF TypeInv, TypeOK, RowsTitled
<1> QED BY <1>5, <1>6 DEF CreateTrack, position, result

LEMMA EditTrackType ==
  ASSUME TypeInv, NEW c \in Command, EditTrack(c)
  PROVE  TypeInv'
<1> DEFINE t == c.track
           row == tracks[t]
           result == EditDecision(c.actor \in admins, Exists(row), row, c,
                       TitleFree(tracks, UsedTracks, t, c.title))
           after == IF result = "SUCCESS" THEN Edited(row, c.title) ELSE row
<1>1. /\ c \in EditTrackCmd
      /\ c.actor \in Accounts /\ t \in Tracks /\ c.title \in Titles
  BY CommandShapes, CatalogAssumption DEF EditTrack, EditTrackCmd
<1>2. row \in TrackRow
  BY <1>1 DEF TypeInv, TypeOK
<1>3. result \in Results /\ (result = "SUCCESS" => Exists(row))
  <2>1. /\ (c.actor \in admins) \in BOOLEAN /\ Exists(row) \in BOOLEAN
        /\ TitleFree(tracks, UsedTracks, t, c.title) \in BOOLEAN
        /\ c.rev \in Int /\ c.ok \in BOOLEAN /\ c.pub \in BOOLEAN
        /\ row.revision \in Nat
    BY <1>1, <1>2 DEF EditTrackCmd, Exists, TitleFree, TrackRow
  <2> HIDE DEF row
  <2> QED BY <2>1, EditSuccess
<1>4. /\ after \in TrackRow
      /\ Exists(after) => after.title \in Titles
  <2>1. CASE result = "SUCCESS"
    BY <2>1, <1>1, <1>2, TrackWrites DEF Edited, TrackRow
  <2>2. CASE result # "SUCCESS"
    BY <2>2, <1>1, <1>2 DEF TypeInv, RowsTitled
  <2> QED BY <2>1, <2>2
<1>5. Snapshot(t, row, after, c.title) \subseteq VersionRow(Tracks)
  BY <1>1, <1>4, SnapshotType DEF TrackRow
<1>6. /\ tracks' = [tracks EXCEPT ![t] = after]
      /\ trackVersions' = trackVersions \cup Snapshot(t, row, after, c.title)
      /\ Record(c, "EDIT", "TRACK", t, result, result = "SUCCESS")
      /\ UNCHANGED <<admins, modules, items, moduleVersions, contentVersions,
                     orderRevision>>
  BY DEF EditTrack
<1>7. log' \in LogRow
  <2>1. (result = "SUCCESS") \in BOOLEAN
    OBVIOUS
  <2> HIDE DEF result
  <2> QED BY <1>1, <1>3, <1>6, <2>1, RecordType DEF Actions
<1> HIDE DEF t, row, result, after
<1>8. TypeOK'
  BY <1>1, <1>4, <1>5, <1>6, <1>7 DEF TypeInv, TypeOK
<1>9. RowsTitled'
  BY <1>1, <1>4, <1>6 DEF TypeInv, TypeOK, RowsTitled
<1> QED BY <1>8, <1>9 DEF TypeInv

LEMMA ChangeTrackStatusType ==
  ASSUME TypeInv, NEW c \in Command, ChangeTrackStatus(c)
  PROVE  TypeInv'
<1> DEFINE t == c.track
           row == tracks[t]
           result == TrackStatusDecision(c.actor \in admins, row, c,
                       ActiveModules(t) # {})
           changed == result = "SUCCESS" /\ row.status # c.target
           after == IF changed THEN WithStatus(row, c.target) ELSE row
           action == StatusAction(c.target)
<1>1. /\ c \in TrackStatusCmd
      /\ c.actor \in Accounts /\ t \in Tracks
  BY CommandShapes, CatalogAssumption DEF ChangeTrackStatus, TrackStatusCmd
<1>2. row \in TrackRow
  BY <1>1 DEF TypeInv, TypeOK
<1>3. /\ result \in Results
      /\ result = "SUCCESS" => Exists(row) /\ c.target \in Status
  <2>1. /\ (c.actor \in admins) \in BOOLEAN
        /\ (ActiveModules(t) # {}) \in BOOLEAN
        /\ c.rev \in Int /\ c.pub \in BOOLEAN /\ row.revision \in Nat
    BY <1>1, <1>2 DEF TrackStatusCmd, TrackRow
  <2> HIDE DEF row
  <2> QED BY <2>1, TrackStatusSuccess
<1>4. /\ after \in TrackRow
      /\ Exists(after) => after.title \in Titles
  <2>1. row.title = WithStatus(row, c.target).title
    BY <1>2 DEF WithStatus, TrackRow
  <2>2. CASE changed
    BY <2>1, <2>2, <1>1, <1>2, <1>3, TrackWrites DEF TypeInv, RowsTitled
  <2>3. CASE ~changed
    BY <2>3, <1>1, <1>2 DEF TypeInv, RowsTitled
  <2> QED BY <2>2, <2>3
<1>5. Snapshot(t, row, after, row.title) \subseteq VersionRow(Tracks)
  <2>1. CASE changed
    <3>1. row.title \in Titles
      BY <1>1, <1>3, <2>1 DEF TypeInv, RowsTitled
    <3> QED BY <3>1, <1>1, <1>4, SnapshotType DEF TrackRow
  <2>2. CASE ~changed
    BY <2>2 DEF Snapshot
  <2> QED BY <2>1, <2>2
<1>6. /\ tracks' = [tracks EXCEPT ![t] = after]
      /\ trackVersions' = trackVersions \cup Snapshot(t, row, after, row.title)
      /\ Record(c, action, "TRACK", t, result, changed)
      /\ UNCHANGED <<admins, modules, items, moduleVersions, contentVersions,
                     orderRevision>>
  BY DEF ChangeTrackStatus
<1>7. log' \in LogRow
  <2>1. changed \in BOOLEAN /\ action \in Actions
    BY DEF StatusAction, Actions
  <2> HIDE DEF result, changed, action
  <2> QED BY <1>1, <1>3, <1>6, <2>1, RecordType
<1> HIDE DEF t, row, result, changed, after, action
<1>8. TypeOK'
  BY <1>1, <1>4, <1>5, <1>6, <1>7 DEF TypeInv, TypeOK
<1>9. RowsTitled'
  BY <1>1, <1>4, <1>6 DEF TypeInv, TypeOK, RowsTitled
<1> QED BY <1>8, <1>9 DEF TypeInv

\* A move permutes positions and leaves what a row shows alone.
LEMMA MoveTrackRows ==
  ASSUME TypeInv, NEW c \in Command, MoveTrack(c)
  PROVE  /\ tracks' \in [Tracks -> TrackRow]
         /\ \A t \in Tracks : /\ tracks'[t].status = tracks[t].status
                              /\ tracks'[t].title = tracks[t].title
                              /\ tracks'[t].published = tracks[t].published
<1> DEFINE known == Exists(tracks[c.track])
           n == Cardinality(UsedTracks)
           result == MoveDecision(c.actor \in admins, known, orderRevision, c, n)
           changed == /\ result = "SUCCESS"
                      /\ Displaced(tracks, UsedTracks, c.track, c.position) # {}
           after(t) == Moved(tracks, UsedTracks, c.track, c.position, t)
<1>1. c \in MoveTrackCmd /\ c.track \in Tracks
  BY CommandShapes, CatalogAssumption DEF MoveTrack, MoveTrackCmd
<1>2. result = "SUCCESS" => c.track \in UsedTracks /\ c.position \in Nat
  <2>1. /\ (c.actor \in admins) \in BOOLEAN /\ known \in BOOLEAN
        /\ orderRevision \in Nat /\ n \in Nat /\ c.rev \in Int
    BY <1>1, RowsFinite DEF MoveTrackCmd, Exists, TypeInv, TypeOK
  <2>2. known => c.track \in UsedTracks
    BY <1>1 DEF UsedTracks
  <2> HIDE DEF known, n
  <2>3. result = "SUCCESS" => known /\ c.position \in 1..n
    BY <2>1, MoveSuccess
  <2> QED BY <2>1, <2>2, <2>3
<1>3. ASSUME changed, NEW t \in UsedTracks
      PROVE  /\ after(t) \in TrackRow
             /\ after(t).status = tracks[t].status
             /\ after(t).title = tracks[t].title
             /\ after(t).published = tracks[t].published
  <2>1. /\ UsedTracks \in SUBSET Tracks /\ IsFiniteSet(UsedTracks)
        /\ tracks \in [Tracks -> TrackRow]
        /\ c.track \in UsedTracks /\ c.position \in Nat
    BY <1>2, <1>3, RowsFinite DEF TypeInv, TypeOK, UsedTracks
  <2> QED BY <1>3, <2>1, MovedTrack
<1>4. tracks' = [t \in Tracks |-> IF changed /\ t \in UsedTracks
                                 THEN after(t) ELSE tracks[t]]
  BY DEF MoveTrack
<1> HIDE DEF changed, after
<1> QED BY <1>3, <1>4 DEF TypeInv, TypeOK, UsedTracks

LEMMA MoveTrackType ==
  ASSUME TypeInv, NEW c \in Command, MoveTrack(c)
  PROVE  TypeInv'
<1> DEFINE known == Exists(tracks[c.track])
           n == Cardinality(UsedTracks)
           result == MoveDecision(c.actor \in admins, known, orderRevision, c, n)
           changed == /\ result = "SUCCESS"
                      /\ Displaced(tracks, UsedTracks, c.track, c.position) # {}
<1>1. /\ c \in MoveTrackCmd
      /\ c.actor \in Accounts /\ c.track \in Tracks
  BY CommandShapes, CatalogAssumption DEF MoveTrack, MoveTrackCmd
<1>2. result \in Results
  <2>1. /\ (c.actor \in admins) \in BOOLEAN /\ known \in BOOLEAN
        /\ orderRevision \in Nat /\ n \in Nat /\ c.rev \in Int
    BY <1>1, RowsFinite DEF MoveTrackCmd, Exists, TypeInv, TypeOK
  <2> HIDE DEF known, n
  <2> QED BY <2>1, MoveSuccess
<1>3. /\ orderRevision' = orderRevision + (IF changed THEN 1 ELSE 0)
      /\ Record(c, "REORDER", "TRACK", c.track, result, changed)
      /\ UNCHANGED <<admins, modules, items, trackVersions, moduleVersions,
                     contentVersions>>
  BY DEF MoveTrack
<1>4. log' \in LogRow
  <2>1. changed \in BOOLEAN
    OBVIOUS
  <2> HIDE DEF result, changed
  <2> QED BY <1>1, <1>2, <1>3, <2>1, RecordType DEF Actions
<1> HIDE DEF result, changed
<1>5. orderRevision' \in Nat
  BY <1>3 DEF TypeInv, TypeOK
<1>6. TypeOK'
  BY <1>3, <1>4, <1>5, MoveTrackRows DEF TypeInv, TypeOK
<1>7. RowsTitled'
  BY <1>3, MoveTrackRows DEF TypeInv, RowsTitled, Exists
<1> QED BY <1>6, <1>7 DEF TypeInv

LEMMA CreateModuleType ==
  ASSUME TypeInv, NEW c \in Command, CreateModule(c)
  PROVE  TypeInv'
<1> DEFINE siblings == ModulesOf(c.track)
           position == Cardinality(siblings) + 1
           known == Exists(tracks[c.track])
           result == CreateDecision(c.actor \in admins, known, c,
                       Insertable(modules, siblings, c.title, position))
<1>1. /\ c \in CreateModuleCmd
      /\ c.actor \in Accounts /\ c.track \in Tracks /\ c.title \in Titles
  BY CommandShapes, CatalogAssumption DEF CreateModule, CreateModuleCmd
<1>2. position \in Nat
  BY RowsFinite
<1> HIDE DEF position
<1>3. result \in Results
  <2>1. /\ (c.actor \in admins) \in BOOLEAN /\ known \in BOOLEAN
        /\ Insertable(modules, siblings, c.title, position) \in BOOLEAN
        /\ c.ok \in BOOLEAN
    BY <1>1 DEF CreateModuleCmd, Insertable, Exists
  <2> HIDE DEF known
  <2> QED BY <2>1 DEF CreateDecision, Decision, Results
<1> HIDE DEF result
<1>4. UNCHANGED <<admins, items, trackVersions, moduleVersions,
                  contentVersions, orderRevision>>
  BY DEF CreateModule
<1>5. CASE /\ \E m \in {k \in Modules : ~Exists(modules[k])} :
                /\ modules' = [modules EXCEPT
                                 ![m] = NewModule(c.track, c.title, position)]
                /\ Record(c, "CREATE", "MODULE", m, result, TRUE)
           /\ tracks' = [tracks EXCEPT ![c.track].moduleOrder = @ + 1]
  <2> PICK m \in Modules :
                /\ modules' = [modules EXCEPT
                                 ![m] = NewModule(c.track, c.title, position)]
                /\ Record(c, "CREATE", "MODULE", m, result, TRUE)
    BY <1>5
  <2>1. log' \in LogRow
    BY <1>1, <1>3, RecordType DEF Actions
  <2>2. /\ NewModule(c.track, c.title, position) \in ModuleRow
        /\ NewModule(c.track, c.title, position).title \in Titles
    BY <1>1, <1>2 DEF NewModule, ModuleRow, Status
  <2>3. /\ tracks' \in [Tracks -> TrackRow]
        /\ \A t \in Tracks : /\ tracks'[t].status = tracks[t].status
                             /\ tracks'[t].title = tracks[t].title
    BY <1>1, <1>5 DEF TypeInv, TypeOK, TrackRow
  <2>4. TypeOK'
    BY <1>4, <2>1, <2>2, <2>3 DEF TypeInv, TypeOK
  <2>5. RowsTitled'
    BY <2>2, <2>3 DEF TypeInv, TypeOK, RowsTitled, Exists
  <2> QED BY <2>4, <2>5 DEF TypeInv
<1>6. CASE /\ Record(c, "CREATE", "MODULE", NoOwner, result, FALSE)
           /\ UNCHANGED <<tracks, modules>>
  <2>1. log' \in LogRow
    BY <1>1, <1>3, <1>6, RecordType DEF Actions
  <2> QED BY <1>4, <1>6, <2>1 DEF TypeInv, TypeOK, RowsTitled
<1> QED BY <1>5, <1>6 DEF CreateModule, position, result

LEMMA EditModuleType ==
  ASSUME TypeInv, NEW c \in Command, EditModule(c)
  PROVE  TypeInv'
<1> DEFINE m == c.module
           row == modules[m]
           known == row.track = c.track
           result == EditDecision(c.actor \in admins, known, row, c,
                       TitleFree(modules, ModulesOf(c.track), m, c.title))
           after == IF result = "SUCCESS" THEN Edited(row, c.title) ELSE row
<1>1. /\ c \in EditModuleCmd
      /\ c.actor \in Accounts /\ m \in Modules /\ c.title \in Titles
  BY CommandShapes, CatalogAssumption DEF EditModule, EditModuleCmd
<1>2. row \in ModuleRow
  BY <1>1 DEF TypeInv, TypeOK
<1>3. result \in Results
  <2>1. /\ (c.actor \in admins) \in BOOLEAN /\ known \in BOOLEAN
        /\ TitleFree(modules, ModulesOf(c.track), m, c.title) \in BOOLEAN
        /\ c.rev \in Int /\ c.ok \in BOOLEAN /\ c.pub \in BOOLEAN
        /\ row.revision \in Nat
    BY <1>1, <1>2 DEF EditModuleCmd, TitleFree, ModuleRow
  <2> HIDE DEF row, known
  <2> QED BY <2>1, EditSuccess
<1>4. /\ after \in ModuleRow
      /\ after.track \in Tracks => after.title \in Titles
  <2>1. CASE result = "SUCCESS"
    BY <2>1, <1>1, <1>2, ModuleWrites DEF Edited, ModuleRow
  <2>2. CASE result # "SUCCESS"
    BY <2>2, <1>1, <1>2 DEF TypeInv, RowsTitled
  <2> QED BY <2>1, <2>2
<1>5. Snapshot(m, row, after, c.title) \subseteq VersionRow(Modules)
  BY <1>1, <1>4, SnapshotType DEF ModuleRow
<1>6. /\ modules' = [modules EXCEPT ![m] = after]
      /\ moduleVersions' =
           moduleVersions \cup Snapshot(m, row, after, c.title)
      /\ Record(c, "EDIT", "MODULE", m, result, result = "SUCCESS")
      /\ UNCHANGED <<admins, tracks, items, trackVersions, contentVersions,
                     orderRevision>>
  BY DEF EditModule
<1>7. log' \in LogRow
  <2>1. (result = "SUCCESS") \in BOOLEAN
    OBVIOUS
  <2> HIDE DEF result
  <2> QED BY <1>1, <1>3, <1>6, <2>1, RecordType DEF Actions
<1> HIDE DEF m, row, result, after
<1>8. TypeOK'
  BY <1>1, <1>4, <1>5, <1>6, <1>7 DEF TypeInv, TypeOK
<1>9. RowsTitled'
  BY <1>1, <1>4, <1>6 DEF TypeInv, TypeOK, RowsTitled
<1> QED BY <1>8, <1>9 DEF TypeInv

LEMMA ChangeModuleStatusType ==
  ASSUME TypeInv, NEW c \in Command, ChangeModuleStatus(c)
  PROVE  TypeInv'
<1> DEFINE m == c.module
           row == modules[m]
           owner == tracks[c.track]
           actives == ActiveModules(c.track)
           result == ModuleStatusDecision(c.actor \in admins, row, owner, c,
                       actives)
           changed == result = "SUCCESS" /\ row.status # c.target
           after == IF changed THEN WithStatus(row, c.target) ELSE row
           action == StatusAction(c.target)
<1>1. /\ c \in ModuleStatusCmd
      /\ c.actor \in Accounts /\ m \in Modules /\ c.track \in Tracks
  BY CommandShapes, CatalogAssumption DEF ChangeModuleStatus, ModuleStatusCmd
<1>2. row \in ModuleRow
  BY <1>1 DEF TypeInv, TypeOK
<1>3. /\ result \in Results
      /\ result = "SUCCESS" => row.track \in Tracks /\ c.target \in Status
  <2>1. /\ (c.actor \in admins) \in BOOLEAN
        /\ c.rev \in Int /\ c.pub \in BOOLEAN /\ row.revision \in Nat
    BY <1>1, <1>2 DEF ModuleStatusCmd, ModuleRow
  <2> HIDE DEF row, owner, actives
  <2> DEFINE authorized == c.actor \in admins
  <2>2. authorized \in BOOLEAN /\ c \in Command
    OBVIOUS
  <2> HIDE DEF authorized
  <2>3. /\ ModuleStatusDecision(authorized, row, owner, c, actives) \in Results
        /\ ModuleStatusDecision(authorized, row, owner, c, actives) = "SUCCESS"
             => row.track = c.track /\ c.target \in Status
    BY <2>1, <2>2, ModuleStatusSuccess
  <2> QED BY <1>1, <2>3 DEF authorized
<1>4. /\ after \in ModuleRow
      /\ after.track \in Tracks => after.title \in Titles
  <2>1. /\ row.title = WithStatus(row, c.target).title
        /\ row.track = WithStatus(row, c.target).track
    BY <1>2 DEF WithStatus, ModuleRow
  <2>2. CASE changed
    BY <2>1, <2>2, <1>1, <1>2, <1>3, ModuleWrites DEF TypeInv, RowsTitled
  <2>3. CASE ~changed
    BY <2>3, <1>1, <1>2 DEF TypeInv, RowsTitled
  <2> QED BY <2>2, <2>3
<1>5. Snapshot(m, row, after, row.title) \subseteq VersionRow(Modules)
  <2>1. CASE changed
    <3>1. row.title \in Titles
      BY <1>1, <1>3, <2>1 DEF TypeInv, RowsTitled
    <3> QED BY <3>1, <1>1, <1>4, SnapshotType DEF ModuleRow
  <2>2. CASE ~changed
    BY <2>2 DEF Snapshot
  <2> QED BY <2>1, <2>2
<1>6. /\ modules' = [modules EXCEPT ![m] = after]
      /\ moduleVersions' =
           moduleVersions \cup Snapshot(m, row, after, row.title)
      /\ Record(c, action, "MODULE", m, result, changed)
      /\ UNCHANGED <<admins, tracks, items, trackVersions, contentVersions,
                     orderRevision>>
  BY DEF ChangeModuleStatus
<1>7. log' \in LogRow
  <2>1. changed \in BOOLEAN /\ action \in Actions
    BY DEF StatusAction, Actions
  <2> HIDE DEF result, changed, action
  <2> QED BY <1>1, <1>3, <1>6, <2>1, RecordType
<1> HIDE DEF m, row, result, changed, after, action
<1>8. TypeOK'
  BY <1>1, <1>4, <1>5, <1>6, <1>7 DEF TypeInv, TypeOK
<1>9. RowsTitled'
  BY <1>1, <1>4, <1>6 DEF TypeInv, TypeOK, RowsTitled
<1> QED BY <1>8, <1>9 DEF TypeInv

LEMMA MoveModuleRows ==
  ASSUME TypeInv, NEW c \in Command, MoveModule(c)
  PROVE  /\ modules' \in [Modules -> ModuleRow]
         /\ \A m \in Modules : /\ modules'[m].track = modules[m].track
                               /\ modules'[m].status = modules[m].status
                               /\ modules'[m].title = modules[m].title
                               /\ modules'[m].published = modules[m].published
         /\ tracks' \in [Tracks -> TrackRow]
         /\ \A t \in Tracks : /\ tracks'[t].status = tracks[t].status
                              /\ tracks'[t].title = tracks[t].title
                              /\ tracks'[t].published = tracks[t].published
<1> DEFINE siblings == ModulesOf(c.track)
           known == c.module \in siblings
           n == Cardinality(siblings)
           order == tracks[c.track].moduleOrder
           result == MoveDecision(c.actor \in admins, known, order, c, n)
           changed == /\ result = "SUCCESS"
                      /\ Displaced(modules, siblings, c.module, c.position) # {}
           after(m) == Moved(modules, siblings, c.module, c.position, m)
<1>1. c \in MoveModuleCmd /\ c.track \in Tracks /\ c.module \in Modules
  BY CommandShapes, CatalogAssumption DEF MoveModule, MoveModuleCmd
<1>2. result = "SUCCESS" => c.module \in siblings /\ c.position \in Nat
  <2>1. /\ (c.actor \in admins) \in BOOLEAN /\ known \in BOOLEAN
        /\ order \in Nat /\ n \in Nat /\ c.rev \in Int
    BY <1>1, RowsFinite DEF MoveModuleCmd, TypeInv, TypeOK, TrackRow
  <2>2. known => c.module \in siblings
    OBVIOUS
  <2> HIDE DEF known, n, order
  <2>3. result = "SUCCESS" => known /\ c.position \in 1..n
    BY <2>1, MoveSuccess
  <2> QED BY <2>1, <2>2, <2>3
<1>3. siblings \in SUBSET Modules /\ IsFiniteSet(siblings)
  BY RowsFinite DEF ModulesOf
<1>4. ASSUME changed, NEW m \in siblings
      PROVE  /\ after(m) \in ModuleRow
             /\ after(m).track = modules[m].track
             /\ after(m).status = modules[m].status
             /\ after(m).title = modules[m].title
             /\ after(m).published = modules[m].published
  BY <1>2, <1>3, <1>4, MovedModule DEF TypeInv, TypeOK
<1>5. /\ modules' = [m \in Modules |-> IF changed /\ m \in siblings
                                       THEN after(m) ELSE modules[m]]
      /\ tracks' = IF changed
                   THEN [tracks EXCEPT ![c.track].moduleOrder = @ + 1]
                   ELSE tracks
  BY DEF MoveModule
<1> HIDE DEF changed, after, siblings
<1>6. /\ tracks' \in [Tracks -> TrackRow]
      /\ \A t \in Tracks : /\ tracks'[t].status = tracks[t].status
                           /\ tracks'[t].title = tracks[t].title
                           /\ tracks'[t].published = tracks[t].published
  BY <1>1, <1>5 DEF TypeInv, TypeOK, TrackRow
<1> QED BY <1>3, <1>4, <1>5, <1>6 DEF TypeInv, TypeOK

LEMMA MoveModuleType ==
  ASSUME TypeInv, NEW c \in Command, MoveModule(c)
  PROVE  TypeInv'
<1> DEFINE siblings == ModulesOf(c.track)
           known == c.module \in siblings
           n == Cardinality(siblings)
           order == tracks[c.track].moduleOrder
           result == MoveDecision(c.actor \in admins, known, order, c, n)
           changed == /\ result = "SUCCESS"
                      /\ Displaced(modules, siblings, c.module, c.position) # {}
<1>1. /\ c \in MoveModuleCmd
      /\ c.actor \in Accounts /\ c.track \in Tracks /\ c.module \in Modules
  BY CommandShapes, CatalogAssumption DEF MoveModule, MoveModuleCmd
<1>2. result \in Results
  <2>1. /\ (c.actor \in admins) \in BOOLEAN /\ known \in BOOLEAN
        /\ order \in Nat /\ n \in Nat /\ c.rev \in Int
    BY <1>1, RowsFinite DEF MoveModuleCmd, TypeInv, TypeOK, TrackRow
  <2> HIDE DEF known, n, order
  <2> QED BY <2>1, MoveSuccess
<1>3. /\ Record(c, "REORDER", "MODULE", c.module, result, changed)
      /\ UNCHANGED <<admins, items, trackVersions, moduleVersions,
                     contentVersions, orderRevision>>
  BY DEF MoveModule
<1>4. log' \in LogRow
  <2>1. changed \in BOOLEAN
    OBVIOUS
  <2> HIDE DEF result, changed
  <2> QED BY <1>1, <1>2, <1>3, <2>1, RecordType DEF Actions
<1>5. TypeOK'
  BY <1>3, <1>4, MoveModuleRows DEF TypeInv, TypeOK
<1>6. RowsTitled'
  BY MoveModuleRows DEF TypeInv, RowsTitled, Exists
<1> QED BY <1>5, <1>6 DEF TypeInv

LEMMA CreateContentDraftType ==
  ASSUME TypeInv, NEW c \in Command, CreateContentDraft(c)
  PROVE  TypeInv'
<1> DEFINE position == Cardinality(ItemsOf(c.module)) + 1
<1>1. c.module \in Modules
  BY CommandShapes, CatalogAssumption DEF CreateContentDraft, CreateDraftCmd
<1>2. position \in Nat
  BY RowsFinite
<1> HIDE DEF position
<1>3. PICK i \in Items :
        items' = [items EXCEPT ![i] = NewItem(c.module, position)]
  BY DEF CreateContentDraft, position
<1>4. /\ modules' = [modules EXCEPT ![c.module].revision = @ + 1]
      /\ UNCHANGED <<admins, tracks, trackVersions, moduleVersions,
                     contentVersions, orderRevision, log>>
  BY DEF CreateContentDraft
<1>5. NewItem(c.module, position) \in ItemRow
  BY <1>1, <1>2 DEF NewItem, ItemRow
<1>6. /\ modules' \in [Modules -> ModuleRow]
      /\ \A m \in Modules : /\ modules'[m].title = modules[m].title
                            /\ modules'[m].track = modules[m].track
  BY <1>1, <1>4 DEF TypeInv, TypeOK, ModuleRow
<1>7. TypeOK'
  BY <1>3, <1>4, <1>5, <1>6 DEF TypeInv, TypeOK
<1>8. RowsTitled'
  BY <1>4, <1>6 DEF TypeInv, RowsTitled
<1> QED BY <1>7, <1>8 DEF TypeInv

LEMMA PublishContentItemType ==
  ASSUME TypeInv, NEW c \in Command, PublishContentItem(c)
  PROVE  TypeInv'
<1> DEFINE i == c.item
           row == items[i]
<1>1. i \in Items /\ c.title \in Titles
  BY CommandShapes, CatalogAssumption DEF PublishContentItem, PublishItemCmd
<1>2. Published(row) \in ItemRow
  BY <1>1, ItemWrites DEF TypeInv, TypeOK
<1>3. Snapshot(i, row, Published(row), c.title) \subseteq VersionRow(Items)
  BY <1>1, <1>2, SnapshotType DEF ItemRow
<1>4. /\ items' = [items EXCEPT ![i] = Published(row)]
      /\ contentVersions' =
           contentVersions \cup Snapshot(i, row, Published(row), c.title)
      /\ UNCHANGED <<admins, tracks, modules, trackVersions, moduleVersions,
                     orderRevision, log>>
  BY DEF PublishContentItem
<1> HIDE DEF i, row
<1> QED BY <1>1, <1>2, <1>3, <1>4 DEF TypeInv, TypeOK, RowsTitled

\* Every command keeps the types, whether it is one of Commands or not.
LEMMA ExecuteType ==
  ASSUME TypeInv, NEW c \in Command, Execute(c)
  PROVE  TypeInv'
  BY CreateTrackType, EditTrackType, ChangeTrackStatusType, MoveTrackType,
     CreateModuleType, EditModuleType, ChangeModuleStatusType, MoveModuleType,
     CreateContentDraftType, PublishContentItemType DEF Execute

\* TypeInv is inductive.
LEMMA TypeInvInductive ==
  /\ Init => TypeInv
  /\ TypeInv /\ [Next]_vars => TypeInv'
<1>1. Init => TypeInv
  <2> SUFFICES ASSUME Init PROVE TypeInv
    OBVIOUS
  <2>1. /\ AbsentTrack \in TrackRow /\ ~Exists(AbsentTrack)
        /\ AbsentModule \in ModuleRow /\ AbsentModule.track \notin Tracks
        /\ AbsentItem \in ItemRow
    BY CatalogKeysAssumption DEF AbsentTrack, AbsentModule, AbsentItem, TrackRow,
       ModuleRow, ItemRow, Exists
  <2> QED BY <2>1 DEF Init, TypeInv, TypeOK, RowsTitled
<1>2. TypeInv /\ [Next]_vars => TypeInv'
  <2> SUFFICES ASSUME TypeInv, [Next]_vars PROVE TypeInv'
    OBVIOUS
  <2>1. ASSUME NEW c \in Commands, Execute(c) PROVE TypeInv'
    BY <2>1, ExecuteType, CatalogAssumption
  <2>2. ASSUME NEW a \in Accounts, ChangeContentRole(a) PROVE TypeInv'
    BY <2>2 DEF ChangeContentRole, TypeInv, TypeOK, RowsTitled
  <2>3. CASE UNCHANGED vars
    BY <2>3 DEF vars, TypeInv, TypeOK, RowsTitled
  <2> QED BY <2>1, <2>2, <2>3 DEF Next
<1> QED BY <1>1, <1>2

\* Every table holds well-typed rows in every reachable state, for all
\* constants.
THEOREM TypeCorrect == Spec => []TypeOK
<1>1. TypeInv => TypeOK
  BY DEF TypeInv
<1> QED BY <1>1, TypeInvInductive, PTL DEF Spec

-----------------------------------------------------------------------------
(* The last-active-module rule. ActiveTrackHasActiveModule is inductive     *)
(* relative to TypeInv.                                                     *)

\* A step that activates no track, and leaves every active module active and
\* in its track, cannot break the rule.
Quiet ==
  /\ \A t \in Tracks : tracks'[t].status = "ACTIVE" => tracks[t].status = "ACTIVE"
  /\ \A m \in Modules : modules[m].status = "ACTIVE" =>
       /\ modules'[m].status = "ACTIVE"
       /\ modules'[m].track = modules[m].track

LEMMA QuietKeepsRule ==
  ASSUME ActiveTrackHasActiveModule, Quiet
  PROVE  ActiveTrackHasActiveModule'
<1> SUFFICES ASSUME NEW t \in Tracks, tracks'[t].status = "ACTIVE"
             PROVE  ActiveModules(t)' # {}
  BY DEF ActiveTrackHasActiveModule
<1>1. PICK m \in Modules : modules[m].track = t /\ modules[m].status = "ACTIVE"
  BY DEF Quiet, ActiveTrackHasActiveModule, ActiveModules, ModulesOf
<1>2. modules'[m].track = t /\ modules'[m].status = "ACTIVE"
  BY <1>1 DEF Quiet
<1> QED BY <1>2 DEF ActiveModules, ModulesOf

LEMMA EditTrackQuiet ==
  ASSUME TypeInv, NEW c \in Command, EditTrack(c) PROVE Quiet
<1>1. c.track \in Tracks
  BY CommandShapes, CatalogAssumption DEF EditTrack, EditTrackCmd
<1>2. Edited(tracks[c.track], c.title).status = tracks[c.track].status
  BY <1>1 DEF Edited, TypeInv, TypeOK, TrackRow
<1>3. /\ \E after \in {Edited(tracks[c.track], c.title), tracks[c.track]} :
           tracks' = [tracks EXCEPT ![c.track] = after]
      /\ UNCHANGED modules
  BY DEF EditTrack
<1> QED BY <1>1, <1>2, <1>3 DEF Quiet, TypeInv, TypeOK

LEMMA EditModuleQuiet ==
  ASSUME TypeInv, NEW c \in Command, EditModule(c) PROVE Quiet
<1>1. c.module \in Modules
  BY CommandShapes, CatalogAssumption DEF EditModule, EditModuleCmd
<1>2. /\ Edited(modules[c.module], c.title).status = modules[c.module].status
      /\ Edited(modules[c.module], c.title).track = modules[c.module].track
  BY <1>1 DEF Edited, TypeInv, TypeOK, ModuleRow
<1>3. /\ \E after \in {Edited(modules[c.module], c.title), modules[c.module]} :
           modules' = [modules EXCEPT ![c.module] = after]
      /\ UNCHANGED tracks
  BY DEF EditModule
<1> QED BY <1>1, <1>2, <1>3 DEF Quiet, TypeInv, TypeOK

LEMMA CreateTrackQuiet ==
  ASSUME TypeInv, NEW c \in Command, CreateTrack(c) PROVE Quiet
<1>1. UNCHANGED modules
  BY DEF CreateTrack
<1>2. \/ \E t \in Tracks \ UsedTracks : \E p :
           tracks' = [tracks EXCEPT ![t] = NewTrack(c.title, p)]
      \/ UNCHANGED tracks
  BY DEF CreateTrack
<1> QED BY <1>1, <1>2 DEF Quiet, NewTrack, TypeInv, TypeOK

LEMMA CreateModuleQuiet ==
  ASSUME TypeInv, NEW c \in Command, CreateModule(c) PROVE Quiet
<1>1. c.track \in Tracks
  BY CommandShapes, CatalogAssumption DEF CreateModule, CreateModuleCmd
<1>2. \/ /\ \E m \in {k \in Modules : ~Exists(modules[k])} : \E p :
              modules' = [modules EXCEPT ![m] = NewModule(c.track, c.title, p)]
         /\ tracks' = [tracks EXCEPT ![c.track].moduleOrder = @ + 1]
      \/ UNCHANGED <<tracks, modules>>
  BY DEF CreateModule
<1>3. CASE UNCHANGED <<tracks, modules>>
  BY <1>3 DEF Quiet
<1>4. CASE /\ \E m \in {k \in Modules : ~Exists(modules[k])} : \E p :
                modules' = [modules EXCEPT ![m] = NewModule(c.track, c.title, p)]
           /\ tracks' = [tracks EXCEPT ![c.track].moduleOrder = @ + 1]
  <2>1. \A t \in Tracks : tracks'[t].status = tracks[t].status
    BY <1>1, <1>4 DEF TypeInv, TypeOK, TrackRow
  <2>2. \A m \in Modules : modules[m].status = "ACTIVE" =>
          modules'[m] = modules[m]
    BY <1>4 DEF Exists, TypeInv, TypeOK
  <2> QED BY <2>1, <2>2 DEF Quiet
<1> QED BY <1>2, <1>3, <1>4

LEMMA CreateContentDraftQuiet ==
  ASSUME TypeInv, NEW c \in Command, CreateContentDraft(c) PROVE Quiet
<1>1. c.module \in Modules
  BY CommandShapes, CatalogAssumption DEF CreateContentDraft, CreateDraftCmd
<1>2. /\ modules' = [modules EXCEPT ![c.module].revision = @ + 1]
      /\ UNCHANGED tracks
  BY DEF CreateContentDraft
<1> QED BY <1>1, <1>2 DEF Quiet, TypeInv, TypeOK, ModuleRow

\* A track is activated only while it has an active module.
LEMMA ChangeTrackStatusRule ==
  ASSUME TypeInv, ActiveTrackHasActiveModule, NEW c \in Command,
         ChangeTrackStatus(c)
  PROVE  ActiveTrackHasActiveModule'
<1> DEFINE t == c.track
           row == tracks[t]
           hasActive == ActiveModules(t) # {}
           result == TrackStatusDecision(c.actor \in admins, row, c, hasActive)
           changed == result = "SUCCESS" /\ row.status # c.target
           after == IF changed THEN WithStatus(row, c.target) ELSE row
<1>1. c \in TrackStatusCmd /\ t \in Tracks
  BY CommandShapes, CatalogAssumption DEF ChangeTrackStatus, TrackStatusCmd
<1>2. row \in TrackRow
  BY <1>1 DEF TypeInv, TypeOK
<1>3. result = "SUCCESS" =>
        c.target = row.status \/ c.target = "INACTIVE" \/ hasActive
  <2>1. /\ (c.actor \in admins) \in BOOLEAN /\ hasActive \in BOOLEAN
        /\ c.rev \in Int /\ c.pub \in BOOLEAN /\ row.revision \in Nat
    BY <1>1, <1>2 DEF TrackStatusCmd, TrackRow
  <2> HIDE DEF row, hasActive
  <2> QED BY <2>1, TrackStatusSuccess
<1>4. tracks' = [tracks EXCEPT ![t] = after] /\ UNCHANGED modules
  BY DEF ChangeTrackStatus
<1>5. changed => after.status = c.target
  BY <1>2 DEF WithStatus, TrackRow
<1>6. \A s : ActiveModules(s)' = ActiveModules(s)
  BY <1>4 DEF ActiveModules, ModulesOf
<1>7. after.status = "ACTIVE" => ActiveModules(t) # {}
  <2>1. CASE changed
    BY <2>1, <1>3, <1>5
  <2>2. CASE ~changed
    BY <2>2, <1>1 DEF ActiveTrackHasActiveModule
  <2> QED BY <2>1, <2>2
<1> HIDE DEF t, after
<1> QED BY <1>1, <1>4, <1>6, <1>7 DEF ActiveTrackHasActiveModule, TypeInv, TypeOK

\* The module that is deactivated leaves another active module behind.
LEMMA ChangeModuleStatusRule ==
  ASSUME TypeInv, ActiveTrackHasActiveModule, NEW c \in Command,
         ChangeModuleStatus(c)
  PROVE  ActiveTrackHasActiveModule'
<1> DEFINE m == c.module
           row == modules[m]
           owner == tracks[c.track]
           actives == ActiveModules(c.track)
           authorized == c.actor \in admins
           result == ModuleStatusDecision(authorized, row, owner, c, actives)
           changed == result = "SUCCESS" /\ row.status # c.target
           after == IF changed THEN WithStatus(row, c.target) ELSE row
<1>1. c \in ModuleStatusCmd /\ m \in Modules /\ c.track \in Tracks
  BY CommandShapes, CatalogAssumption DEF ChangeModuleStatus, ModuleStatusCmd
<1>2. row \in ModuleRow
  BY <1>1 DEF TypeInv, TypeOK
<1>3. result = "SUCCESS" =>
        /\ row.track = c.track
        /\ c.target = row.status \/ c.target = "ACTIVE"
             \/ ~IsLastActive(owner, actives)
  <2>1. /\ authorized \in BOOLEAN /\ c \in Command
        /\ c.rev \in Int /\ c.pub \in BOOLEAN /\ row.revision \in Nat
    BY <1>1, <1>2 DEF ModuleStatusCmd, ModuleRow
  <2> HIDE DEF authorized, row, owner, actives
  <2>2. result = "SUCCESS" => row.track = c.track
    BY SMTT(40), <2>1, ModuleStatusSuccess
  <2>3. result = "SUCCESS" => \/ c.target = row.status
                              \/ c.target = "ACTIVE"
                              \/ ~IsLastActive(owner, actives)
    BY <2>1, ModuleStatusSuccess
  <2> QED BY <2>2, <2>3
<1>4. modules' = [modules EXCEPT ![m] = after] /\ UNCHANGED tracks
  BY DEF ChangeModuleStatus
<1>5. /\ changed => after.status = c.target
      /\ after.track = row.track
  BY <1>2 DEF WithStatus, ModuleRow
<1> SUFFICES ASSUME NEW t \in Tracks, tracks[t].status = "ACTIVE"
             PROVE  ActiveModules(t)' # {}
  BY <1>4 DEF ActiveTrackHasActiveModule
<1>6. \A k \in ActiveModules(t) \ {m} : k \in ActiveModules(t)'
  BY <1>1, <1>4 DEF ActiveModules, ModulesOf, TypeInv, TypeOK
<1>7. ActiveModules(t) # {}
  BY DEF ActiveTrackHasActiveModule
<1>8. CASE m \notin ActiveModules(t)
  BY <1>6, <1>7, <1>8
<1>9. CASE m \in ActiveModules(t)
  <2>1. row.track = t /\ row.status = "ACTIVE"
    BY <1>9 DEF ActiveModules, ModulesOf
  <2>2. CASE after.status = "ACTIVE"
    BY <2>1, <2>2, <1>1, <1>4, <1>5 DEF ActiveModules, ModulesOf, TypeInv, TypeOK
  <2>3. CASE after.status # "ACTIVE"
    <3>1. changed /\ c.track = t /\ ~IsLastActive(owner, actives)
      BY <2>1, <2>3, <1>3, <1>5
    <3>2. Cardinality(ActiveModules(t)) # 1
      BY <3>1 DEF IsLastActive
    <3>3. ActiveModules(t) # {m}
      BY <3>2, FS_Singleton
    <3> QED BY <3>3, <1>6, <1>9
  <2> QED BY <2>2, <2>3
<1> QED BY <1>8, <1>9

LEMMA ExecuteKeepsRule ==
  ASSUME TypeInv, ActiveTrackHasActiveModule, NEW c \in Command, Execute(c)
  PROVE  ActiveTrackHasActiveModule'
<1>1. CASE CreateTrack(c)
  BY <1>1, CreateTrackQuiet, QuietKeepsRule
<1>2. CASE EditTrack(c)
  BY <1>2, EditTrackQuiet, QuietKeepsRule
<1>3. CASE ChangeTrackStatus(c)
  BY <1>3, ChangeTrackStatusRule
<1>4. CASE MoveTrack(c)
  <2>1. Quiet
    BY <1>4, MoveTrackRows DEF MoveTrack, Quiet
  <2> QED BY <2>1, QuietKeepsRule
<1>5. CASE CreateModule(c)
  BY <1>5, CreateModuleQuiet, QuietKeepsRule
<1>6. CASE EditModule(c)
  BY <1>6, EditModuleQuiet, QuietKeepsRule
<1>7. CASE ChangeModuleStatus(c)
  BY <1>7, ChangeModuleStatusRule
<1>8. CASE MoveModule(c)
  <2>1. Quiet
    BY <1>8, MoveModuleRows DEF Quiet
  <2> QED BY <2>1, QuietKeepsRule
<1>9. CASE CreateContentDraft(c)
  BY <1>9, CreateContentDraftQuiet, QuietKeepsRule
<1>10. CASE PublishContentItem(c)
  BY <1>10, QuietKeepsRule DEF PublishContentItem, Quiet
<1> QED BY <1>1, <1>2, <1>3, <1>4, <1>5, <1>6, <1>7, <1>8, <1>9,
           <1>10 DEF Execute

\* The rule holds in every reachable state: no order of status changes,
\* creations, edits and moves leaves an active track without an active module.
THEOREM LastActiveModuleKept == Spec => []ActiveTrackHasActiveModule
<1>1. Init => ActiveTrackHasActiveModule
  BY DEF Init, AbsentTrack, ActiveTrackHasActiveModule
<1>2. TypeInv /\ ActiveTrackHasActiveModule /\ [Next]_vars
        => ActiveTrackHasActiveModule'
  <2> SUFFICES ASSUME TypeInv, ActiveTrackHasActiveModule, [Next]_vars
               PROVE  ActiveTrackHasActiveModule'
    OBVIOUS
  <2>1. ASSUME NEW c \in Commands, Execute(c)
        PROVE  ActiveTrackHasActiveModule'
    BY <2>1, ExecuteKeepsRule, CatalogAssumption
  <2>2. ASSUME NEW a \in Accounts, ChangeContentRole(a)
        PROVE  ActiveTrackHasActiveModule'
    BY <2>2, QuietKeepsRule DEF ChangeContentRole, Quiet
  <2>3. CASE UNCHANGED vars
    BY <2>3, QuietKeepsRule DEF vars, Quiet
  <2> QED BY <2>1, <2>2, <2>3 DEF Next
<1> QED BY <1>1, <1>2, TypeInvInductive, PTL DEF Spec

-----------------------------------------------------------------------------
(* The published history. HistoryNumbered is inductive relative to TypeInv,  *)
(* and it is what makes a new version's number greater than every earlier   *)
(* one. First, what a step does to the rows and versions of one kind of     *)
(* entity.                                                                  *)

\* A row either keeps its published version and gets no snapshot, or advances
\* it by one and gets exactly the snapshot of that number.
Advances(old, new, oldV, newV) ==
  /\ DOMAIN new = DOMAIN old
  /\ oldV \subseteq newV
  /\ \A v \in newV : v.of \in DOMAIN old
  /\ \A k \in DOMAIN old :
       \/ /\ new[k].published = old[k].published
          /\ \A v \in newV \ oldV : v.of # k
       \/ /\ new[k].published = old[k].published + 1
          /\ \E v \in newV : v.of = k /\ v.number = new[k].published
          /\ \A v, w \in newV \ oldV : v.of = k /\ w.of = k =>
               v = w /\ v.number = new[k].published

LEMMA AdvancesKeepsNumbering ==
  ASSUME NEW old, NEW new, NEW oldV, NEW newV,
         \A k \in DOMAIN old : old[k].published \in Nat,
         Numbered(old, oldV), Advances(old, new, oldV, newV)
  PROVE  Numbered(new, newV) /\ Appends(oldV, newV)
<1>1. \A v \in oldV : v.of \in DOMAIN old /\ v.number \in 1..old[v.of].published
  BY DEF Numbered, Advances
<1>2. \A v \in newV \ oldV : /\ v.of \in DOMAIN old
                             /\ v.number = new[v.of].published
                             /\ new[v.of].published = old[v.of].published + 1
  BY DEF Advances
<1>3. \A v \in newV : v.number \in 1..new[v.of].published
  <2> TAKE v \in newV
  <2>1. CASE v \in oldV
    <3>1. /\ v.of \in DOMAIN old /\ v.number \in 1..old[v.of].published
          /\ \/ new[v.of].published = old[v.of].published
             \/ new[v.of].published = old[v.of].published + 1
      BY <2>1, <1>1 DEF Advances
    <3> QED BY <3>1
  <2>2. CASE v \notin oldV
    BY <2>2, <1>2
  <2> QED BY <2>1, <2>2
<1>4. \A v \in newV \ oldV : \A w \in oldV :
        w.of = v.of => w.number < v.number
  BY <1>1, <1>2
<1>5. \A v, w \in newV : v.of = w.of /\ v.number = w.number => v = w
  <2> TAKE v, w \in newV
  <2> HAVE v.of = w.of /\ v.number = w.number
  <2>1. CASE v \in oldV /\ w \in oldV
    BY <2>1 DEF Numbered
  <2>2. CASE v \notin oldV /\ w \notin oldV
    BY <2>2, <1>2 DEF Advances
  <2>3. CASE v \in oldV /\ w \notin oldV
    BY <2>3, <1>1, <1>2
  <2>4. CASE v \notin oldV /\ w \in oldV
    BY <2>4, <1>1, <1>2
  <2> QED BY <2>1, <2>2, <2>3, <2>4
<1>6. \A k \in DOMAIN new : \A n \in 1..new[k].published :
        \E v \in newV : v.of = k /\ v.number = n
  <2> TAKE k \in DOMAIN new
  <2>1. k \in DOMAIN old /\ oldV \subseteq newV
    BY DEF Advances
  <2>2. CASE new[k].published = old[k].published
    BY <2>1, <2>2 DEF Numbered
  <2>3. CASE /\ new[k].published = old[k].published + 1
             /\ \E v \in newV : v.of = k /\ v.number = new[k].published
    <3> TAKE n \in 1..new[k].published
    <3>1. n = new[k].published \/ n \in 1..old[k].published
      BY <2>1, <2>3
    <3> QED BY <3>1, <2>1, <2>3 DEF Numbered
  <2> QED BY <2>1, <2>2, <2>3 DEF Advances
<1> QED BY <1>3, <1>4, <1>5, <1>6 DEF Numbered, Appends, Advances

\* The pattern of every publishing command: one row written, with its snapshot.
LEMMA WriteAdvances ==
  ASSUME NEW keys, NEW rowType, NEW old \in [keys -> rowType], NEW k \in keys,
         NEW after, NEW title, NEW oldV, \A v \in oldV : v.of \in keys,
         old[k].published \in Nat,
         after.published \in {old[k].published, old[k].published + 1}
  PROVE  Advances(old, [old EXCEPT ![k] = after], oldV,
                  oldV \cup Snapshot(k, old[k], after, title))
<1> DEFINE new == [old EXCEPT ![k] = after]
           shot == Snapshot(k, old[k], after, title)
           newV == oldV \cup shot
<1>1. \A v \in shot : v.of = k /\ v.number = after.published
  BY DEF Snapshot
<1>2. \A v, w \in shot : v = w
  BY DEF Snapshot
<1>3. after.published = old[k].published => shot = {}
  BY DEF Snapshot
<1>4. after.published # old[k].published =>
        \E v \in shot : v.of = k /\ v.number = after.published
  BY DEF Snapshot
<1>5. new[k] = after /\ \A j \in keys \ {k} : new[j] = old[j]
  OBVIOUS
<1>6. DOMAIN new = keys /\ DOMAIN old = keys
  OBVIOUS
<1> HIDE DEF new, shot
<1> QED BY <1>1, <1>2, <1>3, <1>4, <1>5, <1>6 DEF Advances, new, shot

\* Rows that keep their published version advance nothing.
LEMMA KeepAdvances ==
  ASSUME NEW old, NEW new, NEW oldV, DOMAIN new = DOMAIN old,
         \A v \in oldV : v.of \in DOMAIN old,
         \A k \in DOMAIN old : new[k].published = old[k].published
  PROVE  Advances(old, new, oldV, oldV)
  BY DEF Advances

\* A row that is active after the step shows what it showed before, or a
\* snapshot that is in the table now.
ShowsPublished(old, new, newV) ==
  \A k \in DOMAIN old : new[k].status = "ACTIVE" =>
    \/ /\ old[k].status = "ACTIVE"
       /\ new[k].title = old[k].title /\ new[k].published = old[k].published
    \/ [of |-> k, number |-> new[k].published, title |-> new[k].title] \in newV

LEMMA WriteShowsPublished ==
  ASSUME NEW keys, NEW rowType, NEW old \in [keys -> rowType], NEW k \in keys,
         NEW after, NEW title, NEW oldV,
         after.status = "ACTIVE" =>
           \/ /\ old[k].status = "ACTIVE"
              /\ after.title = old[k].title
              /\ after.published = old[k].published
           \/ after.published # old[k].published /\ after.title = title
  PROVE  ShowsPublished(old, [old EXCEPT ![k] = after],
                        oldV \cup Snapshot(k, old[k], after, title))
<1> DEFINE new == [old EXCEPT ![k] = after]
           shot == Snapshot(k, old[k], after, title)
<1>1. after.published # old[k].published =>
        [of |-> k, number |-> after.published, title |-> title] \in shot
  BY DEF Snapshot
<1>2. new[k] = after /\ \A j \in keys \ {k} : new[j] = old[j]
  OBVIOUS
<1>3. DOMAIN old = keys
  OBVIOUS
<1> HIDE DEF new, shot
<1> QED BY <1>1, <1>2, <1>3 DEF ShowsPublished, new, shot

\* The items: a published one has the snapshot of its current version.
ItemsShowPublished ==
  \A i \in Items : items'[i].status = "PUBLISHED" =>
    \/ /\ items[i].status = "PUBLISHED"
       /\ items'[i].published = items[i].published
    \/ \E v \in contentVersions' :
         v.of = i /\ v.number = items'[i].published

\* A row that does not exist after the step did not exist before.
StaysUnwritten(old, new) ==
  \A k \in DOMAIN old : new[k].status = "ABSENT" =>
    old[k].status = "ABSENT" /\ new[k].published = old[k].published

HistoryStep ==
  /\ Advances(tracks, tracks', trackVersions, trackVersions')
  /\ Advances(modules, modules', moduleVersions, moduleVersions')
  /\ Advances(items, items', contentVersions, contentVersions')
  /\ ShowsPublished(tracks, tracks', trackVersions')
  /\ ShowsPublished(modules, modules', moduleVersions')
  /\ ItemsShowPublished
  /\ StaysUnwritten(tracks, tracks')
  /\ StaysUnwritten(modules, modules')
  /\ StaysUnwritten(items, items')

\* A row that no command wrote yet has no published version: a new row
\* therefore starts its numbering at zero.
Unwritten(rows) ==
  \A k \in DOMAIN rows : rows[k].status = "ABSENT" => rows[k].published = 0

HistoryInv ==
  /\ TypeInv
  /\ Unwritten(tracks) /\ Unwritten(modules) /\ Unwritten(items)

\* Tables whose rows keep status, title and published version.
KeepsShown(old, new) ==
  /\ DOMAIN new = DOMAIN old
  /\ \A k \in DOMAIN old :
       /\ new[k].published = old[k].published
       /\ new[k].status = "ACTIVE" =>
            old[k].status = "ACTIVE" /\ new[k].title = old[k].title
       /\ new[k].status = "ABSENT" => old[k].status = "ABSENT"

LEMMA QuietTracks ==
  ASSUME TypeInv, KeepsShown(tracks, tracks'), UNCHANGED trackVersions
  PROVE  /\ Advances(tracks, tracks', trackVersions, trackVersions')
         /\ ShowsPublished(tracks, tracks', trackVersions')
         /\ StaysUnwritten(tracks, tracks')
<1>1. \A v \in trackVersions : v.of \in DOMAIN tracks
  BY DEF TypeInv, TypeOK, VersionRow
<1> QED BY <1>1 DEF KeepsShown, Advances, ShowsPublished, StaysUnwritten

LEMMA QuietModules ==
  ASSUME TypeInv, KeepsShown(modules, modules'), UNCHANGED moduleVersions
  PROVE  /\ Advances(modules, modules', moduleVersions, moduleVersions')
         /\ ShowsPublished(modules, modules', moduleVersions')
         /\ StaysUnwritten(modules, modules')
<1>1. \A v \in moduleVersions : v.of \in DOMAIN modules
  BY DEF TypeInv, TypeOK, VersionRow
<1> QED BY <1>1 DEF KeepsShown, Advances, ShowsPublished, StaysUnwritten

LEMMA QuietItems ==
  ASSUME TypeInv, UNCHANGED <<items, contentVersions>>
  PROVE  /\ Advances(items, items', contentVersions, contentVersions')
         /\ ItemsShowPublished
         /\ StaysUnwritten(items, items')
<1>1. \A v \in contentVersions : v.of \in DOMAIN items
  BY DEF TypeInv, TypeOK, VersionRow
<1> QED BY <1>1 DEF Advances, ItemsShowPublished, StaysUnwritten

\* The fields of an edited row and of a row with a new status.
LEMMA TrackFields ==
  ASSUME NEW row \in TrackRow, NEW x
  PROVE  /\ row.published \in Nat
         /\ Edited(row, x).status = row.status
         /\ Edited(row, x).title = x
         /\ Edited(row, x).published =
              IF row.status = "ACTIVE" THEN row.published + 1 ELSE row.published
         /\ WithStatus(row, x).status = x
         /\ WithStatus(row, x).title = row.title
         /\ WithStatus(row, x).published =
              IF x = "ACTIVE" THEN row.published + 1 ELSE row.published
  BY DEF Edited, WithStatus, TrackRow

LEMMA ModuleFields ==
  ASSUME NEW row \in ModuleRow, NEW x
  PROVE  /\ row.published \in Nat
         /\ Edited(row, x).status = row.status
         /\ Edited(row, x).title = x
         /\ Edited(row, x).published =
              IF row.status = "ACTIVE" THEN row.published + 1 ELSE row.published
         /\ WithStatus(row, x).status = x
         /\ WithStatus(row, x).title = row.title
         /\ WithStatus(row, x).published =
              IF x = "ACTIVE" THEN row.published + 1 ELSE row.published
  BY DEF Edited, WithStatus, ModuleRow

-----------------------------------------------------------------------------
(* Every step of Catalog is a history step. *)

LEMMA CreateTrackHistory ==
  ASSUME HistoryInv, NEW c \in Command, CreateTrack(c) PROVE HistoryStep
<1>1. UNCHANGED <<modules, items, trackVersions, moduleVersions,
                  contentVersions>>
  BY DEF CreateTrack
<1>2. \/ \E t \in Tracks \ UsedTracks : \E p :
           tracks' = [tracks EXCEPT ![t] = NewTrack(c.title, p)]
      \/ UNCHANGED tracks
  BY DEF CreateTrack
<1>3. KeepsShown(modules, modules') /\ TypeInv
  BY <1>1 DEF KeepsShown, HistoryInv
<1>4. KeepsShown(tracks, tracks')
  BY <1>2 DEF KeepsShown, NewTrack, HistoryInv, Unwritten, UsedTracks, Exists
<1> QED BY <1>1, <1>3, <1>4, QuietTracks, QuietModules, QuietItems
        DEF HistoryStep

LEMMA EditTrackHistory ==
  ASSUME HistoryInv, NEW c \in Command, EditTrack(c) PROVE HistoryStep
<1> DEFINE t == c.track
           row == tracks[t]
<1>1. c \in EditTrackCmd /\ t \in Tracks
  BY CommandShapes, CatalogAssumption DEF EditTrack, EditTrackCmd
<1>2. /\ row \in TrackRow /\ tracks \in [Tracks -> TrackRow]
      /\ \A v \in trackVersions : v.of \in Tracks
  BY <1>1 DEF HistoryInv, TypeInv, TypeOK, VersionRow
<1>3. PICK after \in {Edited(row, c.title), row} :
        /\ tracks' = [tracks EXCEPT ![t] = after]
        /\ trackVersions' = trackVersions \cup Snapshot(t, row, after, c.title)
        /\ UNCHANGED <<modules, items, moduleVersions, contentVersions>>
  BY DEF EditTrack
<1>4. /\ row.published \in Nat
      /\ after.published \in {row.published, row.published + 1}
      /\ after.status = "ACTIVE" =>
           \/ /\ row.status = "ACTIVE" /\ after.title = row.title
              /\ after.published = row.published
           \/ after.published # row.published /\ after.title = c.title
      /\ after.status = "ABSENT" =>
           row.status = "ABSENT" /\ after.published = row.published
  BY <1>2, <1>3, TrackFields
<1> HIDE DEF t
<1>5. /\ Advances(tracks, tracks', trackVersions, trackVersions')
      /\ ShowsPublished(tracks, tracks', trackVersions')
  BY <1>1, <1>2, <1>3, <1>4, WriteAdvances, WriteShowsPublished
<1>6. StaysUnwritten(tracks, tracks')
  BY <1>1, <1>2, <1>3, <1>4 DEF StaysUnwritten
<1>7. TypeInv /\ KeepsShown(modules, modules')
  BY <1>3 DEF KeepsShown, HistoryInv
<1> QED BY <1>3, <1>5, <1>6, <1>7, QuietModules, QuietItems DEF HistoryStep

LEMMA ChangeTrackStatusHistory ==
  ASSUME HistoryInv, NEW c \in Command, ChangeTrackStatus(c) PROVE HistoryStep
<1> DEFINE t == c.track
           row == tracks[t]
<1>1. /\ t \in Tracks
      /\ c.target # "ABSENT"
  BY CommandShapes, CatalogAssumption DEF ChangeTrackStatus, TrackStatusCmd, Status
<1>2. /\ row \in TrackRow /\ tracks \in [Tracks -> TrackRow]
      /\ \A v \in trackVersions : v.of \in Tracks
  BY <1>1 DEF HistoryInv, TypeInv, TypeOK, VersionRow
<1>3. PICK after \in {WithStatus(row, c.target), row} :
        /\ tracks' = [tracks EXCEPT ![t] = after]
        /\ trackVersions' = trackVersions \cup Snapshot(t, row, after, row.title)
        /\ UNCHANGED <<modules, items, moduleVersions, contentVersions>>
  BY DEF ChangeTrackStatus
<1>4. /\ row.published \in Nat
      /\ after.published \in {row.published, row.published + 1}
      /\ after.status = "ACTIVE" =>
           \/ /\ row.status = "ACTIVE" /\ after.title = row.title
              /\ after.published = row.published
           \/ after.published # row.published /\ after.title = row.title
      /\ after.status = "ABSENT" =>
           row.status = "ABSENT" /\ after.published = row.published
  BY <1>1, <1>2, <1>3, TrackFields
<1> HIDE DEF t
<1>5. /\ Advances(tracks, tracks', trackVersions, trackVersions')
      /\ ShowsPublished(tracks, tracks', trackVersions')
  BY <1>1, <1>2, <1>3, <1>4, WriteAdvances, WriteShowsPublished
<1>6. StaysUnwritten(tracks, tracks')
  BY <1>1, <1>2, <1>3, <1>4 DEF StaysUnwritten
<1>7. TypeInv /\ KeepsShown(modules, modules')
  BY <1>3 DEF KeepsShown, HistoryInv
<1> QED BY <1>3, <1>5, <1>6, <1>7, QuietModules, QuietItems DEF HistoryStep

LEMMA MoveTrackHistory ==
  ASSUME HistoryInv, NEW c \in Command, MoveTrack(c) PROVE HistoryStep
<1>1. UNCHANGED <<modules, items, trackVersions, moduleVersions,
                  contentVersions>>
  BY DEF MoveTrack
<1>2. TypeInv /\ KeepsShown(tracks, tracks') /\ KeepsShown(modules, modules')
  BY <1>1, MoveTrackRows DEF KeepsShown, HistoryInv, TypeInv, TypeOK
<1> QED BY <1>1, <1>2, QuietTracks, QuietModules, QuietItems DEF HistoryStep

LEMMA CreateModuleHistory ==
  ASSUME HistoryInv, NEW c \in Command, CreateModule(c) PROVE HistoryStep
<1>1. /\ c.track \in Tracks
      /\ UNCHANGED <<items, trackVersions, moduleVersions, contentVersions>>
  BY CommandShapes, CatalogAssumption DEF CreateModule, CreateModuleCmd
<1>2. \/ /\ \E m \in {k \in Modules : ~Exists(modules[k])} : \E p :
              modules' = [modules EXCEPT ![m] = NewModule(c.track, c.title, p)]
         /\ tracks' = [tracks EXCEPT ![c.track].moduleOrder = @ + 1]
      \/ UNCHANGED <<tracks, modules>>
  BY DEF CreateModule
<1>3. KeepsShown(modules, modules')
  BY <1>2 DEF KeepsShown, NewModule, HistoryInv, Unwritten, Exists
<1>4. TypeInv /\ KeepsShown(tracks, tracks')
  BY <1>1, <1>2 DEF KeepsShown, HistoryInv, TypeInv, TypeOK, TrackRow
<1> QED BY <1>1, <1>3, <1>4, QuietTracks, QuietModules, QuietItems
        DEF HistoryStep

LEMMA EditModuleHistory ==
  ASSUME HistoryInv, NEW c \in Command, EditModule(c) PROVE HistoryStep
<1> DEFINE m == c.module
           row == modules[m]
<1>1. m \in Modules
  BY CommandShapes, CatalogAssumption DEF EditModule, EditModuleCmd
<1>2. /\ row \in ModuleRow /\ modules \in [Modules -> ModuleRow]
      /\ \A v \in moduleVersions : v.of \in Modules
  BY <1>1 DEF HistoryInv, TypeInv, TypeOK, VersionRow
<1>3. PICK after \in {Edited(row, c.title), row} :
        /\ modules' = [modules EXCEPT ![m] = after]
        /\ moduleVersions' =
             moduleVersions \cup Snapshot(m, row, after, c.title)
        /\ UNCHANGED <<tracks, items, trackVersions, contentVersions>>
  BY DEF EditModule
<1>4. /\ row.published \in Nat
      /\ after.published \in {row.published, row.published + 1}
      /\ after.status = "ACTIVE" =>
           \/ /\ row.status = "ACTIVE" /\ after.title = row.title
              /\ after.published = row.published
           \/ after.published # row.published /\ after.title = c.title
      /\ after.status = "ABSENT" =>
           row.status = "ABSENT" /\ after.published = row.published
  BY <1>2, <1>3, ModuleFields
<1> HIDE DEF m
<1>5. /\ Advances(modules, modules', moduleVersions, moduleVersions')
      /\ ShowsPublished(modules, modules', moduleVersions')
  BY <1>1, <1>2, <1>3, <1>4, WriteAdvances, WriteShowsPublished
<1>6. StaysUnwritten(modules, modules')
  BY <1>1, <1>2, <1>3, <1>4 DEF StaysUnwritten
<1>7. TypeInv /\ KeepsShown(tracks, tracks')
  BY <1>3 DEF KeepsShown, HistoryInv
<1> QED BY <1>3, <1>5, <1>6, <1>7, QuietTracks, QuietItems DEF HistoryStep

LEMMA ChangeModuleStatusHistory ==
  ASSUME HistoryInv, NEW c \in Command, ChangeModuleStatus(c) PROVE HistoryStep
<1> DEFINE m == c.module
           row == modules[m]
<1>1. m \in Modules /\ c.target # "ABSENT"
  BY CommandShapes, CatalogAssumption DEF ChangeModuleStatus, ModuleStatusCmd,
     Status
<1>2. /\ row \in ModuleRow /\ modules \in [Modules -> ModuleRow]
      /\ \A v \in moduleVersions : v.of \in Modules
  BY <1>1 DEF HistoryInv, TypeInv, TypeOK, VersionRow
<1>3. PICK after \in {WithStatus(row, c.target), row} :
        /\ modules' = [modules EXCEPT ![m] = after]
        /\ moduleVersions' =
             moduleVersions \cup Snapshot(m, row, after, row.title)
        /\ UNCHANGED <<tracks, items, trackVersions, contentVersions>>
  BY DEF ChangeModuleStatus
<1>4. /\ row.published \in Nat
      /\ after.published \in {row.published, row.published + 1}
      /\ after.status = "ACTIVE" =>
           \/ /\ row.status = "ACTIVE" /\ after.title = row.title
              /\ after.published = row.published
           \/ after.published # row.published /\ after.title = row.title
      /\ after.status = "ABSENT" =>
           row.status = "ABSENT" /\ after.published = row.published
  BY <1>1, <1>2, <1>3, ModuleFields
<1> HIDE DEF m
<1>5. /\ Advances(modules, modules', moduleVersions, moduleVersions')
      /\ ShowsPublished(modules, modules', moduleVersions')
  BY <1>1, <1>2, <1>3, <1>4, WriteAdvances, WriteShowsPublished
<1>6. StaysUnwritten(modules, modules')
  BY <1>1, <1>2, <1>3, <1>4 DEF StaysUnwritten
<1>7. TypeInv /\ KeepsShown(tracks, tracks')
  BY <1>3 DEF KeepsShown, HistoryInv
<1> QED BY <1>3, <1>5, <1>6, <1>7, QuietTracks, QuietItems DEF HistoryStep

LEMMA MoveModuleHistory ==
  ASSUME HistoryInv, NEW c \in Command, MoveModule(c) PROVE HistoryStep
<1>1. UNCHANGED <<items, trackVersions, moduleVersions, contentVersions>>
  BY DEF MoveModule
<1>2. TypeInv /\ KeepsShown(tracks, tracks') /\ KeepsShown(modules, modules')
  BY MoveModuleRows DEF KeepsShown, HistoryInv, TypeInv, TypeOK
<1> QED BY <1>1, <1>2, QuietTracks, QuietModules, QuietItems DEF HistoryStep

LEMMA CreateContentDraftHistory ==
  ASSUME HistoryInv, NEW c \in Command, CreateContentDraft(c) PROVE HistoryStep
<1>1. /\ c.module \in Modules
      /\ modules' = [modules EXCEPT ![c.module].revision = @ + 1]
      /\ UNCHANGED <<tracks, trackVersions, moduleVersions, contentVersions>>
  BY CommandShapes, CatalogAssumption DEF CreateContentDraft, CreateDraftCmd
<1>2. \E i \in {k \in Items : ~Exists(items[k])} : \E p :
        items' = [items EXCEPT ![i] = NewItem(c.module, p)]
  BY DEF CreateContentDraft
<1>3. /\ TypeInv /\ KeepsShown(tracks, tracks')
      /\ KeepsShown(modules, modules')
  BY <1>1 DEF KeepsShown, HistoryInv, TypeInv, TypeOK, ModuleRow
<1>4. /\ Advances(items, items', contentVersions, contentVersions')
      /\ ItemsShowPublished
      /\ StaysUnwritten(items, items')
  <2>1. \A v \in contentVersions : v.of \in DOMAIN items
    BY DEF HistoryInv, TypeInv, TypeOK, VersionRow
  <2>2. \A i \in Items :
          /\ items'[i].published = items[i].published
          /\ items'[i].status = "PUBLISHED" => items[i].status = "PUBLISHED"
          /\ items'[i].status = "ABSENT" => items[i].status = "ABSENT"
    BY <1>2 DEF NewItem, HistoryInv, Unwritten, Exists, TypeInv, TypeOK
  <2>3. DOMAIN items = Items /\ DOMAIN items' = Items
    BY <1>2 DEF HistoryInv, TypeInv, TypeOK
  <2>4. contentVersions' = contentVersions
    BY <1>1
  <2>5. Advances(items, items', contentVersions, contentVersions')
    BY <2>1, <2>2, <2>3, <2>4 DEF Advances
  <2>6. ItemsShowPublished
    BY <2>2 DEF ItemsShowPublished
  <2>7. StaysUnwritten(items, items')
    BY <2>2, <2>3 DEF StaysUnwritten
  <2> QED BY <2>5, <2>6, <2>7
<1> QED BY <1>1, <1>3, <1>4, QuietTracks, QuietModules DEF HistoryStep

LEMMA PublishContentItemHistory ==
  ASSUME HistoryInv, NEW c \in Command, PublishContentItem(c) PROVE HistoryStep
<1> DEFINE i == c.item
           row == items[i]
           after == Published(row)
<1>1. i \in Items
  BY CommandShapes, CatalogAssumption DEF PublishContentItem, PublishItemCmd
<1>2. /\ row \in ItemRow /\ items \in [Items -> ItemRow]
      /\ \A v \in contentVersions : v.of \in Items
  BY <1>1 DEF HistoryInv, TypeInv, TypeOK, VersionRow
<1>3. /\ items' = [items EXCEPT ![i] = after]
      /\ contentVersions' =
           contentVersions \cup Snapshot(i, row, after, c.title)
      /\ UNCHANGED <<tracks, modules, trackVersions, moduleVersions>>
  BY DEF PublishContentItem
<1>4. /\ row.published \in Nat
      /\ after.published = row.published + 1
      /\ after.status = "PUBLISHED"
  BY <1>2 DEF Published, ItemRow
<1> HIDE DEF i, after
<1>5. Advances(items, items', contentVersions, contentVersions')
  BY <1>1, <1>2, <1>3, <1>4, WriteAdvances
<1>6. StaysUnwritten(items, items')
  BY <1>1, <1>2, <1>3, <1>4 DEF StaysUnwritten
<1>7. ItemsShowPublished
  <2>1. \E v \in contentVersions' : v.of = i /\ v.number = after.published
    <3> DEFINE v == [of |-> i, number |-> after.published, title |-> c.title]
    <3>1. v \in contentVersions'
      BY <1>3, <1>4 DEF Snapshot
    <3> QED BY <3>1
  <2> QED BY <1>1, <1>2, <1>3, <2>1 DEF ItemsShowPublished
<1>8. /\ TypeInv /\ KeepsShown(tracks, tracks')
      /\ KeepsShown(modules, modules')
  BY <1>3 DEF KeepsShown, HistoryInv
<1> QED BY <1>3, <1>5, <1>6, <1>7, <1>8, QuietTracks, QuietModules
        DEF HistoryStep

LEMMA ExecuteIsAHistoryStep ==
  ASSUME HistoryInv, NEW c \in Command, Execute(c) PROVE HistoryStep
  BY CreateTrackHistory, EditTrackHistory, ChangeTrackStatusHistory,
     MoveTrackHistory, CreateModuleHistory, EditModuleHistory,
     ChangeModuleStatusHistory, MoveModuleHistory, CreateContentDraftHistory,
     PublishContentItemHistory DEF Execute

LEMMA EveryStepIsAHistoryStep ==
  ASSUME HistoryInv, [Next]_vars PROVE HistoryStep
<1>1. ASSUME NEW c \in Commands, Execute(c) PROVE HistoryStep
  BY <1>1, ExecuteIsAHistoryStep, CatalogAssumption
<1>2. ASSUME UNCHANGED <<tracks, modules, items, trackVersions,
                         moduleVersions, contentVersions>>
      PROVE  HistoryStep
  <2>1. /\ TypeInv /\ KeepsShown(tracks, tracks')
        /\ KeepsShown(modules, modules')
    BY <1>2 DEF KeepsShown, HistoryInv
  <2> QED BY <1>2, <2>1, QuietTracks, QuietModules, QuietItems DEF HistoryStep
<1>3. ASSUME NEW a \in Accounts, ChangeContentRole(a) PROVE HistoryStep
  BY <1>2, <1>3 DEF ChangeContentRole
<1>4. CASE UNCHANGED vars
  BY <1>2, <1>4 DEF vars
<1> QED BY <1>1, <1>3, <1>4 DEF Next

-----------------------------------------------------------------------------
(* The theorems *)

LEMMA HistoryInvInductive ==
  /\ Init => HistoryInv
  /\ HistoryInv /\ [Next]_vars => HistoryInv'
<1>1. Init => Unwritten(tracks) /\ Unwritten(modules) /\ Unwritten(items)
  BY DEF Init, Unwritten, AbsentTrack, AbsentModule, AbsentItem
<1>2. ASSUME HistoryInv, [Next]_vars PROVE HistoryInv'
  <2>1. HistoryStep
    BY <1>2, EveryStepIsAHistoryStep
  <2>2. TypeInv'
    BY <1>2, TypeInvInductive DEF HistoryInv
  <2> QED BY <1>2, <2>1, <2>2
          DEF HistoryInv, HistoryStep, Unwritten, StaysUnwritten, Advances
<1> QED BY <1>1, <1>2, TypeInvInductive DEF HistoryInv

LEMMA HistoryNumberedStep ==
  ASSUME HistoryInv, HistoryNumbered, [Next]_vars
  PROVE  /\ HistoryNumbered'
         /\ Appends(trackVersions, trackVersions')
         /\ Appends(moduleVersions, moduleVersions')
         /\ Appends(contentVersions, contentVersions')
<1>1. HistoryStep
  BY EveryStepIsAHistoryStep
<1>2. /\ \A k \in DOMAIN tracks : tracks[k].published \in Nat
      /\ \A k \in DOMAIN modules : modules[k].published \in Nat
      /\ \A k \in DOMAIN items : items[k].published \in Nat
  BY DEF HistoryInv, TypeInv, TypeOK, TrackRow, ModuleRow, ItemRow
<1> QED BY <1>1, <1>2, AdvancesKeepsNumbering DEF HistoryStep, HistoryNumbered

\* The versions of every track, module and item are numbered without gaps.
THEOREM HistoryAlwaysNumbered == Spec => []HistoryNumbered
<1>1. Init => HistoryNumbered
  BY DEF Init, HistoryNumbered, Numbered, AbsentTrack, AbsentModule, AbsentItem
<1>2. HistoryInv /\ HistoryNumbered /\ [Next]_vars => HistoryNumbered'
  BY HistoryNumberedStep
<1> QED BY <1>1, <1>2, HistoryInvInductive, PTL DEF Spec

\* No step removes, rewrites or backdates a version.
THEOREM HistoryNeverRewritten == Spec => HistoryAppendOnly
<1> DEFINE Step == /\ Appends(trackVersions, trackVersions')
                   /\ Appends(moduleVersions, moduleVersions')
                   /\ Appends(contentVersions, contentVersions')
<1>1. HistoryInv /\ HistoryNumbered /\ [Next]_vars => [Step]_vars
  BY HistoryNumberedStep
<1>2. HistoryAppendOnly <=> [][Step]_vars
  BY DEF HistoryAppendOnly
<1> HIDE DEF Step
<1>3. Spec => [][Step]_vars
  BY <1>1, HistoryInvInductive, HistoryAlwaysNumbered, PTL DEF Spec
<1> QED BY <1>2, <1>3, PTL

\* What an active row shows is always the text of its current version.
THEOREM LiveContentAlwaysPublished == Spec => []LiveContentIsPublished
<1>1. Init => LiveContentIsPublished
  BY DEF Init, LiveContentIsPublished, AbsentTrack, AbsentModule, AbsentItem
<1>2. ASSUME HistoryInv, LiveContentIsPublished, [Next]_vars
      PROVE  LiveContentIsPublished'
  <2>1. HistoryStep
    BY <1>2, EveryStepIsAHistoryStep
  <2>2. /\ DOMAIN tracks = Tracks /\ DOMAIN modules = Modules
        /\ DOMAIN items = Items
    BY <1>2 DEF HistoryInv, TypeInv, TypeOK
  <2> QED BY <1>2, <2>1, <2>2
          DEF HistoryStep, LiveContentIsPublished, ShowsPublished,
              ItemsShowPublished, Advances
<1> QED BY <1>1, <1>2, HistoryInvInductive, PTL DEF Spec

-----------------------------------------------------------------------------
(* A move permutes the positions *)

\* In a contiguous sequence the index of a row is its position.
LEMMA IndexIsPosition ==
  ASSUME NEW keys, IsFiniteSet(keys), NEW rows, Contiguous(rows, keys),
         NEW k \in keys
  PROVE  /\ rows[k].position \in 1..Cardinality(keys)
         /\ Index(rows, keys, k) = rows[k].position
<1> DEFINE n == Cardinality(keys)
           i == rows[k].position
           upTo == {j \in keys : rows[j].position <= i}
           f == [j \in upTo |-> rows[j].position]
<1>1. /\ {rows[j].position : j \in keys} = 1..n
      /\ \A j, l \in keys : rows[j].position = rows[l].position => j = l
      /\ n \in Nat
  BY FS_CardinalityType DEF Contiguous
<1>2. i \in 1..n
  BY <1>1
<1> HIDE DEF n, i
<1>3. \A v \in 1..i : \E j \in upTo : rows[j].position = v
  <2> TAKE v \in 1..i
  <2>1. v \in 1..n /\ v <= i
    BY <1>1, <1>2
  <2>2. PICK j \in keys : rows[j].position = v
    BY <1>1, <2>1
  <2> QED BY <2>1, <2>2
<1>4. \A j \in upTo : rows[j].position \in 1..i
  BY <1>1, <1>2
<1>5. \A j, l \in upTo : f[j] = f[l] => j = l
  BY <1>1
<1>6. f \in [upTo -> 1..i] /\ \A v \in 1..i : \E j \in upTo : f[j] = v
  BY <1>3, <1>4
<1>7. IsFiniteSet(upTo)
  BY FS_Subset
<1>8. ExistsBijection(upTo, 1..i)
  <2> HIDE DEF upTo, f
  <2> QED BY <1>5, <1>6
          DEF ExistsBijection, Bijection, Injection, Surjection, IsInjective
<1>9. Cardinality(upTo) = Cardinality(1..i)
  BY <1>7, <1>8, FS_Bijection
<1>10. Cardinality(1..i) = i
  BY <1>1, <1>2, FS_Interval
<1> QED BY <1>2, <1>9, <1>10 DEF Index, n, i

\* So where a row goes is a matter of the positions alone.
LEMMA MovedPositionValue ==
  ASSUME NEW keys, IsFiniteSet(keys), NEW rows, Contiguous(rows, keys),
         NEW x \in keys, NEW p, NEW k \in keys, k # x
  PROVE  MovedPosition(rows, keys, x, p, k) =
           LET popped == IF rows[k].position < rows[x].position
                         THEN rows[k].position ELSE rows[k].position - 1
           IN  IF popped < p THEN popped ELSE popped + 1
  BY IndexIsPosition DEF MovedPosition

LEMMA MovedPositionOfMover ==
  ASSUME NEW keys, NEW rows, NEW x, NEW p
  PROVE  MovedPosition(rows, keys, x, p, x) = p
  BY DEF MovedPosition

\* Popping a row of a contiguous sequence and inserting it at a position of
\* the sequence leaves a contiguous sequence.
LEMMA MoveKeepsContiguous ==
  ASSUME NEW keys, IsFiniteSet(keys), NEW rows, Contiguous(rows, keys),
         NEW x \in keys, NEW p \in 1..Cardinality(keys), NEW new,
         \A k \in keys :
           new[k].position = MovedPosition(rows, keys, x, p, k)
  PROVE  Contiguous(new, keys)
<1> DEFINE n == Cardinality(keys)
           at(k) == rows[k].position
           to(k) == new[k].position
<1>1. n \in Nat /\ p \in 1..n
  BY FS_CardinalityType
<1>2. /\ \A k \in keys : at(k) \in 1..n
      /\ \A j, k \in keys : at(j) = at(k) => j = k
      /\ \A v \in 1..n : \E k \in keys : at(k) = v
  <2>1. {at(k) : k \in keys} = 1..n
    BY DEF Contiguous
  <2> QED BY <2>1 DEF Contiguous
<1>3. /\ to(x) = p
      /\ \A k \in keys \ {x} :
           to(k) = LET popped == IF at(k) < at(x) THEN at(k) ELSE at(k) - 1
                   IN  IF popped < p THEN popped ELSE popped + 1
  BY MovedPositionOfMover, MovedPositionValue
<1> HIDE DEF n, at, to
<1>4. \A k \in keys : to(k) \in 1..n
  BY <1>1, <1>2, <1>3
<1>5. \A j, k \in keys : to(j) = to(k) => j = k
  BY <1>1, <1>2, <1>3
<1>6. \A v \in 1..n : \E k \in keys : to(k) = v
  <2> TAKE v \in 1..n
  <2>1. CASE v = p
    BY <2>1, <1>3
  <2>2. CASE v # p
    <3> DEFINE u == IF v < p THEN v ELSE v - 1
               i == IF u < at(x) THEN u ELSE u + 1
    <3>1. at(x) \in 1..n
      BY <1>2
    <3>2. i \in 1..n /\ i # at(x)
      BY <1>1, <2>2, <3>1
    <3>3. PICK k \in keys : at(k) = i
      BY <1>2, <3>2
    <3>4. k # x
      BY <3>2, <3>3
    <3> QED BY <1>1, <1>3, <2>2, <3>1, <3>3, <3>4
  <2> QED BY <2>1, <2>2
<1>7. {to(k) : k \in keys} = 1..n
  BY <1>4, <1>6
<1> QED BY <1>5, <1>7 DEF Contiguous, n, to

\* A move that displaces any row displaces the row it moves.
LEMMA MoverIsDisplaced ==
  ASSUME NEW keys, IsFiniteSet(keys), NEW rows, Contiguous(rows, keys),
         NEW x \in keys, NEW p \in Nat, x \notin Displaced(rows, keys, x, p)
  PROVE  Displaced(rows, keys, x, p) = {}
<1>1. rows[x].position = p
  BY MovedPositionOfMover DEF Displaced
<1>2. ASSUME NEW k \in keys, k # x
      PROVE  MovedPosition(rows, keys, x, p, k) = rows[k].position
  <2>1. /\ rows[k].position \in 1..Cardinality(keys)
        /\ rows[x].position \in 1..Cardinality(keys)
        /\ Cardinality(keys) \in Nat
    BY IndexIsPosition, FS_CardinalityType
  <2>2. rows[k].position # rows[x].position
    BY <1>2 DEF Contiguous
  <2> QED BY <1>1, <1>2, <2>1, <2>2, MovedPositionValue
<1> QED BY <1>1, <1>2, MovedPositionOfMover DEF Displaced

\* A new row goes to the end of its sequence.
LEMMA AppendKeepsContiguous ==
  ASSUME NEW keys, IsFiniteSet(keys), NEW rows, Contiguous(rows, keys),
         NEW k, k \notin keys, NEW new,
         \A j \in keys : new[j].position = rows[j].position,
         new[k].position = Cardinality(keys) + 1
  PROVE  Contiguous(new, keys \cup {k})
<1> DEFINE n == Cardinality(keys)
           all == keys \cup {k}
<1>1. n \in Nat /\ Cardinality(all) = n + 1
  BY FS_CardinalityType, FS_AddElement
<1>2. /\ \A j \in keys : new[j].position \in 1..n
      /\ \A i, j \in keys : new[i].position = new[j].position => i = j
      /\ \A v \in 1..n : \E j \in keys : new[j].position = v
  <2>1. {rows[j].position : j \in keys} = 1..n
    BY DEF Contiguous
  <2> QED BY <2>1 DEF Contiguous
<1>3. new[k].position = n + 1
  OBVIOUS
<1> HIDE DEF n
<1>4. \A i, j \in all : new[i].position = new[j].position => i = j
  BY <1>1, <1>2, <1>3
<1>5. \A v \in 1..(n + 1) : \E j \in all : new[j].position = v
  <2> TAKE v \in 1..(n + 1)
  <2>1. v \in 1..n \/ v = n + 1
    BY <1>1
  <2> QED BY <1>2, <1>3, <2>1
<1>6. \A j \in all : new[j].position \in 1..(n + 1)
  BY <1>1, <1>2, <1>3
<1>7. {new[j].position : j \in all} = 1..(n + 1)
  BY <1>5, <1>6
<1> QED BY <1>1, <1>4, <1>7 DEF Contiguous

\* Rows that stay where they are stay contiguous.
LEMMA StayContiguous ==
  ASSUME NEW keys, NEW rows, Contiguous(rows, keys), NEW new,
         \A k \in keys : new[k].position = rows[k].position
  PROVE  Contiguous(new, keys)
<1>1. {new[k].position : k \in keys} = {rows[k].position : k \in keys}
  OBVIOUS
<1> QED BY <1>1 DEF Contiguous

-----------------------------------------------------------------------------
(* The inductive invariant. PositionsContiguous is not inductive: a new row *)
(* may only join one sequence, so the key it takes must be in none, and its *)
(* first revision must be the successor of what the key had.                *)

TracksOrdered ==
  /\ Contiguous(tracks, UsedTracks)
  /\ \A t \in Tracks : ~Exists(tracks[t]) => tracks[t].revision = 0

ModulesOrdered ==
  /\ \A t \in Tracks : Contiguous(modules, ModulesOf(t))
  /\ \A m \in Modules : ~Exists(modules[m]) =>
       modules[m].revision = 0 /\ modules[m].track = NoOwner

ItemsOrdered ==
  /\ \A m \in Modules : Contiguous(items, ItemsOf(m))
  /\ \A i \in Items : ~Exists(items[i]) =>
       items[i].revision = 0 /\ items[i].module = NoOwner

OrderInv == TypeInv /\ TracksOrdered /\ ModulesOrdered /\ ItemsOrdered

\* What TokensIdentify says of a step, table by table.
TrackTokens ==
  /\ \A t \in Tracks : Shown(tracks'[t]) # Shown(tracks[t]) =>
       tracks'[t].revision = tracks[t].revision + 1
  /\ (\E t \in Tracks : tracks'[t].position # tracks[t].position) =>
       orderRevision' = orderRevision + 1

ModuleTokens ==
  /\ \A m \in Modules : Shown(modules'[m]) # Shown(modules[m]) =>
       modules'[m].revision = modules[m].revision + 1
  /\ \A m \in Modules : modules'[m].position # modules[m].position =>
       tracks'[modules'[m].track].moduleOrder =
         tracks[modules'[m].track].moduleOrder + 1

ItemTokens ==
  \A i \in Items : items'[i] # items[i] =>
    items'[i].revision = items[i].revision + 1

\* What AuditAttributesChange says of a step.
Attributed ==
  /\ \/ tracks' # tracks
     \/ orderRevision' # orderRevision
     \/ modules' # modules /\ items' = items
    => /\ log'.changed
       /\ log'.actor \in admins
       /\ \/ /\ log'.entity = "TRACK" /\ log'.key \in Tracks
             /\ tracks'[log'.key] # tracks[log'.key]
          \/ /\ log'.entity = "MODULE" /\ log'.key \in Modules
             /\ modules'[log'.key] # modules[log'.key]
  /\ log' # log /\ log'.changed => tracks' # tracks \/ modules' # modules

\* Tokens only grow, rows stay, a module stays in its track, and a new row
\* counts for the sequence that it joins.
TokensGrow ==
  /\ \A t \in Tracks :
       /\ tracks[t].revision <= tracks'[t].revision
       /\ Exists(tracks[t]) =>
            /\ Exists(tracks'[t])
            /\ tracks[t].moduleOrder <= tracks'[t].moduleOrder
       /\ ~Exists(tracks[t]) /\ Exists(tracks'[t]) =>
            orderRevision' = orderRevision + 1
  /\ \A m \in Modules :
       /\ modules[m].revision <= modules'[m].revision
       /\ Exists(modules[m]) =>
            Exists(modules'[m]) /\ modules'[m].track = modules[m].track
       /\ modules'[m].track # modules[m].track =>
            tracks'[modules'[m].track].moduleOrder =
              tracks[modules'[m].track].moduleOrder + 1
  /\ orderRevision <= orderRevision'

OrderStep ==
  /\ TracksOrdered' /\ TrackTokens
  /\ ModulesOrdered' /\ ModuleTokens
  /\ ItemsOrdered' /\ ItemTokens
  /\ TokensGrow
  /\ Attributed

\* A table whose rows keep their place, and count what they change.
KeepsPlaces(old, new) ==
  \A k \in DOMAIN old :
    /\ new[k].position = old[k].position
    /\ Exists(new[k]) <=> Exists(old[k])
    /\ ~Exists(old[k]) => new[k].revision = old[k].revision
    /\ Shown(new[k]) # Shown(old[k]) => new[k].revision = old[k].revision + 1

LEMMA TracksStay ==
  ASSUME OrderInv, KeepsPlaces(tracks, tracks')
  PROVE  TracksOrdered' /\ TrackTokens
<1>1. DOMAIN tracks = Tracks
  BY DEF OrderInv, TypeInv, TypeOK
<1>2. UsedTracks' = UsedTracks
  BY <1>1 DEF UsedTracks, KeepsPlaces
<1>3. Contiguous(tracks', UsedTracks)
  BY <1>1, StayContiguous DEF KeepsPlaces, OrderInv, TracksOrdered, UsedTracks
<1> QED BY <1>1, <1>2, <1>3 DEF KeepsPlaces, OrderInv, TracksOrdered, TrackTokens

LEMMA ModulesStay ==
  ASSUME OrderInv, KeepsPlaces(modules, modules'),
         \A m \in Modules : modules'[m].track = modules[m].track
  PROVE  ModulesOrdered' /\ ModuleTokens
<1>1. DOMAIN modules = Modules
  BY DEF OrderInv, TypeInv, TypeOK
<1>2. \A t : ModulesOf(t)' = ModulesOf(t)
  BY DEF ModulesOf
<1>3. ASSUME NEW t \in Tracks
      PROVE  Contiguous(modules', ModulesOf(t))
  BY ZenonT(60), <1>1, StayContiguous DEF KeepsPlaces, OrderInv, ModulesOrdered, ModulesOf
<1> QED BY <1>1, <1>2, <1>3
        DEF KeepsPlaces, OrderInv, ModulesOrdered, ModuleTokens

LEMMA ItemsStay ==
  ASSUME OrderInv, UNCHANGED items
  PROVE  ItemsOrdered' /\ ItemTokens
  BY DEF OrderInv, ItemsOrdered, ItemTokens, ItemsOf

\* What is not written does not shrink.
LEMMA TokensAreNumbers ==
  ASSUME OrderInv
  PROVE  /\ orderRevision \in Nat /\ orderRevision <= orderRevision
         /\ \A t \in Tracks :
              /\ tracks[t].revision \in Nat /\ tracks[t].moduleOrder \in Nat
              /\ tracks[t].revision <= tracks[t].revision
              /\ tracks[t].moduleOrder <= tracks[t].moduleOrder
         /\ \A m \in Modules :
              /\ modules[m].revision \in Nat
              /\ modules[m].revision <= modules[m].revision
  BY DEF OrderInv, TypeInv, TypeOK, TrackRow, ModuleRow

\* A step that writes no row.
LEMMA QuietOrder ==
  ASSUME OrderInv, UNCHANGED <<tracks, modules, items, orderRevision>>,
         log' = log \/ ~log'.changed
  PROVE  OrderStep
<1>1. KeepsPlaces(tracks, tracks') /\ KeepsPlaces(modules, modules')
  BY DEF KeepsPlaces
<1>2. Attributed
  BY DEF Attributed
<1>3. TokensGrow
  BY TokensAreNumbers DEF TokensGrow
<1> QED BY <1>1, <1>2, <1>3, TracksStay, ModulesStay, ItemsStay DEF OrderStep

\* A step that writes one row, in place, and logs it.
LEMMA TrackWriteOrder ==
  ASSUME OrderInv, NEW t \in Tracks, Exists(tracks[t]),
         NEW after, Exists(after),
         after.position = tracks[t].position,
         after.revision = tracks[t].revision + 1,
         after.moduleOrder = tracks[t].moduleOrder,
         tracks' = [tracks EXCEPT ![t] = after],
         UNCHANGED <<modules, items, orderRevision>>,
         log'.changed, log'.actor \in admins,
         log'.entity = "TRACK", log'.key = t
  PROVE  OrderStep
<1>1. tracks \in [Tracks -> TrackRow] /\ tracks[t].revision \in Nat
  BY DEF OrderInv, TypeInv, TypeOK, TrackRow
<1>2. KeepsPlaces(tracks, tracks') /\ KeepsPlaces(modules, modules')
  BY <1>1 DEF KeepsPlaces
<1>3. tracks'[t] # tracks[t]
  BY <1>1
<1>4. Attributed
  BY <1>3 DEF Attributed
<1>5. TokensGrow
  <2>1. /\ tracks'[t] = after
        /\ \A k \in Tracks \ {t} : tracks'[k] = tracks[k]
    BY <1>1
  <2> QED BY <2>1, TokensAreNumbers DEF TokensGrow
<1> QED BY <1>2, <1>4, <1>5, TracksStay, ModulesStay, ItemsStay DEF OrderStep

LEMMA ModuleWriteOrder ==
  ASSUME OrderInv, NEW m \in Modules, Exists(modules[m]),
         NEW after, Exists(after),
         after.position = modules[m].position,
         after.track = modules[m].track,
         after.revision = modules[m].revision + 1,
         modules' = [modules EXCEPT ![m] = after],
         UNCHANGED <<tracks, items, orderRevision>>,
         log'.changed, log'.actor \in admins,
         log'.entity = "MODULE", log'.key = m
  PROVE  OrderStep
<1>1. modules \in [Modules -> ModuleRow] /\ modules[m].revision \in Nat
  BY DEF OrderInv, TypeInv, TypeOK, ModuleRow
<1>2. KeepsPlaces(tracks, tracks') /\ KeepsPlaces(modules, modules')
  BY <1>1 DEF KeepsPlaces
<1>3. modules'[m] # modules[m]
  BY <1>1
<1>4. Attributed
  BY <1>3 DEF Attributed
<1>5. /\ modules'[m] = after
      /\ \A k \in Modules \ {m} : modules'[k] = modules[k]
      /\ \A k \in Modules : modules'[k].track = modules[k].track
  BY <1>1
<1>6. TokensGrow
  BY <1>5, TokensAreNumbers DEF TokensGrow
<1> QED BY <1>2, <1>4, <1>5, <1>6, TracksStay, ModulesStay, ItemsStay
        DEF OrderStep

\* Only a content admin's command succeeds.
LEMMA OnlyAdmins ==
  ASSUME NEW a, ~a
  PROVE  /\ \A k, c, f : CreateDecision(a, k, c, f) # "SUCCESS"
         /\ \A k, r, c, f : EditDecision(a, k, r, c, f) # "SUCCESS"
         /\ \A k, o, c, n : MoveDecision(a, k, o, c, n) # "SUCCESS"
         /\ \A r, c, h : TrackStatusDecision(a, r, c, h) # "SUCCESS"
         /\ \A r, o, c, s : ModuleStatusDecision(a, r, o, c, s) # "SUCCESS"
<1>1. \A k, r, l, u, v : Decision(a, k, r, l, u, v) # "SUCCESS"
  BY DEF Decision
<1>2. \A k, c, f : CreateDecision(a, k, c, f) # "SUCCESS"
  BY <1>1, Zenon DEF CreateDecision
<1>3. \A k, r, c, f : EditDecision(a, k, r, c, f) # "SUCCESS"
  BY <1>1, Zenon DEF EditDecision
<1>4. \A k, o, c, n : MoveDecision(a, k, o, c, n) # "SUCCESS"
  BY <1>1, Zenon DEF MoveDecision
<1>5. \A r, c, h : TrackStatusDecision(a, r, c, h) # "SUCCESS"
  <2> TAKE r, c, h
  <2> DEFINE valid == /\ Supported(c.target)
                      /\ \/ c.target = r.status
                         \/ c.target = "INACTIVE"
                         \/ c.pub /\ h
  <2>1. TrackStatusDecision(a, r, c, h) =
          Decision(a, Exists(r), c.rev, 1, r.revision, valid)
    BY DEF TrackStatusDecision
  <2> HIDE DEF valid
  <2> QED BY <1>1, <2>1, Zenon
<1>6. \A r, o, c, s : ModuleStatusDecision(a, r, o, c, s) # "SUCCESS"
  <2> TAKE r, o, c, s
  <2> DEFINE known == r.track = c.track
             valid == /\ Supported(c.target)
                      /\ \/ c.target = r.status
                         \/ c.target = "ACTIVE" /\ c.pub
                         \/ c.target = "INACTIVE" /\ ~IsLastActive(o, s)
  <2>1. ModuleStatusDecision(a, r, o, c, s) =
          Decision(a, known, c.rev, 1, r.revision, valid)
    BY DEF ModuleStatusDecision
  <2> HIDE DEF known, valid
  <2> QED BY <1>1, <2>1, Zenon
<1> QED BY <1>2, <1>3, <1>4, <1>5, <1>6

\* What the row of a command says.
LEMMA Recorded ==
  ASSUME NEW c, NEW action, NEW entity, NEW key, NEW result, NEW changed,
         Record(c, action, entity, key, result, changed)
  PROVE  /\ log'.changed = changed
         /\ log'.actor = c.actor
         /\ log'.entity = entity
         /\ result = "SUCCESS" => log'.key = key
  BY DEF Record

\* The fields of a rewritten row that the tokens are about.
LEMMA TrackCounts ==
  ASSUME NEW row \in TrackRow, NEW x
  PROVE  /\ Edited(row, x).revision = row.revision + 1
         /\ Edited(row, x).position = row.position
         /\ Edited(row, x).status = row.status
         /\ Edited(row, x).moduleOrder = row.moduleOrder
         /\ WithStatus(row, x).revision = row.revision + 1
         /\ WithStatus(row, x).position = row.position
         /\ WithStatus(row, x).status = x
         /\ WithStatus(row, x).moduleOrder = row.moduleOrder
  BY DEF Edited, WithStatus, TrackRow

LEMMA ModuleCounts ==
  ASSUME NEW row \in ModuleRow, NEW x
  PROVE  /\ Edited(row, x).revision = row.revision + 1
         /\ Edited(row, x).position = row.position
         /\ Edited(row, x).track = row.track
         /\ Edited(row, x).status = row.status
         /\ WithStatus(row, x).revision = row.revision + 1
         /\ WithStatus(row, x).position = row.position
         /\ WithStatus(row, x).track = row.track
         /\ WithStatus(row, x).status = x
  BY DEF Edited, WithStatus, ModuleRow

-----------------------------------------------------------------------------
(* Each command *)

LEMMA CreateTrackOrder ==
  ASSUME OrderInv, NEW c \in Command, CreateTrack(c)
  PROVE  OrderStep
<1> DEFINE position == Cardinality(UsedTracks) + 1
           result == CreateDecision(c.actor \in admins, TRUE, c,
                       Insertable(tracks, UsedTracks, c.title, position))
<1>1. UNCHANGED <<modules, items>>
  BY DEF CreateTrack
<1>2. result = "SUCCESS" => c.actor \in admins
  BY OnlyAdmins
<1> HIDE DEF result, position
<1>3. CASE /\ result = "SUCCESS"
           /\ \E t \in Tracks \ UsedTracks :
                /\ tracks' = [tracks EXCEPT ![t] = NewTrack(c.title, position)]
                /\ Record(c, "CREATE", "TRACK", t, result, TRUE)
           /\ orderRevision' = orderRevision + 1
  <2>1. PICK t \in Tracks \ UsedTracks :
                /\ tracks' = [tracks EXCEPT ![t] = NewTrack(c.title, position)]
                /\ Record(c, "CREATE", "TRACK", t, result, TRUE)
    BY <1>3
  <2>2. /\ tracks \in [Tracks -> TrackRow]
        /\ t \in Tracks /\ ~Exists(tracks[t]) /\ tracks[t].revision = 0
    BY <2>1 DEF OrderInv, TypeInv, TypeOK, UsedTracks, TracksOrdered
  <2>3. /\ \A k \in Tracks \ {t} : tracks'[k] = tracks[k]
        /\ tracks'[t].position = position
        /\ tracks'[t].revision = 1
        /\ Exists(tracks'[t])
    BY <2>1, <2>2 DEF NewTrack, Exists
  <2>4. UsedTracks' = UsedTracks \cup {t}
    BY <2>2, <2>3 DEF UsedTracks
  <2>5. Contiguous(tracks', UsedTracks \cup {t})
    BY <2>1, <2>2, <2>3, RowsFinite, AppendKeepsContiguous
       DEF OrderInv, TracksOrdered, UsedTracks, position
  <2>6. TracksOrdered'
    BY <2>2, <2>3, <2>4, <2>5 DEF OrderInv, TracksOrdered
  <2>7. TrackTokens
    BY <1>3, <2>2, <2>3 DEF TrackTokens
  <2>8. tracks'[t] # tracks[t]
    BY <2>2, <2>3
  <2>9. Attributed
    BY <1>1, <1>2, <1>3, <2>1, <2>2, <2>8 DEF Attributed, Record
  <2>10. KeepsPlaces(modules, modules')
    BY <1>1 DEF KeepsPlaces
  <2>11. TokensGrow
    BY <1>1, <1>3, <2>2, <2>3, TokensAreNumbers DEF TokensGrow
  <2> QED BY <1>1, <2>6, <2>7, <2>9, <2>10, <2>11, ModulesStay, ItemsStay
          DEF OrderStep
<1>4. CASE /\ Record(c, "CREATE", "TRACK", NoOwner, result, FALSE)
           /\ UNCHANGED <<tracks, orderRevision>>
  BY <1>1, <1>4, Recorded, QuietOrder
<1> QED BY <1>3, <1>4 DEF CreateTrack, result, position

LEMMA EditTrackOrder ==
  ASSUME OrderInv, NEW c \in Command, EditTrack(c)
  PROVE  OrderStep
<1> DEFINE t == c.track
           row == tracks[t]
           result == EditDecision(c.actor \in admins, Exists(row), row, c,
                       TitleFree(tracks, UsedTracks, t, c.title))
           after == IF result = "SUCCESS" THEN Edited(row, c.title) ELSE row
<1>1. c \in EditTrackCmd /\ t \in Tracks
  BY CommandShapes, CatalogAssumption DEF EditTrack, EditTrackCmd
<1>2. row \in TrackRow /\ tracks \in [Tracks -> TrackRow]
  BY <1>1 DEF OrderInv, TypeInv, TypeOK
<1>3. result = "SUCCESS" => Exists(row) /\ c.actor \in admins
  <2>1. /\ (c.actor \in admins) \in BOOLEAN /\ Exists(row) \in BOOLEAN
        /\ TitleFree(tracks, UsedTracks, t, c.title) \in BOOLEAN
        /\ c.rev \in Int /\ c.ok \in BOOLEAN /\ c.pub \in BOOLEAN
        /\ row.revision \in Nat
    BY <1>1, <1>2 DEF EditTrackCmd, Exists, TitleFree, TrackRow
  <2> HIDE DEF row
  <2>2. result = "SUCCESS" => Exists(row)
    BY <2>1, EditSuccess
  <2>3. result = "SUCCESS" => c.actor \in admins
    BY OnlyAdmins
  <2> QED BY <2>2, <2>3
<1>4. /\ tracks' = [tracks EXCEPT ![t] = after]
      /\ Record(c, "EDIT", "TRACK", t, result, result = "SUCCESS")
      /\ UNCHANGED <<modules, items, orderRevision>>
  BY DEF EditTrack
<1>5. CASE result = "SUCCESS"
  <2>1. /\ log'.changed /\ log'.actor = c.actor
        /\ log'.entity = "TRACK" /\ log'.key = t
    <3> HIDE DEF result
    <3> QED BY <1>4, <1>5 DEF Record
  <2> DEFINE new == Edited(row, c.title)
  <2>2. /\ tracks' = [tracks EXCEPT ![t] = new]
        /\ new.revision = row.revision + 1
        /\ new.position = row.position
        /\ new.moduleOrder = row.moduleOrder
        /\ Exists(new)
    BY <1>2, <1>3, <1>4, <1>5, TrackCounts DEF Exists
  <2> HIDE DEF new, result
  <2> QED BY <1>1, <1>3, <1>4, <1>5, <2>1, <2>2, TrackWriteOrder
<1>6. CASE result # "SUCCESS"
  <2>1. ~log'.changed
    BY <1>4, <1>6, Recorded
  <2>2. UNCHANGED tracks
    BY <1>2, <1>4, <1>6
  <2> QED BY <1>4, <2>1, <2>2, QuietOrder
<1> QED BY <1>5, <1>6

LEMMA ChangeTrackStatusOrder ==
  ASSUME OrderInv, NEW c \in Command, ChangeTrackStatus(c)
  PROVE  OrderStep
<1> DEFINE t == c.track
           row == tracks[t]
           result == TrackStatusDecision(c.actor \in admins, row, c,
                       ActiveModules(t) # {})
           changed == result = "SUCCESS" /\ row.status # c.target
           after == IF changed THEN WithStatus(row, c.target) ELSE row
<1>1. c \in TrackStatusCmd /\ t \in Tracks
  BY CommandShapes, CatalogAssumption DEF ChangeTrackStatus, TrackStatusCmd
<1>2. row \in TrackRow /\ tracks \in [Tracks -> TrackRow]
  BY <1>1 DEF OrderInv, TypeInv, TypeOK
<1>3. result = "SUCCESS" =>
        Exists(row) /\ c.target \in Status /\ c.actor \in admins
  <2>1. /\ (c.actor \in admins) \in BOOLEAN
        /\ (ActiveModules(t) # {}) \in BOOLEAN
        /\ c.rev \in Int /\ c.pub \in BOOLEAN /\ row.revision \in Nat
    BY <1>1, <1>2 DEF TrackStatusCmd, TrackRow
  <2> HIDE DEF row
  <2>2. result = "SUCCESS" => Exists(row) /\ c.target \in Status
    BY <2>1, TrackStatusSuccess
  <2>3. result = "SUCCESS" => c.actor \in admins
    BY OnlyAdmins
  <2> QED BY <2>2, <2>3
<1>4. /\ tracks' = [tracks EXCEPT ![t] = after]
      /\ Record(c, StatusAction(c.target), "TRACK", t, result, changed)
      /\ UNCHANGED <<modules, items, orderRevision>>
  BY DEF ChangeTrackStatus
<1>5. CASE changed
  <2>1. /\ log'.changed /\ log'.actor = c.actor
        /\ log'.entity = "TRACK" /\ log'.key = t
    <3> HIDE DEF result
    <3> QED BY <1>4, <1>5 DEF Record
  <2> DEFINE new == WithStatus(row, c.target)
  <2>2. /\ tracks' = [tracks EXCEPT ![t] = new]
        /\ new.revision = row.revision + 1
        /\ new.position = row.position
        /\ new.moduleOrder = row.moduleOrder
        /\ Exists(new)
    BY <1>2, <1>3, <1>4, <1>5, TrackCounts DEF Exists, Status
  <2> HIDE DEF new, result
  <2> QED BY <1>1, <1>3, <1>4, <1>5, <2>1, <2>2, TrackWriteOrder
<1>6. CASE ~changed
  <2>1. ~log'.changed
    BY <1>4, <1>6, Recorded
  <2>2. UNCHANGED tracks
    BY <1>2, <1>4, <1>6
  <2> QED BY <1>4, <2>1, <2>2, QuietOrder
<1> QED BY <1>5, <1>6

LEMMA CreateModuleOrder ==
  ASSUME OrderInv, NEW c \in Command, CreateModule(c)
  PROVE  OrderStep
<1> DEFINE siblings == ModulesOf(c.track)
           position == Cardinality(siblings) + 1
           known == Exists(tracks[c.track])
           free == Insertable(modules, siblings, c.title, position)
           authorized == c.actor \in admins
           result == CreateDecision(authorized, known, c, free)
<1>1. UNCHANGED <<items, orderRevision>> /\ c.track \in Tracks
  BY CommandShapes, CatalogAssumption DEF CreateModule, CreateModuleCmd
<1>2. result = "SUCCESS" => c.actor \in admins /\ known
  <2>1. /\ authorized \in BOOLEAN /\ known \in BOOLEAN /\ c \in Command
        /\ free \in BOOLEAN /\ c.ok \in BOOLEAN
    BY CommandShapes, CatalogAssumption
       DEF CreateModule, CreateModuleCmd, Insertable, Exists
  <2>2. result = "SUCCESS" => known
    <3> HIDE DEF authorized, known, free
    <3> QED BY <2>1, CreateSuccess
  <2>3. result = "SUCCESS" => c.actor \in admins
    BY OnlyAdmins
  <2> QED BY <2>2, <2>3
<1> HIDE DEF result, position
<1>3. CASE /\ result = "SUCCESS"
           /\ \E m \in {k \in Modules : ~Exists(modules[k])} :
                /\ modules' = [modules EXCEPT
                                 ![m] = NewModule(c.track, c.title, position)]
                /\ Record(c, "CREATE", "MODULE", m, result, TRUE)
           /\ tracks' = [tracks EXCEPT ![c.track].moduleOrder = @ + 1]
  <2>1. PICK m \in {k \in Modules : ~Exists(modules[k])} :
                /\ modules' = [modules EXCEPT
                                 ![m] = NewModule(c.track, c.title, position)]
                /\ Record(c, "CREATE", "MODULE", m, result, TRUE)
    BY <1>3
  <2>2. /\ modules \in [Modules -> ModuleRow] /\ m \in Modules
        /\ ~Exists(modules[m])
        /\ modules[m].revision = 0 /\ modules[m].track = NoOwner
    BY <2>1 DEF OrderInv, TypeInv, TypeOK, ModulesOrdered
  <2>3. /\ \A k \in Modules \ {m} : modules'[k] = modules[k]
        /\ modules'[m].position = position
        /\ modules'[m].track = c.track
        /\ modules'[m].revision = 1
        /\ Exists(modules'[m])
    BY <2>1, <2>2 DEF NewModule, Exists
  <2>4. tracks \in [Tracks -> TrackRow] /\ tracks[c.track] \in TrackRow
    BY <1>1 DEF OrderInv, TypeInv, TypeOK
  <2>5. /\ tracks'[c.track].moduleOrder = tracks[c.track].moduleOrder + 1
        /\ tracks'[c.track].status = tracks[c.track].status
        /\ tracks'[c.track].revision = tracks[c.track].revision
        /\ Shown(tracks'[c.track]) = Shown(tracks[c.track])
        /\ \A t \in Tracks \ {c.track} : tracks'[t] = tracks[t]
    BY <1>1, <1>3, <2>4 DEF TrackRow, Shown
  <2>6. KeepsPlaces(tracks, tracks')
    <3>1. tracks'[c.track].position = tracks[c.track].position
      BY <1>1, <1>3, <2>4 DEF TrackRow
    <3> QED BY <2>4, <2>5, <3>1 DEF KeepsPlaces, Exists
  <2>7. c.track # NoOwner
    BY <1>1, CatalogKeysAssumption
  <2>8. /\ ModulesOf(c.track)' = siblings \cup {m} /\ m \notin siblings
        /\ \A t \in Tracks \ {c.track} :
             ModulesOf(t)' = ModulesOf(t) /\ m \notin ModulesOf(t)
    <3>1. \A t \in Tracks : t # NoOwner
      BY CatalogKeysAssumption
    <3> QED BY <2>2, <2>3, <2>7, <3>1 DEF ModulesOf
  <2>9. ASSUME NEW t \in Tracks
        PROVE  Contiguous(modules', ModulesOf(t)')
    <3>1. Contiguous(modules, ModulesOf(t))
      BY DEF OrderInv, ModulesOrdered
    <3>2. CASE t = c.track
      <4>1. \A k \in siblings : modules'[k].position = modules[k].position
        BY <2>3, <2>8 DEF ModulesOf
      <4>2. /\ IsFiniteSet(siblings) /\ Contiguous(modules, siblings)
            /\ m \notin siblings
            /\ modules'[m].position = Cardinality(siblings) + 1
        BY <2>3, <2>8, <3>1, <3>2, RowsFinite DEF position
      <4> HIDE DEF siblings
      <4>3. Contiguous(modules', siblings \cup {m})
        BY <4>1, <4>2, AppendKeepsContiguous
      <4> QED BY <2>8, <3>2, <4>3
    <3>3. CASE t # c.track
      <4>1. \A k \in ModulesOf(t) : modules'[k].position = modules[k].position
        BY <2>3, <2>8, <3>3 DEF ModulesOf
      <4>2. Contiguous(modules', ModulesOf(t))
        BY <3>1, <4>1, StayContiguous
      <4> QED BY <2>8, <3>3, <4>2
    <3> QED BY <3>2, <3>3
  <2>10. ModulesOrdered'
    BY <2>2, <2>3, <2>9 DEF OrderInv, ModulesOrdered
  <2>11. ModuleTokens
    BY <2>2, <2>3, <2>5 DEF ModuleTokens
  <2>12. modules'[m] # modules[m]
    BY <2>2, <2>3
  <2>13. Attributed
    BY <1>1, <1>2, <1>3, <2>1, <2>2, <2>12 DEF Attributed, Record
  <2>14. TokensGrow
    <3>1. \A k \in Modules \ {m} : modules'[k].track = modules[k].track
      BY <2>3
    <3> QED BY <1>1, <2>2, <2>3, <2>5, <3>1, TokensAreNumbers
            DEF TokensGrow, Exists
  <2> QED BY <1>1, <2>6, <2>10, <2>11, <2>13, <2>14, TracksStay, ItemsStay
          DEF OrderStep
<1>4. CASE /\ Record(c, "CREATE", "MODULE", NoOwner, result, FALSE)
           /\ UNCHANGED <<tracks, modules>>
  BY <1>1, <1>4, Recorded, QuietOrder
<1> QED BY <1>3, <1>4 DEF CreateModule, result, position

LEMMA EditModuleOrder ==
  ASSUME OrderInv, NEW c \in Command, EditModule(c)
  PROVE  OrderStep
<1> DEFINE m == c.module
           row == modules[m]
           known == row.track = c.track
           result == EditDecision(c.actor \in admins, known, row, c,
                       TitleFree(modules, ModulesOf(c.track), m, c.title))
           after == IF result = "SUCCESS" THEN Edited(row, c.title) ELSE row
<1>1. c \in EditModuleCmd /\ m \in Modules /\ c.track \in Tracks
  BY CommandShapes, CatalogAssumption DEF EditModule, EditModuleCmd
<1>2. row \in ModuleRow /\ modules \in [Modules -> ModuleRow]
  BY <1>1 DEF OrderInv, TypeInv, TypeOK
<1>3. result = "SUCCESS" => Exists(row) /\ c.actor \in admins
  <2>1. /\ (c.actor \in admins) \in BOOLEAN /\ known \in BOOLEAN
        /\ TitleFree(modules, ModulesOf(c.track), m, c.title) \in BOOLEAN
        /\ c.rev \in Int /\ c.ok \in BOOLEAN /\ c.pub \in BOOLEAN
        /\ row.revision \in Nat
    BY <1>1, <1>2 DEF EditModuleCmd, TitleFree, ModuleRow
  <2>2. known => Exists(row)
    BY <1>1, CatalogKeysAssumption DEF OrderInv, ModulesOrdered
  <2> HIDE DEF row, known
  <2>3. result = "SUCCESS" => known
    BY <2>1, EditSuccess
  <2>4. result = "SUCCESS" => c.actor \in admins
    BY OnlyAdmins
  <2> QED BY <2>2, <2>3, <2>4
<1>4. /\ modules' = [modules EXCEPT ![m] = after]
      /\ Record(c, "EDIT", "MODULE", m, result, result = "SUCCESS")
      /\ UNCHANGED <<tracks, items, orderRevision>>
  BY DEF EditModule
<1>5. CASE result = "SUCCESS"
  <2>1. /\ log'.changed /\ log'.actor = c.actor
        /\ log'.entity = "MODULE" /\ log'.key = m
    <3> HIDE DEF result
    <3> QED BY <1>4, <1>5 DEF Record
  <2> DEFINE new == Edited(row, c.title)
  <2>2. /\ modules' = [modules EXCEPT ![m] = new]
        /\ new.revision = row.revision + 1
        /\ new.position = row.position
        /\ new.track = row.track
        /\ Exists(new)
    BY <1>2, <1>3, <1>4, <1>5, ModuleCounts DEF Exists
  <2> HIDE DEF new, result
  <2> QED BY <1>1, <1>3, <1>4, <1>5, <2>1, <2>2, ModuleWriteOrder
<1>6. CASE result # "SUCCESS"
  <2>1. ~log'.changed
    BY <1>4, <1>6, Recorded
  <2>2. UNCHANGED modules
    BY <1>2, <1>4, <1>6
  <2> QED BY <1>4, <2>1, <2>2, QuietOrder
<1> QED BY <1>5, <1>6

LEMMA ChangeModuleStatusOrder ==
  ASSUME OrderInv, NEW c \in Command, ChangeModuleStatus(c)
  PROVE  OrderStep
<1> DEFINE m == c.module
           row == modules[m]
           owner == tracks[c.track]
           actives == ActiveModules(c.track)
           authorized == c.actor \in admins
           result == ModuleStatusDecision(authorized, row, owner, c, actives)
           changed == result = "SUCCESS" /\ row.status # c.target
           after == IF changed THEN WithStatus(row, c.target) ELSE row
<1>1. c \in ModuleStatusCmd /\ m \in Modules /\ c.track \in Tracks
  BY CommandShapes, CatalogAssumption DEF ChangeModuleStatus, ModuleStatusCmd
<1>2. row \in ModuleRow /\ modules \in [Modules -> ModuleRow]
  BY <1>1 DEF OrderInv, TypeInv, TypeOK
<1>3. result = "SUCCESS" =>
        Exists(row) /\ c.target \in Status /\ c.actor \in admins
  <2>1. /\ authorized \in BOOLEAN /\ c \in Command
        /\ c.rev \in Int /\ c.pub \in BOOLEAN /\ row.revision \in Nat
    BY <1>1, <1>2 DEF ModuleStatusCmd, ModuleRow
  <2>2. row.track = c.track => Exists(row)
    BY <1>1, CatalogKeysAssumption DEF OrderInv, ModulesOrdered
  <2>3. result = "SUCCESS" => c.actor \in admins
    BY OnlyAdmins
  <2> HIDE DEF row, owner, actives, authorized
  <2>4. /\ ModuleStatusDecision(authorized, row, owner, c, actives) \in Results
        /\ ModuleStatusDecision(authorized, row, owner, c, actives) = "SUCCESS"
             => row.track = c.track /\ c.target \in Status
    BY <2>1, ModuleStatusSuccess
  <2> QED BY <2>2, <2>3, <2>4
<1>4. /\ modules' = [modules EXCEPT ![m] = after]
      /\ Record(c, StatusAction(c.target), "MODULE", m, result, changed)
      /\ UNCHANGED <<tracks, items, orderRevision>>
  BY DEF ChangeModuleStatus
<1>5. CASE changed
  <2>1. /\ log'.changed /\ log'.actor = c.actor
        /\ log'.entity = "MODULE" /\ log'.key = m
    <3> HIDE DEF result
    <3> QED BY <1>4, <1>5 DEF Record
  <2> DEFINE new == WithStatus(row, c.target)
  <2>2. /\ modules' = [modules EXCEPT ![m] = new]
        /\ new.revision = row.revision + 1
        /\ new.position = row.position
        /\ new.track = row.track
        /\ Exists(new)
    BY <1>2, <1>3, <1>4, <1>5, ModuleCounts DEF Exists, Status
  <2> HIDE DEF new, result
  <2> QED BY <1>1, <1>3, <1>4, <1>5, <2>1, <2>2, ModuleWriteOrder
<1>6. CASE ~changed
  <2>1. ~log'.changed
    BY <1>4, <1>6, Recorded
  <2>2. UNCHANGED modules
    BY <1>2, <1>4, <1>6
  <2> QED BY <1>4, <2>1, <2>2, QuietOrder
<1> QED BY <1>5, <1>6

\* A moved row: displaced rows count a revision, the others are left alone.
LEMMA MovedTrackPlace ==
  ASSUME NEW keys, NEW rows, NEW x, NEW p, NEW k \in keys, rows[k] \in TrackRow
  PROVE  /\ Moved(rows, keys, x, p, k).position =
              MovedPosition(rows, keys, x, p, k)
         /\ Moved(rows, keys, x, p, k) = rows[k]
              \/ /\ Moved(rows, keys, x, p, k).revision = rows[k].revision + 1
                 /\ k \in Displaced(rows, keys, x, p)
         /\ k \in Displaced(rows, keys, x, p) =>
              Moved(rows, keys, x, p, k).revision = rows[k].revision + 1
         /\ Moved(rows, keys, x, p, k).status = rows[k].status
         /\ Moved(rows, keys, x, p, k).moduleOrder = rows[k].moduleOrder
<1> DEFINE q == MovedPosition(rows, keys, x, p, k)
           r == rows[k].revision + 1
<1>1. k \in Displaced(rows, keys, x, p) <=> q # rows[k].position
  BY DEF Displaced
<1>2. Moved(rows, keys, x, p, k) =
        IF k \in Displaced(rows, keys, x, p)
        THEN [rows[k] EXCEPT !.position = q, !.revision = r] ELSE rows[k]
  BY DEF Moved
<1> HIDE DEF q, r
<1>3. /\ [rows[k] EXCEPT !.position = q, !.revision = r].position = q
      /\ [rows[k] EXCEPT !.position = q, !.revision = r].revision = r
      /\ [rows[k] EXCEPT !.position = q, !.revision = r].status = rows[k].status
      /\ [rows[k] EXCEPT !.position = q, !.revision = r].moduleOrder =
           rows[k].moduleOrder
  BY DEF TrackRow
<1> QED BY <1>1, <1>2, <1>3 DEF q, r

LEMMA MovedModulePlace ==
  ASSUME NEW keys, NEW rows, NEW x, NEW p, NEW k \in keys, rows[k] \in ModuleRow
  PROVE  /\ Moved(rows, keys, x, p, k).position =
              MovedPosition(rows, keys, x, p, k)
         /\ Moved(rows, keys, x, p, k) = rows[k]
              \/ /\ Moved(rows, keys, x, p, k).revision = rows[k].revision + 1
                 /\ k \in Displaced(rows, keys, x, p)
         /\ k \in Displaced(rows, keys, x, p) =>
              Moved(rows, keys, x, p, k).revision = rows[k].revision + 1
         /\ Moved(rows, keys, x, p, k).status = rows[k].status
<1> DEFINE q == MovedPosition(rows, keys, x, p, k)
           r == rows[k].revision + 1
<1>1. k \in Displaced(rows, keys, x, p) <=> q # rows[k].position
  BY DEF Displaced
<1>2. Moved(rows, keys, x, p, k) =
        IF k \in Displaced(rows, keys, x, p)
        THEN [rows[k] EXCEPT !.position = q, !.revision = r] ELSE rows[k]
  BY DEF Moved
<1> HIDE DEF q, r
<1>3. /\ [rows[k] EXCEPT !.position = q, !.revision = r].position = q
      /\ [rows[k] EXCEPT !.position = q, !.revision = r].revision = r
      /\ [rows[k] EXCEPT !.position = q, !.revision = r].status = rows[k].status
  BY DEF ModuleRow
<1> QED BY <1>1, <1>2, <1>3 DEF q, r

LEMMA MoveTrackOrder ==
  ASSUME OrderInv, NEW c \in Command, MoveTrack(c)
  PROVE  OrderStep
<1> DEFINE x == c.track
           p == c.position
           known == Exists(tracks[x])
           n == Cardinality(UsedTracks)
           authorized == c.actor \in admins
           displaced == Displaced(tracks, UsedTracks, x, p)
           result == MoveDecision(authorized, known, orderRevision, c, n)
           changed == result = "SUCCESS" /\ displaced # {}
           after(t) == Moved(tracks, UsedTracks, x, p, t)
<1>1. c \in MoveTrackCmd /\ x \in Tracks
  BY CommandShapes, CatalogAssumption DEF MoveTrack, MoveTrackCmd
<1>2. tracks \in [Tracks -> TrackRow] /\ orderRevision \in Nat
  BY DEF OrderInv, TypeInv, TypeOK
<1>3. result = "SUCCESS" => x \in UsedTracks /\ p \in 1..n /\ c.actor \in admins
  <2>1. /\ authorized \in BOOLEAN /\ known \in BOOLEAN
        /\ orderRevision \in Nat /\ n \in Nat /\ c.rev \in Int
    BY <1>1, <1>2, RowsFinite DEF MoveTrackCmd, Exists
  <2>2. known => x \in UsedTracks
    BY <1>1 DEF UsedTracks
  <2>3. result = "SUCCESS" => c.actor \in admins
    BY OnlyAdmins
  <2> HIDE DEF authorized, known, n
  <2>4. result = "SUCCESS" => known /\ p \in 1..n
    BY <2>1, MoveSuccess
  <2> QED BY <2>2, <2>3, <2>4
<1>4. /\ tracks' = [t \in Tracks |-> IF changed /\ t \in UsedTracks
                                     THEN after(t) ELSE tracks[t]]
      /\ orderRevision' = orderRevision + (IF changed THEN 1 ELSE 0)
      /\ Record(c, "REORDER", "TRACK", x, result, changed)
      /\ UNCHANGED <<modules, items>>
  BY DEF MoveTrack
<1>5. CASE changed
  <2>1. /\ IsFiniteSet(UsedTracks) /\ Contiguous(tracks, UsedTracks)
        /\ x \in UsedTracks /\ p \in 1..n /\ p \in Nat /\ x \in Tracks
    BY <1>1, <1>3, <1>5, RowsFinite DEF OrderInv, TracksOrdered
  <2>2. /\ log'.changed /\ log'.actor = c.actor
        /\ log'.entity = "TRACK" /\ log'.key = x
    <3> HIDE DEF result, displaced
    <3> QED BY <1>4, <1>5 DEF Record
  <2>3. x \in displaced
    BY <1>5, <2>1, MoverIsDisplaced
  <2>4. \A t \in UsedTracks :
          /\ tracks'[t].position = MovedPosition(tracks, UsedTracks, x, p, t)
          /\ tracks'[t] = tracks[t] \/ tracks'[t].revision = tracks[t].revision + 1
          /\ tracks'[t].status = tracks[t].status
          /\ tracks'[t].moduleOrder = tracks[t].moduleOrder
    <3> TAKE t \in UsedTracks
    <3>1. t \in Tracks /\ tracks[t] \in TrackRow /\ tracks'[t] = after(t)
      BY <1>2, <1>4, <1>5 DEF UsedTracks
    <3> QED BY <3>1, MovedTrackPlace
  <2>5. \A t \in Tracks : t \notin UsedTracks => tracks'[t] = tracks[t]
    BY <1>4
  <2>6. tracks'[x].revision = tracks[x].revision + 1
    <3>1. tracks[x] \in TrackRow /\ tracks'[x] = after(x)
      BY <1>1, <1>2, <1>4, <1>5, <2>1
    <3> QED BY <2>1, <2>3, <3>1, MovedTrackPlace
  <2>7. tracks'[x] # tracks[x]
    BY <1>2, <2>1, <2>6 DEF TrackRow
  <2>8. Contiguous(tracks', UsedTracks)
    BY <2>1, <2>4, MoveKeepsContiguous
  <2>9. UsedTracks' = UsedTracks
    BY <2>4, <2>5 DEF UsedTracks, Exists
  <2>10. TracksOrdered'
    BY <2>4, <2>5, <2>8, <2>9 DEF OrderInv, TracksOrdered, UsedTracks, Exists
  <2>11. TrackTokens
    BY <1>4, <1>5, <2>4, <2>5 DEF TrackTokens
  <2>12. Attributed
    BY <1>3, <1>5, <2>1, <2>2, <2>7 DEF Attributed
  <2>13. KeepsPlaces(modules, modules')
    BY <1>4 DEF KeepsPlaces
  <2>14. TokensGrow
    <3>1. \A t \in Tracks :
            /\ tracks'[t] = tracks[t]
                 \/ tracks'[t].revision = tracks[t].revision + 1
            /\ tracks'[t].status = tracks[t].status
            /\ tracks'[t].moduleOrder = tracks[t].moduleOrder
      BY <2>4, <2>5
    <3>2. UNCHANGED modules /\ orderRevision' = orderRevision + 1
      BY <1>4, <1>5
    <3> QED BY <3>1, <3>2, TokensAreNumbers DEF TokensGrow, Exists
  <2> QED BY <1>4, <2>10, <2>11, <2>12, <2>13, <2>14, ModulesStay, ItemsStay
          DEF OrderStep
<1>6. CASE ~changed
  <2>1. ~log'.changed
    BY <1>4, <1>6, Recorded
  <2>2. UNCHANGED <<tracks, orderRevision>>
    <3> HIDE DEF changed
    <3> QED BY <1>2, <1>4, <1>6
  <2> QED BY <1>4, <2>1, <2>2, QuietOrder
<1> QED BY <1>5, <1>6

LEMMA MoveModuleOrder ==
  ASSUME OrderInv, NEW c \in Command, MoveModule(c)
  PROVE  OrderStep
<1> DEFINE o == c.track
           x == c.module
           p == c.position
           siblings == ModulesOf(o)
           known == x \in siblings
           n == Cardinality(siblings)
           order == tracks[o].moduleOrder
           authorized == c.actor \in admins
           displaced == Displaced(modules, siblings, x, p)
           result == MoveDecision(authorized, known, order, c, n)
           changed == result = "SUCCESS" /\ displaced # {}
           after(m) == Moved(modules, siblings, x, p, m)
<1>1. c \in MoveModuleCmd /\ o \in Tracks /\ x \in Modules
  BY CommandShapes, CatalogAssumption DEF MoveModule, MoveModuleCmd
<1>2. /\ modules \in [Modules -> ModuleRow] /\ tracks \in [Tracks -> TrackRow]
      /\ tracks[o] \in TrackRow
  BY <1>1 DEF OrderInv, TypeInv, TypeOK
<1>3. result = "SUCCESS" => x \in siblings /\ p \in 1..n /\ c.actor \in admins
  <2>1. /\ authorized \in BOOLEAN /\ known \in BOOLEAN
        /\ order \in Nat /\ n \in Nat /\ c.rev \in Int
    BY <1>1, <1>2, RowsFinite DEF MoveModuleCmd, TrackRow
  <2>2. known => x \in siblings
    OBVIOUS
  <2>3. result = "SUCCESS" => c.actor \in admins
    BY OnlyAdmins
  <2> HIDE DEF authorized, known, n, order
  <2>4. result = "SUCCESS" => known /\ p \in 1..n
    BY <2>1, MoveSuccess
  <2> QED BY <2>2, <2>3, <2>4
<1>4. /\ modules' = [m \in Modules |-> IF changed /\ m \in siblings
                                       THEN after(m) ELSE modules[m]]
      /\ tracks' = IF changed
                   THEN [tracks EXCEPT ![o].moduleOrder = @ + 1]
                   ELSE tracks
      /\ Record(c, "REORDER", "MODULE", x, result, changed)
      /\ UNCHANGED <<items, orderRevision>>
  BY DEF MoveModule
<1>5. CASE changed
  <2>1. /\ IsFiniteSet(siblings) /\ Contiguous(modules, siblings)
        /\ x \in siblings /\ p \in 1..n /\ p \in Nat
    BY <1>1, <1>3, <1>5, RowsFinite DEF OrderInv, ModulesOrdered
  <2>2. /\ log'.changed /\ log'.actor = c.actor
        /\ log'.entity = "MODULE" /\ log'.key = x
    <3> HIDE DEF result, displaced
    <3> QED BY <1>4, <1>5 DEF Record
  <2>3. x \in displaced
    BY <1>5, <2>1, MoverIsDisplaced
  <2>4. \A m \in siblings :
          /\ modules'[m].position = MovedPosition(modules, siblings, x, p, m)
          /\ modules'[m] = modules[m]
               \/ modules'[m].revision = modules[m].revision + 1
          /\ modules'[m].status = modules[m].status
          /\ modules'[m].track = o /\ modules[m].track = o
    <3> TAKE m \in siblings
    <3>1. m \in Modules /\ modules[m] \in ModuleRow /\ modules'[m] = after(m)
      BY <1>2, <1>4, <1>5 DEF ModulesOf
    <3>2. modules'[m].track = modules[m].track
      BY <3>1, MoveModuleRows DEF OrderInv
    <3>3. modules[m].track = o
      BY DEF ModulesOf
    <3> QED BY <3>1, <3>2, <3>3, MovedModulePlace
  <2>5. \A m \in Modules : m \notin siblings => modules'[m] = modules[m]
    BY <1>4
  <2>6. modules'[x].revision = modules[x].revision + 1
    <3>1. modules[x] \in ModuleRow /\ modules'[x] = after(x)
      BY <1>1, <1>2, <1>4, <1>5, <2>1
    <3> QED BY <2>1, <2>3, <3>1, MovedModulePlace
  <2>7. modules'[x] # modules[x]
    BY <1>1, <1>2, <2>6 DEF ModuleRow
  <2>8. Contiguous(modules', siblings)
    BY <2>1, <2>4, MoveKeepsContiguous
  <2>9. \A t : ModulesOf(t)' = ModulesOf(t)
    BY <2>4, <2>5 DEF ModulesOf
  <2>10. ASSUME NEW t \in Tracks
         PROVE  Contiguous(modules', ModulesOf(t))
    <3>1. CASE t = o
      BY <2>8, <3>1
    <3>2. CASE t # o
      <4>1. \A m \in ModulesOf(t) : modules'[m].position = modules[m].position
        BY <2>5, <3>2 DEF ModulesOf
      <4> QED BY <4>1, StayContiguous DEF OrderInv, ModulesOrdered
    <3> QED BY <3>1, <3>2
  <2>11. ModulesOrdered'
    <3>1. \A m \in siblings : Exists(modules[m])
      BY <1>1, CatalogKeysAssumption DEF OrderInv, ModulesOrdered, ModulesOf
    <3> HIDE DEF siblings
    <3> QED BY <2>4, <2>5, <2>9, <2>10, <3>1
            DEF OrderInv, ModulesOrdered, Exists
  <2>12. tracks'[o].moduleOrder = tracks[o].moduleOrder + 1
    BY <1>1, <1>2, <1>4, <1>5 DEF TrackRow
  <2>13. ModuleTokens
    BY <2>4, <2>5, <2>12 DEF ModuleTokens
  <2>14. KeepsPlaces(tracks, tracks')
    BY <1>1, <1>2, <1>4, <1>5 DEF KeepsPlaces, TrackRow, Exists, Shown
  <2>15. Attributed
    BY <1>1, <1>3, <1>5, <2>2, <2>7 DEF Attributed
  <2>16. TokensGrow
    <3>1. \A m \in Modules :
            /\ modules'[m] = modules[m]
                 \/ modules'[m].revision = modules[m].revision + 1
            /\ modules'[m].status = modules[m].status
            /\ modules'[m].track = modules[m].track
      BY <2>4, <2>5
    <3>2. \A t \in Tracks :
            /\ tracks'[t].revision = tracks[t].revision
            /\ tracks'[t].status = tracks[t].status
            /\ t # o => tracks'[t] = tracks[t]
      BY <1>1, <1>2, <1>4, <1>5 DEF TrackRow
    <3>3. UNCHANGED orderRevision
      BY <1>4
    <3> QED BY <2>12, <3>1, <3>2, <3>3, TokensAreNumbers DEF TokensGrow, Exists
  <2> QED BY <1>4, <2>11, <2>13, <2>14, <2>15, <2>16, TracksStay, ItemsStay
          DEF OrderStep
<1>6. CASE ~changed
  <2>1. ~log'.changed
    BY <1>4, <1>6, Recorded
  <2>2. UNCHANGED <<tracks, modules>>
    <3> HIDE DEF changed
    <3> QED BY <1>2, <1>4, <1>6
  <2> QED BY <1>4, <2>1, <2>2, QuietOrder
<1> QED BY <1>5, <1>6

LEMMA CreateContentDraftOrder ==
  ASSUME OrderInv, NEW c \in Command, CreateContentDraft(c)
  PROVE  OrderStep
<1> DEFINE o == c.module
           siblings == ItemsOf(o)
           position == Cardinality(siblings) + 1
<1>1. c \in CreateDraftCmd /\ o \in Modules /\ o # NoOwner
  BY CommandShapes, CatalogAssumption, CatalogKeysAssumption
     DEF CreateContentDraft, CreateDraftCmd
<1>2. /\ items \in [Items -> ItemRow] /\ modules \in [Modules -> ModuleRow]
      /\ modules[o] \in ModuleRow
  BY <1>1 DEF OrderInv, TypeInv, TypeOK
<1>3. Exists(modules[o])
  <2> DEFINE authorized == c.actor \in admins
             known == Exists(modules[o])
             valid == Contiguous(items, siblings)
  <2>1. Decision(authorized, known, c.rev, 1, modules[o].revision, valid)
          = "SUCCESS"
    BY DEF CreateContentDraft
  <2>2. /\ authorized \in BOOLEAN /\ known \in BOOLEAN /\ valid \in BOOLEAN
        /\ c.rev \in Int /\ modules[o].revision \in Int
    BY <1>1, <1>2 DEF CreateDraftCmd, ModuleRow, Contiguous, Exists
  <2>3. known
    <3> HIDE DEF authorized, known, valid
    <3> QED BY <2>1, <2>2, DecisionResult
  <2> QED BY <2>3
<1>4. PICK i \in {k \in Items : ~Exists(items[k])} :
        items' = [items EXCEPT ![i] = NewItem(o, position)]
  BY DEF CreateContentDraft
<1>5. /\ modules' = [modules EXCEPT ![o].revision = @ + 1]
      /\ UNCHANGED <<tracks, orderRevision, log>>
  BY DEF CreateContentDraft
<1> HIDE DEF position
<1>6. /\ i \in Items /\ ~Exists(items[i])
      /\ items[i].revision = 0 /\ items[i].module = NoOwner
  BY <1>4 DEF OrderInv, ItemsOrdered
<1>7. /\ \A k \in Items \ {i} : items'[k] = items[k]
      /\ items'[i].position = position
      /\ items'[i].module = o
      /\ items'[i].revision = 1
      /\ Exists(items'[i])
  BY <1>2, <1>4, <1>6 DEF NewItem, Exists
<1>8. /\ ItemsOf(o)' = siblings \cup {i} /\ i \notin siblings
      /\ \A m \in Modules \ {o} :
           ItemsOf(m)' = ItemsOf(m) /\ i \notin ItemsOf(m)
  <2>1. \A m \in Modules : m # NoOwner
    BY CatalogKeysAssumption
  <2> QED BY <1>1, <1>6, <1>7, <2>1 DEF ItemsOf
<1>9. ASSUME NEW m \in Modules
      PROVE  Contiguous(items', ItemsOf(m)')
  <2>1. Contiguous(items, ItemsOf(m))
    BY DEF OrderInv, ItemsOrdered
  <2>2. CASE m = o
    <3>1. \A k \in siblings : items'[k].position = items[k].position
      BY <1>7, <1>8 DEF ItemsOf
    <3>2. /\ IsFiniteSet(siblings) /\ Contiguous(items, siblings)
          /\ i \notin siblings
          /\ items'[i].position = Cardinality(siblings) + 1
      BY <1>7, <1>8, <2>1, <2>2, RowsFinite DEF position
    <3> HIDE DEF siblings
    <3>3. Contiguous(items', siblings \cup {i})
      BY <3>1, <3>2, AppendKeepsContiguous
    <3> QED BY <1>8, <2>2, <3>3
  <2>3. CASE m # o
    <3>1. \A k \in ItemsOf(m) : items'[k].position = items[k].position
      BY <1>7, <1>8, <2>3 DEF ItemsOf
    <3>2. Contiguous(items', ItemsOf(m))
      BY <2>1, <3>1, StayContiguous
    <3> QED BY <1>8, <2>3, <3>2
  <2> QED BY <2>2, <2>3
<1>10. ItemsOrdered'
  BY <1>6, <1>7, <1>9 DEF OrderInv, ItemsOrdered
<1>11. ItemTokens
  BY <1>6, <1>7 DEF ItemTokens
<1>12. /\ KeepsPlaces(modules, modules') /\ KeepsPlaces(tracks, tracks')
       /\ \A m \in Modules : modules'[m].track = modules[m].track
       /\ TokensGrow
  <2>1. /\ \A m \in Modules \ {o} : modules'[m] = modules[m]
        /\ modules'[o].position = modules[o].position
        /\ modules'[o].track = modules[o].track
        /\ modules'[o].status = modules[o].status
        /\ modules'[o].revision = modules[o].revision + 1
        /\ Shown(modules'[o]) = Shown(modules[o])
    BY <1>1, <1>2, <1>5 DEF ModuleRow, Shown
  <2>2. /\ KeepsPlaces(modules, modules') /\ KeepsPlaces(tracks, tracks')
        /\ \A m \in Modules : modules'[m].track = modules[m].track
    BY <1>2, <1>3, <1>5, <2>1 DEF KeepsPlaces, Exists
  <2>3. TokensGrow
    BY <1>5, <2>1, TokensAreNumbers DEF TokensGrow, Exists
  <2> QED BY <2>2, <2>3
<1>13. Attributed
  <2>1. items' # items
    BY <1>6, <1>7
  <2> QED BY <1>5, <2>1 DEF Attributed
<1> QED BY <1>10, <1>11, <1>12, <1>13, TracksStay, ModulesStay DEF OrderStep

LEMMA PublishContentItemOrder ==
  ASSUME OrderInv, NEW c \in Command, PublishContentItem(c)
  PROVE  OrderStep
<1> DEFINE i == c.item
           row == items[i]
<1>1. c \in PublishItemCmd /\ i \in Items
  BY CommandShapes, CatalogAssumption DEF PublishContentItem, PublishItemCmd
<1>2. items \in [Items -> ItemRow] /\ row \in ItemRow
  BY <1>1 DEF OrderInv, TypeInv, TypeOK
<1>3. Exists(row)
  <2> DEFINE authorized == c.actor \in admins
             known == Exists(row)
  <2>1. Decision(authorized, known, c.rev, 1, row.revision, c.ok) = "SUCCESS"
    BY DEF PublishContentItem
  <2>2. /\ authorized \in BOOLEAN /\ known \in BOOLEAN /\ c.ok \in BOOLEAN
        /\ c.rev \in Int /\ row.revision \in Int
    BY <1>1, <1>2 DEF PublishItemCmd, ItemRow, Exists
  <2>3. known
    <3> HIDE DEF authorized, known, row
    <3> QED BY <2>1, <2>2, DecisionResult
  <2> QED BY <2>3
<1>4. /\ items' = [items EXCEPT ![i] = Published(row)]
      /\ UNCHANGED <<tracks, modules, orderRevision, log>>
  BY DEF PublishContentItem
<1>5. /\ Published(row).revision = row.revision + 1
      /\ Published(row).position = row.position
      /\ Published(row).module = row.module
      /\ Exists(Published(row))
  BY <1>2 DEF Published, ItemRow, Exists
<1> DEFINE after == Published(row)
<1> HIDE DEF after
<1>6. /\ \A k \in Items \ {i} : items'[k] = items[k]
      /\ items'[i].position = row.position /\ items'[i].module = row.module
      /\ items'[i].revision = row.revision + 1 /\ Exists(items'[i])
  <2>1. items'[i] = Published(row) /\ \A k \in Items \ {i} : items'[k] = items[k]
    BY <1>1, <1>2, <1>4
  <2> QED BY <1>5, <2>1
<1>7. \A m \in Modules : ItemsOf(m)' = ItemsOf(m)
  BY <1>6 DEF ItemsOf
<1>8. ASSUME NEW m \in Modules
      PROVE  Contiguous(items', ItemsOf(m))
  <2>1. \A k \in ItemsOf(m) : items'[k].position = items[k].position
    BY <1>6 DEF ItemsOf
  <2> QED BY <2>1, StayContiguous DEF OrderInv, ItemsOrdered
<1>9. ItemsOrdered'
  BY <1>3, <1>6, <1>7, <1>8 DEF OrderInv, ItemsOrdered
<1>10. ItemTokens
  BY <1>6 DEF ItemTokens
<1>11. KeepsPlaces(tracks, tracks') /\ KeepsPlaces(modules, modules')
  BY <1>4 DEF KeepsPlaces
<1>12. Attributed
  BY <1>4 DEF Attributed
<1>13. TokensGrow
  BY <1>4, TokensAreNumbers DEF TokensGrow
<1> QED BY <1>4, <1>9, <1>10, <1>11, <1>12, <1>13, TracksStay, ModulesStay
        DEF OrderStep

-----------------------------------------------------------------------------
(* The theorems *)

LEMMA ExecuteIsAnOrderStep ==
  ASSUME OrderInv, NEW c \in Command, Execute(c)
  PROVE  OrderStep
  BY CreateTrackOrder, EditTrackOrder, ChangeTrackStatusOrder, MoveTrackOrder,
     CreateModuleOrder, EditModuleOrder, ChangeModuleStatusOrder,
     MoveModuleOrder, CreateContentDraftOrder, PublishContentItemOrder
     DEF Execute

LEMMA OrderInductive ==
  /\ Init => OrderInv
  /\ OrderInv /\ [Next]_vars => OrderInv'
  /\ OrderInv /\ Next => OrderStep
<1>1. Init => OrderInv
  <2> SUFFICES ASSUME Init PROVE OrderInv
    OBVIOUS
  <2>1. TypeInv
    BY TypeInvInductive
  <2>2. /\ UsedTracks = {} /\ \A t \in Tracks : ModulesOf(t) = {}
        /\ \A m \in Modules : ItemsOf(m) = {}
    BY CatalogKeysAssumption
       DEF Init, UsedTracks, ModulesOf, ItemsOf, Exists, AbsentTrack,
           AbsentModule, AbsentItem
  <2>3. \A rows : Contiguous(rows, {})
    <3>1. 1..Cardinality({}) = {}
      BY FS_EmptySet
    <3> QED BY <3>1 DEF Contiguous
  <2>4. /\ \A t \in Tracks : tracks[t].revision = 0
        /\ \A m \in Modules : modules[m].revision = 0 /\ modules[m].track = NoOwner
        /\ \A i \in Items : items[i].revision = 0 /\ items[i].module = NoOwner
    BY DEF Init, AbsentTrack, AbsentModule, AbsentItem
  <2> QED BY <2>1, <2>2, <2>3, <2>4
          DEF OrderInv, TracksOrdered, ModulesOrdered, ItemsOrdered
<1>2. OrderInv /\ Next => OrderStep
  <2> SUFFICES ASSUME OrderInv, Next PROVE OrderStep
    OBVIOUS
  <2>1. ASSUME NEW c \in Commands, Execute(c) PROVE OrderStep
    BY <2>1, ExecuteIsAnOrderStep, CatalogAssumption
  <2>2. ASSUME NEW a \in Accounts, ChangeContentRole(a) PROVE OrderStep
    BY <2>2, QuietOrder DEF ChangeContentRole
  <2> QED BY <2>1, <2>2 DEF Next
<1>3. OrderInv /\ [Next]_vars => OrderInv'
  <2>1. OrderInv /\ Next => OrderInv'
    BY <1>2, TypeInvInductive DEF OrderInv, OrderStep
  <2>2. OrderInv /\ UNCHANGED vars => OrderInv'
    <3> SUFFICES ASSUME OrderInv, UNCHANGED vars PROVE OrderInv'
      OBVIOUS
    <3>1. OrderStep
      BY QuietOrder DEF vars
    <3> QED BY <3>1, TypeInvInductive DEF OrderInv, OrderStep
  <2> QED BY <2>1, <2>2
<1> QED BY <1>1, <1>2, <1>3

\* The positions of the tracks, of the modules of a track and of the items of
\* a module are 1..N in every reachable state: no sequence of creations and
\* moves leaves a gap or a duplicate.
THEOREM SequencesContiguous == Spec => []PositionsContiguous
<1>1. OrderInv => PositionsContiguous
  BY DEF OrderInv, TracksOrdered, ModulesOrdered, ItemsOrdered,
         PositionsContiguous
<1> QED BY <1>1, OrderInductive, PTL DEF Spec

\* A step that changes what a form showed changes the token the form carries.
THEOREM TokensAreCurrent == Spec => TokensIdentify
<1> DEFINE A ==
     /\ \A t \in Tracks : Shown(tracks'[t]) # Shown(tracks[t]) =>
          tracks'[t].revision = tracks[t].revision + 1
     /\ \A m \in Modules : Shown(modules'[m]) # Shown(modules[m]) =>
          modules'[m].revision = modules[m].revision + 1
     /\ \A i \in Items : items'[i] # items[i] =>
          items'[i].revision = items[i].revision + 1
     /\ (\E t \in Tracks : tracks'[t].position # tracks[t].position) =>
          orderRevision' = orderRevision + 1
     /\ \A m \in Modules : modules'[m].position # modules[m].position =>
          tracks'[modules'[m].track].moduleOrder =
            tracks[modules'[m].track].moduleOrder + 1
<1>1. OrderInv /\ [Next]_vars => [A]_vars
  BY OrderInductive DEF OrderStep, TrackTokens, ModuleTokens, ItemTokens
<1> QED BY <1>1, OrderInductive, PTL DEF Spec, TokensIdentify

\* Every change of the catalog's rows or order is logged by the same step,
\* under the name of a content admin and of a row that did change.
THEOREM ChangesAreAttributed == Spec => AuditAttributesChange
<1> DEFINE A ==
     /\ \/ tracks' # tracks
        \/ orderRevision' # orderRevision
        \/ modules' # modules /\ items' = items
       => /\ log'.changed
          /\ log'.actor \in admins
          /\ \/ /\ log'.entity = "TRACK" /\ log'.key \in Tracks
                /\ tracks'[log'.key] # tracks[log'.key]
             \/ /\ log'.entity = "MODULE" /\ log'.key \in Modules
                /\ modules'[log'.key] # modules[log'.key]
     /\ log' # log /\ log'.changed => tracks' # tracks \/ modules' # modules
<1>1. OrderInv /\ [Next]_vars => [A]_vars
  BY OrderInductive DEF OrderStep, Attributed
<1> QED BY <1>1, OrderInductive, PTL DEF Spec, AuditAttributesChange

-----------------------------------------------------------------------------
(* Everything that holds of the tables together, for the compositions that  *)
(* run the commands on tables of their own.                                 *)

CatalogInv ==
  /\ OrderInv /\ HistoryInv
  /\ HistoryNumbered /\ ActiveTrackHasActiveModule

\* Rows are never deleted and stay in their track and module.
RowsRemain ==
  /\ \A t \in Tracks : Exists(tracks[t]) => Exists(tracks'[t])
  /\ \A m \in Modules : Exists(modules[m]) =>
       Exists(modules'[m]) /\ modules'[m].track = modules[m].track
  /\ \A i \in Items : Exists(items[i]) =>
       Exists(items'[i]) /\ items'[i].module = items[i].module

LEMMA CatalogInvInit == Init => CatalogInv
<1> SUFFICES ASSUME Init PROVE CatalogInv
  OBVIOUS
<1>1. OrderInv /\ HistoryInv
  BY OrderInductive, HistoryInvInductive
<1>2. HistoryNumbered
  BY DEF Init, HistoryNumbered, Numbered, AbsentTrack, AbsentModule, AbsentItem
<1>3. ActiveTrackHasActiveModule
  BY DEF Init, AbsentTrack, ActiveTrackHasActiveModule
<1> QED BY <1>1, <1>2, <1>3 DEF CatalogInv

LEMMA CatalogInvRules ==
  CatalogInv => /\ ActiveTrackHasActiveModule /\ HistoryNumbered
                /\ PositionsContiguous /\ TypeOK
  BY DEF CatalogInv, OrderInv, TypeInv, TracksOrdered, ModulesOrdered,
         ItemsOrdered, PositionsContiguous

LEMMA CatalogInvKept ==
  ASSUME CatalogInv, NEW c \in Command, Execute(c)
  PROVE  CatalogInv'
<1>1. /\ OrderInv /\ HistoryInv /\ TypeInv
      /\ HistoryNumbered /\ ActiveTrackHasActiveModule
  BY DEF CatalogInv, OrderInv
<1>2. OrderStep /\ TypeInv' /\ HistoryStep /\ ActiveTrackHasActiveModule'
  BY <1>1, ExecuteIsAnOrderStep, ExecuteType, ExecuteIsAHistoryStep,
     ExecuteKeepsRule
<1>3. OrderInv'
  BY <1>2 DEF OrderStep, OrderInv
<1>4. HistoryInv'
  BY <1>1, <1>2
     DEF HistoryInv, HistoryStep, Unwritten, StaysUnwritten, Advances
<1>5. HistoryNumbered'
  <2>1. /\ \A k \in DOMAIN tracks : tracks[k].published \in Nat
        /\ \A k \in DOMAIN modules : modules[k].published \in Nat
        /\ \A k \in DOMAIN items : items[k].published \in Nat
    BY <1>1 DEF TypeInv, TypeOK, TrackRow, ModuleRow, ItemRow
  <2> QED BY <1>1, <1>2, <2>1, AdvancesKeepsNumbering
          DEF HistoryStep, HistoryNumbered
<1> QED BY <1>2, <1>3, <1>4, <1>5 DEF CatalogInv

LEMMA CatalogInvFrame ==
  ASSUME CatalogInv, admins' \subseteq Accounts,
         UNCHANGED <<tracks, modules, items, trackVersions, moduleVersions,
                     contentVersions, orderRevision, log>>
  PROVE  CatalogInv'
<1>1. TypeInv /\ OrderInv /\ HistoryInv
  BY DEF CatalogInv, OrderInv
<1>2. TypeInv'
  BY <1>1 DEF TypeInv, TypeOK, RowsTitled
<1>3. UNCHANGED <<UsedTracks, HistoryNumbered, ActiveTrackHasActiveModule>>
  BY DEF UsedTracks, HistoryNumbered, ActiveTrackHasActiveModule,
         ActiveModules, ModulesOf
<1>4. /\ \A t : ModulesOf(t)' = ModulesOf(t)
      /\ \A m : ItemsOf(m)' = ItemsOf(m)
  BY DEF ModulesOf, ItemsOf
<1>5. OrderInv'
  BY <1>1, <1>2, <1>3, <1>4
     DEF OrderInv, TracksOrdered, ModulesOrdered, ItemsOrdered
<1>6. HistoryInv'
  BY <1>1, <1>2 DEF HistoryInv
<1> QED BY <1>3, <1>5, <1>6 DEF CatalogInv

LEMMA CatalogRowsRemain ==
  ASSUME CatalogInv, NEW c \in Command, Execute(c)
  PROVE  RowsRemain
<1>1. OrderInv /\ TypeInv
  BY DEF CatalogInv, OrderInv
<1>2. OrderStep
  BY <1>1, ExecuteIsAnOrderStep
<1>3. ASSUME NEW i \in Items, Exists(items[i])
      PROVE  Exists(items'[i]) /\ items'[i].module = items[i].module
  <2>1. items \in [Items -> ItemRow]
    BY <1>1 DEF TypeInv, TypeOK
  <2>2. CASE CreateContentDraft(c)
    <3>1. PICK k \in Items :
            ~Exists(items[k]) /\ items' = [items EXCEPT ![k] =
               NewItem(c.module, Cardinality(ItemsOf(c.module)) + 1)]
      BY <2>2 DEF CreateContentDraft
    <3> QED BY <3>1, <2>1, <1>3
  <2>3. CASE PublishContentItem(c)
    <3>1. items' = [items EXCEPT ![c.item] = Published(items[c.item])]
      BY <2>3 DEF PublishContentItem
    <3> QED BY <3>1, <2>1, <1>3 DEF Published, Exists, ItemRow
  <2>4. CASE items' = items
    BY <2>4, <1>3
  <2> QED BY <2>2, <2>3, <2>4
          DEF Execute, CreateTrack, EditTrack, ChangeTrackStatus, MoveTrack,
              CreateModule, EditModule, ChangeModuleStatus, MoveModule
<1> QED BY <1>2, <1>3 DEF OrderStep, TokensGrow, RowsRemain
=============================================================================
