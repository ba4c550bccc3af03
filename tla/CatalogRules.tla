---------------------------- MODULE CatalogRules ----------------------------
(***************************************************************************)
(* The pure part of catalog/services/content.py and ordering.py: the rows  *)
(* of the catalog tables, the chain of early returns that every command    *)
(* runs before it writes, and the new row each kind of write computes.     *)
(* Catalog (one atomic step per command) and CatalogTx (one step per       *)
(* statement that locks a row) both decide and write with these operators. *)
(*                                                                         *)
(* Every free text of a row (title, description, audience, objective,      *)
(* lesson) is abstracted to one member of Titles: it is what the snapshots *)
(* copy. Its canonical title key, KeyOf, is what the unique constraints    *)
(* compare: two texts may differ in their description alone.               *)
(***************************************************************************)
EXTENDS Integers, FiniteSets

CONSTANTS
  Accounts,   \* accounts that issue catalog commands
  Tracks,     \* primary keys of the Track table, used or not yet used
  Modules,    \* primary keys of the Module table
  Items,      \* primary keys of the ContentItem table
  Titles,     \* the texts of rows and snapshots
  KeyOf(_),   \* canonicalize_title: the title key of a text
  NoTitle,    \* the title of a row that does not exist yet
  NoOwner     \* the foreign key of a row that does not exist yet

ASSUME CatalogKeysAssumption ==
  /\ IsFiniteSet(Tracks) /\ IsFiniteSet(Modules) /\ IsFiniteSet(Items)
  /\ NoTitle \notin Titles
  /\ NoOwner \notin Tracks \cup Modules \cup Items

Status == {"INACTIVE", "ACTIVE"}

\* A Track row. "ABSENT" stands for a key no row has: rows are never deleted
\* (every foreign key is on_delete=PROTECT and no service deletes).
TrackRow ==
  [status: Status \cup {"ABSENT"}, title: Titles \cup {NoTitle}, revision: Nat,
   published: Nat, position: Nat, moduleOrder: Nat]

ModuleRow ==
  [track: Tracks \cup {NoOwner}, status: Status \cup {"ABSENT"},
   title: Titles \cup {NoTitle}, revision: Nat, published: Nat, position: Nat]

\* A ContentItem row. Its payload lives in its versions only.
ItemRow ==
  [module: Modules \cup {NoOwner}, status: {"ABSENT", "DRAFT", "PUBLISHED"},
   revision: Nat, published: Nat, position: Nat]

\* A row of TrackVersion, ModuleVersion or ContentVersion: the snapshot.
VersionRow(keys) == [of: keys, number: Nat, title: Titles]

AbsentTrack ==
  [status |-> "ABSENT", title |-> NoTitle, revision |-> 0, published |-> 0,
   position |-> 0, moduleOrder |-> 0]

AbsentModule ==
  [track |-> NoOwner, status |-> "ABSENT", title |-> NoTitle, revision |-> 0,
   published |-> 0, position |-> 0]

AbsentItem ==
  [module |-> NoOwner, status |-> "ABSENT", revision |-> 0, published |-> 0,
   position |-> 0]

\* The defaults of the models: INACTIVE, revision 1, never published.
NewTrack(title, position) ==
  [status |-> "INACTIVE", title |-> title, revision |-> 1, published |-> 0,
   position |-> position, moduleOrder |-> 0]

NewModule(track, title, position) ==
  [track |-> track, status |-> "INACTIVE", title |-> title, revision |-> 1,
   published |-> 0, position |-> position]

NewItem(module, position) ==
  [module |-> module, status |-> "DRAFT", revision |-> 1, published |-> 0,
   position |-> position]

Exists(row) == row.status # "ABSENT"

-----------------------------------------------------------------------------
(* The commands, one record per call. `rev` is the revision (for a move the *)
(* order revision) the form sends back, `ok` whether the text fields pass   *)
(* validation, `pub` whether the publication data does (_validate_publication).*)

CreateTrackCmd ==
  [op: {"create_track"}, actor: Accounts, title: Titles, ok: BOOLEAN]
EditTrackCmd ==
  [op: {"edit_track"}, actor: Accounts, track: Tracks, rev: Int,
   title: Titles, ok: BOOLEAN, pub: BOOLEAN]
TrackStatusCmd ==
  [op: {"change_track_status"}, actor: Accounts, track: Tracks, rev: Int,
   target: Status \cup {"UNSUPPORTED"}, pub: BOOLEAN]
MoveTrackCmd ==
  [op: {"move_track"}, actor: Accounts, track: Tracks, rev: Int, position: Int]
CreateModuleCmd ==
  [op: {"create_module"}, actor: Accounts, track: Tracks, title: Titles,
   ok: BOOLEAN]
EditModuleCmd ==
  [op: {"edit_module"}, actor: Accounts, track: Tracks, module: Modules,
   rev: Int, title: Titles, ok: BOOLEAN, pub: BOOLEAN]
ModuleStatusCmd ==
  [op: {"change_module_status"}, actor: Accounts, track: Tracks,
   module: Modules, rev: Int, target: Status \cup {"UNSUPPORTED"},
   pub: BOOLEAN]
MoveModuleCmd ==
  [op: {"move_module"}, actor: Accounts, track: Tracks, module: Modules,
   rev: Int, position: Int]
CreateDraftCmd ==
  [op: {"create_content_draft"}, actor: Accounts, module: Modules, rev: Int]
PublishItemCmd ==
  [op: {"publish_content_item"}, actor: Accounts, item: Items, rev: Int,
   title: Titles, ok: BOOLEAN]

Command ==
  CreateTrackCmd \cup EditTrackCmd \cup TrackStatusCmd \cup MoveTrackCmd
    \cup CreateModuleCmd \cup EditModuleCmd \cup ModuleStatusCmd
    \cup MoveModuleCmd \cup CreateDraftCmd \cup PublishItemCmd

-----------------------------------------------------------------------------
(* The early returns, in the order every command has them. *)

\* `known` is the target's existence, `rev` the form's expected revision,
\* `least` the smallest well-formed one (1 for a row, 0 for an order),
\* `current` the token read under the lock and `valid` everything validated
\* after the revision check.
Decision(authorized, known, rev, least, current, valid) ==
  CASE ~authorized   -> "DENIED"
    [] authorized /\ ~known -> "NOT_FOUND"
    [] authorized /\ known /\ rev < least -> "INVALID"
    [] authorized /\ known /\ rev >= least /\ rev # current -> "CONFLICT"
    [] authorized /\ known /\ rev >= least /\ rev = current ->
         IF valid THEN "SUCCESS" ELSE "INVALID"

\* Mutation: the target status is not validated.
SupportedAnything(target) == TRUE

\* target_status in Track.Status.values.
Supported(target) == target \in Status

Results == {"SUCCESS", "DENIED", "INVALID", "CONFLICT", "NOT_FOUND"}

\* What each command decides from what it read: `auth` says that the actor is
\* an active content admin, `free` that no unique constraint stands against
\* the write, `n` is the length of the sequence that the move permutes.
CreateDecision(auth, known, c, free) ==
  Decision(auth, known, 1, 1, 1, c.ok /\ free)

EditDecision(auth, known, row, c, free) ==
  Decision(auth, known, c.rev, 1, row.revision,
           c.ok /\ (row.status = "ACTIVE" => c.pub) /\ free)

MoveDecision(auth, known, order, c, n) ==
  Decision(auth, known, c.rev, 0, order, c.position \in 1..n)

\* Activation needs publication data and an active module; a status the track
\* already has is a successful no-op, but only for a current revision.
TrackStatusDecision(auth, row, c, hasActive) ==
  Decision(auth, Exists(row), c.rev, 1, row.revision,
           /\ Supported(c.target)
           /\ \/ c.target = row.status
              \/ c.target = "INACTIVE"
              \/ c.pub /\ hasActive)

\* Mutation: counts the active modules that would be left, off by one.
IsLastActiveOffByOne(owner, actives) ==
  owner.status = "ACTIVE" /\ Cardinality(actives) = 0

\* The only active module of an active track is not deactivated.
IsLastActive(owner, actives) ==
  owner.status = "ACTIVE" /\ Cardinality(actives) = 1

ModuleStatusDecision(auth, row, owner, c, actives) ==
  Decision(auth, row.track = c.track, c.rev, 1, row.revision,
           /\ Supported(c.target)
           /\ \/ c.target = row.status
              \/ c.target = "ACTIVE" /\ c.pub
              \/ c.target = "INACTIVE" /\ ~IsLastActive(owner, actives))

-----------------------------------------------------------------------------
(* The rows that the writes compute from the row read under the lock. *)

\* Mutation: an edit publishes nothing.
EditedUnpublished(row, title) ==
  [row EXCEPT !.title = title, !.revision = @ + 1]

\* edit_track, edit_module: an active entity publishes its new text at once.
Edited(row, title) ==
  [row EXCEPT !.title = title,
              !.revision = @ + 1,
              !.published = IF row.status = "ACTIVE" THEN @ + 1 ELSE @]

\* Mutation: a reactivation starts the numbering over.
WithStatusRestarted(row, target) ==
  [row EXCEPT !.status = target,
              !.revision = @ + 1,
              !.published = IF target = "ACTIVE" THEN 1 ELSE @]

\* change_track_status, change_module_status: activation publishes.
WithStatus(row, target) ==
  [row EXCEPT !.status = target,
              !.revision = @ + 1,
              !.published = IF target = "ACTIVE" THEN @ + 1 ELSE @]

\* Mutation: the current version is not advanced.
PublishedInPlace(row) == [row EXCEPT !.status = "PUBLISHED", !.revision = @ + 1]

\* publish_content_item.
Published(row) ==
  [row EXCEPT !.status = "PUBLISHED", !.revision = @ + 1, !.published = @ + 1]

\* Mutation: the snapshot takes the number of the version it replaces.
SnapshotOfBefore(key, before, after, title) ==
  IF after.published = before.published THEN {}
  ELSE {[of |-> key, number |-> before.published, title |-> title]}

\* The snapshot that goes with a write: none unless `published` advanced.
Snapshot(key, before, after, title) ==
  IF after.published = before.published THEN {}
  ELSE {[of |-> key, number |-> after.published, title |-> title]}

\* The 1-based index of row k when the rows `keys` are sorted by position.
Index(rows, keys, k) ==
  Cardinality({j \in keys : rows[j].position <= rows[k].position})

\* Mutation: inserts after position p, as list.insert(position, ...) would.
MovedPositionOffByOne(rows, keys, x, p, k) ==
  LET i == Index(rows, keys, k)
      popped == IF i < Index(rows, keys, x) THEN i ELSE i - 1
  IN  CASE k = x -> p
        [] k # x -> IF popped <= p THEN popped ELSE popped + 1

\* The position of row k after the row x was popped from the sorted list and
\* inserted at position p, and the list enumerated from 1.
MovedPosition(rows, keys, x, p, k) ==
  LET i == Index(rows, keys, k)
      popped == IF i < Index(rows, keys, x) THEN i ELSE i - 1
  IN  CASE k = x -> p
        [] k # x -> IF popped < p THEN popped ELSE popped + 1

\* The rows whose position the move changes, and a row after the move.
Displaced(rows, keys, x, p) ==
  {k \in keys : MovedPosition(rows, keys, x, p, k) # rows[k].position}

\* Mutation: only the moved row gets a new revision.
MovedSilently(rows, keys, x, p, k) ==
  [rows[k] EXCEPT !.position = MovedPosition(rows, keys, x, p, k),
                  !.revision = IF k = x THEN @ + 1 ELSE @]

Moved(rows, keys, x, p, k) ==
  IF k \in Displaced(rows, keys, x, p)
  THEN [rows[k] EXCEPT !.position = MovedPosition(rows, keys, x, p, k),
                       !.revision = @ + 1]
  ELSE rows[k]

\* The title key is unique: among all tracks, and among a track's modules.
TitleFree(rows, keys, self, title) ==
  \A k \in keys \ {self} : KeyOf(rows[k].title) # KeyOf(title)

\* Title and position are unique, so a new row may be inserted.
Insertable(rows, keys, title, position) ==
  \A k \in keys :
    KeyOf(rows[k].title) # KeyOf(title) /\ rows[k].position # position

\* The positions of the rows `keys` are 1..N without a gap or a duplicate.
Contiguous(rows, keys) ==
  /\ \A j, k \in keys : rows[j].position = rows[k].position => j = k
  /\ {rows[k].position : k \in keys} = 1..Cardinality(keys)
=============================================================================
