----------------------------- MODULE MCCatalog -----------------------------
(* Catalog, bounded for TLC: which calls are issued.                       *)
EXTENDS Catalog, TLC

\* Texts here are nothing but their titles.
SameKey(title) == title

\* Every call with a well-formed token, valid or not, a status that is not
\* supported, and positions just outside the sequence.
WellFormed ==
  CreateTrackCmd \cup CreateModuleCmd
    \cup [op: {"edit_track"}, actor: Accounts, track: Tracks,
          rev: 1..MaxRevision, title: Titles, ok: {TRUE}, pub: BOOLEAN]
    \cup [op: {"edit_module"}, actor: Accounts, track: Tracks,
          module: Modules, rev: 1..MaxRevision, title: Titles, ok: {TRUE},
          pub: BOOLEAN]
    \cup [op: {"change_track_status"}, actor: Accounts, track: Tracks,
          rev: 1..MaxRevision, target: Status, pub: BOOLEAN]
    \cup [op: {"change_module_status"}, actor: Accounts, track: Tracks,
          module: Modules, rev: 1..MaxRevision, target: Status, pub: BOOLEAN]
    \cup [op: {"move_track"}, actor: Accounts, track: Tracks,
          rev: 0..MaxOrder, position: 0..(Cardinality(Tracks) + 1)]
    \cup [op: {"move_module"}, actor: Accounts, track: Tracks,
          module: Modules, rev: 0..MaxOrder,
          position: 0..(Cardinality(Modules) + 1)]
    \cup [op: {"create_content_draft"}, actor: Accounts, module: Modules,
          rev: 1..MaxRevision]
    \cup [op: {"publish_content_item"}, actor: Accounts, item: Items,
          rev: 1..MaxRevision, title: Titles, ok: BOOLEAN]

\* Calls with a malformed token, an unsupported status or text that fails
\* validation, each with everything else right: for a token no row has (0) and
\* for one that rows have (2).
Malformed ==
  [op: {"edit_track"}, actor: Accounts, track: Tracks, rev: {0, 2},
   title: Titles, ok: {FALSE}, pub: {TRUE}]
    \cup [op: {"edit_module"}, actor: Accounts, track: Tracks,
          module: Modules, rev: {0, 2},
          title: Titles, ok: {FALSE}, pub: {TRUE}]
    \cup [op: {"change_track_status"}, actor: Accounts, track: Tracks,
          rev: {0, 2}, target: {"UNSUPPORTED"}, pub: {TRUE}]
    \cup [op: {"change_module_status"}, actor: Accounts, track: Tracks,
          module: Modules, rev: {0, 2}, target: {"UNSUPPORTED"},
          pub: {TRUE}]
    \cup [op: {"move_track"}, actor: Accounts, track: Tracks, rev: {-1},
          position: {1}]
    \cup [op: {"move_module"}, actor: Accounts, track: Tracks,
          module: Modules, rev: {-1}, position: {1}]

AllCommands == WellFormed \cup Malformed

\* The calls that build and reorder sequences and publish items, well-formed.
OrderCommands ==
  {c \in WellFormed :
     \/ c.op \in {"create_track", "create_module", "publish_content_item"} /\ c.ok
     \/ c.op \in {"move_track", "move_module", "create_content_draft"}}

\* The log row is written, never read: states that differ only in it continue
\* alike, so TLC explores one of them (every step is still checked).
WithoutLog == <<admins, tracks, modules, items, trackVersions, moduleVersions,
                contentVersions, orderRevision>>

Symmetry == Permutations(Tracks) \cup Permutations(Modules)
              \cup Permutations(Titles)
=============================================================================
