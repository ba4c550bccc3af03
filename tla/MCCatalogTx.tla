---------------------------- MODULE MCCatalogTx ----------------------------
(* CatalogTx, bounded for TLC: two starting catalogs that commands built,   *)
(* and the calls that then run concurrently.                                *)
EXTENDS CatalogTx, TLC

\* Texts here are nothing but their titles.
SameKey(title) == title

\* After create_track, create_module twice and the activation of module 1: the
\* track is about to be activated, module 1 is its only active module.
StatusInit ==
  /\ admins = Accounts
  /\ tracks = [t \in Tracks |-> IF t = 1
                 THEN [NewTrack("x", 1) EXCEPT !.moduleOrder = 2]
                 ELSE AbsentTrack]
  /\ modules = [m \in Modules |->
       CASE m = 1 -> WithStatus(NewModule(1, "x", 1), "ACTIVE")
         [] m = 2 -> NewModule(1, "y", 2)
         [] OTHER -> AbsentModule]
  /\ items = [i \in Items |-> AbsentItem]
  /\ trackVersions = {} /\ contentVersions = {}
  /\ moduleVersions = {[of |-> 1, number |-> 1, title |-> "x"]}
  /\ orderRevision = 1
  /\ log = NoLog
  /\ TxInit

StatusSpec == StatusInit /\ [][TxNext]_txVars

\* Stale and current forms of the status commands, the edits and the draft
\* that compete for the same rows.
StatusCommands ==
  [op: {"change_track_status"}, actor: Accounts, track: {1}, rev: {1, 2},
   target: Status, pub: {TRUE}]
    \cup [op: {"change_module_status"}, actor: Accounts, track: {1},
          module: {1}, rev: {2, 3}, target: Status, pub: {TRUE}]
    \cup [op: {"edit_module"}, actor: Accounts, track: {1}, module: {1},
          rev: {2}, title: {"z"}, ok: {TRUE}, pub: {TRUE}]
    \cup [op: {"edit_track"}, actor: Accounts, track: {1}, rev: {1},
          title: {"z"}, ok: {TRUE}, pub: {TRUE}]
    \cup [op: {"create_content_draft"}, actor: Accounts, module: {1},
          rev: {2}]

\* After create_track twice, create_module twice and create_content_draft.
OrderInit ==
  /\ admins = Accounts
  /\ tracks = [t \in Tracks |->
       CASE t = 1 -> [NewTrack("x", 2) EXCEPT !.moduleOrder = 2]
         [] t = 2 -> NewTrack("y", 1)
         [] OTHER -> AbsentTrack]
  /\ modules = [m \in Modules |->
       CASE m = 1 -> [NewModule(1, "x", 1) EXCEPT !.revision = 2]
         [] m = 2 -> NewModule(1, "y", 2)
         [] OTHER -> AbsentModule]
  /\ items = [i \in Items |-> IF i = 1 THEN NewItem(1, 1) ELSE AbsentItem]
  /\ trackVersions = {} /\ moduleVersions = {} /\ contentVersions = {}
  /\ orderRevision = 2
  /\ log = NoLog
  /\ TxInit

OrderSpec == OrderInit /\ [][TxNext]_txVars

\* The commands that create, move and edit in the same sequences.
OrderCommands ==
  [op: {"create_track"}, actor: Accounts, title: {"z"}, ok: {TRUE}]
    \cup [op: {"move_track"}, actor: Accounts, track: {1}, rev: {2, 3},
          position: {1, 3}]
    \cup [op: {"edit_track"}, actor: Accounts, track: {2}, rev: {1},
          title: {"y", "z"}, ok: {TRUE}, pub: {TRUE}]
    \cup [op: {"create_module"}, actor: Accounts, track: {1, 3}, title: {"z"},
          ok: {TRUE}]
    \cup [op: {"move_module"}, actor: Accounts, track: {1}, module: {1},
          rev: {2, 3}, position: {2}]
    \cup [op: {"create_content_draft"}, actor: Accounts, module: {1},
          rev: {2}]
    \cup [op: {"publish_content_item"}, actor: Accounts, item: {1}, rev: {1},
          title: {"x"}, ok: {TRUE}]

\* The log row is written, never read.
WithoutLog ==
  <<admins, tracks, modules, items, trackVersions, moduleVersions,
    contentVersions, orderRevision, tx, runs>>

Symmetry == Permutations(Workers) \cup Permutations(Accounts)
=============================================================================
