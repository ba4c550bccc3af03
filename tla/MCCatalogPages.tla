--------------------------- MODULE MCCatalogPages ---------------------------
(* CatalogPages, bounded for TLC: a catalog that commands built, and what    *)
(* another administrator may do to it.                                      *)
EXTENDS CatalogPages

\* Texts here are nothing but their titles.
SameKey(title) == title

\* After create_track twice, create_module twice and the activations of module
\* 1 and of track 1.
BuiltInit ==
  /\ admins = Accounts
  /\ tracks = [t \in Tracks |->
       CASE t = 1 -> WithStatus([NewTrack("x", 1) EXCEPT !.moduleOrder = 2],
                                "ACTIVE")
         [] t = 2 -> NewTrack("y", 2)
         [] OTHER -> AbsentTrack]
  /\ modules = [m \in Modules |->
       CASE m = 1 -> WithStatus(NewModule(1, "x", 1), "ACTIVE")
         [] m = 2 -> NewModule(1, "y", 2)
         [] OTHER -> AbsentModule]
  /\ items = [i \in Items |-> AbsentItem]
  /\ contentVersions = {}
  /\ trackVersions = {[of |-> 1, number |-> 1, title |-> "x"]}
  /\ moduleVersions = {[of |-> 1, number |-> 1, title |-> "x"]}
  /\ orderRevision = 2
  /\ log = NoLog
  /\ page = NoPage /\ visit = NoVisit /\ changes = 0

BuiltSpec == BuiltInit /\ [][PageNext]_pageVars

\* Another administrator's accepted calls.
OtherCommands ==
  [op: {"change_track_status"}, actor: Accounts, track: {1},
   rev: 1..MaxRevision, target: Status, pub: {TRUE}]
    \cup [op: {"change_module_status"}, actor: Accounts, track: {1},
          module: {1, 2}, rev: 1..MaxRevision, target: Status, pub: {TRUE}]
    \cup [op: {"edit_module"}, actor: Accounts, track: {1}, module: {1},
          rev: 1..MaxRevision, title: {"z"}, ok: {TRUE}, pub: {TRUE}]
    \cup [op: {"edit_track"}, actor: Accounts, track: {1},
          rev: 1..MaxRevision, title: {"z"}, ok: {TRUE}, pub: {TRUE}]
    \cup [op: {"move_track"}, actor: Accounts, track: {1}, rev: 0..MaxOrder,
          position: {1, 2}]
    \cup [op: {"move_module"}, actor: Accounts, track: {1}, module: {1},
          rev: 0..MaxOrder, position: {1, 2}]
    \cup [op: {"create_track"}, actor: Accounts, title: {"z"}, ok: {TRUE}]

\* The log row is written, never read.
WithoutLog ==
  <<admins, tracks, modules, items, trackVersions, moduleVersions,
    contentVersions, orderRevision, page, visit, changes>>
=============================================================================
