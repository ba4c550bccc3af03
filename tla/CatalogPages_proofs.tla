------------------------ MODULE CatalogPages_proofs ------------------------
(***************************************************************************)
(* Theorems about CatalogPages: whatever statements, refusals, swaps of    *)
(* rows and other people's commands interleave, a page's commands are      *)
(* carried out only upon what the page shows, and a learner reads          *)
(* published text and finds a module in a track that is on offer.          *)
(***************************************************************************)
EXTENDS CatalogPages, Catalog_proofs

-----------------------------------------------------------------------------
(* The inductive invariant: about the catalog, the page and the visit.      *)

TablesSound ==
  /\ OrderInv /\ HistoryInv
  /\ ActiveTrackHasActiveModule /\ LiveContentIsPublished

\* What a row on a page is to the row in the table: an earlier state of it, and
\* its present one as long as the revision did not change.
SeenAs(shown, row) ==
  /\ shown.revision \in Nat /\ shown.status \in Status
  /\ Exists(row) /\ shown.revision <= row.revision
  /\ shown.revision = row.revision => Shown(shown) = Shown(row)

TrackPages == {"track list", "track form"}
ModulePages == {"module list", "module form"}

PageShape ==
  /\ page = [kind |-> page.kind, step |-> page.step, actor |-> page.actor,
             track |-> page.track, token |-> page.token, rows |-> page.rows,
             fields |-> page.fields]
  /\ page.step \in {"CONTEXT", "ROWS", "SHOWN"}
  /\ page.step # "SHOWN" => page.kind \in Lists
  /\ page.kind \in {"none", "new track", "new module"}
                     \cup TrackPages \cup ModulePages
  /\ page.token \in Nat /\ page.fields \in BOOLEAN
  /\ page.kind # "none" => page.actor \in Accounts
  /\ page.kind \in ModulePages \cup {"track form", "new module"} =>
       page.track \in Tracks
  /\ page.kind = "module list" => Exists(tracks[page.track])

RowsSeen ==
  /\ page.kind \in TrackPages =>
       \A k \in Keys : k \in Tracks /\ SeenAs(page.rows[k], tracks[k])
  /\ page.kind \in ModulePages =>
       \A k \in Keys : /\ k \in Modules /\ SeenAs(page.rows[k], modules[k])
                       /\ modules[k].track = page.track

\* A form shows one row and carries its revision.
FormSeen ==
  /\ page.kind \in {"track form", "module form"} =>
       \A k \in Keys : page.token = page.rows[k].revision
  /\ page.kind = "track form" => Keys = {page.track}

\* The token of a list is read before its rows: as long as it is the current
\* one, the rows are in their places and no other row joined them.
TracksPlaced ==
  page.kind = "track list" /\ page.step \in {"ROWS", "SHOWN"} =>
    /\ page.token <= orderRevision
    /\ page.step = "SHOWN" /\ page.token = orderRevision =>
         /\ Keys = UsedTracks
         /\ \A t \in Keys : page.rows[t].position = tracks[t].position

ModulesPlaced ==
  page.kind = "module list" /\ page.step \in {"ROWS", "SHOWN"} =>
    /\ page.token <= tracks[page.track].moduleOrder
    /\ page.step = "SHOWN" /\ page.token = tracks[page.track].moduleOrder =>
         /\ Keys = ModulesOf(page.track)
         /\ \A m \in Keys : page.rows[m].position = modules[m].position

PageSound == PageShape /\ RowsSeen /\ FormSeen /\ TracksPlaced /\ ModulesPlaced

VisitSound ==
  /\ visit = [step |-> visit.step, track |-> visit.track,
              title |-> visit.title, modules |-> visit.modules,
              retired |-> visit.retired]
  /\ visit.step \in {"FOUND", "TRACK"} => visit.track \in Tracks
  /\ DOMAIN visit.modules \subseteq Modules

PageInv ==
  /\ TablesSound /\ PageSound /\ VisitSound
  /\ LearnerReadsPublishedText /\ EmptyPageOnlyWhenRetired

-----------------------------------------------------------------------------
(* The catalog under the pages: whoever sends a command, it is a step of    *)
(* Catalog for which the theorems about Catalog hold.                       *)

CatalogMoves ==
  \/ \E c \in Command : Execute(c)
  \/ \E a \in Accounts : ChangeContentRole(a)
  \/ UNCHANGED vars

LEMMA CatalogStep ==
  ASSUME TablesSound, CatalogMoves
  PROVE  TablesSound' /\ OrderStep /\ HistoryStep
<1>1. OrderStep
  <2>1. CASE \E c \in Command : Execute(c)
    BY <2>1, ExecuteIsAnOrderStep DEF TablesSound
  <2>2. CASE \E a \in Accounts : ChangeContentRole(a)
    BY <2>2, QuietOrder DEF TablesSound, ChangeContentRole
  <2>3. CASE UNCHANGED vars
    BY <2>3, QuietOrder DEF TablesSound, vars
  <2> QED BY <2>1, <2>2, <2>3 DEF CatalogMoves
<1>2. HistoryStep
  <2>1. CASE \E c \in Command : Execute(c)
    BY <2>1, ExecuteIsAHistoryStep DEF TablesSound
  <2>2. CASE \E a \in Accounts : ChangeContentRole(a)
    BY <2>2, EveryStepIsAHistoryStep DEF TablesSound, Next
  <2>3. CASE UNCHANGED vars
    BY <2>3, EveryStepIsAHistoryStep DEF TablesSound
  <2> QED BY <2>1, <2>2, <2>3 DEF CatalogMoves
<1>3. TypeInv'
  <2>1. CASE \E c \in Command : Execute(c)
    BY <2>1, ExecuteType DEF TablesSound, OrderInv
  <2>2. CASE \E a \in Accounts : ChangeContentRole(a)
    BY <2>2, TypeInvInductive DEF TablesSound, OrderInv, Next
  <2>3. CASE UNCHANGED vars
    BY <2>3, TypeInvInductive DEF TablesSound, OrderInv
  <2> QED BY <2>1, <2>2, <2>3 DEF CatalogMoves
<1>4. ActiveTrackHasActiveModule'
  <2>1. CASE \E c \in Command : Execute(c)
    BY <2>1, ExecuteKeepsRule DEF TablesSound, OrderInv
  <2>2. CASE \E a \in Accounts : ChangeContentRole(a)
    BY <2>2, QuietKeepsRule DEF TablesSound, ChangeContentRole, Quiet
  <2>3. CASE UNCHANGED vars
    BY <2>3, QuietKeepsRule DEF TablesSound, vars, Quiet
  <2> QED BY <2>1, <2>2, <2>3 DEF CatalogMoves
<1>5. OrderInv'
  BY <1>1, <1>3 DEF OrderStep, OrderInv
<1>6. HistoryInv'
  BY <1>2, <1>3 DEF TablesSound, HistoryInv, HistoryStep, Unwritten,
                    StaysUnwritten, Advances
<1>7. LiveContentIsPublished'
  <2>1. /\ DOMAIN tracks = Tracks /\ DOMAIN modules = Modules
        /\ DOMAIN items = Items
    BY DEF TablesSound, HistoryInv, TypeInv, TypeOK
  <2> QED BY <1>2, <2>1
          DEF TablesSound, HistoryStep, LiveContentIsPublished,
              ShowsPublished, ItemsShowPublished, Advances
<1> QED BY <1>1, <1>2, <1>4, <1>5, <1>6, <1>7 DEF TablesSound

\* A row that was seen stays seen, whatever is done to it.
LEMMA SeenTrackStays ==
  ASSUME OrderInv, OrderInv', OrderStep, NEW t \in Tracks, NEW shown,
         SeenAs(shown, tracks[t])
  PROVE  SeenAs(shown, tracks'[t])
<1>1. /\ tracks[t].revision \in Nat
      /\ tracks[t].revision <= tracks'[t].revision
      /\ Exists(tracks'[t])
      /\ Shown(tracks'[t]) # Shown(tracks[t]) =>
           tracks'[t].revision = tracks[t].revision + 1
  BY TokensAreNumbers DEF SeenAs, OrderStep, TokensGrow, TrackTokens
<1>2. tracks'[t].revision \in Nat
  BY DEF OrderInv, TypeInv, TypeOK, TrackRow
<1> QED BY <1>1, <1>2 DEF SeenAs

LEMMA SeenModuleStays ==
  ASSUME OrderInv, OrderInv', OrderStep, NEW m \in Modules, NEW shown,
         SeenAs(shown, modules[m])
  PROVE  SeenAs(shown, modules'[m]) /\ modules'[m].track = modules[m].track
<1>1. /\ modules[m].revision \in Nat
      /\ modules[m].revision <= modules'[m].revision
      /\ Exists(modules'[m]) /\ modules'[m].track = modules[m].track
      /\ Shown(modules'[m]) # Shown(modules[m]) =>
           modules'[m].revision = modules[m].revision + 1
  BY TokensAreNumbers DEF SeenAs, OrderStep, TokensGrow, ModuleTokens
<1>2. modules'[m].revision \in Nat
  BY DEF OrderInv, TypeInv, TypeOK, ModuleRow
<1> QED BY <1>1, <1>2 DEF SeenAs

\* As long as the order revision stays, so do the places of the tracks ...
LEMMA TrackPlacesStay ==
  ASSUME OrderInv, OrderInv', OrderStep
  PROVE  /\ orderRevision <= orderRevision'
         /\ orderRevision \in Nat /\ orderRevision' \in Nat
         /\ orderRevision' = orderRevision =>
              /\ UsedTracks' = UsedTracks
              /\ \A t \in Tracks : tracks'[t].position = tracks[t].position
<1>1. orderRevision \in Nat /\ orderRevision' \in Nat
  BY DEF OrderInv, TypeInv, TypeOK
<1>2. orderRevision <= orderRevision'
  BY DEF OrderStep, TokensGrow
<1>3. ASSUME orderRevision' = orderRevision
      PROVE  /\ \A t \in Tracks : Exists(tracks'[t]) <=> Exists(tracks[t])
             /\ \A t \in Tracks : tracks'[t].position = tracks[t].position
  BY <1>1, <1>3 DEF OrderStep, TokensGrow, TrackTokens
<1> QED BY <1>1, <1>2, <1>3 DEF UsedTracks

\* ... and as long as the module order of a track stays, so do those of its
\* modules.
LEMMA ModulePlacesStay ==
  ASSUME OrderInv, OrderInv', OrderStep, NEW t \in Tracks, Exists(tracks[t])
  PROVE  /\ Exists(tracks'[t])
         /\ tracks[t].moduleOrder <= tracks'[t].moduleOrder
         /\ tracks[t].moduleOrder \in Nat /\ tracks'[t].moduleOrder \in Nat
         /\ tracks'[t].moduleOrder = tracks[t].moduleOrder =>
              /\ ModulesOf(t)' = ModulesOf(t)
              /\ \A m \in ModulesOf(t) :
                   modules'[m].position = modules[m].position
<1>1. tracks[t].moduleOrder \in Nat /\ tracks'[t].moduleOrder \in Nat
  BY DEF OrderInv, TypeInv, TypeOK, TrackRow
<1>2. Exists(tracks'[t]) /\ tracks[t].moduleOrder <= tracks'[t].moduleOrder
  BY DEF OrderStep, TokensGrow
<1>3. ASSUME tracks'[t].moduleOrder = tracks[t].moduleOrder, NEW m \in Modules
      PROVE  /\ modules'[m].track = t <=> modules[m].track = t
             /\ modules[m].track = t =>
                  modules'[m].position = modules[m].position
  <2>1. modules'[m].track = t => modules[m].track = t
    BY <1>1, <1>3 DEF OrderStep, TokensGrow
  <2>2. modules[m].track = t => Exists(modules[m])
    BY CatalogKeysAssumption DEF OrderInv, ModulesOrdered
  <2>3. modules[m].track = t => modules'[m].track = t
    BY <2>2 DEF OrderStep, TokensGrow
  <2>4. modules'[m].track = t => modules'[m].position = modules[m].position
    BY <1>1, <1>3 DEF OrderStep, ModuleTokens
  <2> QED BY <2>1, <2>3, <2>4
<1> QED BY <1>1, <1>2, <1>3 DEF ModulesOf

-----------------------------------------------------------------------------
(* The administrator's page                                                 *)

\* Two tokens read one after the other, compared with a third.
LEMMA Between ==
  ASSUME NEW a \in Nat, NEW b \in Nat, NEW c \in Nat, a <= b, b <= c
  PROVE  a <= c /\ (a = c => a = b /\ b = c)
  OBVIOUS

\* What the answer to a command makes of a page, and what nobody touches.
Kept ==
  {page, IF page.kind \in Lists THEN [page EXCEPT !.step = "CONTEXT"]
                                ELSE [page EXCEPT !.fields = FALSE]}

\* An open page stays sound, whatever happens to the catalog behind it.
LEMMA PageStays ==
  ASSUME TablesSound, TablesSound', OrderStep, PageSound, page' \in Kept
  PROVE  PageSound'
<1>1. /\ page'.kind = page.kind /\ page'.actor = page.actor
      /\ page'.track = page.track /\ page'.token = page.token
      /\ page'.rows = page.rows /\ page'.fields \in BOOLEAN
      /\ page'.step \in {page.step, "CONTEXT"}
      /\ page'.step # "SHOWN" => page.kind \in Lists
      /\ page' = [kind |-> page'.kind, step |-> page'.step,
                  actor |-> page'.actor, track |-> page'.track,
                  token |-> page'.token, rows |-> page'.rows,
                  fields |-> page'.fields]
  BY DEF Kept, PageSound, PageShape
<1>2. OrderInv /\ OrderInv'
  BY DEF TablesSound
<1>3. \A t \in Tracks : Exists(tracks[t]) => Exists(tracks'[t])
  BY DEF OrderStep, TokensGrow
<1>4. PageShape'
  BY <1>1, <1>3 DEF PageSound, PageShape, TrackPages, ModulePages, Lists
<1>5. RowsSeen'
  <2>1. ASSUME page.kind \in TrackPages, NEW k \in DOMAIN page.rows
        PROVE  k \in Tracks /\ SeenAs(page.rows[k], tracks'[k])
    BY <1>2, <2>1, SeenTrackStays DEF PageSound, RowsSeen, Keys
  <2>2. ASSUME page.kind \in ModulePages, NEW k \in DOMAIN page.rows
        PROVE  /\ k \in Modules /\ SeenAs(page.rows[k], modules'[k])
               /\ modules'[k].track = page.track
    BY <1>2, <2>2, SeenModuleStays DEF PageSound, RowsSeen, Keys
  <2> QED BY <1>1, <2>1, <2>2 DEF RowsSeen, Keys, TrackPages, ModulePages
<1>6. FormSeen'
  BY <1>1 DEF PageSound, FormSeen, Keys
<1>7. TracksPlaced'
  <2> SUFFICES ASSUME page.kind = "track list", page.step \in {"ROWS", "SHOWN"}
               PROVE  /\ page.token <= orderRevision'
                      /\ page.step = "SHOWN" /\ page.token = orderRevision' =>
                           /\ Keys = UsedTracks'
                           /\ \A t \in Keys :
                                page.rows[t].position = tracks'[t].position
    BY <1>1 DEF TracksPlaced, Keys
  <2>0. /\ orderRevision <= orderRevision'
        /\ orderRevision \in Nat /\ orderRevision' \in Nat
        /\ orderRevision' = orderRevision =>
             /\ UsedTracks' = UsedTracks
             /\ \A t \in Tracks : tracks'[t].position = tracks[t].position
    BY <1>2, TrackPlacesStay
  <2>1. page.token \in Nat /\ page.token <= orderRevision
    BY DEF PageSound, PageShape, TracksPlaced
  <2>2. ASSUME page.step = "SHOWN", page.token = orderRevision'
        PROVE  /\ Keys = UsedTracks'
               /\ \A t \in Keys : page.rows[t].position = tracks'[t].position
    <3>1. page.token = orderRevision /\ orderRevision' = orderRevision
      BY <2>0, <2>1, <2>2, Between
    <3>2. /\ UsedTracks' = UsedTracks
          /\ \A t \in Tracks : tracks'[t].position = tracks[t].position
      BY <2>0, <3>1
    <3> QED BY <2>2, <3>1, <3>2 DEF PageSound, TracksPlaced, UsedTracks
  <2>3. page.token <= orderRevision'
    BY <2>0, <2>1, Between
  <2> QED BY <2>2, <2>3
<1>8. ModulesPlaced'
  <2> SUFFICES ASSUME page.kind = "module list", page.step \in {"ROWS", "SHOWN"}
               PROVE  ModulesPlaced'
    BY <1>1 DEF ModulesPlaced
  <2>1. PICK t \in Tracks :
          /\ t = page.track /\ t = page'.track
          /\ page.token \in Nat /\ page.token <= tracks[t].moduleOrder
          /\ Exists(tracks[t])
    BY <1>1 DEF PageSound, PageShape, ModulesPlaced, ModulePages
  <2>2. /\ tracks[t].moduleOrder <= tracks'[t].moduleOrder
        /\ tracks[t].moduleOrder \in Nat /\ tracks'[t].moduleOrder \in Nat
        /\ tracks'[t].moduleOrder = tracks[t].moduleOrder =>
             /\ ModulesOf(t)' = ModulesOf(t)
             /\ \A m \in ModulesOf(t) :
                  modules'[m].position = modules[m].position
    BY <1>2, <2>1, ModulePlacesStay
  <2>3. ASSUME page.step = "SHOWN", page.token = tracks'[t].moduleOrder
        PROVE  /\ Keys = ModulesOf(t)'
               /\ \A m \in Keys : page.rows[m].position = modules'[m].position
    <3>0. /\ page.token <= tracks[t].moduleOrder /\ page.token \in Nat
          /\ tracks[t].moduleOrder <= tracks'[t].moduleOrder
          /\ tracks[t].moduleOrder \in Nat /\ tracks'[t].moduleOrder \in Nat
      BY <2>1, <2>2
    <3>1. /\ page.token = tracks[t].moduleOrder
          /\ tracks'[t].moduleOrder = tracks[t].moduleOrder
      BY ZenonT(60), <2>3, <3>0, Between
    <3>2. /\ ModulesOf(t)' = ModulesOf(t)
          /\ \A m \in ModulesOf(t) : modules'[m].position = modules[m].position
      BY <2>2, <3>1
    <3>3. /\ Keys = ModulesOf(t)
          /\ \A m \in Keys : page.rows[m].position = modules[m].position
      BY <2>1, <2>3, <3>1 DEF PageSound, ModulesPlaced
    <3> QED BY <3>2, <3>3
  <2>4. page.token <= tracks'[t].moduleOrder
    BY <2>1, <2>2, Between
  <2> QED BY <1>1, <2>1, <2>3, <2>4 DEF ModulesPlaced, Keys, ModulesOf
<1> QED BY <1>4, <1>5, <1>6, <1>7, <1>8 DEF PageSound

\* The page that shows nothing.
LEMMA NoPageSound ==
  ASSUME page' = NoPage
  PROVE  PageSound'
<1>1. /\ page' = [kind |-> "none", step |-> "SHOWN", actor |-> NoOwner,
                  track |-> NoOwner, token |-> 0, rows |-> <<>>,
                  fields |-> FALSE]
  BY DEF NoPage
<1> QED BY <1>1 DEF PageSound, PageShape, RowsSeen, FormSeen, TracksPlaced,
                    ModulesPlaced, TrackPages, ModulePages, Lists

LEMMA NoRows == DOMAIN <<>> = {}
  BY SMT

LEMMA OpenListSound ==
  ASSUME TablesSound, NEW a \in Accounts,
         NEW kind \in {"track list", "module list"}, NEW t,
         kind = "module list" => t \in Tracks, OpenList(a, kind, t)
  PROVE  PageSound'
<1>1. /\ page' = [kind |-> kind, step |-> "CONTEXT", actor |-> a,
                  track |-> t, token |-> 0, rows |-> <<>>,
                  fields |-> FALSE]
      /\ kind = "module list" => Exists(tracks'[t])
  BY DEF OpenList, NoPage, vars
<1> QED BY <1>1, NoRows
           DEF PageSound, PageShape, RowsSeen, FormSeen, TracksPlaced,
                    ModulesPlaced, TrackPages, ModulePages, Lists, Keys

LEMMA OpenEmptyFormSound ==
  ASSUME TablesSound, NEW a \in Accounts,
         NEW kind \in {"new track", "new module"}, NEW t,
         kind = "new module" => t \in Tracks, OpenEmptyForm(a, kind, t)
  PROVE  PageSound'
<1>1. /\ page' = [kind |-> kind, step |-> "SHOWN", actor |-> a,
                  track |-> t, token |-> 0, rows |-> <<>>,
                  fields |-> FALSE]
      /\ kind = "new module" => Exists(tracks'[t])
  BY DEF OpenEmptyForm, NoPage, vars
<1> QED BY <1>1 DEF PageSound, PageShape, RowsSeen, FormSeen, TracksPlaced,
                    ModulesPlaced, TrackPages, ModulePages, Lists

LEMMA RowSeen ==
  ASSUME NEW row, row.revision \in Nat, Exists(row),
         row.status \in Status \cup {"ABSENT"}
  PROVE  SeenAs(row, row)
  BY DEF SeenAs, Exists

LEMMA OpenTrackFormSound ==
  ASSUME TablesSound, NEW a \in Accounts, NEW t \in Tracks,
         OpenForm(a, "track form", t, t)
  PROVE  PageSound'
<1> DEFINE row == tracks[t]
<1>1. /\ page' = [kind |-> "track form", step |-> "SHOWN", actor |-> a,
                  track |-> t, token |-> row.revision,
                  rows |-> [key \in {t} |-> row],
                  fields |-> (row.status = "ACTIVE")]
      /\ Exists(row) /\ tracks' = tracks
  BY DEF OpenForm, NoPage, vars
<1>2. row.revision \in Nat /\ row.status \in Status \cup {"ABSENT"}
  BY DEF TablesSound, OrderInv, TypeInv, TypeOK, TrackRow
<1>3. SeenAs(row, row)
  BY <1>1, <1>2, RowSeen
<1>4. (row.status = "ACTIVE") \in BOOLEAN
  OBVIOUS
<1> HIDE DEF row
<1>5. /\ page'.rows = [key \in {t} |-> row] /\ DOMAIN page'.rows = {t}
      /\ page'.rows[t] = row /\ page'.kind = "track form"
      /\ page'.token = row.revision /\ page'.track = t
  BY <1>1
<1>6. PageShape'
  BY <1>1, <1>2, <1>4 DEF PageShape, TrackPages, ModulePages, Lists, row
<1>7. RowsSeen' /\ FormSeen' /\ TracksPlaced' /\ ModulesPlaced'
  BY <1>1, <1>3, <1>5 DEF RowsSeen, FormSeen, TracksPlaced, ModulesPlaced,
     TrackPages, ModulePages, Keys, row
<1> QED BY <1>6, <1>7 DEF PageSound

LEMMA OpenModuleFormSound ==
  ASSUME TablesSound, NEW a \in Accounts, NEW t \in Tracks, NEW m \in Modules,
         OpenForm(a, "module form", t, m)
  PROVE  PageSound'
<1> DEFINE row == modules[m]
<1>1. /\ page' = [kind |-> "module form", step |-> "SHOWN", actor |-> a,
                  track |-> t, token |-> row.revision,
                  rows |-> [key \in {m} |-> row],
                  fields |-> (row.status = "ACTIVE")]
      /\ Exists(row) /\ row.track = t /\ modules' = modules /\ tracks' = tracks
  BY DEF OpenForm, NoPage, vars
<1>2. row.revision \in Nat /\ row.status \in Status \cup {"ABSENT"}
  BY DEF TablesSound, OrderInv, TypeInv, TypeOK, ModuleRow
<1>3. SeenAs(row, row)
  BY <1>1, <1>2, RowSeen
<1>4. (row.status = "ACTIVE") \in BOOLEAN
  OBVIOUS
<1> HIDE DEF row
<1>5. /\ page'.rows = [key \in {m} |-> row] /\ DOMAIN page'.rows = {m}
      /\ page'.rows[m] = row /\ page'.kind = "module form"
      /\ page'.token = row.revision /\ page'.track = t
  BY <1>1
<1>6. PageShape'
  BY <1>1, <1>2, <1>4 DEF PageShape, TrackPages, ModulePages, Lists
<1>7. RowsSeen' /\ FormSeen' /\ TracksPlaced' /\ ModulesPlaced'
  BY <1>1, <1>3, <1>5 DEF RowsSeen, FormSeen, TracksPlaced, ModulesPlaced,
     TrackPages, ModulePages, Keys, row
<1> QED BY <1>6, <1>7 DEF PageSound

\* The token of a list is the current one when it is read.
LEMMA ReadContextSound ==
  ASSUME TablesSound, PageSound, ReadContext
  PROVE  PageSound'
<1>1. CASE page.actor \notin admins
  BY <1>1, NoPageSound DEF ReadContext
<1>2. CASE page.actor \in admins
  <2>1. /\ page'.kind = page.kind /\ page'.step = "ROWS"
        /\ page'.actor = page.actor /\ page'.track = page.track
        /\ page'.token = Token(page.kind, page.track)
        /\ page'.rows = <<>> /\ page'.fields = page.fields
        /\ page' = [kind |-> page'.kind, step |-> page'.step,
                    actor |-> page'.actor, track |-> page'.track,
                    token |-> page'.token, rows |-> page'.rows,
                    fields |-> page'.fields]
        /\ tracks' = tracks /\ orderRevision' = orderRevision
    BY <1>2 DEF ReadContext, PageSound, PageShape, vars
  <2>2. /\ orderRevision \in Nat
        /\ \A t \in Tracks : tracks[t].moduleOrder \in Nat
    BY TokensAreNumbers DEF TablesSound
  <2>3. page.kind \in {"track list", "module list"}
    BY DEF PageSound, PageShape, ReadContext, Lists
  <2>4. page.kind = "module list" =>
          page.track \in Tracks /\ Exists(tracks[page.track])
    BY DEF PageSound, PageShape, ModulePages
  <2>5. Token(page.kind, page.track) \in Nat
    BY <2>2, <2>3, <2>4 DEF Token
  <2>6. PageShape'
    BY <2>1, <2>3, <2>4, <2>5
       DEF PageSound, PageShape, TrackPages, ModulePages, Lists
  <2>7. RowsSeen' /\ FormSeen'
    BY <2>1, <2>3, NoRows DEF RowsSeen, FormSeen, Keys
  <2>8. TracksPlaced'
    <3>1. page.kind = "track list" => page'.token = orderRevision'
      BY <2>1 DEF Token
    <3>2. orderRevision' <= orderRevision'
      BY <2>1, <2>2
    <3> QED BY <2>1, <3>1, <3>2 DEF TracksPlaced
  <2>9. ModulesPlaced'
    <3>1. page.kind = "module list" =>
            page'.token = tracks'[page'.track].moduleOrder
      BY <2>1 DEF Token
    <3>2. page.kind = "module list" =>
            tracks'[page'.track].moduleOrder <= tracks'[page'.track].moduleOrder
      <4>1. page.kind = "module list" =>
              tracks'[page'.track].moduleOrder \in Nat
        BY <2>1, <2>2, <2>4
      <4>2. \A n \in Nat : n <= n
        OBVIOUS
      <4> QED BY <4>1, <4>2, Zenon
    <3> QED BY <2>1, <3>1, <3>2 DEF ModulesPlaced
  <2> QED BY <2>6, <2>7, <2>8, <2>9 DEF PageSound
<1> QED BY <1>1, <1>2

\* The rows are read after the token: if the token is still the current one,
\* the rows are those it stands for.
LEMMA RenderRowsSound ==
  ASSUME TablesSound, PageSound, RenderRows
  PROVE  PageSound'
<1>1. page.kind \in {"track list", "module list"}
  BY DEF PageSound, PageShape, RenderRows, Lists
<1>2. \A t \in Tracks : Exists(tracks[t]) => SeenAs(tracks[t], tracks[t])
  BY RowSeen DEF TablesSound, OrderInv, TypeInv, TypeOK, TrackRow
<1>3. \A m \in Modules : Exists(modules[m]) => SeenAs(modules[m], modules[m])
  BY RowSeen DEF TablesSound, OrderInv, TypeInv, TypeOK, ModuleRow
<1>4. \A m \in Modules : modules[m].track \in Tracks => Exists(modules[m])
  BY CatalogKeysAssumption DEF TablesSound, OrderInv, ModulesOrdered
<1>5. CASE page.kind = "track list"
  <2>1. /\ page' = [kind |-> page.kind, step |-> "SHOWN", actor |-> page.actor,
                    track |-> page.track, token |-> page.token,
                    rows |-> [t \in UsedTracks |-> tracks[t]],
                    fields |-> page.fields]
        /\ tracks' = tracks /\ orderRevision' = orderRevision
        /\ page.step = "ROWS"
    BY <1>5 DEF RenderRows, PageSound, PageShape, vars
  <2>2. PageShape'
    BY <1>5, <2>1 DEF PageSound, PageShape, TrackPages, ModulePages, Lists
  <2>3. RowsSeen' /\ FormSeen'
    BY <1>2, <1>5, <2>1 DEF RowsSeen, FormSeen, Keys, UsedTracks,
                            TrackPages, ModulePages
  <2>4. TracksPlaced' /\ ModulesPlaced'
    BY <1>5, <2>1 DEF PageSound, TracksPlaced, ModulesPlaced, Keys, UsedTracks
  <2> QED BY <2>2, <2>3, <2>4 DEF PageSound
<1>6. CASE page.kind = "module list"
  <2>1. /\ page' = [kind |-> page.kind, step |-> "SHOWN", actor |-> page.actor,
                    track |-> page.track, token |-> page.token,
                    rows |-> [m \in ModulesOf(page.track) |-> modules[m]],
                    fields |-> page.fields]
        /\ tracks' = tracks /\ modules' = modules
        /\ page.step = "ROWS"
    BY <1>6 DEF RenderRows, PageSound, PageShape, vars
  <2>2. PageShape'
    BY <1>6, <2>1 DEF PageSound, PageShape, TrackPages, ModulePages, Lists
  <2>3. RowsSeen' /\ FormSeen'
    BY <1>3, <1>4, <1>6, <2>1
       DEF PageSound, PageShape, RowsSeen, FormSeen, Keys,
                       ModulesOf, TrackPages, ModulePages
  <2>4. TracksPlaced' /\ ModulesPlaced'
    BY <1>6, <2>1 DEF PageSound, TracksPlaced, ModulesPlaced, Keys, ModulesOf
  <2> QED BY <2>2, <2>3, <2>4 DEF PageSound
<1> QED BY <1>1, <1>5, <1>6

LEMMA BrowseSound ==
  ASSUME TablesSound, PageSound, Browse
  PROVE  PageSound'
  BY OpenListSound, OpenEmptyFormSound, OpenTrackFormSound, OpenModuleFormSound,
     ReadContextSound, RenderRowsSound, NoPageSound DEF Browse, Leave

-----------------------------------------------------------------------------
(* What a page sends                                                        *)

\* What the fields of a page are.
LEMMA PageFields ==
  ASSUME PageSound
  PROVE  /\ page.token \in Int /\ page.fields \in BOOLEAN
         /\ page.kind # "none" => page.actor \in Accounts
         /\ page.kind \in {"track form", "module list", "module form",
                         "new module"} => page.track \in Tracks
<1>1. page.token \in Nat
  BY DEF PageSound, PageShape
<1>2. \A n \in Nat : n \in Int
  OBVIOUS
<1>3. page.token \in Int
  BY <1>1, <1>2, Zenon
<1> QED BY <1>3 DEF PageSound, PageShape, ModulePages

\* A row of a page names a row of the table.
LEMMA PageRows ==
  ASSUME PageSound, NEW k \in Keys
  PROVE  /\ page.kind \in TrackPages => k \in Tracks
         /\ page.kind \in ModulePages => k \in Modules
         /\ page.kind \in TrackPages \cup ModulePages =>
              page.rows[k].revision \in Int /\ page.rows[k].status \in Status
<1>1. /\ page.kind \in TrackPages => k \in Tracks
      /\ page.kind \in ModulePages => k \in Modules
  BY DEF PageSound, RowsSeen
<1>2. page.kind \in TrackPages \cup ModulePages =>
        page.rows[k].revision \in Nat /\ page.rows[k].status \in Status
  BY DEF PageSound, RowsSeen, SeenAs
<1>3. \A n \in Nat : n \in Int
  OBVIOUS
<1> QED BY <1>1, <1>2, <1>3, Zenon

\* A button asks for the other status than the one its row shows.
LEMMA PressesFlip ==
  ASSUME NEW k, page.rows[k].status \in Status, NEW b \in Presses(k)
  PROVE  /\ b.target \in Status /\ b.target # page.rows[k].status
         /\ b.pub \in BOOLEAN
<1>1. b.target \in Status /\ b.target # page.rows[k].status
  BY DEF Presses, Status
<1>2. CASE page.rows[k].status = "ACTIVE"
  <2>1. b = [target |-> "INACTIVE", pub |-> FALSE]
    BY <1>2 DEF Presses
  <2>2. b.pub = FALSE
    BY <2>1
  <2> QED BY <1>1, <2>2, Zenon
<1>3. CASE page.rows[k].status # "ACTIVE"
  BY <1>1, <1>3 DEF Presses
<1> QED BY <1>2, <1>3

\* The records of the commands, with the values that vary.
LEMMA PositionsAreNumbers == \A p \in Positions : p \in Int
  BY DEF Positions

LEMMA TrackMoveShape ==
  ASSUME NEW c \in TrackMoveCommands
  PROVE  \E k \in Keys, p \in Positions :
         c = [op |-> "move_track", actor |-> page.actor, track |-> k,
              rev |-> page.token, position |-> p]
  BY DEF TrackMoveCommands

LEMMA ModuleMoveShape ==
  ASSUME NEW c \in ModuleMoveCommands
  PROVE  \E k \in Keys, p \in Positions :
         c = [op |-> "move_module", actor |-> page.actor, track |-> page.track,
              module |-> k, rev |-> page.token, position |-> p]
  BY DEF ModuleMoveCommands

LEMMA ModuleFormShape ==
  ASSUME NEW c \in ModuleFormCommands
  PROVE  \E f \in Typed, k \in Keys :
         c = [op |-> "edit_module", actor |-> page.actor, track |-> page.track,
              module |-> k, rev |-> page.token, title |-> f.title,
              ok |-> f.ok, pub |-> f.pub]
  BY DEF ModuleFormCommands

LEMMA TrackFormShape ==
  ASSUME NEW c \in TrackFormCommands
  PROVE  \E f \in Typed :
         c = [op |-> "edit_track", actor |-> page.actor, track |-> page.track,
              rev |-> page.token, title |-> f.title, ok |-> f.ok,
              pub |-> f.pub]
  BY DEF TrackFormCommands

LEMMA TrackStatusSends ==
  ASSUME PageSound, page.kind = "track list", NEW c \in TrackStatusCommands
  PROVE  /\ c \in TrackStatusCmd /\ c.track \in Keys
         /\ c.rev = page.rows[c.track].revision
         /\ c.target \in Status /\ c.target # page.rows[c.track].status
<1>1. PICK k \in Keys : \E b \in Presses(k) :
        c = [op |-> "change_track_status", actor |-> page.actor,
             track |-> k, rev |-> page.rows[k].revision,
             target |-> b.target, pub |-> b.pub]
  BY DEF TrackStatusCommands
<1>2. PICK b \in Presses(k) :
        c = [op |-> "change_track_status", actor |-> page.actor,
             track |-> k, rev |-> page.rows[k].revision,
             target |-> b.target, pub |-> b.pub]
  BY <1>1
<1>3. /\ page.actor \in Accounts /\ k \in Tracks
      /\ page.rows[k].revision \in Int /\ page.rows[k].status \in Status
  BY <1>1, PageFields, PageRows DEF TrackPages
<1>4. /\ b.target \in Status /\ b.target # page.rows[k].status
      /\ b.pub \in BOOLEAN
  BY <1>3, PressesFlip
<1>5. c \in TrackStatusCmd
  BY <1>2, <1>3, <1>4 DEF TrackStatusCmd
<1>6. /\ c.track = k /\ c.rev = page.rows[k].revision /\ c.target = b.target
  BY <1>2
<1> QED BY <1>1, <1>4, <1>5, <1>6

LEMMA ModuleStatusSends ==
  ASSUME PageSound, page.kind = "module list", NEW c \in ModuleStatusCommands
  PROVE  /\ c \in ModuleStatusCmd /\ c.module \in Keys
         /\ c.rev = page.rows[c.module].revision
         /\ c.target \in Status /\ c.target # page.rows[c.module].status
<1>1. PICK k \in Keys : \E b \in Presses(k) :
        c = [op |-> "change_module_status", actor |-> page.actor,
             track |-> page.track, module |-> k,
             rev |-> page.rows[k].revision,
             target |-> b.target, pub |-> b.pub]
  BY DEF ModuleStatusCommands
<1>2. PICK b \in Presses(k) :
        c = [op |-> "change_module_status", actor |-> page.actor,
             track |-> page.track, module |-> k,
             rev |-> page.rows[k].revision,
             target |-> b.target, pub |-> b.pub]
  BY <1>1
<1>3. /\ page.actor \in Accounts /\ k \in Modules /\ page.track \in Tracks
      /\ page.rows[k].revision \in Int /\ page.rows[k].status \in Status
  BY <1>1, PageFields, PageRows DEF ModulePages
<1>4. /\ b.target \in Status /\ b.target # page.rows[k].status
      /\ b.pub \in BOOLEAN
  BY <1>3, PressesFlip
<1>5. c \in ModuleStatusCmd
  BY <1>2, <1>3, <1>4 DEF ModuleStatusCmd
<1>6. /\ c.module = k /\ c.rev = page.rows[k].revision /\ c.target = b.target
  BY <1>2
<1> QED BY <1>1, <1>4, <1>5, <1>6

LEMMA TrackMoveSends ==
  ASSUME PageSound, page.kind = "track list", NEW c \in TrackMoveCommands
  PROVE  c \in MoveTrackCmd /\ c.track \in Keys /\ c.rev = page.token
<1>1. PICK k \in Keys, p \in Positions :
        c = [op |-> "move_track", actor |-> page.actor, track |-> k,
             rev |-> page.token, position |-> p]
  BY TrackMoveShape
<1>2. /\ page.actor \in Accounts /\ k \in Tracks /\ page.token \in Int
  BY <1>1, PageFields, PageRows DEF TrackPages
<1>3. p \in Int
  BY <1>1, PositionsAreNumbers
<1> QED BY <1>1, <1>2, <1>3 DEF MoveTrackCmd

LEMMA ModuleMoveSends ==
  ASSUME PageSound, page.kind = "module list", NEW c \in ModuleMoveCommands
  PROVE  /\ c \in MoveModuleCmd /\ c.track = page.track
         /\ c.module \in Keys /\ c.rev = page.token
<1>1. PICK k \in Keys, p \in Positions :
        c = [op |-> "move_module", actor |-> page.actor, track |-> page.track,
             module |-> k, rev |-> page.token, position |-> p]
  BY ModuleMoveShape
<1>2. /\ page.actor \in Accounts /\ k \in Modules /\ page.token \in Int
      /\ page.track \in Tracks
  BY <1>1, PageFields, PageRows DEF ModulePages
<1>3. p \in Int
  BY <1>1, PositionsAreNumbers
<1> QED BY <1>1, <1>2, <1>3 DEF MoveModuleCmd

LEMMA TypedType ==
  ASSUME PageSound, NEW f \in Typed
  PROVE  f.title \in Titles /\ f.ok \in BOOLEAN /\ f.pub \in BOOLEAN
<1>1. page.fields \in BOOLEAN
  BY DEF PageSound, PageShape
<1>2. f.title \in Titles /\ f.ok \in BOOLEAN /\ f.pub \in {FALSE, page.fields}
  BY DEF Typed
<1> QED BY <1>1, <1>2, Zenon

LEMMA TrackFormSends ==
  ASSUME PageSound, page.kind = "track form", NEW c \in TrackFormCommands
  PROVE  c \in EditTrackCmd /\ c.track = page.track /\ c.rev = page.token
<1>1. PICK f \in Typed :
        c = [op |-> "edit_track", actor |-> page.actor, track |-> page.track,
             rev |-> page.token, title |-> f.title, ok |-> f.ok, pub |-> f.pub]
  BY TrackFormShape
<1>2. /\ page.actor \in Accounts /\ page.track \in Tracks /\ page.token \in Int
  BY PageFields
<1>3. f.title \in Titles /\ f.ok \in BOOLEAN /\ f.pub \in BOOLEAN
  BY TypedType
<1> QED BY <1>1, <1>2, <1>3 DEF EditTrackCmd

LEMMA ModuleFormSends ==
  ASSUME PageSound, page.kind = "module form", NEW c \in ModuleFormCommands
  PROVE  /\ c \in EditModuleCmd /\ c.track = page.track
         /\ c.module \in Keys /\ c.rev = page.token
<1>1. PICK f \in Typed, k \in Keys :
        c = [op |-> "edit_module", actor |-> page.actor, track |-> page.track,
             module |-> k, rev |-> page.token, title |-> f.title, ok |-> f.ok,
             pub |-> f.pub]
  BY ModuleFormShape
<1>2. /\ page.actor \in Accounts /\ page.track \in Tracks /\ page.token \in Int
      /\ k \in Modules
  BY <1>1, PageFields, PageRows DEF ModulePages
<1>3. f.title \in Titles /\ f.ok \in BOOLEAN /\ f.pub \in BOOLEAN
  BY TypedType
<1> QED BY <1>1, <1>2, <1>3 DEF EditModuleCmd

LEMMA NewTrackSends ==
  ASSUME PageSound, page.kind = "new track", NEW c \in NewTrackCommands
  PROVE  c \in CreateTrackCmd
<1>1. PICK f \in Typed :
        c = [op |-> "create_track", actor |-> page.actor, title |-> f.title,
             ok |-> f.ok]
  BY DEF NewTrackCommands
<1>2. page.actor \in Accounts
  BY DEF PageSound, PageShape
<1> QED BY <1>1, <1>2, TypedType DEF CreateTrackCmd

LEMMA NewModuleSends ==
  ASSUME PageSound, page.kind = "new module", NEW c \in NewModuleCommands
  PROVE  c \in CreateModuleCmd
<1>1. PICK f \in Typed :
        c = [op |-> "create_module", actor |-> page.actor,
             track |-> page.track, title |-> f.title, ok |-> f.ok]
  BY DEF NewModuleCommands
<1>2. page.actor \in Accounts /\ page.track \in Tracks
  BY DEF PageSound, PageShape
<1> QED BY <1>1, <1>2, TypedType DEF CreateModuleCmd

\* Which page a command comes from.
LEMMA OfferedWhere ==
  ASSUME NEW c \in Offered
  PROVE  /\ page.step = "SHOWN"
         /\ \/ /\ page.kind = "track list"
               /\ c \in TrackStatusCommands \/ c \in TrackMoveCommands
            \/ /\ page.kind = "module list"
               /\ c \in ModuleStatusCommands \/ c \in ModuleMoveCommands
            \/ page.kind = "track form" /\ c \in TrackFormCommands
            \/ page.kind = "module form" /\ c \in ModuleFormCommands
            \/ page.kind = "new track" /\ c \in NewTrackCommands
            \/ page.kind = "new module" /\ c \in NewModuleCommands
  BY DEF Offered

LEMMA OfferedAreCommands ==
  ASSUME PageSound, NEW c \in Offered
  PROVE  c \in Command
  BY OfferedWhere, TrackStatusSends, ModuleStatusSends, TrackMoveSends,
     ModuleMoveSends, TrackFormSends, ModuleFormSends, NewTrackSends,
     NewModuleSends DEF Command

\* A command that is sent keeps the page, or leaves it.
LEMMA SendSound ==
  ASSUME TablesSound, PageSound, NEW c \in Offered, NEW htmx \in BOOLEAN,
         Send(c, htmx)
  PROVE  CatalogMoves /\ PageSound'
<1>1. CatalogMoves
  BY OfferedAreCommands DEF Send, CatalogMoves
<1>2. page' = NoPage \/ page' \in Kept
  BY DEF Send, Answer, Kept
<1>3. TablesSound' /\ OrderStep
  BY <1>1, CatalogStep
<1> QED BY <1>1, <1>2, <1>3, NoPageSound, PageStays

-----------------------------------------------------------------------------
(* The learner                                                              *)

\* An active row's text is the text of a version.
LEMMA ActiveTextIsPublished ==
  ASSUME LiveContentIsPublished
  PROVE  /\ \A t \in Tracks : tracks[t].status = "ACTIVE" =>
              tracks[t].title \in Versions(Tracks, trackVersions, t)
         /\ \A m \in Modules : modules[m].status = "ACTIVE" =>
              modules[m].title \in Versions(Modules, moduleVersions, m)
<1>1. ASSUME NEW t \in Tracks, tracks[t].status = "ACTIVE"
      PROVE  tracks[t].title \in Versions(Tracks, trackVersions, t)
  <2> DEFINE v == [of |-> t, number |-> tracks[t].published,
                   title |-> tracks[t].title]
  <2>1. v \in trackVersions /\ v.of = t /\ v.title = tracks[t].title
    BY <1>1 DEF LiveContentIsPublished
  <2> HIDE DEF v
  <2> QED BY <2>1 DEF Versions
<1>2. ASSUME NEW m \in Modules, modules[m].status = "ACTIVE"
      PROVE  modules[m].title \in Versions(Modules, moduleVersions, m)
  <2> DEFINE v == [of |-> m, number |-> modules[m].published,
                   title |-> modules[m].title]
  <2>1. v \in moduleVersions /\ v.of = m /\ v.title = modules[m].title
    BY <1>2 DEF LiveContentIsPublished
  <2> HIDE DEF v
  <2> QED BY <2>1 DEF Versions
<1> QED BY <1>1, <1>2

\* Versions are never withdrawn: a text that was published stays so.
LEMMA VisitStays ==
  ASSUME HistoryStep, VisitSound, LearnerReadsPublishedText,
         EmptyPageOnlyWhenRetired, visit' = visit
  PROVE  VisitSound' /\ LearnerReadsPublishedText' /\ EmptyPageOnlyWhenRetired'
<1>1. /\ trackVersions \subseteq trackVersions'
      /\ moduleVersions \subseteq moduleVersions'
  BY DEF HistoryStep, Advances
<1>2. /\ \A k, x : x \in Versions(Tracks, trackVersions, k) =>
                     x \in Versions(Tracks, trackVersions', k)
      /\ \A k, x : x \in Versions(Modules, moduleVersions, k) =>
                     x \in Versions(Modules, moduleVersions', k)
  BY <1>1 DEF Versions
<1>3. LearnerReadsPublishedText'
  BY <1>2 DEF LearnerReadsPublishedText
<1>4. VisitSound' /\ EmptyPageOnlyWhenRetired'
  BY DEF VisitSound, EmptyPageOnlyWhenRetired
<1> QED BY <1>3, <1>4

LearnerSound ==
  VisitSound /\ LearnerReadsPublishedText /\ EmptyPageOnlyWhenRetired

\* No visit at all.
LEMMA NoVisitSound ==
  ASSUME visit' = NoVisit
  PROVE  LearnerSound'
<1>1. visit' = [step |-> "NONE", track |-> NoOwner, title |-> NoTitle,
                modules |-> <<>>, retired |-> FALSE]
  BY DEF NoVisit
<1> QED BY <1>1, NoRows DEF LearnerSound, VisitSound, LearnerReadsPublishedText,
                            EmptyPageOnlyWhenRetired

LEMMA VisitTrackSound ==
  ASSUME TablesSound, NEW t \in Tracks, VisitTrack(t)
  PROVE  LearnerSound'
<1>1. /\ visit' = [step |-> "FOUND", track |-> t, title |-> tracks[t].title,
                   modules |-> <<>>, retired |-> FALSE]
      /\ trackVersions' = trackVersions
  BY DEF VisitTrack, NoVisit, vars
<1>2. tracks[t].title \in Versions(Tracks, trackVersions, t)
  BY ActiveTextIsPublished DEF VisitTrack, TablesSound
<1> QED BY <1>1, <1>2, NoRows DEF LearnerSound, VisitSound,
               LearnerReadsPublishedText, EmptyPageOnlyWhenRetired

LEMMA ReadModulesSound ==
  ASSUME TablesSound, LearnerSound, ReadModules
  PROVE  LearnerSound'
<1> DEFINE t == visit.track
           found == Listed(t)
<1>1. /\ visit' = [step |-> "TRACK", track |-> t, title |-> visit.title,
                   modules |-> [m \in found |-> modules[m].title],
                   retired |-> (tracks[t].status # "ACTIVE")]
      /\ UNCHANGED <<trackVersions, moduleVersions>>
      /\ t \in Tracks
      /\ visit.title \in Versions(Tracks, trackVersions, t)
  BY DEF ReadModules, LearnerSound, VisitSound, LearnerReadsPublishedText, vars
<1>2. /\ found \subseteq Modules
      /\ \A m \in found :
           modules[m].title \in Versions(Modules, moduleVersions, m)
  BY ActiveTextIsPublished DEF Listed, ActiveModules, ModulesOf, TablesSound
<1>3. found = {} => tracks[t].status # "ACTIVE"
  BY <1>1 DEF Listed, TablesSound, ActiveTrackHasActiveModule
<1> HIDE DEF t, found
<1> QED BY <1>1, <1>2, <1>3 DEF LearnerSound, VisitSound,
               LearnerReadsPublishedText, EmptyPageOnlyWhenRetired

LEMMA FollowLinkSound ==
  ASSUME TablesSound, LearnerSound, NEW m \in Modules, FollowLink(m)
  PROVE  LearnerSound'
<1>1. CASE visit' = NoVisit
  BY <1>1, NoVisitSound
<1>2. CASE /\ modules[m].status = "ACTIVE"
           /\ visit' = [NoVisit EXCEPT !.step = "MODULE", !.track = visit.track,
                          !.modules = [k \in {m} |-> modules[k].title]]
  <2>1. /\ visit' = [step |-> "MODULE", track |-> visit.track,
                     title |-> NoTitle,
                     modules |-> [k \in {m} |-> modules[k].title],
                     retired |-> FALSE]
        /\ moduleVersions' = moduleVersions
    BY <1>2 DEF FollowLink, NoVisit, vars
  <2>2. modules[m].title \in Versions(Modules, moduleVersions, m)
    BY <1>2, ActiveTextIsPublished DEF TablesSound
  <2> QED BY <2>1, <2>2 DEF LearnerSound, VisitSound,
               LearnerReadsPublishedText, EmptyPageOnlyWhenRetired
<1> QED BY <1>1, <1>2 DEF FollowLink

-----------------------------------------------------------------------------
(* The theorems                                                             *)

LEMMA PageInvInductive ==
  /\ PageInit => PageInv
  /\ PageInv /\ [PageNext]_pageVars => PageInv'
<1>1. ASSUME PageInit PROVE PageInv
  <2>1. Init /\ page = NoPage /\ visit = NoVisit
    BY <1>1 DEF PageInit
  <2>2. OrderInv /\ HistoryInv
    BY <2>1, HistoryInvInductive, OrderInductive
  <2>3. ActiveTrackHasActiveModule /\ LiveContentIsPublished
    BY <2>1 DEF Init, ActiveTrackHasActiveModule, LiveContentIsPublished,
                AbsentTrack, AbsentModule, AbsentItem
  <2>4. PageSound
    <3>1. page = [kind |-> "none", step |-> "SHOWN", actor |-> NoOwner,
                  track |-> NoOwner, token |-> 0, rows |-> <<>>,
                  fields |-> FALSE]
      BY <2>1 DEF NoPage
    <3> QED BY <3>1 DEF PageSound, PageShape, RowsSeen, FormSeen, TracksPlaced,
                    ModulesPlaced, TrackPages, ModulePages, Lists
  <2>5. LearnerSound
    <3>1. visit = [step |-> "NONE", track |-> NoOwner, title |-> NoTitle,
                   modules |-> <<>>, retired |-> FALSE]
      BY <2>1 DEF NoVisit
    <3> QED BY <3>1, NoRows DEF LearnerSound, VisitSound,
                    LearnerReadsPublishedText, EmptyPageOnlyWhenRetired
  <2> QED BY <2>2, <2>3, <2>4, <2>5 DEF PageInv, TablesSound, LearnerSound
<1>2. ASSUME PageInv, PageNext PROVE PageInv'
  <2>1. TablesSound /\ PageSound /\ LearnerSound
    BY <1>2 DEF PageInv, LearnerSound
  <2>2. CASE Browse
    <3>1. UNCHANGED vars /\ visit' = visit
      BY <2>2 DEF Browse, OpenList, OpenForm, OpenEmptyForm, ReadContext,
                  RenderRows, Leave
    <3>2. TablesSound' /\ HistoryStep
      BY <2>1, <3>1, CatalogStep DEF CatalogMoves
    <3> QED BY <2>1, <2>2, <3>1, <3>2, BrowseSound, VisitStays
            DEF PageInv, LearnerSound
  <2>3. CASE \E c \in Offered, htmx \in BOOLEAN : Send(c, htmx)
    <3>1. CatalogMoves /\ PageSound' /\ visit' = visit
      BY <2>1, <2>3, SendSound DEF Send
    <3> QED BY <2>1, <3>1, CatalogStep, VisitStays DEF PageInv, LearnerSound
  <2>4. CASE \/ \E t \in Tracks : VisitTrack(t)
             \/ ReadModules
             \/ \E m \in Modules : FollowLink(m)
             \/ LeaveCatalog
    <3>1. LearnerSound'
      BY <2>1, <2>4, VisitTrackSound, ReadModulesSound, FollowLinkSound,
         NoVisitSound DEF LeaveCatalog
    <3>2. UNCHANGED vars /\ page' = page
      BY <2>4 DEF VisitTrack, ReadModules, FollowLink, LeaveCatalog
    <3>3. TablesSound' /\ OrderStep
      BY <2>1, <3>2, CatalogStep DEF CatalogMoves
    <3> QED BY <2>1, <3>1, <3>2, <3>3, PageStays DEF PageInv, LearnerSound, Kept
  <2>5. CASE Others
    <3>1. CatalogMoves /\ page' = page /\ visit' = visit
      BY <2>5, CatalogAssumption DEF Others, Next, CatalogMoves
    <3>2. TablesSound' /\ OrderStep /\ HistoryStep
      BY <2>1, <3>1, CatalogStep
    <3> QED BY <2>1, <3>1, <3>2, PageStays, VisitStays
            DEF PageInv, LearnerSound, Kept
  <2> QED BY <1>2, <2>2, <2>3, <2>4, <2>5 DEF PageNext
<1>3. ASSUME PageInv, UNCHANGED pageVars PROVE PageInv'
  <2>1. UNCHANGED vars /\ page' = page /\ visit' = visit
    BY <1>3 DEF pageVars
  <2>2. TablesSound' /\ OrderStep /\ HistoryStep
    BY <1>3, <2>1, CatalogStep DEF CatalogMoves, PageInv
  <2> QED BY <1>3, <2>1, <2>2, PageStays, VisitStays DEF PageInv, Kept
<1> QED BY <1>1, <1>2, <1>3

-----------------------------------------------------------------------------
(* What is accepted                                                         *)

\* Only the current token is accepted, by each of the decisions.
LEMMA AcceptedEdit ==
  ASSUME NEW a \in BOOLEAN, NEW known \in BOOLEAN, NEW free,
         NEW row, row.revision \in Int, NEW c, c.rev \in Int,
         EditDecision(a, known, row, c, free) = "SUCCESS"
  PROVE  c.rev = row.revision
<1> DEFINE valid == c.ok /\ (row.status = "ACTIVE" => c.pub) /\ free
<1>1. Decision(a, known, c.rev, 1, row.revision, valid) = "SUCCESS"
  BY DEF EditDecision
<1> HIDE DEF valid
<1> QED BY <1>1 DEF Decision

LEMMA AcceptedMove ==
  ASSUME NEW a \in BOOLEAN, NEW known \in BOOLEAN, NEW order \in Int, NEW n,
         NEW c, c.rev \in Int, MoveDecision(a, known, order, c, n) = "SUCCESS"
  PROVE  c.rev = order
<1> DEFINE valid == c.position \in 1..n
<1>1. Decision(a, known, c.rev, 0, order, valid) = "SUCCESS"
  BY DEF MoveDecision
<1> HIDE DEF valid
<1> QED BY <1>1 DEF Decision

LEMMA AcceptedTrackTarget ==
  ASSUME NEW a \in BOOLEAN, NEW hasActive,
         NEW row, row.revision \in Int, NEW c, c.rev \in Int,
         TrackStatusDecision(a, row, c, hasActive) = "SUCCESS"
  PROVE  c.rev = row.revision
<1> DEFINE known == Exists(row)
           valid == /\ Supported(c.target)
                    /\ \/ c.target = row.status
                       \/ c.target = "INACTIVE"
                       \/ c.pub /\ hasActive
<1>1. Decision(a, known, c.rev, 1, row.revision, valid) = "SUCCESS"
  BY DEF TrackStatusDecision
<1>2. known \in BOOLEAN
  BY DEF Exists
<1> HIDE DEF known, valid
<1> QED BY <1>1, <1>2 DEF Decision

LEMMA AcceptedModuleTarget ==
  ASSUME NEW a \in BOOLEAN, NEW actives, NEW owner,
         NEW row, row.revision \in Int, NEW c, c.rev \in Int,
         ModuleStatusDecision(a, row, owner, c, actives) = "SUCCESS"
  PROVE  c.rev = row.revision
<1> DEFINE known == row.track = c.track
           valid == /\ Supported(c.target)
                    /\ \/ c.target = row.status
                       \/ c.target = "ACTIVE" /\ c.pub
                       \/ c.target = "INACTIVE" /\ ~IsLastActive(owner, actives)
<1>1. Decision(a, known, c.rev, 1, row.revision, valid) = "SUCCESS"
  BY DEF ModuleStatusDecision
<1>2. known \in BOOLEAN
  OBVIOUS
<1> HIDE DEF known, valid
<1> QED BY <1>1, <1>2 DEF Decision

LEMMA RecordedResult ==
  ASSUME NEW c, NEW action, NEW entity, NEW key, NEW result, NEW changed,
         Record(c, action, entity, key, result, changed)
  PROVE  log'.result = result /\ log'.changed = changed
  BY DEF Record

LEMMA AcceptedTrackStatus ==
  ASSUME TablesSound, NEW c \in TrackStatusCmd, ChangeTrackStatus(c),
         log'.result = "SUCCESS"
  PROVE  /\ c.rev = tracks[c.track].revision
         /\ log'.changed = (tracks[c.track].status # c.target)
<1> DEFINE t == c.track
           row == tracks[t]
           auth == c.actor \in admins
           hasActive == ActiveModules(t) # {}
           result == TrackStatusDecision(auth, row, c, hasActive)
           changed == result = "SUCCESS" /\ row.status # c.target
<1>1. Record(c, StatusAction(c.target), "TRACK", t, result, changed)
  BY DEF ChangeTrackStatus
<1>2. log'.result = result /\ log'.changed = changed
  BY <1>1, RecordedResult
<1>3. /\ auth \in BOOLEAN /\ Exists(row) \in BOOLEAN
      /\ c.rev \in Int /\ t \in Tracks
  BY DEF TrackStatusCmd, Exists
<1>4. row.revision \in Int
  <2>1. row.revision \in Nat /\ \A n \in Nat : n \in Int
    BY <1>3, TokensAreNumbers DEF TablesSound
  <2> QED BY <2>1
<1>5. c.rev = row.revision
  <2>1. result = "SUCCESS"
    BY <1>2
  <2> HIDE DEF row, auth, hasActive
  <2> QED BY <2>1, <1>3, <1>4, AcceptedTrackTarget
<1> QED BY <1>2, <1>5

LEMMA AcceptedModuleStatus ==
  ASSUME TablesSound, NEW c \in ModuleStatusCmd, ChangeModuleStatus(c),
         log'.result = "SUCCESS"
  PROVE  /\ c.rev = modules[c.module].revision
         /\ log'.changed = (modules[c.module].status # c.target)
<1> DEFINE m == c.module
           row == modules[m]
           auth == c.actor \in admins
           owner == tracks[c.track]
           actives == ActiveModules(c.track)
           result == ModuleStatusDecision(auth, row, owner, c, actives)
           changed == result = "SUCCESS" /\ row.status # c.target
<1>1. Record(c, StatusAction(c.target), "MODULE", m, result, changed)
  BY DEF ChangeModuleStatus
<1>2. log'.result = result /\ log'.changed = changed
  BY <1>1, RecordedResult
<1>3. /\ auth \in BOOLEAN /\ (row.track = c.track) \in BOOLEAN
      /\ c.rev \in Int /\ m \in Modules
  BY DEF ModuleStatusCmd
<1>4. row.revision \in Int
  <2>1. row.revision \in Nat /\ \A n \in Nat : n \in Int
    BY <1>3, TokensAreNumbers DEF TablesSound
  <2> QED BY <2>1
<1>5. c.rev = row.revision
  <2>1. result = "SUCCESS"
    BY <1>2
  <2> HIDE DEF row, auth, owner, actives
  <2> QED BY <2>1, <1>3, <1>4, AcceptedModuleTarget
<1> QED BY <1>2, <1>5

LEMMA AcceptedTrackEdit ==
  ASSUME TablesSound, NEW c \in EditTrackCmd, EditTrack(c),
         log'.result = "SUCCESS"
  PROVE  c.rev = tracks[c.track].revision
<1> DEFINE t == c.track
           row == tracks[t]
           free == TitleFree(tracks, UsedTracks, t, c.title)
           auth == c.actor \in admins
           known == Exists(row)
           result == EditDecision(auth, known, row, c, free)
<1>1. Record(c, "EDIT", "TRACK", t, result, result = "SUCCESS")
  BY DEF EditTrack
<1>2. log'.result = result
  BY <1>1, RecordedResult
<1>3. /\ auth \in BOOLEAN /\ known \in BOOLEAN
      /\ c.rev \in Int /\ t \in Tracks
  BY DEF EditTrackCmd, Exists
<1>4. row.revision \in Int
  <2>1. row.revision \in Nat /\ \A n \in Nat : n \in Int
    BY <1>3, TokensAreNumbers DEF TablesSound
  <2> QED BY <2>1
<1>5. c.rev = row.revision
  <2>1. result = "SUCCESS"
    BY <1>2
  <2> HIDE DEF row, auth, known, free
  <2> QED BY <2>1, <1>3, <1>4, AcceptedEdit
<1> QED BY <1>5

LEMMA AcceptedModuleEdit ==
  ASSUME TablesSound, NEW c \in EditModuleCmd, EditModule(c),
         log'.result = "SUCCESS"
  PROVE  c.rev = modules[c.module].revision
<1> DEFINE m == c.module
           row == modules[m]
           free == TitleFree(modules, ModulesOf(c.track), m, c.title)
           auth == c.actor \in admins
           known == row.track = c.track
           result == EditDecision(auth, known, row, c, free)
<1>1. Record(c, "EDIT", "MODULE", m, result, result = "SUCCESS")
  BY DEF EditModule
<1>2. log'.result = result
  BY <1>1, RecordedResult
<1>3. /\ auth \in BOOLEAN /\ known \in BOOLEAN
      /\ c.rev \in Int /\ m \in Modules
  BY DEF EditModuleCmd
<1>4. row.revision \in Int
  <2>1. row.revision \in Nat /\ \A n \in Nat : n \in Int
    BY <1>3, TokensAreNumbers DEF TablesSound
  <2> QED BY <2>1
<1>5. c.rev = row.revision
  <2>1. result = "SUCCESS"
    BY <1>2
  <2> HIDE DEF row, auth, known, free
  <2> QED BY <2>1, <1>3, <1>4, AcceptedEdit
<1> QED BY <1>5

LEMMA AcceptedTrackMove ==
  ASSUME TablesSound, NEW c \in MoveTrackCmd, MoveTrack(c),
         log'.result = "SUCCESS"
  PROVE  c.rev = orderRevision
<1> DEFINE known == Exists(tracks[c.track])
           n == Cardinality(UsedTracks)
           auth == c.actor \in admins
           result == MoveDecision(auth, known, orderRevision, c, n)
           changed == /\ result = "SUCCESS"
                      /\ Displaced(tracks, UsedTracks, c.track, c.position) # {}
<1>1. Record(c, "REORDER", "TRACK", c.track, result, changed)
  BY DEF MoveTrack
<1>2. log'.result = result
  <2> HIDE DEF changed
  <2> QED BY <1>1, RecordedResult
<1>3. /\ auth \in BOOLEAN /\ known \in BOOLEAN /\ c.rev \in Int
  BY DEF MoveTrackCmd, Exists
<1>4. orderRevision \in Int
  <2>1. orderRevision \in Nat /\ \A k \in Nat : k \in Int
    BY TokensAreNumbers DEF TablesSound
  <2> QED BY <2>1
<1>5. result = "SUCCESS"
  BY <1>2
<1> HIDE DEF auth, known, n
<1> QED BY <1>3, <1>4, <1>5, AcceptedMove

LEMMA AcceptedModuleMove ==
  ASSUME TablesSound, NEW c \in MoveModuleCmd, MoveModule(c),
         log'.result = "SUCCESS"
  PROVE  c.rev = tracks[c.track].moduleOrder
<1> DEFINE t == c.track
           order == tracks[t].moduleOrder
           known == c.module \in ModulesOf(t)
           n == Cardinality(ModulesOf(t))
           auth == c.actor \in admins
           result == MoveDecision(auth, known, order, c, n)
           changed == /\ result = "SUCCESS"
                      /\ Displaced(modules, ModulesOf(t), c.module,
                                   c.position) # {}
<1>1. Record(c, "REORDER", "MODULE", c.module, result, changed)
  BY DEF MoveModule
<1>2. log'.result = result
  <2> HIDE DEF changed
  <2> QED BY <1>1, RecordedResult
<1>3. /\ auth \in BOOLEAN /\ known \in BOOLEAN
      /\ c.rev \in Int /\ t \in Tracks
  BY DEF MoveModuleCmd
<1>4. order \in Int
  <2>1. order \in Nat /\ \A k \in Nat : k \in Int
    BY <1>3, TokensAreNumbers DEF TablesSound
  <2> QED BY <2>1
<1> HIDE DEF order, known, n
<1>5. c.rev = order
  BY ZenonT(60), <1>2, <1>3, <1>4, AcceptedMove
<1> QED BY <1>5 DEF order

\* Which service function carries a command out.
LEMMA ExecutesAs ==
  ASSUME NEW c, Execute(c)
  PROVE  /\ c.op = "edit_track" => EditTrack(c)
         /\ c.op = "change_track_status" => ChangeTrackStatus(c)
         /\ c.op = "move_track" => MoveTrack(c)
         /\ c.op = "edit_module" => EditModule(c)
         /\ c.op = "change_module_status" => ChangeModuleStatus(c)
         /\ c.op = "move_module" => MoveModule(c)
  BY DEF Execute, CreateTrack, EditTrack, ChangeTrackStatus, MoveTrack,
         CreateModule, EditModule, ChangeModuleStatus, MoveModule,
         CreateContentDraft, PublishContentItem

\* A row whose revision is still the one a page shows is as the page shows it.
LEMMA CurrentRowIsShown ==
  ASSUME NEW shown, NEW row, SeenAs(shown, row), shown.revision = row.revision
  PROVE  Shown(shown) = Shown(row) /\ shown.status = row.status
  BY DEF SeenAs, Shown

LEMMA AcceptedIsSeen ==
  ASSUME TablesSound, PageSound, NEW c \in Offered, Execute(c),
         log'.result = "SUCCESS"
  PROVE  /\ AsShown(c)
         /\ c.op \in {"change_track_status", "change_module_status"} =>
              log'.changed
<1>1. page.step = "SHOWN"
  BY OfferedWhere
<1>2. CASE page.kind = "track list" /\ c \in TrackStatusCommands
  <2>1. /\ c \in TrackStatusCmd /\ c.track \in Keys
        /\ c.rev = page.rows[c.track].revision
        /\ c.target # page.rows[c.track].status
    BY <1>2, TrackStatusSends
  <2>2. c.op = "change_track_status"
    BY <2>1 DEF TrackStatusCmd
  <2>3. /\ c.rev = tracks[c.track].revision
        /\ log'.changed = (tracks[c.track].status # c.target)
    BY <2>1, <2>2, ExecutesAs, AcceptedTrackStatus
  <2>4. SeenAs(page.rows[c.track], tracks[c.track])
    BY <1>2, <2>1 DEF PageSound, RowsSeen, TrackPages
  <2>5. /\ Shown(page.rows[c.track]) = Shown(tracks[c.track])
        /\ page.rows[c.track].status = tracks[c.track].status
    BY <2>1, <2>3, <2>4, CurrentRowIsShown
  <2> QED BY <2>1, <2>2, <2>3, <2>5 DEF AsShown
<1>3. CASE page.kind = "module list" /\ c \in ModuleStatusCommands
  <2>1. /\ c \in ModuleStatusCmd /\ c.module \in Keys
        /\ c.rev = page.rows[c.module].revision
        /\ c.target # page.rows[c.module].status
    BY <1>3, ModuleStatusSends
  <2>2. c.op = "change_module_status"
    BY <2>1 DEF ModuleStatusCmd
  <2>3. /\ c.rev = modules[c.module].revision
        /\ log'.changed = (modules[c.module].status # c.target)
    BY <2>1, <2>2, ExecutesAs, AcceptedModuleStatus
  <2>4. SeenAs(page.rows[c.module], modules[c.module])
    BY <1>3, <2>1 DEF PageSound, RowsSeen, ModulePages
  <2>5. /\ Shown(page.rows[c.module]) = Shown(modules[c.module])
        /\ page.rows[c.module].status = modules[c.module].status
    BY <2>1, <2>3, <2>4, CurrentRowIsShown
  <2> QED BY <2>1, <2>2, <2>3, <2>5 DEF AsShown
<1>4. CASE page.kind = "track list" /\ c \in TrackMoveCommands
  <2>1. c \in MoveTrackCmd /\ c.rev = page.token
    BY <1>4, TrackMoveSends
  <2>2. c.op = "move_track"
    BY <2>1 DEF MoveTrackCmd
  <2>3. page.token = orderRevision
    BY <2>1, <2>2, ExecutesAs, AcceptedTrackMove
  <2>4. /\ Keys = UsedTracks
        /\ \A t \in Keys : page.rows[t].position = tracks[t].position
    BY <1>1, <1>4, <2>3 DEF PageSound, TracksPlaced
  <2> QED BY <2>2, <2>4 DEF AsShown
<1>5. CASE page.kind = "module list" /\ c \in ModuleMoveCommands
  <2>1. c \in MoveModuleCmd /\ c.track = page.track /\ c.rev = page.token
    BY <1>5, ModuleMoveSends
  <2>2. c.op = "move_module"
    BY <2>1 DEF MoveModuleCmd
  <2>3. page.token = tracks[page.track].moduleOrder
    BY <2>1, <2>2, ExecutesAs, AcceptedModuleMove
  <2>4. /\ Keys = ModulesOf(page.track)
        /\ \A m \in Keys : page.rows[m].position = modules[m].position
    BY <1>1, <1>5, <2>3 DEF PageSound, ModulesPlaced
  <2> QED BY <2>1, <2>2, <2>4 DEF AsShown
<1>6. CASE page.kind = "track form" /\ c \in TrackFormCommands
  <2>1. c \in EditTrackCmd /\ c.track = page.track /\ c.rev = page.token
    BY <1>6, TrackFormSends
  <2>2. c.op = "edit_track"
    BY <2>1 DEF EditTrackCmd
  <2>3. c.rev = tracks[c.track].revision
    BY <2>1, <2>2, ExecutesAs, AcceptedTrackEdit
  <2>4. /\ SeenAs(page.rows[c.track], tracks[c.track])
        /\ page.token = page.rows[c.track].revision
    BY <1>6, <2>1 DEF PageSound, RowsSeen, FormSeen, TrackPages
  <2>5. Shown(page.rows[c.track]) = Shown(tracks[c.track])
    BY <2>1, <2>3, <2>4, CurrentRowIsShown
  <2> QED BY <2>2, <2>5 DEF AsShown
<1>7. CASE page.kind = "module form" /\ c \in ModuleFormCommands
  <2>1. /\ c \in EditModuleCmd /\ c.module \in Keys /\ c.rev = page.token
    BY <1>7, ModuleFormSends
  <2>2. c.op = "edit_module"
    BY <2>1 DEF EditModuleCmd
  <2>3. c.rev = modules[c.module].revision
    BY <2>1, <2>2, ExecutesAs, AcceptedModuleEdit
  <2>4. /\ SeenAs(page.rows[c.module], modules[c.module])
        /\ page.token = page.rows[c.module].revision
    BY <1>7, <2>1 DEF PageSound, RowsSeen, FormSeen, ModulePages
  <2>5. Shown(page.rows[c.module]) = Shown(modules[c.module])
    BY <2>1, <2>3, <2>4, CurrentRowIsShown
  <2> QED BY <2>2, <2>5 DEF AsShown
<1>8. CASE c \in CreateTrackCmd \/ c \in CreateModuleCmd
  <2>1. c.op \in {"create_track", "create_module"}
    BY <1>8 DEF CreateTrackCmd, CreateModuleCmd
  <2> QED BY <2>1 DEF AsShown
<1> QED BY <1>2, <1>3, <1>4, <1>5, <1>6, <1>7, <1>8, OfferedWhere,
           NewTrackSends, NewModuleSends

\* Whatever an administrator's page sends, and however old the page is, is
\* carried out only upon what the page showed; an accepted status button
\* always changes the status.
THEOREM AcceptanceIsInformed == PageSpec => AcceptedMeansSeen
<1> DEFINE A ==
     \A c \in Offered, htmx \in BOOLEAN :
       Send(c, htmx) /\ log'.result = "SUCCESS" =>
         /\ AsShown(c)
         /\ c.op \in {"change_track_status", "change_module_status"} =>
              log'.changed
<1>1. PageInv => A
  BY AcceptedIsSeen DEF PageInv, Send
<1>2. PageInv /\ [PageNext]_pageVars => [A]_pageVars
  BY <1>1
<1> QED BY <1>2, PageInvInductive, PTL DEF PageSpec, AcceptedMeansSeen

\* A learner reads published text only, on pages put together from several
\* statements and behind links that may be old.
THEOREM LearnersReadPublishedText == PageSpec => []LearnerReadsPublishedText
<1>1. PageInv => LearnerReadsPublishedText
  BY DEF PageInv
<1> QED BY <1>1, PageInvInductive, PTL DEF PageSpec

\* A learner finds a track without modules only if it was retired while the
\* page was being read.
THEOREM FoundTracksOfferModules == PageSpec => []EmptyPageOnlyWhenRetired
<1>1. PageInv => EmptyPageOnlyWhenRetired
  BY DEF PageInv
<1> QED BY <1>1, PageInvInductive, PTL DEF PageSpec
=============================================================================
