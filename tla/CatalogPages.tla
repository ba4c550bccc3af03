---------------------------- MODULE CatalogPages ----------------------------
(***************************************************************************)
(* catalog/views.py with its forms, queries and templates: the pages that  *)
(* stand between a person and the catalog of Catalog. An administrator's   *)
(* page was read at some time, in several statements, and sends back what  *)
(* it carries whenever its user presses a button; a learner's page is read *)
(* in two statements. The commands of everybody else run in between.       *)
(*                                                                         *)
(* One administrator's page and one learner's page are followed; the pages *)
(* of others are the commands they send.                                   *)
(***************************************************************************)
EXTENDS Catalog

CONSTANT MaxChanges   \* bound: calls that change the catalog or a role

ASSUME PagesAssumption == MaxChanges \in Nat

VARIABLES
  page,    \* what the administrator's browser shows, or is waiting for
  visit,   \* what the learner's browser shows, or is waiting for
  changes

pageVars == <<vars, page, visit, changes>>

catalog == <<admins, tracks, modules, items>>

\* The bound, on every step that runs a command.
Count ==
  /\ changes' = IF catalog' = catalog THEN changes ELSE changes + 1
  /\ changes' <= MaxChanges

Lists == {"track list", "module list"}

\* A page shows `rows`, a function on the keys it lists, and carries `token`:
\* the order revision of a list, the row's revision in a form. `fields` says
\* whether the form has the fields of the publication data.
NoPage ==
  [kind |-> "none", step |-> "SHOWN", actor |-> NoOwner, track |-> NoOwner,
   token |-> 0, rows |-> <<>>, fields |-> FALSE]

NoVisit ==
  [step |-> "NONE", track |-> NoOwner, title |-> NoTitle, modules |-> <<>>,
   retired |-> FALSE]

PageInit == Init /\ page = NoPage /\ visit = NoVisit /\ changes = 0

-----------------------------------------------------------------------------
(* Reading a page *)

\* _has_content_role, then list_tracks_for_admin or list_modules_for_admin:
\* the token is read at once, the rows when the template asks for them.
OpenList(a, kind, t) ==
  /\ page = NoPage /\ a \in admins
  /\ kind = "module list" => Exists(tracks[t])
  /\ page' = [NoPage EXCEPT !.kind = kind, !.step = "CONTEXT", !.actor = a,
                            !.track = t]
  /\ UNCHANGED <<vars, visit, changes>>

Token(kind, t) ==
  IF kind = "track list" THEN orderRevision ELSE tracks[t].moduleOrder

\* _track_list_context, _module_list_context. Whoever lost the role gets a
\* page without rows, an error page at worst: nothing to press.
ReadContext ==
  /\ page.step = "CONTEXT"
  /\ page' = IF page.actor \in admins
             THEN [page EXCEPT !.step = "ROWS", !.rows = <<>>,
                               !.token = Token(page.kind, page.track)]
             ELSE NoPage
  /\ UNCHANGED <<vars, visit, changes>>

RenderRows ==
  /\ page.step = "ROWS"
  /\ page' = [page EXCEPT !.step = "SHOWN",
                !.rows = IF page.kind = "track list"
                         THEN [t \in UsedTracks |-> tracks[t]]
                         ELSE [m \in ModulesOf(page.track) |-> modules[m]]]
  /\ UNCHANGED <<vars, visit, changes>>

\* manage_track_edit and manage_module_edit, GET: one row fills the form.
OpenForm(a, kind, t, k) ==
  /\ page = NoPage /\ a \in admins
  /\ LET row == IF kind = "track form" THEN tracks[k] ELSE modules[k]
     IN /\ Exists(row)
        /\ kind = "track form" => k = t
        /\ kind = "module form" => row.track = t
        /\ page' = [NoPage EXCEPT !.kind = kind, !.actor = a, !.track = t,
                      !.token = row.revision, !.rows = [key \in {k} |-> row],
                      !.fields = (row.status = "ACTIVE")]
  /\ UNCHANGED <<vars, visit, changes>>

\* manage_track_create and manage_module_create, GET.
OpenEmptyForm(a, kind, t) ==
  /\ page = NoPage /\ a \in admins
  /\ kind = "new module" => Exists(tracks[t])
  /\ page' = [NoPage EXCEPT !.kind = kind, !.actor = a, !.track = t]
  /\ UNCHANGED <<vars, visit, changes>>

\* The administrator leaves the page.
Leave ==
  /\ page # NoPage
  /\ page' = NoPage
  /\ UNCHANGED <<vars, visit, changes>>

-----------------------------------------------------------------------------
(* What a page can send *)

Keys == DOMAIN page.rows

\* The button of a row: deactivation sends no publication data, activation
\* sends what its user typed, valid or not.
Presses(k) ==
  IF page.rows[k].status = "ACTIVE"
  THEN {[target |-> "INACTIVE", pub |-> FALSE]}
  ELSE [target: {"ACTIVE"}, pub: BOOLEAN]

\* A position that is no number is refused like one out of range.
Positions == 0..(Cardinality(Keys) + 1)

TrackStatusCommands ==
  UNION {{[op |-> "change_track_status", actor |-> page.actor, track |-> k,
           rev |-> page.rows[k].revision, target |-> b.target, pub |-> b.pub] :
             b \in Presses(k)} : k \in Keys}

ModuleStatusCommands ==
  UNION {{[op |-> "change_module_status", actor |-> page.actor,
           track |-> page.track, module |-> k, rev |-> page.rows[k].revision,
           target |-> b.target, pub |-> b.pub] : b \in Presses(k)} : k \in Keys}

TrackMoveCommands ==
  {[op |-> "move_track", actor |-> page.actor, track |-> k,
    rev |-> page.token, position |-> p] : k \in Keys, p \in Positions}

ModuleMoveCommands ==
  {[op |-> "move_module", actor |-> page.actor, track |-> page.track,
    module |-> k, rev |-> page.token, position |-> p] :
      k \in Keys, p \in Positions}

\* PublicationMetadataForm is valid only if the page has its fields.
Typed == [title: Titles, ok: BOOLEAN, pub: {FALSE, page.fields}]

TrackFormCommands ==
  {[op |-> "edit_track", actor |-> page.actor, track |-> page.track,
    rev |-> page.token, title |-> f.title, ok |-> f.ok, pub |-> f.pub] :
      f \in Typed}

ModuleFormCommands ==
  {[op |-> "edit_module", actor |-> page.actor, track |-> page.track,
    module |-> k, rev |-> page.token, title |-> f.title, ok |-> f.ok,
    pub |-> f.pub] : f \in Typed, k \in Keys}

NewTrackCommands ==
  {[op |-> "create_track", actor |-> page.actor, title |-> f.title,
    ok |-> f.ok] : f \in Typed}

NewModuleCommands ==
  {[op |-> "create_module", actor |-> page.actor, track |-> page.track,
    title |-> f.title, ok |-> f.ok] : f \in Typed}

Offered ==
  IF page.step # "SHOWN" THEN {}
  ELSE CASE page.kind = "track list" ->
              TrackStatusCommands \cup TrackMoveCommands
         [] page.kind = "module list" ->
              ModuleStatusCommands \cup ModuleMoveCommands
         [] page.kind = "track form"  -> TrackFormCommands
         [] page.kind = "module form" -> ModuleFormCommands
         [] page.kind = "new track"   -> NewTrackCommands
         [] page.kind = "new module"  -> NewModuleCommands
         [] OTHER                     -> {}

\* Mutation: a refused move gets a fresh token under the rows it had.
AnswerFreshToken(result, htmx) ==
  IF \/ result \in {"DENIED", "NOT_FOUND"}
     \/ result = "SUCCESS" /\ ~htmx
  THEN NoPage
  ELSE IF page.kind \in Lists
       THEN [page EXCEPT !.token =
               IF page.kind = "track list" THEN orderRevision'
               ELSE tracks'[page.track].moduleOrder]
       ELSE [page EXCEPT !.fields = FALSE]

\* _outcome_response and _htmx_reorder_response: a success redirects, or swaps
\* the rows of an HTMX request; a refusal renders the list anew, or the form as
\* it was sent, but without the row that decides on the publication fields.
Answer(result, htmx) ==
  IF \/ result \in {"DENIED", "NOT_FOUND"}
     \/ result = "SUCCESS" /\ ~htmx
  THEN NoPage
  ELSE IF page.kind \in Lists
       THEN [page EXCEPT !.step = "CONTEXT"]
       ELSE [page EXCEPT !.fields = FALSE]

\* Only the forms of a move are sent by HTMX, if the browser runs it.
Send(c, htmx) ==
  /\ htmx => c.op \in {"move_track", "move_module"}
  /\ Execute(c)
  /\ page' = Answer(log'.result, htmx)
  /\ Count
  /\ UNCHANGED visit

-----------------------------------------------------------------------------
(* The learner *)

\* learner_track_detail: get_active_track reads the track ...
VisitTrack(t) ==
  /\ visit = NoVisit
  /\ tracks[t].status = "ACTIVE"
  /\ visit' = [NoVisit EXCEPT !.step = "FOUND", !.track = t,
                              !.title = tracks[t].title]
  /\ UNCHANGED <<vars, page, changes>>

\* Mutation: the prefetched modules are not filtered by status.
ListedAnyStatus(t) == ModulesOf(t)

\* The queryset of the Prefetch.
Listed(t) == ActiveModules(t)

\* ... and then its modules. `retired` is history: whether the track was
\* retired between the two statements.
ReadModules ==
  /\ visit.step = "FOUND"
  /\ visit' = [visit EXCEPT !.step = "TRACK",
                 !.modules = [m \in Listed(visit.track) |-> modules[m].title],
                 !.retired = (tracks[visit.track].status # "ACTIVE")]
  /\ UNCHANGED <<vars, page, changes>>

\* learner_module_detail, from a link of the page: get_active_module joins the
\* module with its track, and finds nothing if either was retired meanwhile.
FollowLink(m) ==
  /\ visit.step = "TRACK" /\ m \in DOMAIN visit.modules
  /\ visit' = IF /\ modules[m].track = visit.track
                 /\ modules[m].status = "ACTIVE"
                 /\ tracks[visit.track].status = "ACTIVE"
              THEN [NoVisit EXCEPT !.step = "MODULE", !.track = visit.track,
                      !.modules = [k \in {m} |-> modules[k].title]]
              ELSE NoVisit
  /\ UNCHANGED <<vars, page, changes>>

LeaveCatalog ==
  /\ visit.step \in {"TRACK", "MODULE"}
  /\ visit' = NoVisit
  /\ UNCHANGED <<vars, page, changes>>

-----------------------------------------------------------------------------

Browse ==
  \/ \E a \in Accounts :
       \/ OpenList(a, "track list", NoOwner)
       \/ OpenEmptyForm(a, "new track", NoOwner)
       \/ \E t \in Tracks :
            \/ OpenList(a, "module list", t)
            \/ OpenForm(a, "track form", t, t)
            \/ OpenEmptyForm(a, "new module", t)
            \/ \E m \in Modules : OpenForm(a, "module form", t, m)
  \/ ReadContext
  \/ RenderRows
  \/ Leave

\* Everybody else: the calls that change something.
Others ==
  /\ changes < MaxChanges
  /\ Next /\ catalog' # catalog
  /\ Count
  /\ UNCHANGED <<page, visit>>

PageNext ==
  \/ Browse
  \/ \E c \in Offered, htmx \in BOOLEAN : Send(c, htmx)
  \/ \E t \in Tracks : VisitTrack(t)
  \/ ReadModules
  \/ \E m \in Modules : FollowLink(m)
  \/ LeaveCatalog
  \/ Others

PageSpec == PageInit /\ [][PageNext]_pageVars

-----------------------------------------------------------------------------
(* Properties *)

\* The rows that a command works on are as the page shows them: the one row of
\* a status button or a form, the whole sequence of a move.
AsShown(c) ==
  CASE c.op \in {"change_track_status", "edit_track"} ->
         Shown(page.rows[c.track]) = Shown(tracks[c.track])
    [] c.op \in {"change_module_status", "edit_module"} ->
         Shown(page.rows[c.module]) = Shown(modules[c.module])
    [] c.op = "move_track" ->
         /\ Keys = UsedTracks
         /\ \A t \in Keys : page.rows[t].position = tracks[t].position
    [] c.op = "move_module" ->
         /\ Keys = ModulesOf(c.track)
         /\ \A m \in Keys : page.rows[m].position = modules[m].position
    [] OTHER -> TRUE

\* What an administrator's page sends is carried out only upon what the page
\* showed, however old it is and however its statements, refusals, partial
\* swaps and other people's commands interleaved; and a status button that is
\* accepted always changes the status.
AcceptedMeansSeen ==
  [][\A c \in Offered, htmx \in BOOLEAN :
       Send(c, htmx) /\ log'.result = "SUCCESS" =>
         /\ AsShown(c)
         /\ c.op \in {"change_track_status", "change_module_status"} =>
              log'.changed]_pageVars

\* A learner reads published text only, on a page put together from two
\* statements and behind a link that may be old.
Versions(keys, versions, k) ==
  {v.title : v \in {w \in versions : w.of = k}}

LearnerReadsPublishedText ==
  /\ visit.step \in {"FOUND", "TRACK"} =>
       visit.title \in Versions(Tracks, trackVersions, visit.track)
  /\ \A m \in DOMAIN visit.modules :
       visit.modules[m] \in Versions(Modules, moduleVersions, m)

\* A learner finds a track without modules only if it was retired while the
\* page was being read.
EmptyPageOnlyWhenRetired ==
  visit.step = "TRACK" /\ DOMAIN visit.modules = {} => visit.retired
=============================================================================
