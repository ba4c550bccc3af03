----------------------------- MODULE Enrollment -----------------------------
(***************************************************************************)
(* learning/views/enrollment.py and learning/services/enrollment.py: the   *)
(* requests with which learners list the tracks, open one and enroll in    *)
(* it, each statement in a transaction of its own but for the insert, next *)
(* to the catalog commands that retire and reactivate tracks.              *)
(***************************************************************************)
EXTENDS Naturals, FiniteSets

CONSTANTS
  Accounts, Tracks,
  Workers,       \* server processes
  Nothing,       \* "no row" and "no track"
  MaxRequests    \* bound on the requests

ASSUME EnrollmentAssumption ==
  Nothing \notin Tracks \cup 1..MaxRequests /\ MaxRequests \in Nat

VARIABLES
  offered,   \* the tracks whose status is ACTIVE
  rows,      \* the committed rows of Enrollment
  request,   \* the request of each worker
  answers,   \* the answers to the requests for enrollment
  made,      \* requests made
  seen       \* the tracks offered at some time since the request began

vars == <<offered, rows, request, answers, made, seen>>

\* A row is named after the request that inserted it.
Row == [id: 1..MaxRequests, account: Accounts, track: Tracks]

\* Only a successful answer has a row.
Answer ==
  [result: {"enrolled"}, account: Accounts, track: Tracks,
   row: 1..MaxRequests]
  \cup [result: {"not_found", "error"}, account: Accounts, track: Tracks,
        row: {Nothing}]

\* `todo` holds the tracks a listing has still to query.
Idle == [pc |-> "idle"]

Running(w) == request[w].pc # "idle"

Init ==
  /\ offered \in SUBSET Tracks
  /\ rows = {} /\ answers = {} /\ made = 0
  /\ request = [w \in Workers |-> Idle]
  /\ seen = [w \in Workers |-> {}]

-----------------------------------------------------------------------------
(* The catalog: change_track_status and change_module_status.              *)

SetOffered(S) ==
  /\ offered' = S
  /\ seen' = [w \in Workers |-> seen[w] \cup S]
  /\ UNCHANGED <<rows, request, answers, made>>

Retire(t) == t \in offered /\ SetOffered(offered \ {t})

Reactivate(t) == t \notin offered /\ SetOffered(offered \cup {t})

-----------------------------------------------------------------------------
(* Requests *)

Begin(w, r) ==
  /\ ~Running(w) /\ made < MaxRequests
  /\ made' = made + 1
  /\ seen' = [seen EXCEPT ![w] = offered]
  /\ request' = [request EXCEPT ![w] = r]
  /\ UNCHANGED <<offered, rows, answers>>

Step(w, r) ==
  /\ request' = [request EXCEPT ![w] = r]
  /\ UNCHANGED <<offered, made, seen>>

\* enrollment_list: the tracks, then one query of get_active_track for each.
\* The card of a track that is retired meanwhile raises AttributeError.
List(w) == Begin(w, [pc |-> "list", todo |-> {}])

ReadTracks(w) ==
  /\ request[w].pc = "list"
  /\ Step(w, [pc |-> "cards", todo |-> offered])
  /\ UNCHANGED <<rows, answers>>

ReadCard(w) ==
  /\ request[w].pc = "cards" /\ request[w].todo # {}
  /\ \E t \in request[w].todo :
       Step(w, IF t \in offered
               THEN [request[w] EXCEPT !.todo = @ \ {t}]
               ELSE [request[w] EXCEPT !.pc = "failed"])
  /\ UNCHANGED <<rows, answers>>

Shown(w) ==
  /\ \/ request[w].pc = "cards" /\ request[w].todo = {}
     \/ request[w].pc = "failed"
  /\ Step(w, Idle)
  /\ UNCHANGED <<rows, answers>>

\* enrollment_enroll
Enroll(w, account, track) ==
  Begin(w, [pc |-> "lookup", id |-> made + 1, account |-> account,
            track |-> track])

Answered(w, result, row) ==
  /\ answers' = answers \cup {[result |-> result, row |-> row,
                               account |-> request[w].account,
                               track |-> request[w].track]}
  /\ Step(w, Idle)

\* Mutation: the track is looked up whatever its status.
FoundAnyStatus(track) == track \in Tracks

\* get_active_track
Found(track) == track \in offered

Lookup(w) ==
  /\ request[w].pc = "lookup"
  /\ IF Found(request[w].track)
     THEN /\ Step(w, [request[w] EXCEPT !.pc = "insert"])
          /\ UNCHANGED answers
     ELSE Answered(w, "not_found", Nothing)
  /\ UNCHANGED rows

SamePair(r, s) == r.account = s.account /\ r.track = s.track

\* Mutation: two different rows are told apart by their id only.
TakenById(r) == {row \in rows : row.id = r.id}

\* The committed row that the unique constraint protects, if any.
Taken(r) == {row \in rows : SamePair(row, r)}

\* The insert waits for a transaction that has inserted the same pair.
InsertFree(w) ==
  \A v \in Workers : request[v].pc = "inserted" =>
                       ~SamePair(request[v], request[w])

\* Enrollment.objects.create inside its atomic block.
Insert(w) ==
  /\ request[w].pc = "insert" /\ InsertFree(w)
  /\ Step(w, [request[w] EXCEPT !.pc = IF Taken(request[w]) = {}
                                       THEN "inserted" ELSE "conflict"])
  /\ UNCHANGED <<rows, answers>>

\* The end of the atomic block.
CommitRow(w) ==
  /\ request[w].pc = "inserted"
  /\ rows' = rows \cup {[id |-> request[w].id, account |-> request[w].account,
                         track |-> request[w].track]}
  /\ Answered(w, "enrolled", request[w].id)

\* Mutation: the handler returns without reading the row.
RecoveredNothing(r) == {[id |-> Nothing]}

\* get_enrollment in the handler of IntegrityError.
Recovered(r) == {row \in rows : SamePair(row, r)}

Recover(w) ==
  /\ request[w].pc = "conflict"
  /\ \/ /\ Recovered(request[w]) = {}
        /\ Answered(w, "error", Nothing)
     \/ \E row \in Recovered(request[w]) : Answered(w, "enrolled", row.id)
  /\ UNCHANGED rows

\* The worker dies; an uncommitted insert is rolled back.
Abort(w) == Running(w) /\ Step(w, Idle) /\ UNCHANGED <<rows, answers>>

-----------------------------------------------------------------------------

Advance(w) ==
  \/ ReadTracks(w)
  \/ ReadCard(w)
  \/ Shown(w)
  \/ Lookup(w)
  \/ Insert(w)
  \/ CommitRow(w)
  \/ Recover(w)

Next ==
  \/ \E t \in Tracks : Retire(t) \/ Reactivate(t)
  \/ \E w \in Workers :
       \/ List(w)
       \/ \E account \in Accounts, track \in Tracks : Enroll(w, account, track)
       \/ Advance(w)
       \/ Abort(w)

Spec == Init /\ [][Next]_vars

-----------------------------------------------------------------------------
(* Properties *)

\* The rows and answers are well formed: whoever is told to be enrolled has a row.
TypeOK ==
  /\ offered \subseteq Tracks
  /\ rows \subseteq Row
  /\ answers \subseteq Answer
  /\ made \in 0..MaxRequests

\* Enrolling is idempotent: however requests for the same account and track
\* overlap, one row exists, everyone is answered with that row, and nobody with
\* the database's error.
EnrolledOnce ==
  /\ \A r, s \in rows : SamePair(r, s) => r = s
  /\ \A a \in answers :
       /\ a.result # "error"
       /\ a.result = "enrolled" =>
            [id |-> a.row, account |-> a.account, track |-> a.track] \in rows

\* A row is inserted only into a track that was offered at some time during the
\* request, though perhaps no longer.
EnrolledWhileOffered ==
  [][\A row \in rows' \ rows :
       \E w \in Workers : /\ request[w].pc = "inserted"
                          /\ request[w].id = row.id
                          /\ row.track \in seen[w]]_vars

\* contracts/enrollment.md: a retired track never reaches enroll(), and FR-006:
\* an enrollment in a retired track is refused. So no row appears for a track
\* that is not offered.
RetiredTrackNeverEnrolled ==
  [][\A row \in rows' \ rows : row.track \in offered]_vars

\* FR-001: the list shows the tracks on offer; it does not fail because one of
\* them is retired meanwhile.
ListIsShown == \A w \in Workers : request[w].pc # "failed"
=============================================================================
