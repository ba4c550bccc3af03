------------------------- MODULE Enrollment_proofs -------------------------
(***************************************************************************)
(* Theorems about Enrollment: for every set of accounts, tracks and        *)
(* workers and any number of requests, a pair has one row, everyone is     *)
(* answered with it, and it was inserted into a track that was offered     *)
(* while its request ran.                                                  *)
(***************************************************************************)
EXTENDS Enrollment, TLAPS

-----------------------------------------------------------------------------
(* The inductive invariant                                                 *)

Request ==
  {Idle}
  \cup [pc: {"list", "cards", "failed"}, todo: SUBSET Tracks]
  \cup [pc: {"lookup", "insert", "inserted", "conflict"},
        id: 1..MaxRequests, account: Accounts, track: Tracks]

\* What a running request has seen includes what is offered now.
RequestsTyped ==
  /\ request \in [Workers -> Request]
  /\ seen \in [Workers -> SUBSET Tracks]
  /\ \A w \in Workers : Running(w) => offered \subseteq seen[w]

\* An uncommitted insert has its pair to itself, and a refused one was refused
\* because of a row, which the handler will find: no row is ever deleted.
PairReserved(w) ==
  /\ request[w].pc = "inserted" =>
       /\ Taken(request[w]) = {}
       /\ \A v \in Workers \ {w} :
            request[v].pc = "inserted" => ~SamePair(request[v], request[w])
  /\ request[w].pc = "conflict" => Taken(request[w]) # {}

PairsReserved == \A w \in Workers : PairReserved(w)

\* The insert comes after a lookup that found the track.
LookedUp ==
  \A w \in Workers :
    request[w].pc \in {"insert", "inserted"} => request[w].track \in seen[w]

EnrollmentInv ==
  TypeOK /\ RequestsTyped /\ EnrolledOnce /\ PairsReserved /\ LookedUp

-----------------------------------------------------------------------------
(* The requests of the other workers                                       *)

\* A request that is at one of the steps of an enrollment names its account
\* and track.
LEMMA EnrollShape ==
  ASSUME RequestsTyped, NEW w \in Workers,
         request[w].pc \in {"lookup", "insert", "inserted", "conflict"}
  PROVE  request[w] \in [pc: {"lookup", "insert", "inserted", "conflict"},
                         id: 1..MaxRequests, account: Accounts, track: Tracks]
  BY DEF RequestsTyped, Request, Idle

\* A request that is at one of the steps of a listing has its tracks to query.
LEMMA ListShape ==
  ASSUME RequestsTyped, NEW w \in Workers,
         request[w].pc \in {"list", "cards", "failed"}
  PROVE  request[w] \in [pc: {"list", "cards", "failed"}, todo: SUBSET Tracks]
  BY DEF RequestsTyped, Request, Idle

\* A step of one worker that leaves the rows and the tracks alone, and after
\* which it neither holds nor misses a row.
LEMMA QuietStep ==
  ASSUME EnrollmentInv, NEW w \in Workers, NEW r \in Request,
         request' = [request EXCEPT ![w] = r],
         r.pc \notin {"inserted", "conflict"},
         r.pc = "insert" => r.track \in seen'[w],
         seen' \in [Workers -> SUBSET Tracks],
         \A v \in Workers \ {w} : seen'[v] = seen[v],
         r.pc # "idle" => offered \subseteq seen'[w],
         rows' = rows, offered' = offered
  PROVE  RequestsTyped' /\ PairsReserved' /\ LookedUp'
<1>1. request \in [Workers -> Request]
  BY DEF EnrollmentInv, RequestsTyped
<1>2. /\ request' \in [Workers -> Request]
      /\ request'[w] = r
      /\ \A v \in Workers \ {w} : request'[v] = request[v]
  BY <1>1
<1> HIDE DEF Request
<1>3. RequestsTyped'
  BY <1>2 DEF EnrollmentInv, RequestsTyped, Running
<1>4. PairsReserved'
  <2> SUFFICES ASSUME NEW v \in Workers
               PROVE  PairReserved(v)'
    BY DEF PairsReserved
  <2>1. CASE v = w
    BY <2>1, <1>2 DEF PairReserved
  <2>2. CASE v # w
    <3>1. request'[v] = request[v] /\ Taken(request[v])' = Taken(request[v])
      BY <2>2, <1>2 DEF Taken
    <3> QED BY <3>1, <2>2, <1>2 DEF EnrollmentInv, PairsReserved, PairReserved,
                                      SamePair, Taken
  <2> QED BY <2>1, <2>2
<1>5. LookedUp'
  <2> SUFFICES ASSUME NEW v \in Workers,
                      request'[v].pc \in {"insert", "inserted"}
               PROVE  request'[v].track \in seen'[v]
    BY DEF LookedUp
  <2>1. CASE v = w
    BY <2>1, <1>2
  <2>2. CASE v # w
    BY <2>2, <1>2 DEF EnrollmentInv, LookedUp
  <2> QED BY <2>1, <2>2
<1> QED BY <1>3, <1>4, <1>5

-----------------------------------------------------------------------------
(* One lemma per action                                                    *)

\* A quiet step that answers nobody keeps the whole invariant.
LEMMA SilentStep ==
  ASSUME EnrollmentInv, NEW w \in Workers, NEW r \in Request,
         request' = [request EXCEPT ![w] = r],
         r.pc \notin {"inserted", "conflict"},
         r.pc = "insert" => r.track \in seen'[w],
         seen' \in [Workers -> SUBSET Tracks],
         \A v \in Workers \ {w} : seen'[v] = seen[v],
         r.pc # "idle" => offered \subseteq seen'[w],
         made' \in 0..MaxRequests,
         UNCHANGED <<rows, offered, answers>>
  PROVE  EnrollmentInv'
<1>1. RequestsTyped' /\ PairsReserved' /\ LookedUp'
  BY QuietStep
<1>2. TypeOK' /\ EnrolledOnce'
  BY DEF EnrollmentInv, TypeOK, EnrolledOnce
<1> QED BY <1>1, <1>2 DEF EnrollmentInv

\* Retiring or reactivating a track touches no request.
LEMMA SetOfferedInv ==
  ASSUME EnrollmentInv, NEW S \in SUBSET Tracks, SetOffered(S)
  PROVE  EnrollmentInv'
<1>1. UNCHANGED <<rows, request, answers, made>> /\ offered' = S
  BY DEF SetOffered
<1>2. TypeOK' /\ EnrolledOnce' /\ PairsReserved'
  BY <1>1 DEF EnrollmentInv, TypeOK, EnrolledOnce, PairsReserved, PairReserved,
              Taken
<1>3. seen' = [w \in Workers |-> seen[w] \cup S]
  BY DEF SetOffered
<1>4. RequestsTyped' /\ LookedUp'
  BY <1>1, <1>3 DEF EnrollmentInv, RequestsTyped, LookedUp, Running
<1> QED BY <1>2, <1>4 DEF EnrollmentInv

\* A new request has seen what is offered as it begins.
LEMMA BeginInv ==
  ASSUME EnrollmentInv, NEW w \in Workers, NEW r \in Request, Begin(w, r),
         r.pc \in {"list", "lookup"}
  PROVE  EnrollmentInv'
<1>1. made' \in 0..MaxRequests
  BY EnrollmentAssumption DEF Begin, EnrollmentInv, TypeOK
<1>2. seen' = [seen EXCEPT ![w] = offered] /\ seen \in [Workers -> SUBSET Tracks]
      /\ offered \in SUBSET Tracks
  BY DEF Begin, EnrollmentInv, RequestsTyped, TypeOK
<1> QED BY <1>1, <1>2, SilentStep DEF Begin

\* The steps of a listing.
LEMMA ListingInv ==
  ASSUME EnrollmentInv, NEW w \in Workers,
         ReadTracks(w) \/ ReadCard(w) \/ Shown(w)
  PROVE  EnrollmentInv'
<1> DEFINE Listing == [pc: {"list", "cards", "failed"}, todo: SUBSET Tracks]
<1>1. /\ made \in 0..MaxRequests
      /\ seen \in [Workers -> SUBSET Tracks] /\ offered \in SUBSET Tracks
      /\ Running(w) => offered \subseteq seen[w]
  BY DEF EnrollmentInv, RequestsTyped, TypeOK
<1>2. ASSUME NEW r \in Request, r.pc \in {"idle", "cards", "failed"},
             Running(w), Step(w, r), UNCHANGED <<rows, answers>>
      PROVE  EnrollmentInv'
  BY <1>1, <1>2, SilentStep DEF Step
<1>3. CASE ReadTracks(w)
  BY <1>1, <1>2, <1>3 DEF ReadTracks, Request, Running
<1>4. CASE ReadCard(w)
  <2>1. request[w] \in Listing
    BY <1>4, ListShape DEF ReadCard, EnrollmentInv
  <2>2. PICK t \in request[w].todo :
          Step(w, IF t \in offered
                  THEN [request[w] EXCEPT !.todo = @ \ {t}]
                  ELSE [request[w] EXCEPT !.pc = "failed"])
    BY <1>4 DEF ReadCard
  <2>3. /\ [request[w] EXCEPT !.todo = @ \ {t}] \in Listing
        /\ [request[w] EXCEPT !.todo = @ \ {t}].pc = request[w].pc
        /\ [request[w] EXCEPT !.pc = "failed"] \in Listing
        /\ [request[w] EXCEPT !.pc = "failed"].pc = "failed"
    BY <2>1
  <2>4. request[w].pc = "cards" /\ Running(w) /\ UNCHANGED <<rows, answers>>
    BY <1>4 DEF ReadCard, Running
  <2> QED BY <2>2, <2>3, <2>4, <1>2 DEF Request
<1>5. CASE Shown(w)
  BY <1>2, <1>5 DEF Shown, Request, Running, Idle
<1> QED BY <1>3, <1>4, <1>5

\* An answer that is not "enrolled" with a row, nor the error, is harmless.
LEMMA LookupInv ==
  ASSUME EnrollmentInv, NEW w \in Workers, Lookup(w)
  PROVE  EnrollmentInv'
<1>1. request[w].pc = "lookup" /\ Running(w)
  BY DEF Lookup, Running
<1>2. request[w] \in [pc: {"lookup", "insert", "inserted", "conflict"},
                      id: 1..MaxRequests, account: Accounts, track: Tracks]
  BY <1>1, EnrollShape DEF EnrollmentInv
<1>3. /\ made \in 0..MaxRequests /\ seen \in [Workers -> SUBSET Tracks]
      /\ offered \subseteq seen[w]
  BY <1>1 DEF EnrollmentInv, RequestsTyped, TypeOK
<1>4. CASE Found(request[w].track)
  <2> DEFINE r == [request[w] EXCEPT !.pc = "insert"]
  <2>1. r \in Request /\ r.pc = "insert" /\ r.track = request[w].track
    BY <1>2 DEF Request
  <2>2. r.track \in seen[w]
    BY <1>4, <1>3, <2>1 DEF Found
  <2>3. Step(w, r) /\ UNCHANGED <<rows, answers>>
    BY <1>4 DEF Lookup
  <2> HIDE DEF r
  <2> QED BY <2>1, <2>2, <2>3, <1>3, SilentStep DEF Step
<1>5. CASE ~Found(request[w].track)
  <2>1. Answered(w, "not_found", Nothing) /\ rows' = rows
    BY <1>5 DEF Lookup
  <2>2. RequestsTyped' /\ PairsReserved' /\ LookedUp'
    BY <2>1, <1>3, QuietStep DEF Answered, Step, Request, Idle
  <2>3. TypeOK' /\ EnrolledOnce'
    BY <2>1, <1>2 DEF Answered, Step, EnrollmentInv, TypeOK, EnrolledOnce, Answer
  <2> QED BY <2>2, <2>3 DEF EnrollmentInv
<1> QED BY <1>4, <1>5

\* The insert waits for whoever holds the pair, and meets the constraint
\* exactly when a committed row has it.
LEMMA InsertInv ==
  ASSUME EnrollmentInv, NEW w \in Workers, Insert(w)
  PROVE  EnrollmentInv'
<1> DEFINE r == [request[w] EXCEPT !.pc = IF Taken(request[w]) = {}
                                          THEN "inserted" ELSE "conflict"]
<1>1. request[w] \in [pc: {"lookup", "insert", "inserted", "conflict"},
                      id: 1..MaxRequests, account: Accounts, track: Tracks]
  BY EnrollShape DEF EnrollmentInv, Insert
<1>2. /\ r \in Request /\ r.account = request[w].account
      /\ r.track = request[w].track
      /\ r.pc = IF Taken(request[w]) = {} THEN "inserted" ELSE "conflict"
  BY <1>1 DEF Request
<1>3. /\ request[w].pc = "insert" /\ InsertFree(w)
      /\ request' = [request EXCEPT ![w] = r]
      /\ UNCHANGED <<rows, answers, offered, made, seen>>
  BY DEF Insert, Step
<1>4. request \in [Workers -> Request]
  BY DEF EnrollmentInv, RequestsTyped
<1> HIDE DEF r, Request
<1>5. /\ request' \in [Workers -> Request] /\ request'[w] = r
      /\ \A v \in Workers \ {w} : request'[v] = request[v]
  BY <1>2, <1>3, <1>4
<1>6. TypeOK' /\ EnrolledOnce'
  BY <1>3 DEF EnrollmentInv, TypeOK, EnrolledOnce
<1>7. RequestsTyped'
  <2>1. offered \subseteq seen[w]
    BY <1>3 DEF EnrollmentInv, RequestsTyped, Running
  <2> QED BY <2>1, <1>3, <1>5 DEF EnrollmentInv, RequestsTyped, Running
<1>8. PairsReserved'
  <2> SUFFICES ASSUME NEW v \in Workers
               PROVE  PairReserved(v)'
    BY DEF PairsReserved
  <2>1. Taken(r) = Taken(request[w])
    BY <1>2 DEF Taken, SamePair
  <2>2. CASE v = w
    <3>1. \A u \in Workers \ {w} :
            request[u].pc = "inserted" => ~SamePair(request[u], r)
      BY <1>2, <1>3 DEF InsertFree, SamePair
    <3>2. Taken(request[w])' = Taken(r)
      BY <1>3, <1>5 DEF Taken
    <3> QED BY <3>1, <3>2, <2>1, <2>2, <1>2, <1>5 DEF PairReserved
  <2>3. CASE v # w
    <3>1. request'[v] = request[v] /\ Taken(request[v])' = Taken(request[v])
      BY <2>3, <1>3, <1>5 DEF Taken
    <3>2. request[v].pc = "inserted" => ~SamePair(r, request[v])
      BY <1>2, <1>3 DEF InsertFree, SamePair
    <3> QED BY <3>1, <3>2, <2>3, <1>5
            DEF EnrollmentInv, PairsReserved, PairReserved
  <2> QED BY <2>2, <2>3
<1>9. LookedUp'
  <2>1. request[w].track \in seen[w]
    BY <1>3 DEF EnrollmentInv, LookedUp
  <2> QED BY <2>1, <1>2, <1>3, <1>5 DEF EnrollmentInv, LookedUp
<1> QED BY <1>6, <1>7, <1>8, <1>9 DEF EnrollmentInv

\* The end of a request, whatever was written before it.
LEMMA EndOfRequest ==
  ASSUME EnrollmentInv, NEW w \in Workers, Step(w, Idle)
  PROVE  /\ request' \in [Workers -> Request] /\ request'[w] = Idle
         /\ \A v \in Workers \ {w} : request'[v] = request[v]
         /\ UNCHANGED <<offered, made, seen>>
         /\ RequestsTyped' /\ LookedUp'
<1>1. request \in [Workers -> Request] /\ Idle \in Request
  BY DEF EnrollmentInv, RequestsTyped, Request
<1> HIDE DEF Request
<1>2. /\ request' \in [Workers -> Request] /\ request'[w] = Idle
      /\ \A v \in Workers \ {w} : request'[v] = request[v]
      /\ UNCHANGED <<offered, made, seen>>
  BY <1>1 DEF Step
<1>3. RequestsTyped' /\ LookedUp'
  BY <1>2 DEF EnrollmentInv, RequestsTyped, LookedUp, Running, Idle
<1> QED BY <1>2, <1>3

\* The new row is the only one of its pair, and nobody else holds the pair.
LEMMA CommitRowInv ==
  ASSUME EnrollmentInv, NEW w \in Workers, CommitRow(w)
  PROVE  EnrollmentInv'
<1> DEFINE new == [id |-> request[w].id, account |-> request[w].account,
                   track |-> request[w].track]
           answer == [result |-> "enrolled", row |-> request[w].id,
                      account |-> request[w].account,
                      track |-> request[w].track]
<1>1. /\ request[w].pc = "inserted"
      /\ rows' = rows \cup {new} /\ answers' = answers \cup {answer}
      /\ Step(w, Idle)
  BY DEF CommitRow, Answered
<1>2. request[w] \in [pc: {"lookup", "insert", "inserted", "conflict"},
                      id: 1..MaxRequests, account: Accounts, track: Tracks]
  BY <1>1, EnrollShape DEF EnrollmentInv
<1>3. /\ Taken(request[w]) = {}
      /\ \A v \in Workers \ {w} :
           request[v].pc = "inserted" => ~SamePair(request[v], request[w])
  BY <1>1 DEF EnrollmentInv, PairsReserved, PairReserved
<1>4. TypeOK'
  <2>1. new \in Row /\ answer \in Answer
    BY <1>2 DEF Row, Answer
  <2> QED BY <2>1, <1>1, EndOfRequest DEF EnrollmentInv, TypeOK
<1>5. \A s \in rows : ~SamePair(s, new)
  BY <1>3 DEF Taken, SamePair
<1>6. EnrolledOnce'
  <2>1. \A r, s \in rows' : SamePair(r, s) => r = s
    BY <1>1, <1>5 DEF EnrollmentInv, EnrolledOnce, SamePair
  <2>2. \A a \in answers' :
          /\ a.result # "error"
          /\ a.result = "enrolled" =>
               [id |-> a.row, account |-> a.account, track |-> a.track] \in rows'
    <3> SUFFICES ASSUME NEW a \in answers'
                 PROVE  /\ a.result # "error"
                        /\ a.result = "enrolled" =>
                             [id |-> a.row, account |-> a.account,
                              track |-> a.track] \in rows'
      OBVIOUS
    <3>1. CASE a = answer
      BY <3>1, <1>1
    <3>2. CASE a \in answers
      BY <3>2, <1>1 DEF EnrollmentInv, EnrolledOnce
    <3> QED BY <3>1, <3>2, <1>1
  <2> QED BY <2>1, <2>2 DEF EnrolledOnce
<1>7. PairsReserved'
  <2> SUFFICES ASSUME NEW v \in Workers
               PROVE  PairReserved(v)'
    BY DEF PairsReserved
  <2>1. CASE v = w
    BY <2>1, <1>1, EndOfRequest DEF PairReserved, Idle
  <2>2. CASE v # w
    <3>1. request'[v] = request[v] /\ request'[w] = Idle
      BY <2>2, <1>1, EndOfRequest
    <3>2. request[v].pc = "conflict" => Taken(request[v])' # {}
      BY <1>1, <3>1 DEF EnrollmentInv, PairsReserved, PairReserved, Taken
    <3>3. ASSUME request[v].pc = "inserted"
          PROVE  Taken(request[v])' = {}
      <4>1. Taken(request[v]) = {}
        BY <3>3 DEF EnrollmentInv, PairsReserved, PairReserved
      <4>2. ~SamePair(new, request[v])
        BY <3>3, <2>2, <1>3 DEF SamePair
      <4> QED BY <4>1, <4>2, <3>1, <1>1 DEF Taken, SamePair
    <3>4. \A u \in Workers \ {v} :
            request'[v].pc = "inserted" /\ request'[u].pc = "inserted" =>
              ~SamePair(request'[u], request'[v])
      BY <2>2, <3>1, <1>1, EndOfRequest
         DEF EnrollmentInv, PairsReserved, PairReserved, Idle
    <3> QED BY <3>1, <3>2, <3>3, <3>4 DEF PairReserved
  <2> QED BY <2>1, <2>2
<1> QED BY <1>1, <1>4, <1>6, <1>7, EndOfRequest DEF EnrollmentInv

\* The handler always finds the row that refused the insert.
LEMMA RecoverInv ==
  ASSUME EnrollmentInv, NEW w \in Workers, Recover(w)
  PROVE  EnrollmentInv'
<1>1. request[w].pc = "conflict" /\ rows' = rows
  BY DEF Recover
<1>2. request[w] \in [pc: {"lookup", "insert", "inserted", "conflict"},
                      id: 1..MaxRequests, account: Accounts, track: Tracks]
  BY <1>1, EnrollShape DEF EnrollmentInv
<1>3. Recovered(request[w]) # {}
  BY <1>1 DEF EnrollmentInv, PairsReserved, PairReserved, Taken, Recovered
<1>4. PICK row \in Recovered(request[w]) : Answered(w, "enrolled", row.id)
  BY <1>3 DEF Recover
<1>5. /\ row \in rows /\ row \in Row
      /\ row.account = request[w].account /\ row.track = request[w].track
  BY DEF Recovered, SamePair, EnrollmentInv, TypeOK
<1> DEFINE answer == [result |-> "enrolled", row |-> row.id,
                      account |-> request[w].account,
                      track |-> request[w].track]
<1>6. answers' = answers \cup {answer} /\ Step(w, Idle)
  BY <1>4 DEF Answered
<1>7. RequestsTyped' /\ PairsReserved' /\ LookedUp'
  BY <1>1, <1>6, EndOfRequest
     DEF EnrollmentInv, PairsReserved, PairReserved, Taken, Idle
<1>8. TypeOK'
  <2>1. answer \in Answer
    BY <1>2, <1>5 DEF Answer, Row
  <2> QED BY <2>1, <1>1, <1>6, EndOfRequest DEF EnrollmentInv, TypeOK
<1>9. EnrolledOnce'
  <2>1. [id |-> answer.row, account |-> answer.account,
         track |-> answer.track] = row
    BY <1>5 DEF Row
  <2> QED BY <2>1, <1>1, <1>5, <1>6 DEF EnrollmentInv, EnrolledOnce
<1> QED BY <1>7, <1>8, <1>9 DEF EnrollmentInv

-----------------------------------------------------------------------------
(* The theorems                                                            *)

\* The invariant holds at first and every step keeps it.
LEMMA EnrollmentInductive ==
  /\ Init => EnrollmentInv
  /\ EnrollmentInv /\ [Next]_vars => EnrollmentInv'
<1>1. Init => EnrollmentInv
  BY EnrollmentAssumption
     DEF Init, EnrollmentInv, TypeOK, RequestsTyped, EnrolledOnce,
         PairsReserved, PairReserved, LookedUp, Request, Running, Idle
<1>2. ASSUME EnrollmentInv, Next
      PROVE  EnrollmentInv'
  <2>1. ASSUME NEW t \in Tracks, Retire(t) \/ Reactivate(t)
        PROVE  EnrollmentInv'
    <3>1. offered \ {t} \in SUBSET Tracks /\ offered \cup {t} \in SUBSET Tracks
      BY <1>2 DEF EnrollmentInv, TypeOK
    <3> QED BY <3>1, <2>1, <1>2, SetOfferedInv DEF Retire, Reactivate
  <2>2. ASSUME NEW w \in Workers, List(w)
        PROVE  EnrollmentInv'
    BY <2>2, <1>2, BeginInv DEF List, Request
  <2>3. ASSUME NEW w \in Workers, NEW account \in Accounts, NEW track \in Tracks,
               Enroll(w, account, track)
        PROVE  EnrollmentInv'
    <3> DEFINE r == [pc |-> "lookup", id |-> made + 1, account |-> account,
                     track |-> track]
    <3>1. made + 1 \in 1..MaxRequests /\ Begin(w, r)
      BY <2>3, <1>2, EnrollmentAssumption
         DEF Enroll, Begin, EnrollmentInv, TypeOK
    <3>2. r \in Request /\ r.pc = "lookup"
      BY <3>1 DEF Request
    <3> HIDE DEF r
    <3> QED BY <3>1, <3>2, <1>2, BeginInv
  <2>4. ASSUME NEW w \in Workers, Advance(w)
        PROVE  EnrollmentInv'
    BY <2>4, <1>2, ListingInv, LookupInv, InsertInv, CommitRowInv, RecoverInv
       DEF Advance
  <2>5. ASSUME NEW w \in Workers, Abort(w)
        PROVE  EnrollmentInv'
    <3>1. Step(w, Idle) /\ UNCHANGED <<rows, answers>>
      BY <2>5 DEF Abort
    <3>2. /\ made' \in 0..MaxRequests /\ seen \in [Workers -> SUBSET Tracks]
          /\ Idle \in Request
      BY <3>1, <1>2 DEF Step, EnrollmentInv, TypeOK, RequestsTyped, Request
    <3> QED BY <3>1, <3>2, <1>2, SilentStep DEF Step, Idle
  <2> QED BY <2>1, <2>2, <2>3, <2>4, <2>5, <1>2 DEF Next
<1>3. ASSUME EnrollmentInv, UNCHANGED vars
      PROVE  EnrollmentInv'
  BY <1>3 DEF vars, EnrollmentInv, TypeOK, RequestsTyped, EnrolledOnce,
              PairsReserved, PairReserved, LookedUp, Running, Taken
<1> QED BY <1>1, <1>2, <1>3

\* The rows and answers of every state are well formed.
THEOREM EnrollmentTyped == Spec => []TypeOK
<1>1. EnrollmentInv => TypeOK
  BY DEF EnrollmentInv
<1> QED BY <1>1, EnrollmentInductive, PTL DEF Spec

\* However the requests of any number of workers overlap, a pair has one row,
\* and everybody who asks for it is answered with that row.
THEOREM EnrollmentIsIdempotent == Spec => []EnrolledOnce
<1>1. EnrollmentInv => EnrolledOnce
  BY DEF EnrollmentInv
<1> QED BY <1>1, EnrollmentInductive, PTL DEF Spec

\* Only the commit of an insert adds a row.
LEMMA RowsWrites ==
  ASSUME Next, rows' # rows
  PROVE  \E w \in Workers : CommitRow(w)
  BY DEF Next, Retire, Reactivate, SetOffered, List, Enroll, Begin, Advance,
         ReadTracks, ReadCard, Shown, Lookup, Insert, Recover, Abort

\* A row is inserted only into a track that was offered while its request ran.
THEOREM EnrollmentOfOffered == Spec => EnrolledWhileOffered
<1> DEFINE A == \A row \in rows' \ rows :
                  \E w \in Workers : /\ request[w].pc = "inserted"
                                     /\ request[w].id = row.id
                                     /\ row.track \in seen[w]
<1>1. EnrollmentInv /\ [Next]_vars => [A]_vars
  <2> SUFFICES ASSUME EnrollmentInv, Next, NEW row \in rows' \ rows
               PROVE  \E w \in Workers : /\ request[w].pc = "inserted"
                                         /\ request[w].id = row.id
                                         /\ row.track \in seen[w]
    OBVIOUS
  <2>1. PICK w \in Workers : CommitRow(w)
    BY RowsWrites
  <2>2. /\ request[w].pc = "inserted"
        /\ row = [id |-> request[w].id, account |-> request[w].account,
                  track |-> request[w].track]
    BY <2>1 DEF CommitRow
  <2>3. request[w].track \in seen[w]
    BY <2>2 DEF EnrollmentInv, LookedUp
  <2> QED BY <2>2, <2>3
<1> QED BY <1>1, EnrollmentInductive, PTL DEF Spec, EnrolledWhileOffered

=============================================================================
