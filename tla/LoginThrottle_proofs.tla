------------------------ MODULE LoginThrottle_proofs ------------------------
(***************************************************************************)
(* Theorems about LoginThrottle: for every set of accounts and origins,    *)
(* any number of workers and attempts, and whatever ids the keys have,     *)
(* shared ones included, credentials are evaluated only for an unblocked   *)
(* account and origin, and failures are neither forgotten nor undone.      *)
(* All of it rests on the advisory locks and on the locks of the rows.     *)
(***************************************************************************)
EXTENDS LoginThrottle, TLAPS, FiniteSetTheorems, WellFoundedInduction

-----------------------------------------------------------------------------
(* The powers of two                                                       *)

\* Induction, for a set instead of a predicate.
LEMMA SetInduction ==
  ASSUME NEW S, 0 \in S, \A n \in Nat : n \in S => n + 1 \in S
  PROVE  Nat \subseteq S
<1> DEFINE T == Nat \ S
           R == {p \in Nat \X Nat : p[1] < p[2]}
<1>1. ASSUME T # {}
      PROVE  FALSE
  <2>1. IsWellFoundedOn(R, Nat)
    BY NatLessThanWellFounded DEF OpToRel
  <2>2. PICK x \in T : \A y \in T : <<y, x>> \notin R
    <3> HIDE DEF R
    <3> QED BY <2>1, <1>1, WFMin
  <2>3. x \in Nat /\ x # 0 /\ x - 1 \in Nat /\ <<x - 1, x>> \in R
    OBVIOUS
  <2>4. x - 1 \in S
    BY <2>2, <2>3
  <2>5. (x - 1) + 1 \in S
    BY <2>3, <2>4
  <2> QED BY <2>3, <2>5
<1> QED BY <1>1

\* g is the beginning, up to m, of the sequence of powers of two.
Doubling(m, g) ==
  /\ g \in [0..m -> Nat] /\ g[0] = 1
  /\ \A i \in 1..m : g[i] = 2 * g[i - 1]

LEMMA DoublingExists == \A m \in Nat : \E g : Doubling(m, g)
<1> DEFINE S == {m \in Nat : \E g : Doubling(m, g)}
<1>1. 0 \in S
  <2>1. Doubling(0, [i \in 0..0 |-> 1])
    BY DEF Doubling
  <2> QED BY <2>1
<1>2. ASSUME NEW m \in Nat, m \in S
      PROVE  m + 1 \in S
  <2>1. PICK g : Doubling(m, g)
    BY <1>2
  <2> DEFINE h == [i \in 0..(m + 1) |-> IF i = m + 1 THEN 2 * g[m] ELSE g[i]]
  <2>2. Doubling(m + 1, h)
    <3>1. h \in [0..(m + 1) -> Nat] /\ h[0] = 1
      BY <2>1 DEF Doubling
    <3>2. ASSUME NEW i \in 1..(m + 1)
          PROVE  h[i] = 2 * h[i - 1]
      <4>1. CASE i = m + 1
        BY <4>1
      <4>2. CASE i \in 1..m
        BY <4>2, <2>1 DEF Doubling
      <4> QED BY <4>1, <4>2
    <3> QED BY <3>1, <3>2 DEF Doubling
  <2> QED BY <2>2
<1> HIDE DEF S
<1>3. Nat \subseteq S
  BY <1>1, <1>2, SetInduction
<1> QED BY <1>3 DEF S

LEMMA DoublingAgrees ==
  ASSUME NEW m \in Nat, NEW g, Doubling(m, g), NEW n \in Nat, NEW h,
         Doubling(n, h), NEW i \in 0..m, i \in 0..n
  PROVE  g[i] = h[i]
<1> DEFINE S == {j \in Nat : j \in 0..m /\ j \in 0..n => g[j] = h[j]}
<1>1. 0 \in S
  BY DEF Doubling
<1>2. ASSUME NEW j \in Nat, j \in S
      PROVE  j + 1 \in S
  BY <1>2 DEF Doubling
<1> HIDE DEF S
<1>3. Nat \subseteq S
  BY <1>1, <1>2, SetInduction
<1> QED BY <1>3 DEF S

\* So the recursive definition has the value that it describes.
LEMMA PowerOfTwoDef ==
  PowerOfTwo = [n \in Nat |-> IF n = 0 THEN 1 ELSE 2 * PowerOfTwo[n - 1]]
<1> DEFINE G(m) == CHOOSE g : Doubling(m, g)
           F == [n \in Nat |-> G(n)[n]]
<1>1. \A m \in Nat : Doubling(m, G(m))
  BY DoublingExists
<1> HIDE DEF G
<1>2. ASSUME NEW n \in Nat
      PROVE  F[n] = IF n = 0 THEN 1 ELSE 2 * F[n - 1]
  <2>1. CASE n = 0
    BY <2>1, <1>1 DEF Doubling
  <2>2. CASE n # 0
    <3>1. n - 1 \in Nat /\ Doubling(n, G(n)) /\ Doubling(n - 1, G(n - 1))
      BY <2>2, <1>1
    <3>2. G(n)[n] = 2 * G(n)[n - 1]
      BY <2>2, <3>1 DEF Doubling
    <3>3. G(n)[n - 1] = G(n - 1)[n - 1]
      BY <3>1, DoublingAgrees
    <3> QED BY <2>2, <3>1, <3>2, <3>3
  <2> QED BY <2>1, <2>2
<1>3. F = [n \in Nat |-> IF n = 0 THEN 1 ELSE 2 * F[n - 1]]
  BY <1>2
<1> HIDE DEF F
<1> QED BY <1>3 DEF PowerOfTwo

LEMMA PowerOfTwoType == \A n \in Nat : PowerOfTwo[n] \in Nat \ {0}
<1> DEFINE S == {n \in Nat : PowerOfTwo[n] \in Nat \ {0}}
<1>1. 0 \in S
  BY PowerOfTwoDef
<1>2. ASSUME NEW n \in Nat, n \in S
      PROVE  n + 1 \in S
  <2>1. PowerOfTwo[n + 1] = 2 * PowerOfTwo[n]
    BY PowerOfTwoDef
  <2> QED BY <2>1, <1>2
<1> HIDE DEF S
<1>3. Nat \subseteq S
  BY <1>1, <1>2, SetInduction
<1> QED BY <1>3 DEF S

-----------------------------------------------------------------------------
(* The inductive invariant. Its parts are about one attempt a and the       *)
(* committed rows in table.                                                *)

KeyPair == ({"ACCOUNT"} \X Emails) \X ({"ORIGIN"} \X Origins)

Rows == UNION {[D -> Bucket \cup {NoBucket}] : D \in SUBSET Keys}

AttemptState ==
  [pc: {"idle", "lock", "select", "prune", "credentials", "failure", "success",
        "commit"},
   keys: KeyPair \cup {<<>>}, locks: SUBSET Int, now: Nat, prune: Seq(Keys),
   todo: Seq(Keys), writes: Rows]

\* After the locks, and after the stale rows were listed.
Serialized == {"select", "prune", "credentials", "failure", "success", "commit"}
Late == Serialized \ {"select"}

Shaped(a) ==
  /\ a.pc = "idle" => a = Idle
  /\ a.pc # "idle" => a.keys \in KeyPair
  /\ a.pc \in {"idle", "lock", "select"} => DOMAIN a.writes = {}
  /\ a.pc = "failure" => a.todo \in {a.keys, <<a.keys[2]>>}
  /\ a.pc = "success" => a.todo = <<a.keys[1]>>

LockIds(a) == {LockId[a.keys[1]], LockId[a.keys[2]]}

\* The advisory locks of both keys are held before anything is read.
Holding(a) ==
  /\ a.pc = "lock" => LockIds(a) \ a.locks # {}
  /\ a.pc \in Serialized => LockIds(a) \subseteq a.locks

\* What an attempt holds, no other attempt does.
Apart(a, b) ==
  a.locks \cap b.locks = {} /\ DOMAIN a.writes \cap DOMAIN b.writes = {}

\* The committed rows of its keys are older than the attempt's reading of the
\* time and, once it is past the check, do not block it.
Current(a, table) ==
  \A i \in 1..2 :
    /\ a.pc \in Late => table[a.keys[i]].last <= a.now
    /\ a.pc \in {"credentials", "failure", "success"} =>
         table[a.keys[i]].until <= a.now

\* A row is deleted when it is stale, or is the account's after a success; only
\* the rows of its own keys are written, and never back in time.
WriteSound(a, k, old, new) ==
  IF Exists(new)
  THEN /\ a.pc \in {"failure", "commit"} /\ k \in {a.keys[1], a.keys[2]}
       /\ old.last <= new.last /\ old.until <= new.until
       /\ new.last <= a.now /\ new.until <= new.last + MaxDelay
  ELSE \/ ~Exists(old)
       \/ old.last <= a.now - Window
       \/ a.pc = "commit" /\ k = a.keys[1]

WritesSound(a, table) ==
  \A k \in DOMAIN a.writes : WriteSound(a, k, table[k], a.writes[k])

AttemptSound(a, table) ==
  Shaped(a) /\ Holding(a) /\ Current(a, table) /\ WritesSound(a, table)

BucketsSound ==
  \A k \in Keys : /\ buckets[k].last <= clock
                  /\ buckets[k].until <= buckets[k].last + MaxDelay

AttemptsSound ==
  /\ attempt \in [Workers -> AttemptState]
  /\ \A w \in Workers : AttemptSound(attempt[w], buckets)
  /\ \A v, w \in Workers : v # w => Apart(attempt[v], attempt[w])

ThrottleInv == TypeOK /\ BucketsSound /\ AttemptsSound

-----------------------------------------------------------------------------
(* Lemmas about keys and rows                                              *)

LEMMA PairOfKeys ==
  ASSUME NEW keys \in KeyPair
  PROVE  /\ keys[1] \in Keys /\ keys[2] \in Keys /\ keys[1] # keys[2]
         /\ keys[1][1] = "ACCOUNT" /\ keys[2][1] = "ORIGIN"
         /\ keys = <<keys[1], keys[2]>> /\ keys \in Seq(Keys)
         /\ \A i \in 1..2 : keys[i] \in Keys
<1>1. PICK e \in Emails, o \in Origins :
        keys = <<<<"ACCOUNT", e>>, <<"ORIGIN", o>>>>
  BY DEF KeyPair
<1>2. <<"ACCOUNT", e>> \in Keys /\ <<"ORIGIN", o>> \in Keys
  BY DEF Keys
<1> QED BY <1>1, <1>2

LEMMA KeysFinite == IsFiniteSet(Keys)
<1>1. IsFiniteSet({"ACCOUNT"} \X Emails) /\ IsFiniteSet({"ORIGIN"} \X Origins)
  BY ThrottleAssumption, FS_Product, FS_Singleton
<1> QED BY <1>1, FS_Union DEF Keys

LEMMA RowTypes ==
  ASSUME NEW b \in Bucket \cup {NoBucket}
  PROVE  /\ b.count \in Nat /\ b.last \in Nat /\ b.until \in Nat
         /\ ~Exists(b) => b = NoBucket
         /\ ~Exists(NoBucket) /\ NoBucket.last = 0 /\ NoBucket.until = 0
         /\ NoBucket \in Bucket \cup {NoBucket}
  BY DEF Bucket, NoBucket, Exists

LEMMA RowsType ==
  ASSUME NEW r \in Rows
  PROVE  /\ DOMAIN r \subseteq Keys
         /\ \A k \in DOMAIN r : r[k] \in Bucket \cup {NoBucket}
  BY DEF Rows

LEMMA RowsIntro ==
  ASSUME NEW D \in SUBSET Keys, NEW r \in [D -> Bucket \cup {NoBucket}]
  PROVE  r \in Rows
  BY DEF Rows

\* A transaction's own view of a row, and one more write of its.
LEMMA SeenType ==
  ASSUME ThrottleInv, NEW w \in Workers, NEW k \in Keys
  PROVE  Seen(w, k) \in Bucket \cup {NoBucket}
  BY RowsType DEF ThrottleInv, TypeOK, AttemptsSound, AttemptState, Seen

LEMMA WrittenType ==
  ASSUME ThrottleInv, NEW w \in Workers, NEW k \in Keys,
         NEW b \in Bucket \cup {NoBucket}
  PROVE  /\ Written(w, k, b) \in Rows
         /\ DOMAIN Written(w, k, b) = DOMAIN attempt[w].writes \cup {k}
         /\ Written(w, k, b)[k] = b
         /\ \A j \in DOMAIN attempt[w].writes :
              j # k => Written(w, k, b)[j] = attempt[w].writes[j]
<1>1. attempt[w].writes \in Rows
  BY DEF ThrottleInv, AttemptsSound, AttemptState
<1> DEFINE D == DOMAIN attempt[w].writes \cup {k}
<1>2. /\ D \in SUBSET Keys
      /\ Written(w, k, b) \in [D -> Bucket \cup {NoBucket}]
  BY <1>1, RowsType DEF Written
<1>3. Written(w, k, b) \in Rows
  <2> HIDE DEF D
  <2> QED BY <1>2, RowsIntro
<1> QED BY <1>3 DEF Written

\* A failure gives the bucket a block that starts now.
LEMMA FailedSound ==
  ASSUME NEW b \in Bucket \cup {NoBucket}, NEW now \in Nat
  PROVE  /\ Failed(b, now) \in Bucket /\ Exists(Failed(b, now))
         /\ Failed(b, now).last = now
         /\ now <= Failed(b, now).until
         /\ Failed(b, now).until <= now + MaxDelay
<1> DEFINE count == IF Exists(b) /\ now - b.last < Window THEN b.count + 1 ELSE 1
           delay == Min2(PowerOfTwo[count - 1], MaxDelay)
<1>1. count \in Nat \ {0} /\ count - 1 \in Nat
  BY RowTypes
<1> HIDE DEF count
<1>2. PowerOfTwo[count - 1] \in Nat
  BY <1>1, PowerOfTwoType
<1>3. delay \in Nat /\ delay <= MaxDelay
  BY <1>2, ThrottleAssumption DEF Min2
<1>4. Failed(b, now) = [count |-> count, last |-> now, until |-> now + delay]
  BY DEF Failed, count
<1> HIDE DEF delay
<1> QED BY <1>1, <1>3, <1>4, ThrottleAssumption DEF Bucket, Exists

-----------------------------------------------------------------------------
(* One lemma per action                                                    *)

LEMMA AttemptType ==
  ASSUME ThrottleInv, NEW w \in Workers
  PROVE  /\ attempt[w] \in AttemptState /\ AttemptSound(attempt[w], buckets)
         /\ attempt[w].now \in 0..clock
  BY DEF ThrottleInv, TypeOK, AttemptsSound

LEMMA ClockType ==
  ASSUME ThrottleInv
  PROVE  /\ clock \in Nat /\ submitted \in 0..MaxAttempts
         /\ buckets \in [Keys -> Bucket \cup {NoBucket}]
  BY ThrottleAssumption DEF ThrottleInv, TypeOK

\* A step that changes nothing but one attempt keeps the invariant if the new
\* attempt is sound and holds nothing that another one holds.
LEMMA OwnStep ==
  ASSUME ThrottleInv, NEW w \in Workers, NEW a \in AttemptState,
         attempt' = [attempt EXCEPT ![w] = a], a.now <= clock,
         AttemptSound(a, buckets),
         \A v \in Workers \ {w} : Apart(attempt[v], a),
         submitted' \in 0..MaxAttempts, UNCHANGED <<clock, buckets>>
  PROVE  ThrottleInv'
<1>1. attempt \in [Workers -> AttemptState]
  BY DEF ThrottleInv, AttemptsSound
<1>2. a.now \in Nat /\ a.pc \in Serialized \cup {"idle", "lock"}
      /\ DOMAIN a.writes \subseteq Keys
  BY RowsType DEF AttemptState, Serialized
<1> HIDE DEF AttemptState
<1>3. /\ attempt' \in [Workers -> AttemptState] /\ attempt'[w] = a
      /\ \A v \in Workers \ {w} : attempt'[v] = attempt[v]
  BY <1>1
<1>4. TypeOK'
  BY <1>2, <1>3, ClockType DEF ThrottleInv, TypeOK, Serialized
<1>5. BucketsSound'
  BY DEF ThrottleInv, BucketsSound
<1>6. \A v \in Workers : AttemptSound(attempt'[v], buckets')
  BY <1>3 DEF ThrottleInv, AttemptsSound
<1>7. ASSUME NEW u \in Workers, NEW v \in Workers, u # v
      PROVE  Apart(attempt'[u], attempt'[v])
  <2>1. CASE u = w
    BY <2>1, <1>3, <1>7 DEF Apart
  <2>2. CASE v = w
    BY <2>2, <1>3, <1>7
  <2>3. CASE u # w /\ v # w
    BY <2>3, <1>3, <1>7 DEF ThrottleInv, AttemptsSound
  <2> QED BY <2>1, <2>2, <2>3
<1> QED BY <1>3, <1>4, <1>5, <1>6, <1>7 DEF ThrottleInv, AttemptsSound

\* The same when the attempt holds what it held.
LEMMA SameHoldings ==
  ASSUME ThrottleInv, NEW w \in Workers, NEW a \in AttemptState,
         attempt' = [attempt EXCEPT ![w] = a], a.now <= clock,
         AttemptSound(a, buckets),
         a.locks \subseteq attempt[w].locks,
         DOMAIN a.writes \subseteq DOMAIN attempt[w].writes,
         submitted' \in 0..MaxAttempts, UNCHANGED <<clock, buckets>>
  PROVE  ThrottleInv'
<1>1. \A v \in Workers \ {w} : Apart(attempt[v], a)
  BY DEF ThrottleInv, AttemptsSound, Apart
<1> QED BY <1>1, OwnStep

LEMMA IdleSound ==
  /\ Idle \in AttemptState /\ Idle.now = 0 /\ Idle.pc = "idle"
  /\ Idle.locks = {} /\ DOMAIN Idle.writes = {}
  /\ \A table : AttemptSound(Idle, table)
<1>1. /\ Idle.now = 0 /\ Idle.pc = "idle" /\ Idle.writes = <<>>
      /\ Idle.locks = {} /\ DOMAIN Idle.writes = {}
  BY DEF Idle
<1>2. <<>> \in Rows
  <2>1. <<>> \in [{} -> Bucket \cup {NoBucket}]
    OBVIOUS
  <2> QED BY <2>1, RowsIntro
<1>3. Idle \in AttemptState
  BY <1>2 DEF Idle, AttemptState
<1>4. ASSUME NEW table
      PROVE  AttemptSound(Idle, table)
  BY <1>1 DEF AttemptSound, Shaped, Holding, Current, WritesSound, Serialized,
              Late
<1> QED BY <1>1, <1>3, <1>4

LEMMA AbortInv ==
  ASSUME ThrottleInv, NEW w \in Workers, Abort(w)
  PROVE  ThrottleInv'
<1>1. 0 <= clock /\ submitted \in 0..MaxAttempts
  BY ClockType
<1> QED BY <1>1, IdleSound, SameHoldings DEF Abort, End

LEMMA SubmitInv ==
  ASSUME ThrottleInv, NEW w \in Workers, NEW email \in Emails,
         NEW origin \in Origins, Submit(w, email, origin)
  PROVE  ThrottleInv'
<1> DEFINE keys == <<<<"ACCOUNT", email>>, <<"ORIGIN", origin>>>>
           a == [Idle EXCEPT !.pc = "lock", !.keys = keys]
<1>1. keys \in KeyPair
  BY DEF KeyPair
<1>2. /\ a \in AttemptState /\ a.pc = "lock" /\ a.keys = keys /\ a.now = 0
      /\ a.locks = {} /\ DOMAIN a.writes = {}
  <2> HIDE DEF keys
  <2> QED BY <1>1, IdleSound DEF AttemptState
<1>3. attempt' = [attempt EXCEPT ![w] = a] /\ UNCHANGED <<clock, buckets>>
      /\ submitted' \in 0..MaxAttempts
  BY ClockType, ThrottleAssumption DEF Submit
<1> HIDE DEF a, keys
<1>4. AttemptSound(a, buckets)
  BY <1>1, <1>2 DEF AttemptSound, Shaped, Holding, LockIds, Current, WritesSound,
                    Serialized, Late
<1>5. a.now <= clock
  BY <1>2, ClockType
<1> QED BY <1>2, <1>3, <1>4, <1>5, SameHoldings

\* The least of the ids still wanted is one of them, and was free.
LEMMA LockAdvisoryInv ==
  ASSUME ThrottleInv, NEW w \in Workers, LockAdvisory(w)
  PROVE  ThrottleInv'
<1> DEFINE old == attempt[w]
           id == Least(Wanted(w))
           a == [old EXCEPT !.locks = @ \cup {id},
                            !.pc = IF Wanted(w) = {id} THEN "select" ELSE "lock"]
<1>1. /\ old \in AttemptState /\ AttemptSound(old, buckets)
      /\ old.now \in 0..clock /\ old.pc = "lock"
  BY AttemptType DEF LockAdvisory
<1>2. /\ attempt' = [attempt EXCEPT ![w] = a] /\ AdvisoryFree(w, id)
      /\ UNCHANGED <<clock, buckets, submitted>>
  <2>1. attempt \in [Workers -> AttemptState]
    BY DEF ThrottleInv, AttemptsSound
  <2> QED BY <2>1 DEF LockAdvisory
<1>3. Wanted(w) = LockIds(old) \ old.locks
  BY DEF Wanted, LockIds
<1>4. LockId[old.keys[1]] \in Int /\ LockId[old.keys[2]] \in Int
  BY <1>1, PairOfKeys, ThrottleAssumption DEF AttemptSound, Shaped
<1>5. Wanted(w) # {}
  BY <1>1, <1>3 DEF AttemptSound, Holding
<1>6. id \in Wanted(w) /\ id \in Int
  <2>1. \E i \in Wanted(w) : \A j \in Wanted(w) : i <= j
    BY <1>3, <1>4, <1>5 DEF LockIds
  <2>2. id \in Wanted(w)
    BY <2>1 DEF Least
  <2> QED BY <2>2, <1>3, <1>4 DEF LockIds
<1> HIDE DEF id
<1>7. /\ a \in AttemptState /\ a.keys = old.keys /\ a.now = old.now
      /\ a.locks = old.locks \cup {id} /\ a.writes = old.writes
      /\ a.pc = IF Wanted(w) = {id} THEN "select" ELSE "lock"
  BY <1>1, <1>6 DEF AttemptState
<1> HIDE DEF a
<1>8. AttemptSound(a, buckets)
  <2>1. Shaped(a) /\ Current(a, buckets) /\ WritesSound(a, buckets)
    BY <1>1, <1>7 DEF AttemptSound, Shaped, Current, WritesSound, Serialized, Late
  <2>2. Holding(a)
    BY <1>3, <1>5, <1>6, <1>7 DEF Holding, LockIds, Serialized
  <2> QED BY <2>1, <2>2 DEF AttemptSound
<1>9. \A v \in Workers \ {w} : Apart(attempt[v], a)
  BY <1>2, <1>7 DEF ThrottleInv, AttemptsSound, Apart, AdvisoryFree
<1>10. a.now <= clock /\ submitted' \in 0..MaxAttempts
  BY <1>1, <1>2, <1>7, ClockType
<1> HIDE DEF old
<1> QED BY <1>2, <1>7, <1>8, <1>9, <1>10, OwnStep

\* The attempt lists stale rows and takes its first reading of the time.
LEMMA SelectStaleInv ==
  ASSUME ThrottleInv, NEW w \in Workers, SelectStale(w)
  PROVE  ThrottleInv'
<1> DEFINE old == attempt[w]
           stale == {k \in Keys : Stale(buckets[k], clock)}
<1>1. /\ old \in AttemptState /\ AttemptSound(old, buckets)
      /\ old.now \in 0..clock /\ old.pc = "select"
  BY AttemptType DEF SelectStale
<1>2. PICK S \in SUBSET stale :
        \E order \in [1..Cardinality(S) -> S] :
          attempt' = [attempt EXCEPT ![w].prune = order, ![w].now = clock,
                                     ![w].pc = "prune"]
  BY DEF SelectStale
<1>3. PICK order \in [1..Cardinality(S) -> S] :
        attempt' = [attempt EXCEPT ![w].prune = order, ![w].now = clock,
                                   ![w].pc = "prune"]
  BY <1>2
<1>4. Cardinality(S) \in Nat
  BY KeysFinite, FS_Subset, FS_CardinalityType
<1>5. order \in Seq(Keys)
  BY <1>4
<1> DEFINE a == [old EXCEPT !.prune = order, !.now = clock, !.pc = "prune"]
<1>6. attempt' = [attempt EXCEPT ![w] = a]
      /\ UNCHANGED <<clock, buckets, submitted>>
  <2>1. attempt \in [Workers -> AttemptState]
    BY DEF ThrottleInv, AttemptsSound
  <2> QED BY <2>1, <1>3 DEF SelectStale
<1>7. /\ a \in AttemptState /\ a.keys = old.keys /\ a.now = clock
      /\ a.locks = old.locks /\ a.writes = old.writes /\ a.pc = "prune"
  BY <1>1, <1>5, ClockType DEF AttemptState
<1> HIDE DEF a
<1>8. AttemptSound(a, buckets)
  <2>1. DOMAIN a.writes = {} /\ a.keys \in KeyPair
    BY <1>1, <1>7 DEF AttemptSound, Shaped
  <2>2. Shaped(a) /\ WritesSound(a, buckets)
    BY <2>1, <1>7 DEF Shaped, WritesSound
  <2>3. Holding(a)
    BY <1>1, <1>7 DEF AttemptSound, Holding, LockIds, Serialized
  <2>4. Current(a, buckets)
    BY <2>1, <1>7, PairOfKeys DEF Current, ThrottleInv, BucketsSound
  <2> QED BY <2>2, <2>3, <2>4 DEF AttemptSound
<1>9. /\ a.now <= clock /\ submitted' \in 0..MaxAttempts
      /\ a.locks \subseteq attempt[w].locks
      /\ DOMAIN a.writes \subseteq DOMAIN attempt[w].writes
  BY <1>6, <1>7, ClockType
<1> HIDE DEF old
<1> QED BY <1>6, <1>7, <1>8, <1>9, SameHoldings

\* The DELETE takes the lock of the next row and deletes it if it is stale still.
LEMMA DeleteStaleInv ==
  ASSUME ThrottleInv, NEW w \in Workers, DeleteStale(w)
  PROVE  ThrottleInv'
<1> DEFINE old == attempt[w]
           k == Head(old.prune)
           a == [old EXCEPT !.prune = Tail(@),
                            !.writes = IF Deleted(buckets[k], old.now)
                                       THEN Written(w, k, NoBucket) ELSE @]
<1>1. /\ old \in AttemptState /\ AttemptSound(old, buckets)
      /\ old.now \in 0..clock /\ old.pc = "prune" /\ old.prune # <<>>
  BY AttemptType DEF DeleteStale
<1>2. /\ attempt' = [attempt EXCEPT ![w] = a] /\ RowFree(w, k)
      /\ UNCHANGED <<clock, buckets, submitted>>
  <2>1. attempt \in [Workers -> AttemptState]
    BY DEF ThrottleInv, AttemptsSound
  <2> QED BY <2>1 DEF DeleteStale
<1>3. k \in Keys /\ Tail(old.prune) \in Seq(Keys) /\ old.writes \in Rows
  BY <1>1 DEF AttemptState
<1> HIDE DEF k
<1>4. /\ NoBucket \in Bucket \cup {NoBucket} /\ ~Exists(NoBucket)
  BY DEF NoBucket, Exists
<1>5. /\ a \in AttemptState /\ a.keys = old.keys /\ a.now = old.now
      /\ a.locks = old.locks /\ a.pc = old.pc
      /\ a.writes = IF Deleted(buckets[k], old.now)
                    THEN Written(w, k, NoBucket) ELSE old.writes
  BY <1>1, <1>3, <1>4, WrittenType DEF AttemptState
<1> HIDE DEF a
<1>6. Shaped(a) /\ Holding(a) /\ Current(a, buckets)
  BY <1>1, <1>5 DEF AttemptSound, Shaped, Holding, LockIds, Current
<1>7. WritesSound(a, buckets)
  <2>1. \A j \in DOMAIN old.writes :
          WriteSound(a, j, buckets[j], old.writes[j])
    BY <1>1, <1>5 DEF AttemptSound, WritesSound, WriteSound
  <2>2. CASE Deleted(buckets[k], old.now)
    <3>1. WriteSound(a, k, buckets[k], NoBucket)
      BY <2>2, <1>4, <1>5 DEF WriteSound, Deleted, Stale
    <3> DEFINE new == Written(w, k, NoBucket)
    <3>2. a.writes = new
      BY <2>2, <1>5
    <3>3. /\ DOMAIN new = DOMAIN old.writes \cup {k} /\ new[k] = NoBucket
          /\ \A j \in DOMAIN old.writes : j # k => new[j] = old.writes[j]
      BY <1>3, <1>4, WrittenType
    <3> HIDE DEF new
    <3> QED BY <2>1, <3>1, <3>2, <3>3 DEF WritesSound
  <2>3. CASE ~Deleted(buckets[k], old.now)
    BY <2>1, <2>3, <1>5 DEF WritesSound
  <2> QED BY <2>2, <2>3
<1>8. \A v \in Workers \ {w} : Apart(attempt[v], a)
  <2>1. DOMAIN Written(w, k, NoBucket) = DOMAIN old.writes \cup {k}
    BY <1>3, <1>4, WrittenType
  <2>2. DOMAIN a.writes \subseteq DOMAIN old.writes \cup {k}
    BY <2>1, <1>5
  <2>3. ASSUME NEW v \in Workers \ {w}
        PROVE  Apart(attempt[v], a)
    <3>1. Apart(attempt[v], old) /\ k \notin DOMAIN attempt[v].writes
      BY <1>2 DEF ThrottleInv, AttemptsSound, RowFree
    <3> QED BY <3>1, <2>2, <1>5 DEF Apart
  <2> QED BY <2>3
<1>9. /\ a.now <= clock /\ submitted' \in 0..MaxAttempts
      /\ AttemptSound(a, buckets)
  BY <1>1, <1>2, <1>5, <1>6, <1>7, ClockType DEF AttemptSound
<1> HIDE DEF old
<1> QED BY <1>2, <1>5, <1>8, <1>9, OwnStep

\* Before an outcome is recorded every write is the deletion of a stale row, and
\* stays justified as time passes.
LEMMA PrunesOnly ==
  ASSUME ThrottleInv, NEW w \in Workers,
         attempt[w].pc \in {"prune", "credentials"},
         NEW k \in DOMAIN attempt[w].writes
  PROVE  /\ ~Exists(attempt[w].writes[k])
         /\ ~Exists(buckets[k]) \/ buckets[k].last <= attempt[w].now - Window
  BY AttemptType DEF AttemptSound, WritesSound, WriteSound

LEMMA PrunesStay ==
  ASSUME ThrottleInv, NEW w \in Workers, NEW a \in AttemptState,
         attempt[w].pc \in {"prune", "credentials"},
         a.writes = attempt[w].writes, attempt[w].now <= a.now
  PROVE  WritesSound(a, buckets)
<1> SUFFICES ASSUME NEW k \in DOMAIN a.writes
             PROVE  WriteSound(a, k, buckets[k], a.writes[k])
  BY DEF WritesSound
<1>1. /\ ~Exists(a.writes[k])
      /\ ~Exists(buckets[k]) \/ buckets[k].last <= attempt[w].now - Window
  BY PrunesOnly
<1>2. k \in Keys /\ attempt[w].now \in Nat /\ a.now \in Nat
  BY AttemptType, RowsType DEF AttemptState
<1>3. buckets[k].last \in Nat
  BY <1>2, RowTypes, ClockType
<1> QED BY <1>1, <1>2, <1>3, ThrottleAssumption DEF WriteSound

\* A stale row blocks nobody, since no delay outlasts the window.
LEMMA UnblockedSound ==
  ASSUME ThrottleInv, NEW w \in Workers, attempt[w].pc = "prune",
         NEW i \in 1..2, ~Blocked(w)
  PROVE  buckets[attempt[w].keys[i]].until <= attempt[w].now
<1> DEFINE k == attempt[w].keys[i]
<1>1. /\ k \in Keys /\ attempt[w].now \in Nat
  BY AttemptType, PairOfKeys DEF AttemptSound, Shaped, AttemptState
<1>2. Seen(w, k).until \in Nat /\ ~(Seen(w, k).until > attempt[w].now)
  BY <1>1, SeenType, RowTypes DEF Blocked
<1>3. /\ buckets[k] \in Bucket \cup {NoBucket}
      /\ buckets[k].until <= buckets[k].last + MaxDelay
  BY <1>1, ClockType DEF ThrottleInv, BucketsSound
<1>4. CASE k \in DOMAIN attempt[w].writes
  <2>1. ~Exists(buckets[k]) \/ buckets[k].last <= attempt[w].now - Window
    BY <1>4, PrunesOnly
  <2> DEFINE b == buckets[k]
  <2>2. /\ b.last \in Nat /\ b.until \in Nat /\ b.until <= b.last + MaxDelay
        /\ ~Exists(b) => b.until = 0
    BY <1>3, RowTypes
  <2>3. attempt[w].now \in Nat
    BY <1>1
  <2> HIDE DEF b
  <2>4. CASE ~Exists(b)
    BY <2>2, <2>3, <2>4 DEF b
  <2>5. CASE b.last <= attempt[w].now - Window
    <3>1. b.until <= attempt[w].now
      BY <2>2, <2>3, <2>5, ThrottleAssumption
    <3> QED BY <3>1 DEF b
  <2> QED BY <2>1, <2>4, <2>5 DEF b
<1>5. CASE k \notin DOMAIN attempt[w].writes
  BY <1>1, <1>2, <1>3, <1>5 DEF Seen
<1> QED BY <1>4, <1>5

LEMMA EvaluateInv ==
  ASSUME ThrottleInv, NEW w \in Workers, Evaluate(w)
  PROVE  ThrottleInv'
<1> DEFINE old == attempt[w]
           a == [old EXCEPT !.pc = IF Blocked(w) THEN "commit" ELSE "credentials"]
<1>1. /\ old \in AttemptState /\ AttemptSound(old, buckets)
      /\ old.now \in 0..clock /\ old.pc = "prune"
  BY AttemptType DEF Evaluate
<1>2. /\ attempt' = [attempt EXCEPT ![w] = a]
      /\ UNCHANGED <<clock, buckets, submitted>>
  BY DEF Evaluate
<1>3. /\ a \in AttemptState /\ a.keys = old.keys /\ a.now = old.now
      /\ a.locks = old.locks /\ a.writes = old.writes
      /\ a.pc = IF Blocked(w) THEN "commit" ELSE "credentials"
  BY <1>1 DEF AttemptState
<1> HIDE DEF a
<1>4. AttemptSound(a, buckets)
  <2>1. Shaped(a) /\ Holding(a)
    BY <1>1, <1>3 DEF AttemptSound, Shaped, Holding, LockIds, Serialized
  <2>2. Current(a, buckets)
    <3> SUFFICES ASSUME NEW i \in 1..2
                 PROVE  /\ buckets[a.keys[i]].last <= a.now
                        /\ a.pc = "credentials" =>
                             buckets[a.keys[i]].until <= a.now
      <4>1. a.pc \notin {"failure", "success"}
        BY <1>3
      <4> QED BY <4>1 DEF Current
    <3>1. buckets[a.keys[i]].last <= a.now
      BY <1>1, <1>3 DEF AttemptSound, Current, Late, Serialized
    <3>2. a.pc = "credentials" => ~Blocked(w)
      BY <1>3
    <3> QED BY <3>1, <3>2, <1>1, <1>3, UnblockedSound
  <2>3. WritesSound(a, buckets)
    BY <1>1, <1>3, PrunesStay
  <2> QED BY <2>1, <2>2, <2>3 DEF AttemptSound
<1>5. /\ a.now <= clock /\ submitted' \in 0..MaxAttempts
      /\ a.locks \subseteq attempt[w].locks
      /\ DOMAIN a.writes \subseteq DOMAIN attempt[w].writes
  BY <1>1, <1>2, <1>3, ClockType
<1> HIDE DEF old
<1> QED BY <1>2, <1>3, <1>4, <1>5, SameHoldings

\* Nothing is written yet; a failure is dated by a later reading of the time.
LEMMA AuthenticateInv ==
  ASSUME ThrottleInv, NEW w \in Workers, Authenticate(w)
  PROVE  ThrottleInv'
<1> DEFINE old == attempt[w]
<1>1. /\ old \in AttemptState /\ AttemptSound(old, buckets)
      /\ old.now \in 0..clock /\ old.pc = "credentials"
      /\ UNCHANGED <<clock, buckets, submitted>>
  BY AttemptType DEF Authenticate
<1>2. old.keys \in KeyPair
  BY <1>1 DEF AttemptSound, Shaped
<1>3. PICK pc \in {"failure", "success"}, now \in {old.now, clock} :
        /\ pc = "success" => now = old.now
        /\ attempt' = [attempt EXCEPT ![w] =
             [old EXCEPT !.pc = pc, !.now = now,
                         !.todo = IF pc = "failure" THEN old.keys
                                  ELSE Cleared(old.keys)]]
  <2>1. attempt \in [Workers -> AttemptState]
    BY DEF ThrottleInv, AttemptsSound
  <2>2. CASE attempt' = [attempt EXCEPT ![w].pc = "failure", ![w].now = clock,
                                        ![w].todo = attempt[w].keys]
    <3>1. attempt' = [attempt EXCEPT ![w] =
                        [old EXCEPT !.pc = "failure", !.now = clock,
                                    !.todo = old.keys]]
      BY <2>1, <2>2
    <3> QED BY <3>1
  <2>3. CASE attempt' = [attempt EXCEPT ![w].pc = "success",
                                        ![w].todo = Cleared(attempt[w].keys)]
    <3>1. attempt' = [attempt EXCEPT ![w] =
                        [old EXCEPT !.pc = "success", !.now = old.now,
                                    !.todo = Cleared(old.keys)]]
      BY <2>1, <2>3, <1>1 DEF AttemptState
    <3> QED BY <3>1
  <2> QED BY <2>2, <2>3 DEF Authenticate
<1> DEFINE todo == IF pc = "failure" THEN old.keys ELSE Cleared(old.keys)
           a == [old EXCEPT !.pc = pc, !.now = now, !.todo = todo]
<1>4. todo \in Seq(Keys)
  BY <1>2, PairOfKeys DEF Cleared
<1>5. now \in Nat /\ old.now <= now /\ now <= clock
  BY <1>1, <1>3, ClockType
<1>6. /\ a \in AttemptState /\ a.keys = old.keys /\ a.now = now
      /\ a.locks = old.locks /\ a.writes = old.writes
      /\ a.pc = pc /\ a.todo = todo
  <2> HIDE DEF todo
  <2> QED BY <1>1, <1>4, <1>5 DEF AttemptState
<1>7. attempt' = [attempt EXCEPT ![w] = a]
  BY <1>3
<1> HIDE DEF a
<1>8. AttemptSound(a, buckets)
  <2>1. Shaped(a)
    BY <1>2, <1>6 DEF Shaped, Cleared
  <2>2. Holding(a)
    BY <1>1, <1>6 DEF AttemptSound, Holding, LockIds, Serialized
  <2>3. Current(a, buckets)
    <3> SUFFICES ASSUME NEW i \in 1..2
                 PROVE  /\ buckets[a.keys[i]].last <= a.now
                        /\ buckets[a.keys[i]].until <= a.now
      BY DEF Current
    <3>1. /\ buckets[old.keys[i]].last <= old.now
          /\ buckets[old.keys[i]].until <= old.now
      BY <1>1 DEF AttemptSound, Current, Late, Serialized
    <3>2. buckets[old.keys[i]] \in Bucket \cup {NoBucket}
      BY <1>2, PairOfKeys, ClockType
    <3>3. buckets[old.keys[i]].last \in Nat /\ buckets[old.keys[i]].until \in Nat
      BY <3>2, RowTypes
    <3> QED BY <3>1, <3>3, <1>1, <1>5, <1>6
  <2>4. WritesSound(a, buckets)
    BY <1>1, <1>5, <1>6, PrunesStay
  <2> QED BY <2>1, <2>2, <2>3, <2>4 DEF AttemptSound
<1>9. /\ a.now <= clock /\ submitted' \in 0..MaxAttempts
      /\ a.locks \subseteq attempt[w].locks
      /\ DOMAIN a.writes \subseteq DOMAIN attempt[w].writes
  BY <1>1, <1>5, <1>6, ClockType
<1> HIDE DEF old
<1> QED BY <1>1, <1>6, <1>7, <1>8, <1>9, SameHoldings

\* One more write, of a row that nobody else has written, as an outcome is
\* recorded.
LEMMA OutcomeWritten ==
  ASSUME ThrottleInv, NEW w \in Workers, NEW k \in Keys,
         NEW b \in Bucket \cup {NoBucket}, RowFree(w, k),
         NEW a \in AttemptState,
         attempt[w].pc \in {"failure", "success"},
         a.pc \in {"failure", "commit"},
         a.keys = attempt[w].keys, a.now = attempt[w].now,
         a.locks = attempt[w].locks, a.writes = Written(w, k, b),
         WriteSound(a, k, buckets[k], b)
  PROVE  /\ WritesSound(a, buckets)
         /\ \A v \in Workers \ {w} : Apart(attempt[v], a)
<1>1. /\ DOMAIN a.writes = DOMAIN attempt[w].writes \cup {k}
      /\ a.writes[k] = b
      /\ \A j \in DOMAIN attempt[w].writes :
           j # k => a.writes[j] = attempt[w].writes[j]
  <2> DEFINE new == Written(w, k, b)
  <2>1. /\ DOMAIN new = DOMAIN attempt[w].writes \cup {k} /\ new[k] = b
        /\ \A j \in DOMAIN attempt[w].writes :
             j # k => new[j] = attempt[w].writes[j]
    BY WrittenType
  <2>2. a.writes = new
    OBVIOUS
  <2> HIDE DEF new
  <2> QED BY <2>1, <2>2
<1>2. \A j \in DOMAIN attempt[w].writes :
        WriteSound(attempt[w], j, buckets[j], attempt[w].writes[j])
  BY AttemptType DEF AttemptSound, WritesSound
<1>3. WritesSound(a, buckets)
  <2> SUFFICES ASSUME NEW j \in DOMAIN a.writes, j # k
               PROVE  WriteSound(a, j, buckets[j], a.writes[j])
    BY <1>1 DEF WritesSound
  <2>1. a.writes[j] = attempt[w].writes[j]
        /\ WriteSound(attempt[w], j, buckets[j], attempt[w].writes[j])
    BY <1>1, <1>2
  <2> QED BY <2>1 DEF WriteSound
<1>4. ASSUME NEW v \in Workers \ {w}
      PROVE  Apart(attempt[v], a)
  <2>1. Apart(attempt[v], attempt[w]) /\ k \notin DOMAIN attempt[v].writes
    BY DEF ThrottleInv, AttemptsSound, RowFree
  <2> QED BY <2>1, <1>1 DEF Apart
<1> QED BY <1>3, <1>4

\* The failure of each scope is written after the check found it unblocked.
LEMMA RecordFailureInv ==
  ASSUME ThrottleInv, NEW w \in Workers, RecordFailure(w)
  PROVE  ThrottleInv'
<1> DEFINE old == attempt[w]
           k == Head(old.todo)
           b == Failed(Seen(w, k), old.now)
           a == [old EXCEPT !.writes = Written(w, k, b), !.todo = Tail(@),
                            !.pc = After(w)]
<1>1. /\ old \in AttemptState /\ AttemptSound(old, buckets)
      /\ old.now \in 0..clock /\ old.pc = "failure"
  BY AttemptType DEF RecordFailure
<1>2. /\ attempt' = [attempt EXCEPT ![w] = a] /\ RowFree(w, k)
      /\ UNCHANGED <<clock, buckets, submitted>>
  <2>1. attempt \in [Workers -> AttemptState]
    BY DEF ThrottleInv, AttemptsSound
  <2> QED BY <2>1 DEF RecordFailure
<1>3. /\ old.keys \in KeyPair /\ old.keys = <<old.keys[1], old.keys[2]>>
      /\ old.todo \in {old.keys, <<old.keys[2]>>}
      /\ old.keys[1] \in Keys /\ old.keys[2] \in Keys
  BY <1>1, PairOfKeys DEF AttemptSound, Shaped
<1>4. /\ k \in {old.keys[1], old.keys[2]} /\ k \in Keys
      /\ Tail(old.todo) \in Seq(Keys)
      /\ After(w) \in {"failure", "commit"}
      /\ After(w) = "failure" => Tail(old.todo) = <<old.keys[2]>>
  <2>1. CASE old.todo = old.keys
    <3> DEFINE k1 == old.keys[1]
               k2 == old.keys[2]
    <3>1. old.todo = <<k1, k2>> /\ k1 \in Keys /\ k2 \in Keys
      BY <2>1, <1>3
    <3> HIDE DEF k1, k2
    <3>2. /\ Head(old.todo) = k1 /\ Tail(old.todo) = <<k2>>
          /\ Len(old.todo) = 2 /\ <<k2>> \in Seq(Keys)
      BY <3>1
    <3>3. After(w) = "failure"
      BY <3>2, <1>1 DEF After
    <3> QED BY <3>1, <3>2, <3>3 DEF k1, k2
  <2>2. CASE old.todo = <<old.keys[2]>>
    BY <2>2, <1>1, <1>3 DEF After
  <2> QED BY <2>1, <2>2, <1>3
<1> HIDE DEF k
<1>5. /\ b \in Bucket /\ Exists(b) /\ b.last = old.now
      /\ old.now <= b.until /\ b.until <= old.now + MaxDelay
  BY <1>1, <1>4, SeenType, FailedSound DEF AttemptState
<1> HIDE DEF b
<1>6. Written(w, k, b) \in Rows
  BY <1>4, <1>5, WrittenType
<1>7. /\ a \in AttemptState /\ a.keys = old.keys /\ a.now = old.now
      /\ a.locks = old.locks /\ a.writes = Written(w, k, b)
      /\ a.pc = After(w) /\ a.todo = Tail(old.todo)
  <2> DEFINE pc == After(w)
             rows == Written(w, k, b)
  <2>1. pc \in {"failure", "commit"} /\ rows \in Rows
    BY <1>4, <1>6
  <2> HIDE DEF pc, rows
  <2>2. LET c == [old EXCEPT !.writes = rows, !.todo = Tail(@), !.pc = pc]
        IN /\ c \in AttemptState /\ c.keys = old.keys /\ c.now = old.now
           /\ c.locks = old.locks /\ c.writes = rows
           /\ c.pc = pc /\ c.todo = Tail(old.todo)
    BY <2>1, <1>1, <1>4 DEF AttemptState
  <2> QED BY <2>2 DEF pc, rows
<1> HIDE DEF a
<1>8. WriteSound(a, k, buckets[k], b)
  <2>1. /\ buckets[k].last <= old.now /\ buckets[k].until <= old.now
    BY <1>1, <1>4 DEF AttemptSound, Current, Late, Serialized
  <2>2. /\ buckets[k].last \in Nat /\ buckets[k].until \in Nat
        /\ b.until \in Nat /\ old.now \in Nat
    BY <1>4, <1>5, <1>1, ClockType, RowTypes DEF AttemptState
  <2> QED BY <2>1, <2>2, <1>4, <1>5, <1>7 DEF WriteSound
<1>9. /\ WritesSound(a, buckets)
      /\ \A v \in Workers \ {w} : Apart(attempt[v], a)
  BY <1>1, <1>2, <1>4, <1>5, <1>7, <1>8, OutcomeWritten
<1>10. AttemptSound(a, buckets)
  <2>1. Shaped(a) /\ Holding(a)
    BY <1>1, <1>3, <1>4, <1>7
       DEF AttemptSound, Shaped, Holding, LockIds, Serialized
  <2>2. Current(a, buckets)
    BY <1>1, <1>4, <1>7 DEF AttemptSound, Current, Late, Serialized
  <2> QED BY <1>9, <2>1, <2>2 DEF AttemptSound
<1>11. a.now <= clock /\ submitted' \in 0..MaxAttempts
  BY <1>1, <1>2, <1>7, ClockType
<1> HIDE DEF old
<1> QED BY <1>2, <1>7, <1>9, <1>10, <1>11, OwnStep

\* A success removes the account's row, if there is one, and then commits.
LEMMA RecordSuccessInv ==
  ASSUME ThrottleInv, NEW w \in Workers, RecordSuccess(w)
  PROVE  ThrottleInv'
<1> DEFINE old == attempt[w]
           k == Head(old.todo)
           rows == IF Exists(Seen(w, k)) THEN Written(w, k, NoBucket)
                   ELSE old.writes
           a == [old EXCEPT !.writes = rows, !.todo = Tail(@), !.pc = "commit"]
<1>1. /\ old \in AttemptState /\ AttemptSound(old, buckets)
      /\ old.now \in 0..clock /\ old.pc = "success"
  BY AttemptType DEF RecordSuccess
<1>2. /\ old.keys \in KeyPair /\ old.todo = <<old.keys[1]>>
      /\ old.keys[1] \in Keys
  BY <1>1, PairOfKeys DEF AttemptSound, Shaped
<1>3. k = old.keys[1] /\ k \in Keys /\ Tail(old.todo) \in Seq(Keys)
      /\ After(w) = "commit"
  BY <1>2 DEF After
<1>4. /\ attempt' = [attempt EXCEPT ![w] = a] /\ RowFree(w, k)
      /\ UNCHANGED <<clock, buckets, submitted>>
  <2>1. attempt \in [Workers -> AttemptState]
    BY DEF ThrottleInv, AttemptsSound
  <2> QED BY <2>1, <1>3 DEF RecordSuccess
<1> HIDE DEF k
<1>5. NoBucket \in Bucket \cup {NoBucket} /\ ~Exists(NoBucket)
  BY DEF NoBucket, Exists
<1>6. rows \in Rows
  BY <1>1, <1>3, <1>5, WrittenType DEF AttemptState
<1>7. /\ a \in AttemptState /\ a.keys = old.keys /\ a.now = old.now
      /\ a.locks = old.locks /\ a.writes = rows /\ a.pc = "commit"
  <2> HIDE DEF rows
  <2> QED BY <1>1, <1>3, <1>6 DEF AttemptState
<1> HIDE DEF a
<1>8. /\ WritesSound(a, buckets)
      /\ \A v \in Workers \ {w} : Apart(attempt[v], a)
  <2>1. CASE Exists(Seen(w, k))
    <3>1. WriteSound(a, k, buckets[k], NoBucket)
      BY <1>3, <1>5, <1>7 DEF WriteSound
    <3>2. a.writes = Written(w, k, NoBucket)
      BY <2>1, <1>7
    <3> QED BY <3>1, <3>2, <1>1, <1>3, <1>4, <1>5, <1>7, OutcomeWritten
  <2>2. CASE ~Exists(Seen(w, k))
    <3>1. a.writes = old.writes
      BY <2>2, <1>7
    <3>2. \A j \in DOMAIN old.writes :
            WriteSound(old, j, buckets[j], old.writes[j])
      BY <1>1 DEF AttemptSound, WritesSound
    <3>3. WritesSound(a, buckets)
      BY <3>1, <3>2, <1>1, <1>7 DEF WritesSound, WriteSound
    <3>4. \A v \in Workers \ {w} : Apart(attempt[v], a)
      BY <3>1, <1>7 DEF ThrottleInv, AttemptsSound, Apart
    <3> QED BY <3>3, <3>4
  <2> QED BY <2>1, <2>2
<1>9. AttemptSound(a, buckets)
  <2>1. Shaped(a) /\ Holding(a)
    BY <1>1, <1>2, <1>7 DEF AttemptSound, Shaped, Holding, LockIds, Serialized
  <2>2. Current(a, buckets)
    BY <1>1, <1>7 DEF AttemptSound, Current, Late, Serialized
  <2> QED BY <1>8, <2>1, <2>2 DEF AttemptSound
<1>10. a.now <= clock /\ submitted' \in 0..MaxAttempts
  BY <1>1, <1>4, <1>7, ClockType
<1> HIDE DEF old
<1> QED BY <1>4, <1>7, <1>8, <1>9, <1>10, OwnStep

\* Two attempts that have their advisory locks have no key in common, whether
\* or not two keys share an id.
LEMMA KeysApart ==
  ASSUME ThrottleInv, NEW v \in Workers, NEW w \in Workers, v # w,
         attempt[v].pc \in Serialized, attempt[w].pc \in Serialized,
         NEW i \in 1..2, NEW j \in 1..2
  PROVE  attempt[v].keys[i] # attempt[w].keys[j]
<1>1. LockIds(attempt[v]) \cap LockIds(attempt[w]) = {}
  <2>1. /\ LockIds(attempt[v]) \subseteq attempt[v].locks
        /\ LockIds(attempt[w]) \subseteq attempt[w].locks
    BY AttemptType DEF AttemptSound, Holding
  <2> QED BY <2>1 DEF ThrottleInv, AttemptsSound, Apart
<1>2. /\ LockId[attempt[v].keys[i]] \in LockIds(attempt[v])
      /\ LockId[attempt[w].keys[j]] \in LockIds(attempt[w])
  BY DEF LockIds
<1> QED BY <1>1, <1>2

\* What a commit does to one row.
LEMMA CommittedRow ==
  ASSUME ThrottleInv, NEW w \in Workers, Commit(w), NEW k \in Keys
  PROVE  /\ buckets'[k] \in Bucket \cup {NoBucket}
         /\ k \notin DOMAIN attempt[w].writes => buckets'[k] = buckets[k]
         /\ k \in DOMAIN attempt[w].writes =>
              WriteSound(attempt[w], k, buckets[k], buckets'[k])
<1>1. buckets'[k] = Seen(w, k)
  BY DEF Commit
<1>2. Seen(w, k) \in Bucket \cup {NoBucket}
  BY SeenType
<1>3. ASSUME k \in DOMAIN attempt[w].writes
      PROVE  WriteSound(attempt[w], k, buckets[k], buckets'[k])
  BY <1>1, <1>3, AttemptType DEF AttemptSound, WritesSound, Seen
<1>4. k \notin DOMAIN attempt[w].writes => buckets'[k] = buckets[k]
  BY <1>1 DEF Seen
<1> QED BY <1>1, <1>2, <1>3, <1>4

\* A commit disturbs no other attempt: it changes no row that another one has
\* written, and none of its keys but to delete a stale row.
LEMMA CommitInv ==
  ASSUME ThrottleInv, NEW w \in Workers, Commit(w)
  PROVE  ThrottleInv'
<1>1. /\ attempt[w].pc = "commit" /\ attempt' = [attempt EXCEPT ![w] = Idle]
      /\ buckets' = [k \in Keys |-> Seen(w, k)]
      /\ UNCHANGED <<clock, submitted>>
  BY DEF Commit, End
<1>2. attempt \in [Workers -> AttemptState]
  BY DEF ThrottleInv, AttemptsSound
<1>3. /\ attempt' \in [Workers -> AttemptState] /\ attempt'[w] = Idle
      /\ \A v \in Workers \ {w} : attempt'[v] = attempt[v]
  <2> HIDE DEF AttemptState, Idle
  <2> QED BY <1>1, <1>2, IdleSound
<1>4. buckets' \in [Keys -> Bucket \cup {NoBucket}]
  BY <1>1, SeenType
<1>5. TypeOK'
  BY <1>1, <1>3, <1>4, IdleSound, ClockType DEF ThrottleInv, TypeOK
<1>6. BucketsSound'
  <2> SUFFICES ASSUME NEW k \in Keys
               PROVE  /\ buckets'[k].last <= clock
                      /\ buckets'[k].until <= buckets'[k].last + MaxDelay
    BY <1>1 DEF BucketsSound
  <2>1. CASE k \notin DOMAIN attempt[w].writes
    BY <2>1, CommittedRow DEF ThrottleInv, BucketsSound
  <2>2. CASE k \in DOMAIN attempt[w].writes
    <3>1. CASE Exists(buckets'[k])
      <4>1. /\ buckets'[k].last <= attempt[w].now
            /\ buckets'[k].until <= buckets'[k].last + MaxDelay
        BY <2>2, <3>1, CommittedRow DEF WriteSound
      <4>2. buckets'[k].last \in Nat /\ attempt[w].now \in 0..clock
            /\ clock \in Nat
        BY CommittedRow, RowTypes, AttemptType, ClockType
      <4> QED BY <4>1, <4>2
    <3>2. CASE ~Exists(buckets'[k])
      BY <3>2, CommittedRow, RowTypes, ClockType, ThrottleAssumption
    <3> QED BY <3>1, <3>2
  <2> QED BY <2>1, <2>2
<1>7. ASSUME NEW v \in Workers, v # w
      PROVE  AttemptSound(attempt[v], buckets')
  <2>1. Shaped(attempt[v]) /\ Holding(attempt[v])
    BY AttemptType DEF AttemptSound
  <2>2. Current(attempt[v], buckets')
    <3> SUFFICES ASSUME NEW i \in 1..2, attempt[v].pc \in Late
                 PROVE  LET k == attempt[v].keys[i]
                        IN /\ buckets'[k].last <= attempt[v].now
                           /\ attempt[v].pc \in {"credentials", "failure",
                                                 "success"} =>
                                buckets'[k].until <= attempt[v].now
      BY DEF Current, Late, Serialized
    <3> DEFINE k == attempt[v].keys[i]
    <3>1. k \in Keys /\ attempt[v].now \in Nat
      BY AttemptType, PairOfKeys
         DEF AttemptSound, Shaped, AttemptState, Late, Serialized
    <3>2. /\ buckets[k].last <= attempt[v].now
          /\ attempt[v].pc \in {"credentials", "failure", "success"} =>
               buckets[k].until <= attempt[v].now
      BY AttemptType DEF AttemptSound, Current
    <3>3. k \notin {attempt[w].keys[1], attempt[w].keys[2]}
      BY <1>1, <1>7, KeysApart DEF Late, Serialized
    <3> HIDE DEF k
    <3>4. CASE k \notin DOMAIN attempt[w].writes
      BY <3>1, <3>2, <3>4, CommittedRow DEF k
    <3>5. CASE k \in DOMAIN attempt[w].writes
      <4>1. ~Exists(buckets'[k])
        BY <3>1, <3>3, <3>5, CommittedRow DEF WriteSound
      <4>2. buckets'[k].last = 0 /\ buckets'[k].until = 0
        BY <4>1, <3>1, CommittedRow, RowTypes
      <4> QED BY <4>2, <3>1 DEF k
    <3> QED BY <3>4, <3>5
  <2>3. WritesSound(attempt[v], buckets')
    <3> SUFFICES ASSUME NEW k \in DOMAIN attempt[v].writes
                 PROVE  WriteSound(attempt[v], k, buckets'[k],
                                   attempt[v].writes[k])
      BY DEF WritesSound
    <3>1. k \in Keys
      BY AttemptType, RowsType DEF AttemptState
    <3>2. k \notin DOMAIN attempt[w].writes
      BY <1>7 DEF ThrottleInv, AttemptsSound, Apart
    <3>3. buckets'[k] = buckets[k]
      BY <3>1, <3>2, CommittedRow
    <3> QED BY <3>3, AttemptType DEF AttemptSound, WritesSound
  <2> QED BY <2>1, <2>2, <2>3 DEF AttemptSound
<1>8. \A v \in Workers : AttemptSound(attempt'[v], buckets')
  BY <1>3, <1>7, IdleSound
<1>9. \A u, v \in Workers : u # v => Apart(attempt'[u], attempt'[v])
  <2> SUFFICES ASSUME NEW u \in Workers, NEW v \in Workers, u # v
               PROVE  Apart(attempt'[u], attempt'[v])
    OBVIOUS
  <2>1. CASE u = w \/ v = w
    BY <2>1, <1>3, IdleSound DEF Apart
  <2>2. CASE u # w /\ v # w
    BY <2>2, <1>3 DEF ThrottleInv, AttemptsSound
  <2> QED BY <2>1, <2>2
<1> QED BY <1>3, <1>5, <1>6, <1>8, <1>9 DEF ThrottleInv, AttemptsSound

LEMMA TickInv ==
  ASSUME ThrottleInv, Tick
  PROVE  ThrottleInv'
<1>1. /\ clock' = clock + 1 /\ clock' \in 0..MaxTime /\ clock \in Nat
      /\ UNCHANGED <<buckets, attempt, submitted>>
  BY ClockType, ThrottleAssumption DEF Tick, ThrottleInv, TypeOK
<1>2. TypeOK'
  <2>1. \A w \in Workers : attempt[w].now \in 0..clock'
    BY <1>1, AttemptType
  <2> QED BY <1>1, <2>1 DEF ThrottleInv, TypeOK
<1>3. BucketsSound'
  <2>1. \A k \in Keys : buckets[k].last \in Nat
    BY ClockType, RowTypes
  <2> QED BY <1>1, <2>1 DEF ThrottleInv, BucketsSound
<1>4. AttemptsSound'
  BY <1>1 DEF ThrottleInv, AttemptsSound
<1> QED BY <1>2, <1>3, <1>4 DEF ThrottleInv

-----------------------------------------------------------------------------
(* The theorems                                                            *)

\* The invariant holds at first and every step keeps it.
LEMMA ThrottleInductive ==
  /\ Init => ThrottleInv
  /\ ThrottleInv /\ [Next]_vars => ThrottleInv'
<1>1. ASSUME Init
      PROVE  ThrottleInv
  <2>1. \A w \in Workers : attempt[w] = Idle
    BY <1>1 DEF Init
  <2>2. attempt \in [Workers -> AttemptState]
    <3> HIDE DEF AttemptState, Idle
    <3> QED BY <1>1, IdleSound DEF Init
  <2>3. AttemptsSound
    BY <2>1, <2>2, IdleSound DEF AttemptsSound, Apart
  <2>4. TypeOK
    BY <1>1, <2>1, IdleSound, ThrottleAssumption DEF Init, TypeOK
  <2>5. BucketsSound
    BY <1>1, ThrottleAssumption DEF Init, BucketsSound, NoBucket
  <2> QED BY <2>3, <2>4, <2>5 DEF ThrottleInv
<1>2. ThrottleInv /\ Next => ThrottleInv'
  BY SubmitInv, LockAdvisoryInv, SelectStaleInv, DeleteStaleInv, EvaluateInv,
     AuthenticateInv, RecordFailureInv, RecordSuccessInv, CommitInv, AbortInv,
     TickInv DEF Next, Step
<1>3. ASSUME ThrottleInv, UNCHANGED vars
      PROVE  ThrottleInv'
  BY <1>3 DEF vars, ThrottleInv, TypeOK, BucketsSound, AttemptsSound
<1> QED BY <1>1, <1>2, <1>3

\* Clock, rows and transactions are well formed.
THEOREM ThrottleTyped == Spec => []TypeOK
<1>1. ThrottleInv => TypeOK
  BY DEF ThrottleInv
<1> QED BY <1>1, ThrottleInductive, PTL DEF Spec

\* However attempts overlap, credentials are evaluated only for an unblocked
\* account and origin, one attempt at a time for each of them.
THEOREM ThrottleGuardsCredentials == Spec => []CredentialsOnlyWhenUnblocked
<1>1. ThrottleInv => CredentialsOnlyWhenUnblocked
  <2> SUFFICES ASSUME ThrottleInv, NEW w \in Workers,
                      attempt[w].pc = "credentials"
               PROVE  /\ \A i \in 1..2 :
                           buckets[attempt[w].keys[i]].until <= clock
                      /\ \A v \in Workers \ {w} :
                           attempt[v].pc \in {"credentials", "failure",
                                              "success", "commit"} =>
                             \A i, j \in 1..2 :
                               attempt[w].keys[i] # attempt[v].keys[j]
    BY DEF CredentialsOnlyWhenUnblocked
  <2>1. ASSUME NEW i \in 1..2
        PROVE  buckets[attempt[w].keys[i]].until <= clock
    <3>1. buckets[attempt[w].keys[i]].until <= attempt[w].now
      BY AttemptType DEF AttemptSound, Current
    <3>2. attempt[w].keys[i] \in Keys
      BY AttemptType, PairOfKeys DEF AttemptSound, Shaped
    <3>3. /\ buckets[attempt[w].keys[i]].until \in Nat
          /\ attempt[w].now \in 0..clock /\ clock \in Nat
      BY <3>2, AttemptType, ClockType, RowTypes
    <3> QED BY <3>1, <3>3
  <2>2. ASSUME NEW v \in Workers \ {w},
               attempt[v].pc \in {"credentials", "failure", "success", "commit"},
               NEW i \in 1..2, NEW j \in 1..2
        PROVE  attempt[w].keys[i] # attempt[v].keys[j]
    BY <2>2, KeysApart DEF Serialized
  <2> QED BY <2>1, <2>2
<1> QED BY <1>1, ThrottleInductive, PTL DEF Spec

\* Only a commit changes the rows.
LEMMA BucketWrites ==
  ASSUME Next, buckets' # buckets
  PROVE  \E w \in Workers : Commit(w)
  BY DEF Next, Step, Submit, LockAdvisory, SelectStale, DeleteStale, Evaluate,
         Authenticate, RecordFailure, RecordSuccess, Abort, Tick

\* A failure is forgotten only as it leaves the window or its account logs in.
THEOREM ThrottleRemembers == Spec => BucketsVanishOnlyWhenStale
<1> DEFINE A == \A k \in Keys : Exists(buckets[k]) /\ ~Exists(buckets'[k]) =>
                  \/ buckets[k].last <= clock - Window
                  \/ \E w \in Workers : /\ attempt[w].pc = "commit"
                                        /\ attempt'[w].pc = "idle"
                                        /\ k[1] = "ACCOUNT" /\ k = attempt[w].keys[1]
<1>1. ThrottleInv /\ [Next]_vars => [A]_vars
  <2> SUFFICES ASSUME ThrottleInv, Next, NEW k \in Keys,
                      Exists(buckets[k]), ~Exists(buckets'[k])
               PROVE  \/ buckets[k].last <= clock - Window
                      \/ \E w \in Workers : /\ attempt[w].pc = "commit"
                                            /\ attempt'[w].pc = "idle"
                                            /\ k[1] = "ACCOUNT" /\ k = attempt[w].keys[1]
    OBVIOUS
  <2>1. PICK w \in Workers : Commit(w)
    BY BucketWrites
  <2>2. k \in DOMAIN attempt[w].writes
    BY <2>1, CommittedRow
  <2>3. \/ buckets[k].last <= attempt[w].now - Window
        \/ k = attempt[w].keys[1]
    BY <2>1, <2>2, CommittedRow DEF WriteSound
  <2>4. CASE buckets[k].last <= attempt[w].now - Window
    <3>1. /\ buckets[k].last \in Nat /\ attempt[w].now \in 0..clock
          /\ clock \in Nat
      BY AttemptType, ClockType, RowTypes
    <3> QED BY <2>4, <3>1, ThrottleAssumption
  <2>5. CASE k = attempt[w].keys[1]
    <3>1. attempt[w].pc = "commit" /\ attempt' = [attempt EXCEPT ![w] = Idle]
      BY <2>1 DEF Commit, End
    <3>2. attempt'[w].pc = "idle"
      BY <3>1, IdleSound DEF ThrottleInv, AttemptsSound
    <3>3. k[1] = "ACCOUNT"
      BY <2>5, <3>1, AttemptType, PairOfKeys DEF AttemptSound, Shaped
    <3> QED BY <2>5, <3>1, <3>2, <3>3
  <2> QED BY <2>3, <2>4, <2>5
<1> QED BY <1>1, ThrottleInductive, PTL DEF Spec, BucketsVanishOnlyWhenStale

\* No commit shortens a block, whichever attempt read the clock first.
THEOREM ThrottleKeepsBlocks == Spec => BlocksNeverShorten
<1> DEFINE A == \A k \in Keys : Exists(buckets[k]) /\ Exists(buckets'[k]) =>
                  /\ buckets'[k].last >= buckets[k].last
                  /\ buckets'[k].until >= buckets[k].until
<1>1. ThrottleInv /\ [Next]_vars => [A]_vars
  <2> SUFFICES ASSUME ThrottleInv, Next, NEW k \in Keys,
                      Exists(buckets[k]), Exists(buckets'[k])
               PROVE  /\ buckets'[k].last >= buckets[k].last
                      /\ buckets'[k].until >= buckets[k].until
    OBVIOUS
  <2>1. buckets[k].last \in Nat /\ buckets[k].until \in Nat
    BY ClockType, RowTypes
  <2>2. CASE buckets' = buckets
    BY <2>1, <2>2
  <2>3. CASE buckets' # buckets
    <3>1. PICK w \in Workers : Commit(w)
      BY <2>3, BucketWrites
    <3>2. CASE k \in DOMAIN attempt[w].writes
      BY <3>1, <3>2, <2>1, CommittedRow, RowTypes DEF WriteSound
    <3>3. CASE k \notin DOMAIN attempt[w].writes
      BY <3>1, <3>3, <2>1, CommittedRow
    <3> QED BY <3>2, <3>3
  <2> QED BY <2>2, <2>3
<1> QED BY <1>1, ThrottleInductive, PTL DEF Spec, BlocksNeverShorten

=============================================================================
