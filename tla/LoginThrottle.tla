--------------------------- MODULE LoginThrottle ---------------------------
(***************************************************************************)
(* Login attempts of accounts/forms.py (ThrottledAuthenticationForm.clean) *)
(* and accounts/services/throttling.py, as the PostgreSQL transactions     *)
(* that run them concurrently.                                             *)
(*                                                                         *)
(* An attempt is one transaction: it takes the advisory locks of its       *)
(* account and of its origin, prunes buckets whose last failure left the   *)
(* observation window (its own or anybody's), refuses if either bucket     *)
(* blocks, evaluates the credentials, and records the outcome. Its writes  *)
(* hold row locks and are seen by others when it commits. Time passes      *)
(* between any two steps.                                                  *)
(***************************************************************************)
EXTENDS Integers, FiniteSets, Sequences

CONSTANTS
  Emails, Origins,
  Workers,      \* server processes
  LockId,       \* the advisory lock of each bucket key
  MaxDelay,     \* MAX_DELAY_SECONDS
  Window,       \* OBSERVATION_WINDOW
  Batch,        \* PRUNE_BATCH_SIZE
  MaxTime,      \* bound on the clock
  MaxAttempts   \* bound on the attempts submitted

Keys == ({"ACCOUNT"} \X Emails) \cup ({"ORIGIN"} \X Origins)

\* Every delay ends inside the window, and digests have a length.
ASSUME ThrottleAssumption ==
  /\ IsFiniteSet(Emails) /\ IsFiniteSet(Origins)
  /\ LockId \in [Keys -> Int]
  /\ MaxDelay \in Nat \ {0} /\ Window \in Nat /\ MaxDelay <= Window
  /\ Batch \in Nat \ {0}
  /\ MaxTime \in Nat /\ MaxAttempts \in Nat

VARIABLES
  clock,
  buckets,    \* the committed rows of LoginThrottleBucket
  attempt,    \* the transaction of each worker
  submitted

vars == <<clock, buckets, attempt, submitted>>

NoBucket == [count |-> 0, last |-> 0, until |-> 0]

Bucket == [count : Nat \ {0}, last : Nat, until : Nat]

Exists(bucket) == bucket.count > 0

\* `prune` lists the stale rows still to delete, `todo` the keys whose outcome
\* is still to record; `writes` maps the rows the transaction has locked and
\* written to their new value (NoBucket for a deleted row).
Idle ==
  [pc |-> "idle", keys |-> <<>>, locks |-> {}, now |-> 0, prune |-> <<>>,
   todo |-> <<>>, writes |-> <<>>]

Init ==
  /\ clock = 0
  /\ buckets = [k \in Keys |-> NoBucket]
  /\ attempt = [w \in Workers |-> Idle]
  /\ submitted = 0

Running(w) == attempt[w].pc # "idle"

-----------------------------------------------------------------------------
(* Locks and visibility *)

\* The ids still to lock, taken in ascending order.
Wanted(w) == {LockId[k] : k \in {attempt[w].keys[i] : i \in 1..2}}
               \ attempt[w].locks

Least(S) == CHOOSE i \in S : \A j \in S : i <= j

\* Mutation: the advisory locks are not taken, as on another database.
AdvisoryAlwaysFree(w, id) == TRUE

AdvisoryFree(w, id) == \A v \in Workers \ {w} : id \notin attempt[v].locks

RowFree(w, k) == \A v \in Workers \ {w} : k \notin DOMAIN attempt[v].writes

\* The row as the transaction sees it: committed, or its own write.
Seen(w, k) ==
  IF k \in DOMAIN attempt[w].writes THEN attempt[w].writes[k] ELSE buckets[k]

Written(w, k, bucket) ==
  [j \in DOMAIN attempt[w].writes \cup {k} |->
     IF j = k THEN bucket ELSE attempt[w].writes[j]]

-----------------------------------------------------------------------------
(* The steps of an attempt *)

\* The form is submitted with an email and a password.
Submit(w, email, origin) ==
  /\ ~Running(w) /\ submitted < MaxAttempts
  /\ attempt' = [attempt EXCEPT ![w] =
       [Idle EXCEPT !.pc = "lock",
                    !.keys = <<<<"ACCOUNT", email>>, <<"ORIGIN", origin>>>>]]
  /\ submitted' = submitted + 1
  /\ UNCHANGED <<clock, buckets>>

\* serialized_login_attempt: pg_advisory_xact_lock, held until the end.
LockAdvisory(w) ==
  /\ attempt[w].pc = "lock"
  /\ LET id == Least(Wanted(w))
     IN /\ AdvisoryFree(w, id)
        /\ attempt' = [attempt EXCEPT
             ![w].locks = @ \cup {id},
             ![w].pc = IF Wanted(w) = {id} THEN "select" ELSE "lock"]
  /\ UNCHANGED <<clock, buckets, submitted>>

Stale(bucket, now) == Exists(bucket) /\ bucket.last <= now - Window

\* The first query of _prune_expired_buckets: the oldest Batch stale rows. The
\* DELETE that follows visits them in an order of its own.
SelectStale(w) ==
  /\ attempt[w].pc = "select"
  /\ LET stale == {k \in Keys : Stale(buckets[k], clock)}
     IN \E S \in SUBSET stale :
          /\ Cardinality(S) = IF Cardinality(stale) < Batch
                              THEN Cardinality(stale) ELSE Batch
          /\ \A j \in S, k \in stale \ S : buckets[j].last <= buckets[k].last
          /\ \E order \in [1..Cardinality(S) -> S] :
               /\ {order[i] : i \in DOMAIN order} = S
               /\ attempt' = [attempt EXCEPT ![w].prune = order,
                                             ![w].now = clock,
                                             ![w].pc = "prune"]
  /\ UNCHANGED <<clock, buckets, submitted>>

\* Mutation: the DELETE goes by primary key alone.
DeletedAnyway(bucket, now) == Exists(bucket)

\* The DELETE repeats the condition on the row as it is once it is locked.
Deleted(bucket, now) == Stale(bucket, now)

DeleteStale(w) ==
  /\ attempt[w].pc = "prune" /\ attempt[w].prune # <<>>
  /\ LET k == Head(attempt[w].prune)
     IN /\ RowFree(w, k)
        /\ attempt' = [attempt EXCEPT
             ![w].prune = Tail(@),
             ![w].writes = IF Deleted(buckets[k], attempt[w].now)
                           THEN Written(w, k, NoBucket) ELSE @]
  /\ UNCHANGED <<clock, buckets, submitted>>

\* Mutation: the account alone is looked up.
BlockedByAccount(w) == Seen(w, attempt[w].keys[1]).until > attempt[w].now

\* Either bucket blocks the attempt.
Blocked(w) ==
  \E i \in 1..2 : Seen(w, attempt[w].keys[i]).until > attempt[w].now

\* evaluate_login_throttle, after its prune.
Evaluate(w) ==
  /\ attempt[w].pc = "prune" /\ attempt[w].prune = <<>>
  /\ attempt' = [attempt EXCEPT
       ![w].pc = IF Blocked(w) THEN "commit" ELSE "credentials"]
  /\ UNCHANGED <<clock, buckets, submitted>>

\* record_login_success clears the account scope only.
Cleared(keys) == <<keys[1]>>

\* authenticate and confirm_login_allowed, with any answer. Recording a failure
\* takes a new reading of the time.
Authenticate(w) ==
  /\ attempt[w].pc = "credentials"
  /\ \/ attempt' = [attempt EXCEPT ![w].pc = "failure", ![w].now = clock,
                                   ![w].todo = attempt[w].keys]
     \/ attempt' = [attempt EXCEPT ![w].pc = "success",
                                   ![w].todo = Cleared(attempt[w].keys)]
  /\ UNCHANGED <<clock, buckets, submitted>>

\* 2 ** n
PowerOfTwo[n \in Nat] == IF n = 0 THEN 1 ELSE 2 * PowerOfTwo[n - 1]

Min2(i, j) == IF i < j THEN i ELSE j

\* Mutation: the first failure counts zero.
FailedFromZero(bucket, now) ==
  LET count == IF Exists(bucket) /\ now - bucket.last < Window
               THEN bucket.count + 1 ELSE 0
  IN [count |-> count, last |-> now, until |-> now + Min2(PowerOfTwo[count], MaxDelay)]

\* The bucket after a failure: counted on while the window lasts.
Failed(bucket, now) ==
  LET count == IF Exists(bucket) /\ now - bucket.last < Window
               THEN bucket.count + 1 ELSE 1
  IN [count |-> count, last |-> now,
      until |-> now + Min2(PowerOfTwo[count - 1], MaxDelay)]

After(w) == IF Len(attempt[w].todo) = 1 THEN "commit" ELSE attempt[w].pc

\* record_login_failure, one scope after the other: _create_or_lock_bucket and
\* the save. An insert waits for a transaction that writes the same key.
RecordFailure(w) ==
  /\ attempt[w].pc = "failure"
  /\ LET k == Head(attempt[w].todo)
     IN /\ RowFree(w, k)
        /\ attempt' = [attempt EXCEPT
             ![w].writes = Written(w, k, Failed(Seen(w, k), attempt[w].now)),
             ![w].todo = Tail(@),
             ![w].pc = After(w)]
  /\ UNCHANGED <<clock, buckets, submitted>>

RecordSuccess(w) ==
  /\ attempt[w].pc = "success"
  /\ LET k == Head(attempt[w].todo)
     IN /\ RowFree(w, k)
        /\ attempt' = [attempt EXCEPT
             ![w].writes = IF Exists(Seen(w, k))
                           THEN Written(w, k, NoBucket) ELSE @,
             ![w].todo = Tail(@),
             ![w].pc = After(w)]
  /\ UNCHANGED <<clock, buckets, submitted>>

\* Mutation: session locks, which outlive the transaction.
EndHoldingLocks(w) ==
  attempt' = [attempt EXCEPT ![w] = [Idle EXCEPT !.locks = attempt[w].locks]]

End(w) == attempt' = [attempt EXCEPT ![w] = Idle]

Commit(w) ==
  /\ attempt[w].pc = "commit"
  /\ buckets' = [k \in Keys |-> Seen(w, k)]
  /\ End(w)
  /\ UNCHANGED <<clock, submitted>>

\* The worker dies or the connection is lost: nothing was written.
Abort(w) ==
  /\ Running(w)
  /\ End(w)
  /\ UNCHANGED <<clock, buckets, submitted>>

Tick == clock < MaxTime /\ clock' = clock + 1
          /\ UNCHANGED <<buckets, attempt, submitted>>

-----------------------------------------------------------------------------
(* PostgreSQL cancels a transaction of a set that waits in a circle.        *)

WaitsFor(w, v) ==
  /\ v # w
  /\ \/ /\ attempt[w].pc = "lock"
        /\ Least(Wanted(w)) \in attempt[v].locks
     \/ /\ attempt[w].pc = "prune" /\ attempt[w].prune # <<>>
        /\ Head(attempt[w].prune) \in DOMAIN attempt[v].writes
     \/ /\ attempt[w].pc \in {"failure", "success"}
        /\ Head(attempt[w].todo) \in DOMAIN attempt[v].writes

Deadlocked(w) ==
  \E S \in SUBSET Workers :
    w \in S /\ \A u \in S : \E v \in S : WaitsFor(u, v)

Step(w) ==
  \/ LockAdvisory(w)
  \/ SelectStale(w)
  \/ DeleteStale(w)
  \/ Evaluate(w)
  \/ Authenticate(w)
  \/ RecordFailure(w)
  \/ RecordSuccess(w)
  \/ Commit(w)

Next ==
  \/ \E w \in Workers :
       \/ \E email \in Emails, origin \in Origins : Submit(w, email, origin)
       \/ Step(w)
       \/ Abort(w)
  \/ Tick

\* A worker goes on with its request, and the deadlock detector runs. Nothing
\* makes users submit forms, workers die or time pass.
Fairness ==
  \A w \in Workers :
    /\ WF_vars(Step(w))
    /\ WF_vars(Deadlocked(w) /\ Abort(w))

Spec == Init /\ [][Next]_vars /\ Fairness

-----------------------------------------------------------------------------
(* Properties *)

\* The tables and transactions are well formed; no bucket counts zero failures.
TypeOK ==
  /\ clock \in 0..MaxTime
  /\ buckets \in [Keys -> Bucket \cup {NoBucket}]
  /\ \A w \in Workers :
       /\ attempt[w].pc \in {"idle", "lock", "select", "prune", "credentials",
                             "failure", "success", "commit"}
       /\ attempt[w].now \in 0..clock
       /\ DOMAIN attempt[w].writes \subseteq Keys
  /\ submitted \in 0..MaxAttempts

\* Credentials are evaluated only while neither the account nor the origin is
\* blocked, even if other attempts on them fail in the meantime: two attempts
\* that share a scope never evaluate credentials at the same time.
CredentialsOnlyWhenUnblocked ==
  \A w \in Workers : attempt[w].pc = "credentials" =>
    /\ \A i \in 1..2 : buckets[attempt[w].keys[i]].until <= clock
    /\ \A v \in Workers \ {w} :
         attempt[v].pc \in {"credentials", "failure", "success", "commit"} =>
           \A i, j \in 1..2 : attempt[w].keys[i] # attempt[v].keys[j]

\* A bucket disappears only because its last failure left the window, or
\* because its own account logged in: the prune of an unrelated attempt never
\* forgets a failure that was recorded meanwhile, and an origin keeps its
\* history when one of its accounts succeeds.
BucketsVanishOnlyWhenStale ==
  [][\A k \in Keys : Exists(buckets[k]) /\ ~Exists(buckets'[k]) =>
       \/ buckets[k].last <= clock - Window
       \/ \E w \in Workers : /\ attempt[w].pc = "commit"
                             /\ attempt'[w].pc = "idle"
                             /\ k[1] = "ACCOUNT" /\ k = attempt[w].keys[1]
    ]_vars

\* No failure shortens a block or moves the last failure back in time, whatever
\* the order in which concurrent attempts read the clock and commit.
BlocksNeverShorten ==
  [][\A k \in Keys : Exists(buckets[k]) /\ Exists(buckets'[k]) =>
       /\ buckets'[k].last >= buckets[k].last
       /\ buckets'[k].until >= buckets[k].until]_vars

\* Every attempt ends, with its transaction committed or rolled back.
AttemptsEnd == \A w \in Workers : Running(w) ~> ~Running(w)
=============================================================================
