----------------------------- MODULE RoleChange -----------------------------
(***************************************************************************)
(* accounts/services/roles.py: assigning and revoking the content          *)
(* administrator role, as the transactions that run concurrently, next to  *)
(* the account form of the admin site (accounts/admin.py) and to seed_demo *)
(* (ui/management/commands), which grants the role past the service.       *)
(*                                                                         *)
(* A call locks the rows of its actor and of its target in primary key     *)
(* order, decides on what it then reads, writes the membership and one     *)
(* RoleChangeLog row, and commits. Accounts are their primary keys.        *)
(***************************************************************************)
EXTENDS Integers, Sequences, FiniteSets

CONSTANTS
  Accounts,   \* primary keys of Account
  NoTarget,   \* a reference that is no UUID, or the UUID of no account
  Workers,    \* server processes
  Founders,   \* the accounts that createsuperuser made
  DemoAdmin,  \* the account with the email of the demonstration administrator
  MaxCalls,   \* bound on the calls of change_content_role
  MaxEdits    \* bound on the uses of the account form

ASSUME RoleAssumption ==
  /\ Accounts \subseteq Int /\ NoTarget \notin Accounts
  /\ Founders \subseteq Accounts /\ DemoAdmin \in Accounts
  /\ MaxCalls \in Nat /\ MaxEdits \in Nat

VARIABLES
  accounts,   \* the committed Account rows and their membership of the group
  log,        \* the committed rows of RoleChangeLog
  call,       \* the transaction of each worker
  calls,      \* calls made
  edits       \* uses of the account form

vars == <<accounts, log, call, calls, edits>>

Action == {"ASSIGN", "REVOKE"}

Account ==
  [present: BOOLEAN, active: BOOLEAN, superuser: BOOLEAN, holder: BOOLEAN]

LogRow ==
  [actor: Accounts, target: Accounts \cup {NoTarget}, action: Action,
   result: {"SUCCESS", "DENIED", "TARGET_NOT_FOUND"}, changed: BOOLEAN]

\* `todo` holds the rows still to lock, `locked` those it has, `row` the log
\* row that the transaction wrote.
Idle == [pc |-> "idle", todo |-> {}, locked |-> {}]

Running(w) == call[w].pc # "idle"

\* Everybody is active; nobody has the role.
Init ==
  /\ accounts = [a \in Accounts |-> [present |-> TRUE, active |-> TRUE,
                                     superuser |-> a \in Founders,
                                     holder |-> FALSE]]
  /\ log = <<>>
  /\ call = [w \in Workers |-> Idle]
  /\ calls = 0 /\ edits = 0

RowFree(a) == \A w \in Workers : a \notin call[w].locked

Administers(a) ==
  accounts[a].present /\ accounts[a].active /\ accounts[a].superuser

-----------------------------------------------------------------------------
(* change_content_role *)

\* Mutation: only the row that is written is locked.
RowsTargetOnly(actor, target) == {target} \cap Accounts

\* Mutation: only the row whose permissions are read is locked.
RowsActorOnly(actor, target) == {actor}

\* The rows of the SELECT FOR UPDATE.
Rows(actor, target) == {actor, target} \cap Accounts

Call(w, actor, target, action) ==
  /\ ~Running(w) /\ calls < MaxCalls
  /\ accounts[actor].present
  /\ call' = [call EXCEPT ![w] =
       [pc |-> "lock", todo |-> Rows(actor, target), locked |-> {},
        actor |-> actor, target |-> target, action |-> action]]
  /\ calls' = calls + 1
  /\ UNCHANGED <<accounts, log, edits>>

\* Mutation: the actor's row first.
NextRowActorFirst(w) ==
  IF call[w].actor \in call[w].todo THEN call[w].actor
  ELSE CHOOSE a \in call[w].todo : TRUE

\* ORDER BY pk.
NextRow(w) == CHOOSE a \in call[w].todo : \A b \in call[w].todo : a <= b

\* A row that was deleted meanwhile is skipped.
LockRow(w) ==
  /\ call[w].pc = "lock" /\ call[w].todo # {}
  /\ LET a == NextRow(w)
     IN /\ RowFree(a)
        /\ call' = [call EXCEPT
             ![w].todo = @ \ {a},
             ![w].locked = IF accounts[a].present THEN @ \cup {a} ELSE @]
  /\ UNCHANGED <<accounts, log, calls, edits>>

\* Mutation: a reference without an account is refused like any other.
ResultDeniedOnly(actor, target) ==
  IF target \in Accounts /\ Administers(actor) /\ actor # target
  THEN "SUCCESS" ELSE "DENIED"

Result(actor, target) ==
  IF target \notin Accounts \/ ~accounts[target].present
  THEN "TARGET_NOT_FOUND"
  ELSE IF Administers(actor) /\ actor # target THEN "SUCCESS" ELSE "DENIED"

\* The log row of a call that is decided now. The target is left out when there
\* is none; the role changes only if it is not already as requested.
Recorded(c) ==
  LET result == Result(c.actor, c.target)
  IN [actor |-> c.actor, action |-> c.action, result |-> result,
      target |-> IF result = "TARGET_NOT_FOUND" THEN NoTarget ELSE c.target,
      changed |-> /\ result = "SUCCESS"
                  /\ accounts[c.target].holder # (c.action = "ASSIGN")]

\* Everything after the locks. Without its actor's row the call fails.
Decide(w) ==
  /\ call[w].pc = "lock" /\ call[w].todo = {}
  /\ call' = [call EXCEPT ![w] =
       IF accounts[call[w].actor].present
       THEN [pc |-> "commit", todo |-> {}, locked |-> call[w].locked,
             row |-> Recorded(call[w])]
       ELSE Idle]
  /\ UNCHANGED <<accounts, log, calls, edits>>

Commit(w) ==
  /\ call[w].pc = "commit"
  /\ LET row == call[w].row
     IN /\ log' = Append(log, row)
        /\ accounts' = IF row.changed
                       THEN [accounts EXCEPT
                              ![row.target].holder = row.action = "ASSIGN"]
                       ELSE accounts
  /\ call' = [call EXCEPT ![w] = Idle]
  /\ UNCHANGED <<calls, edits>>

\* The worker dies: nothing was written.
Abort(w) ==
  /\ Running(w)
  /\ call' = [call EXCEPT ![w] = Idle]
  /\ UNCHANGED <<accounts, log, calls, edits>>

-----------------------------------------------------------------------------
(* The account form of the admin site *)

\* It saves the flags, and has no field for the groups.
SaveAccount(a, active, superuser) ==
  /\ accounts[a].present /\ RowFree(a) /\ edits < MaxEdits
  /\ accounts' = [accounts EXCEPT ![a].active = active,
                                  ![a].superuser = superuser]
  /\ edits' = edits + 1
  /\ UNCHANGED <<log, call, calls>>

\* A row of the log protects the accounts it names from deletion, an
\* uncommitted one too: its transaction holds their rows.
DeleteAccount(a) ==
  /\ accounts[a].present /\ RowFree(a) /\ edits < MaxEdits
  /\ \A i \in DOMAIN log : a # log[i].actor /\ a # log[i].target
  /\ accounts' = [accounts EXCEPT ![a] =
       [present |-> FALSE, active |-> FALSE, superuser |-> FALSE,
        holder |-> FALSE]]
  /\ edits' = edits + 1
  /\ UNCHANGED <<log, call, calls>>

-----------------------------------------------------------------------------
(* The demonstration data *)

\* seed_demo adds its administrator to the group, with no row in the log and
\* whoever revoked the role before. The foreign key of the membership makes the
\* commit wait for whoever has the account locked. The account exists, it had
\* registered or an earlier seed made it.
SeedRole ==
  /\ accounts[DemoAdmin].present /\ RowFree(DemoAdmin)
  /\ accounts' = [accounts EXCEPT ![DemoAdmin].holder = TRUE]
  /\ UNCHANGED <<log, call, calls, edits>>

-----------------------------------------------------------------------------

Step(w) == LockRow(w) \/ Decide(w) \/ Commit(w)

Next ==
  \/ \E w \in Workers :
       \/ \E actor \in Accounts, target \in Accounts \cup {NoTarget},
             action \in Action : Call(w, actor, target, action)
       \/ Step(w)
       \/ Abort(w)
  \/ \E a \in Accounts :
       \/ \E active, superuser \in BOOLEAN : SaveAccount(a, active, superuser)
       \/ DeleteAccount(a)
  \/ SeedRole

\* A worker goes on with its request. The calls are never in a deadlock with
\* each other; one that assigns the role while a seed inserts the same
\* membership may be with the seed, and PostgreSQL cancels one of the two: the
\* call ends by Abort or goes on as if the seed had not run.
Fairness == \A w \in Workers : WF_vars(Step(w))

Spec == Init /\ [][Next]_vars /\ Fairness

-----------------------------------------------------------------------------
(* Properties *)

\* The rows are accounts and logs, and every log row satisfies the four check
\* constraints of RoleChangeLog, which would otherwise make the call fail.
TypeOK ==
  /\ accounts \in [Accounts -> Account]
  /\ log \in Seq(LogRow)
  /\ \A i \in DOMAIN log :
       /\ log[i].result = "TARGET_NOT_FOUND" <=> log[i].target = NoTarget
       /\ log[i].changed => log[i].result = "SUCCESS"
  /\ calls \in 0..MaxCalls /\ edits \in 0..MaxEdits

\* The rows of the log that tell a change of one account.
ChangesOf(a) == {i \in DOMAIN log : log[i].changed /\ log[i].target = a}

\* The last change told before row n assigned the role.
HeldBefore(a, n) ==
  \E i \in ChangesOf(a) : /\ i < n /\ log[i].action = "ASSIGN"
                          /\ \A j \in ChangesOf(a) : j < n => j <= i

\* The log is the history of the role, whatever calls ran concurrently. No
\* assignment is told twice in a row, and an account whose last change was an
\* assignment holds the role. The changes start with an assignment and
\* alternate, and a holder was assigned the role, unless seed_demo gave it: it
\* leaves no trace, so of its account the log tells the assignments only.
LogTellsTheRole ==
  \A a \in Accounts :
    /\ \A i \in ChangesOf(a) : log[i].action = "ASSIGN" => ~HeldBefore(a, i)
    /\ HeldBefore(a, Len(log) + 1) => accounts[a].holder
    /\ a # DemoAdmin =>
         /\ \A i \in ChangesOf(a) : ~HeldBefore(a, i) => log[i].action = "ASSIGN"
         /\ accounts[a].holder => HeldBefore(a, Len(log) + 1)

\* When a call commits its actor is what the decision took it for: it succeeds
\* exactly for an administrator of the platform other than the target, even if
\* the actor was being demoted, deactivated or deleted at the same time.
AuthorityIsCurrent ==
  [][Len(log') > Len(log) =>
       LET row == log'[Len(log')]
       IN /\ accounts[row.actor].present
          /\ row.target # NoTarget =>
               /\ accounts[row.target].present
               /\ row.result = "SUCCESS" <=>
                    Administers(row.actor) /\ row.actor # row.target]_vars

\* Every call ends. The transactions never wait for each other in a circle,
\* though two administrators may act on each other's account.
CallsEnd == \A w \in Workers : Running(w) ~> ~Running(w)
=============================================================================
