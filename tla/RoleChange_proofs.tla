-------------------------- MODULE RoleChange_proofs --------------------------
(***************************************************************************)
(* Theorems about RoleChange: for every set of accounts and workers and    *)
(* any number of calls, edits and seeds, the log tells who holds the role, *)
(* as far as it can of the account that seed_demo grants it to, and a call *)
(* commits on the authority its actor has at that moment. Both rest on the *)
(* row locks of change_content_role.                                       *)
(***************************************************************************)
EXTENDS RoleChange, TLAPS

-----------------------------------------------------------------------------
(* The inductive invariant                                                 *)

CallState ==
  {Idle}
  \cup [pc: {"lock"}, todo: SUBSET Accounts, locked: SUBSET Accounts,
        actor: Accounts, target: Accounts \cup {NoTarget}, action: Action]
  \cup [pc: {"commit"}, todo: {{}}, locked: SUBSET Accounts, row: LogRow]

CallsTyped == call \in [Workers -> CallState]

\* No row is locked twice.
LocksExclude ==
  \A v, w \in Workers : v # w => call[v].locked \cap call[w].locked = {}

\* A call seeks the rows of its actor and its target. One that it came past
\* without a lock was deleted, and stays so.
Sought(table, c) ==
  /\ c.todo \subseteq Rows(c.actor, c.target)
  /\ \A a \in Rows(c.actor, c.target) :
       a \in c.todo \cup c.locked \/ ~table[a].present

RowsSought ==
  \A w \in Workers : call[w].pc = "lock" => Sought(accounts, call[w])

\* Row is what a call decides that reads table and holds the locks.
Decides(table, locked, row) ==
  /\ row.actor \in locked /\ table[row.actor].present
  /\ row.target = NoTarget <=> row.result = "TARGET_NOT_FOUND"
  /\ row.changed => row.target # NoTarget
  /\ row.target # NoTarget =>
       /\ row.target \in locked /\ table[row.target].present
       /\ row.result = "SUCCESS" <=>
            /\ table[row.actor].active /\ table[row.actor].superuser
            /\ row.actor # row.target
       /\ row.changed <=>
            /\ row.result = "SUCCESS"
            /\ table[row.target].holder # (row.action = "ASSIGN")

\* What a call decided is still what it would decide now, since it holds the
\* rows that it decided on.
RowsDecided ==
  \A w \in Workers :
    call[w].pc = "commit" => Decides(accounts, call[w].locked, call[w].row)

RoleInv ==
  /\ TypeOK /\ LogTellsTheRole
  /\ CallsTyped /\ LocksExclude /\ RowsSought /\ RowsDecided

-----------------------------------------------------------------------------
(* Lemmas about the calls                                                  *)

LEMMA LockShape ==
  ASSUME CallsTyped, NEW w \in Workers, call[w].pc = "lock"
  PROVE  call[w] \in
           [pc: {"lock"}, todo: SUBSET Accounts, locked: SUBSET Accounts,
            actor: Accounts, target: Accounts \cup {NoTarget}, action: Action]
  BY DEF CallsTyped, CallState, Idle

LEMMA CommitShape ==
  ASSUME CallsTyped, NEW w \in Workers, call[w].pc = "commit"
  PROVE  call[w] \in
           [pc: {"commit"}, todo: {{}}, locked: SUBSET Accounts, row: LogRow]
  BY DEF CallsTyped, CallState, Idle

LEMMA LockedAccounts ==
  ASSUME CallsTyped, NEW w \in Workers
  PROVE  call[w].locked \subseteq Accounts
  BY DEF CallsTyped, CallState, Idle

\* A step of one worker on its own call: what is left to show is that its new
\* call is well formed, shares no lock, and is true to the accounts.
LEMMA OwnStep ==
  ASSUME RoleInv, NEW w \in Workers, NEW c \in CallState,
         call' = [call EXCEPT ![w] = c],
         accounts' = accounts,
         \A v \in Workers \ {w} : call[v].locked \cap c.locked = {},
         c.pc = "lock" => Sought(accounts, c),
         c.pc = "commit" => Decides(accounts, c.locked, c.row)
  PROVE  CallsTyped' /\ LocksExclude' /\ RowsSought' /\ RowsDecided'
<1>1. call \in [Workers -> CallState]
  BY DEF RoleInv, CallsTyped
<1> HIDE DEF CallState
<1>2. /\ call' \in [Workers -> CallState] /\ call'[w] = c
      /\ \A v \in Workers \ {w} : call'[v] = call[v]
  BY <1>1
<1>3. CallsTyped'
  BY <1>2 DEF CallsTyped
<1>4. LocksExclude'
  BY <1>2 DEF RoleInv, LocksExclude
<1>5. RowsSought'
  <2> SUFFICES ASSUME NEW v \in Workers, call'[v].pc = "lock"
               PROVE  Sought(accounts, call'[v])
    BY DEF RowsSought
  <2>1. CASE v = w
    BY <2>1, <1>2
  <2>2. CASE v # w
    BY <2>2, <1>2 DEF RoleInv, RowsSought
  <2> QED BY <2>1, <2>2
<1>6. RowsDecided'
  <2> SUFFICES ASSUME NEW v \in Workers, call'[v].pc = "commit"
               PROVE  Decides(accounts, call'[v].locked, call'[v].row)
    BY DEF RowsDecided
  <2>1. CASE v = w
    BY <2>1, <1>2
  <2>2. CASE v # w
    BY <2>2, <1>2 DEF RoleInv, RowsDecided
  <2> QED BY <2>1, <2>2
<1> QED BY <1>3, <1>4, <1>5, <1>6

\* The same for a step that writes nothing.
LEMMA QuietStep ==
  ASSUME RoleInv, NEW w \in Workers, NEW c \in CallState,
         call' = [call EXCEPT ![w] = c],
         UNCHANGED <<accounts, log>>,
         calls' \in 0..MaxCalls, edits' \in 0..MaxEdits,
         \A v \in Workers \ {w} : call[v].locked \cap c.locked = {},
         c.pc = "lock" => Sought(accounts, c),
         c.pc = "commit" => Decides(accounts, c.locked, c.row)
  PROVE  RoleInv'
<1>1. CallsTyped' /\ LocksExclude' /\ RowsSought' /\ RowsDecided'
  BY OwnStep
<1>2. TypeOK' /\ LogTellsTheRole'
  BY DEF RoleInv, TypeOK, LogTellsTheRole, ChangesOf, HeldBefore
<1> QED BY <1>1, <1>2 DEF RoleInv

\* A call that ends without writing gives its rows back.
LEMMA EndInv ==
  ASSUME RoleInv, NEW w \in Workers, call' = [call EXCEPT ![w] = Idle],
         UNCHANGED <<accounts, log, calls, edits>>
  PROVE  RoleInv'
<1>1. Idle \in CallState /\ Idle.pc = "idle" /\ Idle.locked = {}
  BY DEF CallState, Idle
<1>2. calls' \in 0..MaxCalls /\ edits' \in 0..MaxEdits
  BY DEF RoleInv, TypeOK
<1> HIDE DEF Idle, CallState
<1> QED BY <1>1, <1>2, QuietStep

-----------------------------------------------------------------------------
(* One lemma per action                                                    *)

LEMMA CallInv ==
  ASSUME RoleInv, NEW w \in Workers, NEW actor \in Accounts,
         NEW target \in Accounts \cup {NoTarget}, NEW action \in Action,
         Call(w, actor, target, action)
  PROVE  RoleInv'
<1> DEFINE c == [pc |-> "lock", todo |-> Rows(actor, target), locked |-> {},
                 actor |-> actor, target |-> target, action |-> action]
<1>1. /\ c \in CallState /\ c.pc = "lock" /\ c.locked = {}
      /\ Sought(accounts, c)
  BY DEF CallState, Rows, Sought
<1>2. calls' \in 0..MaxCalls /\ edits' \in 0..MaxEdits
  BY RoleAssumption DEF Call, RoleInv, TypeOK
<1>3. call' = [call EXCEPT ![w] = c] /\ UNCHANGED <<accounts, log>>
  BY DEF Call
<1> HIDE DEF c, CallState
<1> QED BY <1>1, <1>2, <1>3, QuietStep

\* The next row was free, or is one of those that do not exist.
LEMMA LockRowInv ==
  ASSUME RoleInv, NEW w \in Workers, LockRow(w)
  PROVE  RoleInv'
<1> DEFINE a == NextRow(w)
           c == [call[w] EXCEPT
                   !.todo = @ \ {a},
                   !.locked = IF accounts[a].present THEN @ \cup {a} ELSE @]
<1>1. call[w].pc = "lock" /\ call[w].todo # {} /\ RowFree(a)
  BY DEF LockRow
<1>2. call[w] \in
        [pc: {"lock"}, todo: SUBSET Accounts, locked: SUBSET Accounts,
         actor: Accounts, target: Accounts \cup {NoTarget}, action: Action]
  BY <1>1, LockShape DEF RoleInv
<1>3. call' = [call EXCEPT ![w] = c] /\ UNCHANGED <<accounts, log, calls, edits>>
  BY DEF LockRow
<1> HIDE DEF a
<1>4. CASE a \in Accounts
  <2>1. /\ c \in CallState /\ c.pc = "lock"
        /\ c.actor = call[w].actor /\ c.target = call[w].target
        /\ c.todo = call[w].todo \ {a}
        /\ c.locked = IF accounts[a].present THEN call[w].locked \cup {a}
                                             ELSE call[w].locked
    BY <1>2, <1>4 DEF CallState
  <2> HIDE DEF c
  <2>2. \A v \in Workers \ {w} : call[v].locked \cap c.locked = {}
    BY <2>1, <1>1 DEF RowFree, RoleInv, LocksExclude
  <2>3. Sought(accounts, c)
    BY <2>1, <1>1 DEF RoleInv, RowsSought, Sought
  <2>4. calls' \in 0..MaxCalls /\ edits' \in 0..MaxEdits
    BY <1>3 DEF RoleInv, TypeOK
  <2> QED BY <2>1, <2>2, <2>3, <2>4, <1>3, QuietStep
<1>5. a \in Accounts
  <2>1. \E x, y \in Accounts : call[w].todo \subseteq {x, y}
    BY <1>1, <1>2 DEF RoleInv, RowsSought, Sought, Rows
  <2>2. \E b \in call[w].todo : \A d \in call[w].todo : b <= d
    BY <2>1, <1>1, RoleAssumption
  <2> QED BY <2>2, <1>2 DEF a, NextRow
<1> QED BY <1>4, <1>5

\* The decision is made on rows that the call holds.
LEMMA DecideInv ==
  ASSUME RoleInv, NEW w \in Workers, Decide(w)
  PROVE  RoleInv'
<1>1. call[w].pc = "lock" /\ call[w].todo = {}
      /\ UNCHANGED <<accounts, log, calls, edits>>
  BY DEF Decide
<1>2. call[w] \in
        [pc: {"lock"}, todo: SUBSET Accounts, locked: SUBSET Accounts,
         actor: Accounts, target: Accounts \cup {NoTarget}, action: Action]
  BY <1>1, LockShape DEF RoleInv
<1>3. CASE ~accounts[call[w].actor].present
  BY <1>1, <1>3, EndInv DEF Decide
<1>4. CASE accounts[call[w].actor].present
  <2> DEFINE row == Recorded(call[w])
             c == [pc |-> "commit", todo |-> {}, locked |-> call[w].locked,
                   row |-> row]
             result == Result(call[w].actor, call[w].target)
             known == /\ call[w].target \in Accounts
                      /\ accounts[call[w].target].present
             entitled == /\ Administers(call[w].actor)
                         /\ call[w].actor # call[w].target
  <2>1. call' = [call EXCEPT ![w] = c]
    BY <1>1, <1>4 DEF Decide
  <2>2. \A a \in {call[w].actor, call[w].target} \cap Accounts :
          accounts[a].present => a \in call[w].locked
    BY <1>1 DEF RoleInv, RowsSought, Sought, Rows
  <2>3. accounts \in [Accounts -> Account]
    BY DEF RoleInv, TypeOK
  <2>4. /\ known \in BOOLEAN /\ entitled \in BOOLEAN
        /\ result = IF ~known THEN "TARGET_NOT_FOUND"
                    ELSE IF entitled THEN "SUCCESS" ELSE "DENIED"
    BY <1>2, <2>3 DEF Result, Administers, Account
  <2>5. /\ row.actor = call[w].actor /\ row.action = call[w].action
        /\ row.result = result
        /\ row.target = IF result = "TARGET_NOT_FOUND" THEN NoTarget
                        ELSE call[w].target
        /\ row.changed = /\ result = "SUCCESS"
                         /\ accounts[call[w].target].holder
                              # (call[w].action = "ASSIGN")
    BY DEF Recorded
  <2>6. row \in LogRow
    <3>1. /\ result \in {"SUCCESS", "DENIED", "TARGET_NOT_FOUND"}
          /\ result # "TARGET_NOT_FOUND" => call[w].target \in Accounts
      BY <2>4
    <3> HIDE DEF result
    <3> QED BY <1>2, <3>1 DEF Recorded, LogRow, result
  <2>7. Decides(accounts, call[w].locked, row)
    <3>1. entitled <=> /\ accounts[call[w].actor].present
                       /\ accounts[call[w].actor].active
                       /\ accounts[call[w].actor].superuser
                       /\ call[w].actor # call[w].target
      BY DEF Administers
    <3>2. call[w].actor \in call[w].locked
      BY <2>2, <1>2, <1>4
    <3>3. known => call[w].target \in call[w].locked
      BY <2>2
    <3>4. known => call[w].target # NoTarget
      BY RoleAssumption
    <3> HIDE DEF row, result, entitled
    <3> QED BY <1>4, <2>4, <2>5, <3>1, <3>2, <3>3, <3>4 DEF Decides
  <2>8. c \in CallState /\ c.pc = "commit" /\ c.locked = call[w].locked
        /\ c.row = row
    BY <1>2, <2>6 DEF CallState
  <2>9. /\ \A v \in Workers \ {w} : call[v].locked \cap c.locked = {}
        /\ calls' \in 0..MaxCalls /\ edits' \in 0..MaxEdits
    BY <2>8, <1>1 DEF RoleInv, LocksExclude, TypeOK
  <2> HIDE DEF c, row, CallState
  <2> QED BY <2>1, <2>7, <2>8, <2>9, <1>1, QuietStep
<1> QED BY <1>3, <1>4

\* A decision depends on the locked rows alone, and only a row that comes into
\* being could be missed.
LEMMA DecidesOnLocked ==
  ASSUME NEW table, NEW after, NEW locked, NEW row,
         \A a \in locked : after[a] = table[a],
         Decides(table, locked, row)
  PROVE  Decides(after, locked, row)
  BY DEF Decides

LEMMA SoughtLater ==
  ASSUME NEW table, NEW after, NEW c, Sought(table, c),
         \A a \in Rows(c.actor, c.target) : after[a].present => table[a].present
  PROVE  Sought(after, c)
  BY DEF Sought

\* What the log tells after a row has been added to its n rows.
LEMMA LogAppended ==
  ASSUME log \in Seq(LogRow), NEW row \in LogRow, log' = Append(log, row),
         NEW a \in Accounts, NEW n \in Nat, n = Len(log)
  PROVE  /\ Len(log') = n + 1
         /\ \A i \in ChangesOf(a)' :
              i # n + 1 => i \in 1..n /\ i \in ChangesOf(a) /\ log'[i] = log[i]
         /\ n + 1 \in ChangesOf(a)' <=> row.changed /\ row.target = a
         /\ log'[n + 1] = row
         /\ \A m \in 1..(n + 1) : HeldBefore(a, m)' <=> HeldBefore(a, m)
         /\ HeldBefore(a, n + 2)' <=>
              IF row.changed /\ row.target = a
              THEN row.action = "ASSIGN" ELSE HeldBefore(a, n + 1)
<1>1. /\ DOMAIN log = 1..n
      /\ Len(log') = n + 1 /\ DOMAIN log' = 1..(n + 1)
      /\ \A i \in 1..n : log'[i] = log[i]
      /\ log'[n + 1] = row
  OBVIOUS
<1>2. /\ \A i \in ChangesOf(a)' : i # n + 1 => i \in ChangesOf(a)
      /\ \A i \in ChangesOf(a) : i \in 1..n /\ i \in ChangesOf(a)'
      /\ n + 1 \in ChangesOf(a)' <=> row.changed /\ row.target = a
      /\ \A i \in ChangesOf(a)' : i \in 1..(n + 1)
  BY <1>1 DEF ChangesOf
<1>3. ASSUME NEW m \in 1..(n + 1)
      PROVE  HeldBefore(a, m)' <=> HeldBefore(a, m)
  BY <1>1, <1>2 DEF HeldBefore
<1>4. HeldBefore(a, n + 2)' <=>
        IF row.changed /\ row.target = a
        THEN row.action = "ASSIGN" ELSE HeldBefore(a, n + 1)
  <2>1. CASE row.changed /\ row.target = a
    BY <2>1, <1>1, <1>2 DEF HeldBefore
  <2>2. CASE ~(row.changed /\ row.target = a)
    BY <2>2, <1>1, <1>2 DEF HeldBefore
  <2> QED BY <2>1, <2>2
<1> QED BY <1>1, <1>2, <1>3, <1>4

\* The commit writes what the call would still decide, and touches no account
\* that another call holds.
LEMMA CommitInv ==
  ASSUME RoleInv, NEW w \in Workers, Commit(w)
  PROVE  RoleInv'
<1> DEFINE row == call[w].row
           n == Len(log)
<1>1. /\ call[w].pc = "commit"
      /\ log' = Append(log, row)
      /\ accounts' = IF row.changed
                     THEN [accounts EXCEPT
                            ![row.target].holder = row.action = "ASSIGN"]
                     ELSE accounts
      /\ call' = [call EXCEPT ![w] = Idle]
      /\ UNCHANGED <<calls, edits>>
  BY DEF Commit
<1>2. row \in LogRow /\ Decides(accounts, call[w].locked, row)
  BY <1>1, CommitShape DEF RoleInv, RowsDecided
<1>3. /\ accounts \in [Accounts -> Account] /\ log \in Seq(LogRow)
      /\ n \in Nat /\ call \in [Workers -> CallState]
  BY DEF RoleInv, TypeOK, CallsTyped
<1>4. /\ row.changed => /\ row.target \in Accounts
                        /\ row.target \in call[w].locked
      /\ row.changed \in BOOLEAN
  BY <1>2 DEF Decides, LogRow
<1> HIDE DEF row, n, CallState
<1>5. \A a \in Accounts :
        /\ accounts'[a].present = accounts[a].present
        /\ accounts'[a].active = accounts[a].active
        /\ accounts'[a].superuser = accounts[a].superuser
        /\ accounts'[a].holder = IF row.changed /\ row.target = a
                                 THEN row.action = "ASSIGN"
                                 ELSE accounts[a].holder
        /\ a \notin call[w].locked => accounts'[a] = accounts[a]
  BY <1>1, <1>3, <1>4 DEF Account
<1>6. accounts' \in [Accounts -> Account]
  BY ZenonT(60), <1>1, <1>3, <1>4 DEF Account
<1>7. TypeOK'
  <2>1. log' \in Seq(LogRow)
    BY <1>1, <1>2, <1>3
  <2>2. ASSUME NEW i \in DOMAIN log'
        PROVE  /\ log'[i].result = "TARGET_NOT_FOUND"
                    <=> log'[i].target = NoTarget
               /\ log'[i].changed => log'[i].result = "SUCCESS"
    <3>1. CASE i \in DOMAIN log
      BY <3>1, <1>1, <1>3 DEF RoleInv, TypeOK
    <3>2. CASE log'[i] = row
      BY <3>2, <1>2 DEF Decides
    <3>3. i \in DOMAIN log \/ log'[i] = row
      BY <1>1, <1>3
    <3> QED BY <3>1, <3>2, <3>3
  <2> QED BY <2>1, <2>2, <1>1, <1>6 DEF RoleInv, TypeOK
<1>8. LogTellsTheRole'
  <2> SUFFICES ASSUME NEW a \in Accounts
               PROVE  /\ \A i \in ChangesOf(a)' :
                           /\ log'[i].action = "ASSIGN" => ~HeldBefore(a, i)'
                           /\ a # DemoAdmin /\ ~HeldBefore(a, i)' =>
                                log'[i].action = "ASSIGN"
                      /\ HeldBefore(a, Len(log) + 1)' => accounts'[a].holder
                      /\ a # DemoAdmin /\ accounts'[a].holder =>
                           HeldBefore(a, Len(log) + 1)'
    BY DEF LogTellsTheRole
  <2>1. PICK k \in Nat : k = Len(log)
    BY <1>3 DEF n
  <2>2. /\ Len(log') = k + 1
        /\ \A i \in ChangesOf(a)' :
             i # k + 1 => i \in 1..k /\ i \in ChangesOf(a) /\ log'[i] = log[i]
        /\ k + 1 \in ChangesOf(a)' <=> row.changed /\ row.target = a
        /\ log'[k + 1] = row
        /\ \A m \in 1..(k + 1) : HeldBefore(a, m)' <=> HeldBefore(a, m)
        /\ HeldBefore(a, k + 2)' <=>
             IF row.changed /\ row.target = a
             THEN row.action = "ASSIGN" ELSE HeldBefore(a, k + 1)
    BY <2>1, <1>1, <1>2, <1>3, LogAppended
  <2>3. /\ \A i \in ChangesOf(a) :
             /\ log[i].action = "ASSIGN" => ~HeldBefore(a, i)
             /\ a # DemoAdmin /\ ~HeldBefore(a, i) => log[i].action = "ASSIGN"
        /\ HeldBefore(a, k + 1) => accounts[a].holder
        /\ a # DemoAdmin /\ accounts[a].holder => HeldBefore(a, k + 1)
    BY <2>1 DEF RoleInv, LogTellsTheRole
  <2>4. row.changed /\ row.target = a =>
          accounts[a].holder # (row.action = "ASSIGN")
    BY <1>2 DEF Decides
  <2>5. ASSUME NEW i \in ChangesOf(a)'
        PROVE  /\ log'[i].action = "ASSIGN" => ~HeldBefore(a, i)'
               /\ a # DemoAdmin /\ ~HeldBefore(a, i)' =>
                    log'[i].action = "ASSIGN"
    <3>1. CASE i = k + 1
      <4>1. k + 1 \in 1..(k + 1)
        OBVIOUS
      <4>2. HeldBefore(a, k + 1)' <=> HeldBefore(a, k + 1)
        BY <4>1, <2>2
      <4>3. accounts[a].holder \in BOOLEAN
        BY <1>3 DEF Account
      <4> QED BY <3>1, <4>2, <4>3, <2>2, <2>3, <2>4, <2>5
    <3>2. CASE i # k + 1
      BY <3>2, <2>2, <2>3, <2>5
    <3> QED BY <3>1, <3>2
  <2>6. /\ HeldBefore(a, k + 2)' => accounts'[a].holder
        /\ a # DemoAdmin /\ accounts'[a].holder => HeldBefore(a, k + 2)'
    BY <1>5, <2>2, <2>3
  <2> QED BY <2>2, <2>5, <2>6
<1>9. CallsTyped' /\ LocksExclude'
  BY <1>1, <1>3 DEF RoleInv, LocksExclude, CallsTyped, CallState, Idle
<1>10. RowsSought'
  <2> SUFFICES ASSUME NEW v \in Workers, call'[v].pc = "lock"
               PROVE  Sought(accounts', call'[v])
    BY DEF RowsSought
  <2>1. call'[v] = call[v] /\ Sought(accounts, call[v])
    BY <1>1, <1>3 DEF Idle, RoleInv, RowsSought
  <2> QED BY <2>1, <1>5, SoughtLater DEF Rows
<1>11. RowsDecided'
  <2> SUFFICES ASSUME NEW v \in Workers, call'[v].pc = "commit"
               PROVE  Decides(accounts', call'[v].locked, call'[v].row)
    BY DEF RowsDecided
  <2>1. /\ v # w /\ call'[v] = call[v]
        /\ Decides(accounts, call[v].locked, call[v].row)
    BY <1>1, <1>3 DEF Idle, RoleInv, RowsDecided
  <2>2. \A a \in call[v].locked : accounts'[a] = accounts[a]
    BY <2>1, <1>5, LockedAccounts DEF RoleInv, LocksExclude
  <2> QED BY <2>1, <2>2, DecidesOnLocked
<1> QED BY <1>7, <1>8, <1>9, <1>10, <1>11 DEF RoleInv

\* The account form and the seed write a row that nobody holds.
LEMMA FormStep ==
  ASSUME RoleInv, NEW a \in Accounts, RowFree(a),
         accounts' \in [Accounts -> Account],
         \A b \in Accounts \ {a} : accounts'[b] = accounts[b],
         accounts'[a].present => accounts[a].present,
         UNCHANGED <<log, call>>
  PROVE  CallsTyped' /\ LocksExclude' /\ RowsSought' /\ RowsDecided'
<1>1. \A b \in Accounts : accounts'[b].present => accounts[b].present
  OBVIOUS
<1>2. RowsSought'
  <2> SUFFICES ASSUME NEW v \in Workers, call[v].pc = "lock"
               PROVE  Sought(accounts', call[v])
    BY DEF RowsSought
  <2>1. Sought(accounts, call[v])
    BY DEF RoleInv, RowsSought
  <2> QED BY <2>1, <1>1, SoughtLater DEF Rows
<1>3. RowsDecided'
  <2> SUFFICES ASSUME NEW v \in Workers, call[v].pc = "commit"
               PROVE  Decides(accounts', call[v].locked, call[v].row)
    BY DEF RowsDecided
  <2>1. Decides(accounts, call[v].locked, call[v].row)
    BY DEF RoleInv, RowsDecided
  <2>2. \A b \in call[v].locked : accounts'[b] = accounts[b]
    BY LockedAccounts DEF RoleInv, RowFree
  <2> QED BY <2>1, <2>2, DecidesOnLocked
<1> QED BY <1>2, <1>3 DEF RoleInv, CallsTyped, LocksExclude

LEMMA SaveAccountInv ==
  ASSUME RoleInv, NEW a \in Accounts,
         NEW active \in BOOLEAN, NEW superuser \in BOOLEAN,
         SaveAccount(a, active, superuser)
  PROVE  RoleInv'
<1>1. accounts \in [Accounts -> Account]
  BY DEF RoleInv, TypeOK
<1>2. /\ accounts' \in [Accounts -> Account]
      /\ \A b \in Accounts \ {a} : accounts'[b] = accounts[b]
      /\ accounts'[a].present = accounts[a].present
      /\ accounts'[a].holder = accounts[a].holder
      /\ RowFree(a) /\ UNCHANGED <<log, call, calls>>
  BY <1>1 DEF SaveAccount, Account
<1>3. edits' \in 0..MaxEdits
  BY RoleAssumption DEF SaveAccount, RoleInv, TypeOK
<1>4. TypeOK' /\ LogTellsTheRole'
  BY <1>2, <1>3 DEF RoleInv, TypeOK, LogTellsTheRole, ChangesOf, HeldBefore
<1> QED BY <1>2, <1>4, FormStep DEF RoleInv

\* An account that is deleted has no row in the log, so it held no role.
LEMMA DeleteAccountInv ==
  ASSUME RoleInv, NEW a \in Accounts, DeleteAccount(a)
  PROVE  RoleInv'
<1>1. accounts \in [Accounts -> Account] /\ log \in Seq(LogRow)
  BY DEF RoleInv, TypeOK
<1>2. /\ accounts' \in [Accounts -> Account]
      /\ \A b \in Accounts \ {a} : accounts'[b] = accounts[b]
      /\ accounts'[a].present = FALSE /\ accounts'[a].holder = FALSE
      /\ RowFree(a) /\ UNCHANGED <<log, call, calls>>
  BY <1>1 DEF DeleteAccount, Account
<1>3. edits' \in 0..MaxEdits
  BY RoleAssumption DEF DeleteAccount, RoleInv, TypeOK
<1>4. ChangesOf(a) = {}
  BY DEF DeleteAccount, ChangesOf
<1>5. ~HeldBefore(a, Len(log) + 1)
  BY <1>4 DEF HeldBefore
<1>6. TypeOK'
  BY <1>2, <1>3 DEF RoleInv, TypeOK
<1>7. LogTellsTheRole'
  BY <1>2, <1>5 DEF RoleInv, LogTellsTheRole, ChangesOf, HeldBefore
<1> QED BY <1>2, <1>6, <1>7, FormStep DEF RoleInv

\* A seed only adds to what its account holds, and the log asks no more of it.
LEMMA SeedRoleInv ==
  ASSUME RoleInv, SeedRole
  PROVE  RoleInv'
<1>1. accounts \in [Accounts -> Account] /\ DemoAdmin \in Accounts
  BY RoleAssumption DEF RoleInv, TypeOK
<1>2. /\ accounts' \in [Accounts -> Account]
      /\ \A b \in Accounts \ {DemoAdmin} : accounts'[b] = accounts[b]
      /\ accounts'[DemoAdmin].present = accounts[DemoAdmin].present
      /\ accounts'[DemoAdmin].holder = TRUE
      /\ RowFree(DemoAdmin) /\ UNCHANGED <<log, call, calls, edits>>
  BY <1>1 DEF SeedRole, Account
<1>3. TypeOK' /\ LogTellsTheRole'
  BY <1>2 DEF RoleInv, TypeOK, LogTellsTheRole, ChangesOf, HeldBefore
<1> QED BY <1>1, <1>2, <1>3, FormStep DEF RoleInv

-----------------------------------------------------------------------------
(* The theorems                                                            *)

\* The invariant holds at first and every step keeps it.
LEMMA RoleInductive ==
  /\ Init => RoleInv
  /\ RoleInv /\ [Next]_vars => RoleInv'
<1>1. Init => RoleInv
  <2> SUFFICES ASSUME Init
               PROVE  RoleInv
    OBVIOUS
  <2>1. TypeOK /\ CallsTyped
    BY RoleAssumption DEF Init, TypeOK, Account, CallsTyped, CallState
  <2>2. LocksExclude /\ RowsSought /\ RowsDecided
    BY DEF Init, LocksExclude, RowsSought, RowsDecided, Idle
  <2>3. LogTellsTheRole
    BY DEF Init, LogTellsTheRole, ChangesOf, HeldBefore
  <2> QED BY <2>1, <2>2, <2>3 DEF RoleInv
<1>2. ASSUME RoleInv, Next
      PROVE  RoleInv'
  <2>1. ASSUME NEW w \in Workers, Abort(w)
        PROVE  RoleInv'
    BY <2>1, <1>2, EndInv DEF Abort
  <2> QED BY <2>1, <1>2, CallInv, LockRowInv, DecideInv, CommitInv,
             SaveAccountInv, DeleteAccountInv, SeedRoleInv DEF Next, Step
<1>3. ASSUME RoleInv, UNCHANGED vars
      PROVE  RoleInv'
  BY <1>3 DEF vars, RoleInv, TypeOK, LogTellsTheRole, ChangesOf, HeldBefore,
              CallsTyped, LocksExclude, RowsSought, RowsDecided
<1> QED BY <1>1, <1>2, <1>3

\* The tables are well formed, and no log row breaks the check constraints.
THEOREM RoleChangeTyped == Spec => []TypeOK
<1>1. RoleInv => TypeOK
  BY DEF RoleInv
<1> QED BY <1>1, RoleInductive, PTL DEF Spec

\* The log is the history of the role, whatever calls, edits and seeds overlap:
\* all of it, for an account that seed_demo does not grant the role to.
THEOREM RoleChangeLogged == Spec => []LogTellsTheRole
<1>1. RoleInv => LogTellsTheRole
  BY DEF RoleInv
<1> QED BY <1>1, RoleInductive, PTL DEF Spec

\* Only a commit adds a row to the log.
LEMMA LogWrites ==
  ASSUME Next, log' # log
  PROVE  \E w \in Workers : Commit(w)
  BY DEF Next, Step, Call, LockRow, Decide, Abort, SaveAccount, DeleteAccount,
         SeedRole

\* Whoever is recorded as the actor of a change may make it at that moment.
THEOREM RoleChangeAuthorized == Spec => AuthorityIsCurrent
<1> DEFINE A == Len(log') > Len(log) =>
                  LET row == log'[Len(log')]
                  IN /\ accounts[row.actor].present
                     /\ row.target # NoTarget =>
                          /\ accounts[row.target].present
                          /\ row.result = "SUCCESS" <=>
                               Administers(row.actor) /\ row.actor # row.target
<1>1. RoleInv /\ [Next]_vars => [A]_vars
  <2> SUFFICES ASSUME RoleInv, Next, Len(log') > Len(log)
               PROVE  A
    OBVIOUS
  <2>1. log \in Seq(LogRow) /\ log' # log
    BY DEF RoleInv, TypeOK
  <2>2. PICK w \in Workers : Commit(w)
    BY <2>1, LogWrites
  <2>3. call[w].pc = "commit" /\ log' = Append(log, call[w].row)
    BY <2>2 DEF Commit
  <2>4. Decides(accounts, call[w].locked, call[w].row) /\ call[w].row \in LogRow
    BY <2>3, CommitShape DEF RoleInv, RowsDecided
  <2>5. log'[Len(log')] = call[w].row
    BY <2>1, <2>3, <2>4
  <2> QED BY <2>4, <2>5 DEF Decides, Administers
<1> QED BY <1>1, RoleInductive, PTL DEF Spec, AuthorityIsCurrent

=============================================================================
