-------------------------- MODULE CatalogTx_proofs --------------------------
(***************************************************************************)
(* Why the row locks of the catalog's transactions are enough, for every   *)
(* number of workers: what a transaction read is current until it ends,    *)
(* its commit is one atomic command of Catalog, and so everything proved   *)
(* of Catalog holds of the transactions.                                   *)
(***************************************************************************)
EXTENDS CatalogTx, Catalog_proofs, WellFoundedInduction

-----------------------------------------------------------------------------
(* The next row of a statement *)

\* A set of natural numbers that is not empty has a least element.
LEMMA LeastNumber ==
  ASSUME NEW S \in SUBSET Nat, S # {}
  PROVE  \E m \in S : \A n \in S : m <= n
<1> DEFINE R == {p \in Nat \X Nat : p[1] < p[2]}
<1>1. IsWellFoundedOn(R, Nat)
  BY NatLessThanWellFounded DEF OpToRel
<1>2. PICK m \in S : \A n \in S : <<n, m>> \notin R
  <2> HIDE DEF R
  <2> QED BY <1>1, WFMin
<1>3. \A n \in S : ~(n < m)
  BY <1>2
<1> QED BY <1>3

\* The commands that lock a track row by its key, and those that then lock the
\* modules of that track.
ModuleReaders == {"change_track_status", "create_module", "edit_module",
                  "change_module_status", "move_module"}
TrackReaders == ModuleReaders \cup {"edit_track"}

\* The tables, as one value. Everything below is said of such a value and of
\* the record of one transaction.
Db == [admins |-> admins, tracks |-> tracks, modules |-> modules,
       items |-> items, order |-> orderRevision]

Used(d) == {t \in Tracks : Exists(d.tracks[t])}
Inside(d, t) == {m \in Modules : d.modules[m].track = t}
Contents(d, m) == {i \in Items : d.items[i].module = m}

Row ==
  {<<"account", a>> : a \in Accounts} \cup {<<"state", 1>>}
    \cup {<<"track", t>> : t \in Tracks} \cup {<<"module", m>> : m \in Modules}
    \cup {<<"item", i>> : i \in Items}

\* What may be left of a command's plan.
Suffixes(op) ==
  CASE op = "none" -> {<<>>}
    [] op = "create_track" -> {<<"actor", "state">>, <<"state">>, <<>>}
    [] op = "move_track" -> {<<"actor", "state", "tracks">>,
                             <<"state", "tracks">>, <<"tracks">>, <<>>}
    [] op = "edit_track" -> {<<"actor", "track">>, <<"track">>, <<>>}
    [] op \in ModuleReaders -> {<<"actor", "track", "modules">>,
                                <<"track", "modules">>, <<"modules">>, <<>>}
    [] op = "create_content_draft" ->
         {<<"actor", "module", "items">>, <<"module", "items">>, <<"items">>,
          <<>>}
    [] op = "publish_content_item" -> {<<"actor", "item">>, <<"item">>, <<>>}

Plans ==
  UNION {Suffixes(op) : op \in {"none", "create_track", "move_track",
           "edit_track", "create_content_draft", "publish_content_item"}
           \cup ModuleReaders}

Transaction ==
  [cmd: Commands \cup {NoCommand}, plan: Plans, scan: SUBSET Row,
   locks: SUBSET Row, authorized: BOOLEAN, order: Nat, count: Nat,
   tracks: [Tracks -> TrackRow], modules: [Modules -> ModuleRow],
   items: [Items -> ItemRow]]

Held(x) == x.locks \cup x.scan

\* The rows that a command may lock: rows that exist, its own actor, and what
\* its arguments name.
Reachable(c, r, d) ==
  \/ r = <<"account", c.actor>>
  \/ r = <<"state", 1>> /\ c.op \in {"create_track", "move_track"}
  \/ \E t \in Used(d) :
       /\ r = <<"track", t>>
       /\ c.op = "move_track" \/ (c.op \in TrackReaders /\ t = c.track)
  \/ \E m \in Modules :
       /\ r = <<"module", m>> /\ Exists(d.modules[m])
       /\ \/ c.op \in ModuleReaders /\ d.modules[m].track = c.track
          \/ c.op = "create_content_draft" /\ m = c.module
  \/ \E i \in Items :
       /\ r = <<"item", i>> /\ Exists(d.items[i])
       /\ \/ c.op = "create_content_draft" /\ d.items[i].module = c.module
          \/ c.op = "publish_content_item" /\ i = c.item

\* Nothing is locked before the actor.
ActorFirst(x) ==
  x.cmd.op # "none" =>
    /\ x.plan = Plan(x.cmd.op) => Held(x) = {}
    /\ x.plan = Tail(Plan(x.cmd.op)) =>
         Held(x) = {<<"account", x.cmd.actor>>}
    /\ \/ x.plan = Plan(x.cmd.op) \/ x.plan = Tail(Plan(x.cmd.op))
       \/ <<"account", x.cmd.actor>> \in x.locks

\* A running statement locks rows of one table.
OneTable(x) == \A r, s \in x.scan : r[1] = s[1]

\* The private copies are the locked rows, and nothing else.
Copies(x, d) ==
  /\ \A t \in Tracks : x.tracks[t] =
       IF <<"track", t>> \in x.locks THEN d.tracks[t] ELSE AbsentTrack
  /\ \A m \in Modules : x.modules[m] =
       IF <<"module", m>> \in x.locks THEN d.modules[m] ELSE AbsentModule
  /\ \A i \in Items : x.items[i] =
       IF <<"item", i>> \in x.locks THEN d.items[i] ELSE AbsentItem
  /\ x.authorized <=> <<"account", x.cmd.actor>> \in x.locks
                        /\ x.cmd.actor \in d.admins
  /\ <<"state", 1>> \in x.locks =>
       x.order = d.order /\ x.count = Cardinality(Used(d))

\* A statement that started found every row its command depends on, and no
\* row can join them: whoever creates one needs a lock that is held here.
Covered(x, d) ==
  LET c == x.cmd
  IN /\ c.op \in {"create_track", "move_track"}
            /\ x.plan \in {<<>>, <<"tracks">>}
          => <<"state", 1>> \in Held(x)
     /\ c.op = "move_track" /\ x.plan = <<>> =>
          /\ <<"state", 1>> \in x.locks
          /\ \A t \in Used(d) : <<"track", t>> \in Held(x)
     /\ c.op \in TrackReaders /\ x.plan \in {<<>>, <<"modules">>}
            /\ Exists(d.tracks[c.track])
          => <<"track", c.track>> \in Held(x)
     /\ c.op \in ModuleReaders /\ x.plan = <<>> =>
          /\ <<"track", c.track>> \in x.locks
          /\ \A m \in Inside(d, c.track) : <<"module", m>> \in Held(x)
     /\ c.op = "create_content_draft" /\ x.plan \in {<<>>, <<"items">>}
            /\ Exists(d.modules[c.module])
          => <<"module", c.module>> \in Held(x)
     /\ c.op = "create_content_draft" /\ x.plan = <<>>
            /\ Exists(d.modules[c.module])
          => /\ <<"module", c.module>> \in x.locks
             /\ \A i \in Contents(d, c.module) : <<"item", i>> \in Held(x)
     /\ c.op = "publish_content_item" /\ x.plan = <<>>
            /\ Exists(d.items[c.item])
          => <<"item", c.item>> \in Held(x)

Sound(x, d) ==
  /\ x \in Transaction
  /\ x.cmd = NoCommand => x = Idle
  /\ x.plan \in Suffixes(x.cmd.op)
  /\ \A r \in Held(x) : Reachable(x.cmd, r, d)
  /\ ActorFirst(x) /\ OneTable(x)
  /\ Copies(x, d) /\ Covered(x, d)

TxInv ==
  /\ tx \in [Workers -> Transaction]
  /\ \A w \in Workers : Sound(tx[w], Db)
  /\ \A v, w \in Workers : v # w => tx[v].locks \cap tx[w].locks = {}

\* A module row names a track that exists.
Owned == \A m \in Modules : Exists(modules[m]) => modules[m].track \in UsedTracks

-----------------------------------------------------------------------------
(* Plans *)

\* A command is a record with an operation that has a plan.
LEMMA CommandOps ==
  ASSUME NEW c \in Commands
  PROVE  /\ c.op \in {"create_track", "move_track", "edit_track",
                      "create_content_draft", "publish_content_item"}
                       \cup ModuleReaders
         /\ c.op # "none" /\ c # NoCommand
         /\ c.actor \in Accounts
         /\ c.op \in TrackReaders => c.track \in Tracks
         /\ c.op \in {"create_content_draft"} => c.module \in Modules
         /\ c.op \in {"publish_content_item"} => c.item \in Items
<1>1. c \in Command
  BY CatalogAssumption
<1>2. /\ c.op \in {"create_track", "move_track", "edit_track",
                      "create_content_draft", "publish_content_item"}
                       \cup ModuleReaders
      /\ c.actor \in Accounts
  BY <1>1 DEF ModuleReaders, Command, CreateTrackCmd, EditTrackCmd,
     TrackStatusCmd, MoveTrackCmd, CreateModuleCmd, EditModuleCmd,
     ModuleStatusCmd, MoveModuleCmd, CreateDraftCmd, PublishItemCmd
<1>3. c.op # "none" /\ c # NoCommand
  BY <1>2 DEF ModuleReaders, NoCommand
<1>4. c.op \in TrackReaders => c.track \in Tracks
  BY <1>1, CommandShapes DEF TrackReaders, ModuleReaders, EditTrackCmd,
     TrackStatusCmd, CreateModuleCmd, EditModuleCmd, ModuleStatusCmd,
     MoveModuleCmd
<1>5. /\ c.op \in {"create_content_draft"} => c.module \in Modules
      /\ c.op \in {"publish_content_item"} => c.item \in Items
  BY <1>1, CommandShapes DEF CreateDraftCmd, PublishItemCmd
<1> QED BY <1>2, <1>3, <1>4, <1>5

\* The plans and what may be left of them.
LEMMA PlanValues ==
  /\ Plan("create_track") = <<"actor", "state">>
  /\ Plan("move_track") = <<"actor", "state", "tracks">>
  /\ Plan("edit_track") = <<"actor", "track">>
  /\ \A op \in ModuleReaders : Plan(op) = <<"actor", "track", "modules">>
  /\ Plan("create_content_draft") = <<"actor", "module", "items">>
  /\ Plan("publish_content_item") = <<"actor", "item">>
<1>1. Plan("create_track") = <<"actor", "state">>
  BY DEF Plan
<1>2. Plan("move_track") = <<"actor", "state", "tracks">>
  BY DEF Plan
<1>3. Plan("edit_track") = <<"actor", "track">>
  BY DEF Plan
<1>4. ASSUME NEW op \in ModuleReaders
      PROVE  Plan(op) = <<"actor", "track", "modules">>
  BY DEF Plan, ModuleReaders
<1>5. Plan("create_content_draft") = <<"actor", "module", "items">>
  BY DEF Plan
<1>6. Plan("publish_content_item") = <<"actor", "item">>
  BY DEF Plan
<1> QED BY <1>1, <1>2, <1>3, <1>4, <1>5, <1>6

LEMMA SuffixValues ==
  /\ Suffixes("create_track") = {<<"actor", "state">>, <<"state">>, <<>>}
  /\ Suffixes("move_track") =
       {<<"actor", "state", "tracks">>, <<"state", "tracks">>, <<"tracks">>, <<>>}
  /\ Suffixes("edit_track") = {<<"actor", "track">>, <<"track">>, <<>>}
  /\ \A op \in ModuleReaders : Suffixes(op) =
       {<<"actor", "track", "modules">>, <<"track", "modules">>, <<"modules">>,
        <<>>}
  /\ Suffixes("create_content_draft") =
       {<<"actor", "module", "items">>, <<"module", "items">>, <<"items">>, <<>>}
  /\ Suffixes("publish_content_item") =
       {<<"actor", "item">>, <<"item">>, <<>>}
  /\ Suffixes("none") = {<<>>}
<1>1. Suffixes("create_track") = {<<"actor", "state">>, <<"state">>, <<>>}
  BY DEF Suffixes, ModuleReaders
<1>2. Suffixes("move_track") =
       {<<"actor", "state", "tracks">>, <<"state", "tracks">>, <<"tracks">>, <<>>}
  BY DEF Suffixes, ModuleReaders
<1>3. Suffixes("edit_track") = {<<"actor", "track">>, <<"track">>, <<>>}
  BY DEF Suffixes, ModuleReaders
<1>4. ASSUME NEW op \in ModuleReaders
      PROVE  Suffixes(op) = {<<"actor", "track", "modules">>,
                             <<"track", "modules">>, <<"modules">>, <<>>}
  BY DEF Suffixes, ModuleReaders
<1>5. Suffixes("create_content_draft") =
       {<<"actor", "module", "items">>, <<"module", "items">>, <<"items">>, <<>>}
  BY DEF Suffixes, ModuleReaders
<1>6. Suffixes("publish_content_item") = {<<"actor", "item">>, <<"item">>, <<>>}
  BY DEF Suffixes, ModuleReaders
<1>7. Suffixes("none") = {<<>>}
  BY DEF Suffixes, ModuleReaders
<1> QED BY <1>1, <1>2, <1>3, <1>4, <1>5, <1>6, <1>7

LEMMA Tails ==
  /\ Head(<<"state">>) = "state" /\ Tail(<<"state">>) = <<>>
  /\ Head(<<"tracks">>) = "tracks" /\ Tail(<<"tracks">>) = <<>>
  /\ Head(<<"track">>) = "track" /\ Tail(<<"track">>) = <<>>
  /\ Head(<<"modules">>) = "modules" /\ Tail(<<"modules">>) = <<>>
  /\ Head(<<"items">>) = "items" /\ Tail(<<"items">>) = <<>>
  /\ Head(<<"item">>) = "item" /\ Tail(<<"item">>) = <<>>
  /\ Head(<<"state", "tracks">>) = "state"
  /\ Tail(<<"state", "tracks">>) = <<"tracks">>
  /\ Head(<<"track", "modules">>) = "track"
  /\ Tail(<<"track", "modules">>) = <<"modules">>
  /\ Head(<<"module", "items">>) = "module"
  /\ Tail(<<"module", "items">>) = <<"items">>
  /\ Head(<<"actor", "state">>) = "actor"
  /\ Tail(<<"actor", "state">>) = <<"state">>
  /\ Head(<<"actor", "state", "tracks">>) = "actor"
  /\ Tail(<<"actor", "state", "tracks">>) = <<"state", "tracks">>
  /\ Head(<<"actor", "track">>) = "actor"
  /\ Tail(<<"actor", "track">>) = <<"track">>
  /\ Head(<<"actor", "track", "modules">>) = "actor"
  /\ Tail(<<"actor", "track", "modules">>) = <<"track", "modules">>
  /\ Head(<<"actor", "module", "items">>) = "actor"
  /\ Tail(<<"actor", "module", "items">>) = <<"module", "items">>
  /\ Head(<<"actor", "item">>) = "actor"
  /\ Tail(<<"actor", "item">>) = <<"item">>
  OBVIOUS

\* Which statement comes next.
LEMMA NextStatement ==
  ASSUME NEW c \in Commands, NEW p \in Suffixes(c.op), p # <<>>
  PROVE  \/ /\ p = Plan(c.op)
            /\ Head(p) = "actor"
         \/ /\ c.op = "create_track" /\ p = <<"state">>
            /\ Head(p) = "state" /\ Tail(p) = <<>>
         \/ /\ c.op = "move_track" /\ p = <<"state", "tracks">>
            /\ Head(p) = "state" /\ Tail(p) = <<"tracks">>
         \/ /\ c.op = "move_track" /\ p = <<"tracks">>
            /\ Head(p) = "tracks" /\ Tail(p) = <<>>
         \/ /\ c.op = "edit_track" /\ p = <<"track">>
            /\ Head(p) = "track" /\ Tail(p) = <<>>
         \/ /\ c.op \in ModuleReaders /\ p = <<"track", "modules">>
            /\ Head(p) = "track" /\ Tail(p) = <<"modules">>
         \/ /\ c.op \in ModuleReaders /\ p = <<"modules">>
            /\ Head(p) = "modules" /\ Tail(p) = <<>>
         \/ /\ c.op = "create_content_draft" /\ p = <<"module", "items">>
            /\ Head(p) = "module" /\ Tail(p) = <<"items">>
         \/ /\ c.op = "create_content_draft" /\ p = <<"items">>
            /\ Head(p) = "items" /\ Tail(p) = <<>>
         \/ /\ c.op = "publish_content_item" /\ p = <<"item">>
            /\ Head(p) = "item" /\ Tail(p) = <<>>
<1>1. CASE c.op = "create_track"
  BY <1>1, PlanValues, SuffixValues, Tails
<1>2. CASE c.op = "move_track"
  BY <1>2, PlanValues, SuffixValues, Tails
<1>3. CASE c.op = "edit_track"
  BY <1>3, PlanValues, SuffixValues, Tails
<1>4. CASE c.op \in ModuleReaders
  BY <1>4, PlanValues, SuffixValues, Tails
<1>5. CASE c.op = "create_content_draft"
  BY <1>5, PlanValues, SuffixValues, Tails
<1>6. CASE c.op = "publish_content_item"
  BY <1>6, PlanValues, SuffixValues, Tails
<1> QED BY <1>1, <1>2, <1>3, <1>4, <1>5, <1>6, CommandOps

\* The actor comes first, and some row comes after it.
LEMMA PlanStart ==
  ASSUME NEW c \in Commands
  PROVE  /\ Plan(c.op) \in Suffixes(c.op) /\ Tail(Plan(c.op)) \in Suffixes(c.op)
         /\ Plan(c.op) # Tail(Plan(c.op))
         /\ Plan(c.op) # <<>> /\ Tail(Plan(c.op)) # <<>>
         /\ Head(Plan(c.op)) = "actor"
         /\ Plan(c.op) \notin {<<"tracks">>, <<"modules">>, <<"items">>}
         /\ Tail(Plan(c.op)) \notin {<<"tracks">>, <<"modules">>, <<"items">>}
         /\ Suffixes(c.op) \subseteq Plans
<1> DEFINE Late == {<<>>, <<"tracks">>, <<"modules">>, <<"items">>}
<1> DEFINE Good(p, q, S) == /\ p \in S /\ q \in S /\ p # q /\ Head(p) = "actor"
                            /\ p \notin Late /\ q \notin Late
<1> SUFFICES Good(Plan(c.op), Tail(Plan(c.op)), Suffixes(c.op))
  <2>1. Suffixes(c.op) \subseteq Plans
    BY CommandOps DEF Plans
  <2> QED BY <2>1
<1>1. CASE c.op = "create_track"
  <2>1. Good(<<"actor", "state">>, <<"state">>, Suffixes("create_track"))
    BY SuffixValues
  <2> HIDE DEF Good
  <2> QED BY <1>1, <2>1, PlanValues, Tails
<1>2. CASE c.op = "move_track"
  <2>1. Good(<<"actor", "state", "tracks">>, <<"state", "tracks">>,
             Suffixes("move_track"))
    BY SuffixValues
  <2> HIDE DEF Good
  <2> QED BY <1>2, <2>1, PlanValues, Tails
<1>3. CASE c.op = "edit_track"
  <2>1. Good(<<"actor", "track">>, <<"track">>, Suffixes("edit_track"))
    BY SuffixValues
  <2> HIDE DEF Good
  <2> QED BY <1>3, <2>1, PlanValues, Tails
<1>4. CASE c.op \in ModuleReaders
  <2>1. Good(<<"actor", "track", "modules">>, <<"track", "modules">>,
             Suffixes(c.op))
    BY <1>4, SuffixValues
  <2> HIDE DEF Good
  <2> QED BY <1>4, <2>1, PlanValues, Tails
<1>5. CASE c.op = "create_content_draft"
  <2>1. Good(<<"actor", "module", "items">>, <<"module", "items">>,
             Suffixes("create_content_draft"))
    BY SuffixValues
  <2> HIDE DEF Good
  <2> QED BY <1>5, <2>1, PlanValues, Tails
<1>6. CASE c.op = "publish_content_item"
  <2>1. Good(<<"actor", "item">>, <<"item">>, Suffixes("publish_content_item"))
    BY SuffixValues
  <2> HIDE DEF Good
  <2> QED BY <1>6, <2>1, PlanValues, Tails
<1> QED BY <1>1, <1>2, <1>3, <1>4, <1>5, <1>6, CommandOps

-----------------------------------------------------------------------------
(* Rows *)

\* Tables in which a key without a row has no owner and revision 0.
Tables ==
  [admins: SUBSET Accounts, tracks: [Tracks -> TrackRow],
   modules: [Modules -> ModuleRow], items: [Items -> ItemRow], order: Nat]

WellFormed(d) ==
  /\ d \in Tables
  /\ \A t \in Tracks : ~Exists(d.tracks[t]) => d.tracks[t].revision = 0
  /\ \A m \in Modules : ~Exists(d.modules[m]) =>
       d.modules[m].revision = 0 /\ d.modules[m].track = NoOwner
  /\ \A i \in Items : ~Exists(d.items[i]) =>
       d.items[i].revision = 0 /\ d.items[i].module = NoOwner

LEMMA RowShape ==
  ASSUME NEW r \in Row
  PROVE  \/ r[1] = "account" /\ r[2] \in Accounts /\ r = <<"account", r[2]>>
         \/ r[1] = "state" /\ r[2] = 1 /\ r = <<"state", 1>>
         \/ r[1] = "track" /\ r[2] \in Tracks /\ r = <<"track", r[2]>>
         \/ r[1] = "module" /\ r[2] \in Modules /\ r = <<"module", r[2]>>
         \/ r[1] = "item" /\ r[2] \in Items /\ r = <<"item", r[2]>>
  BY DEF Row

\* A statement's next row is one of its rows: the least key of a table that
\* is locked in the order of its keys.
LEMMA NextRowFound ==
  ASSUME items \in [Items -> ItemRow],
         NEW rows \in SUBSET Row, rows # {}, \A r, s \in rows : r[1] = s[1],
         \A r, s \in rows : r[1] \in {"account", "state"} => r = s
  PROVE  /\ NextRow(rows) \in rows
         /\ NextRow(rows)[1] \in {"track", "module"} =>
              \A s \in rows : NextRow(rows)[2] <= s[2]
<1>1. PICK r0 \in rows : TRUE
  OBVIOUS
<1>7. r0[1] \in {"track", "module", "item"} => IsFiniteSet(rows)
  <2>1. r0[1] \in {"track", "module", "item"} =>
          \E T \in {Tracks, Modules, Items} : rows \in SUBSET ({r0[1]} \X T)
    BY RowShape
  <2>2. \A k : \A T \in {Tracks, Modules, Items} : IsFiniteSet({k} \X T)
    BY CatalogKeysAssumption, FS_Singleton, FS_Product
  <2> QED BY ZenonT(60), <2>1, <2>2, FS_Subset
<1>2. CASE Cardinality(rows) = 1 /\ IsFiniteSet(rows)
  <2>1. NextRow(rows) = CHOOSE r \in rows : TRUE
    BY <1>2 DEF NextRow
  <2>2. NextRow(rows) \in rows
    BY <2>1, <1>1
  <2>3. \A s \in rows : s = NextRow(rows)
    BY <1>2, <2>2, FS_Singleton
  <2>4. NextRow(rows)[1] \in {"track", "module"} => NextRow(rows)[2] \in Nat
    BY <2>2, RowShape, WorkersAssumption
  <2> QED BY <2>2, <2>3, <2>4
<1>3. CASE Cardinality(rows) # 1 /\ \E r \in rows : \A s \in rows : Before(r, s)
  <2>1. NextRow(rows) = CHOOSE r \in rows : \A s \in rows : Before(r, s)
    BY <1>3 DEF NextRow
  <2>2. NextRow(rows) \in rows /\ \A s \in rows : Before(NextRow(rows), s)
    BY <2>1, <1>3
  <2> QED BY <2>2 DEF Before
<1>4. CASE r0[1] \in {"account", "state"}
  <2>1. rows = {r0}
    BY <1>4
  <2> QED BY <2>1, <1>2, FS_Singleton
<1>5. CASE r0[1] \in {"track", "module"}
  <2> DEFINE keys == {r[2] : r \in rows}
  <2>1. \A r \in rows : r[1] = r0[1] /\ r[2] \in Nat
    BY <1>5, RowShape, WorkersAssumption
  <2>2. keys \in SUBSET Nat /\ keys # {}
    BY <2>1
  <2>3. PICK k \in keys : \A n \in keys : k <= n
    <3> HIDE DEF keys
    <3> QED BY <2>2, LeastNumber
  <2>4. PICK r \in rows : r[2] = k
    BY <2>3
  <2>5. \A s \in rows : Before(r, s)
    BY <1>5, <2>1, <2>3, <2>4 DEF Before
  <2> QED BY <2>5, <1>2, <1>3, <1>7, <1>5
<1>6. CASE r0[1] = "item"
  <2> DEFINE places == {items[r[2]].position : r \in rows}
  <2>1. \A r \in rows : r[1] = "item" /\ r[2] \in Items
    BY <1>6, RowShape
  <2>2. places \in SUBSET Nat /\ places # {}
    BY <2>1 DEF ItemRow
  <2>3. PICK k \in places : \A n \in places : k <= n
    <3> HIDE DEF places
    <3> QED BY <2>2, LeastNumber
  <2>4. PICK r \in rows : items[r[2]].position = k
    BY <2>3
  <2>5. \A s \in rows : Before(r, s)
    BY <2>1, <2>3, <2>4 DEF Before
  <2> QED BY <2>5, <1>2, <1>3, <1>7, <1>6
<1> QED BY <1>1, <1>4, <1>5, <1>6, RowShape

-----------------------------------------------------------------------------
(* What a transaction's own steps preserve *)

LEMMA NothingRead ==
  ASSUME NEW d, WellFormed(d)
  PROVE  Idle \in Transaction /\ Sound(Idle, d)
<1>1. /\ [t \in Tracks |-> AbsentTrack] \in [Tracks -> TrackRow]
      /\ [m \in Modules |-> AbsentModule] \in [Modules -> ModuleRow]
      /\ [i \in Items |-> AbsentItem] \in [Items -> ItemRow]
  BY DEF TrackRow, ModuleRow, ItemRow, AbsentTrack, AbsentModule, AbsentItem
<1>2. Suffixes("none") = {<<>>} /\ <<>> \in Plans
  BY SuffixValues DEF Plans
<1>3. Idle \in Transaction
  BY <1>1, <1>2 DEF Idle, Transaction
<1>4. Idle.cmd.op = "none" /\ Idle.locks = {} /\ Idle.scan = {}
      /\ Idle.plan = <<>> /\ Idle.authorized = FALSE
  BY DEF Idle, NoCommand
<1>5. Copies(Idle, d)
  BY DEF Copies, Idle
<1>6. Covered(Idle, d)
  BY <1>4 DEF Covered, TrackReaders, ModuleReaders
<1>7. ActorFirst(Idle) /\ OneTable(Idle) /\ Held(Idle) = {}
  BY <1>4 DEF ActorFirst, OneTable, Held
<1> QED BY <1>2, <1>3, <1>4, <1>5, <1>6, <1>7 DEF Sound

LEMMA BeginSound ==
  ASSUME NEW d, WellFormed(d), NEW c \in Commands
  PROVE  Sound([Idle EXCEPT !.cmd = c, !.plan = Plan(c.op)], d)
<1> DEFINE y == [Idle EXCEPT !.cmd = c, !.plan = Plan(c.op)]
<1>1. /\ y.cmd = c /\ y.plan = Plan(c.op) /\ y.scan = {} /\ y.locks = {}
      /\ y.authorized = FALSE /\ y.tracks = Idle.tracks
      /\ y.modules = Idle.modules /\ y.items = Idle.items
  BY DEF Idle
<1>2. y \in Transaction
  BY NothingRead, PlanStart DEF Transaction, Idle
<1>3. Copies(y, d)
  BY <1>1 DEF Copies, Idle
<1>4. Covered(y, d)
  BY <1>1, PlanStart DEF Covered
<1>5. ActorFirst(y) /\ OneTable(y) /\ Held(y) = {}
  BY <1>1, PlanStart DEF ActorFirst, OneTable, Held
<1> SUFFICES Sound(y, d)
  OBVIOUS
<1> HIDE DEF y
<1> QED BY <1>1, <1>2, <1>3, <1>4, <1>5, PlanStart, CommandOps DEF Sound

\* Whoever waits for nothing after its first statement has locked its actor.
LEMMA ActorLocked ==
  ASSUME NEW d, NEW x, Sound(x, d), x.cmd \in Commands, x.scan = {},
         x.plan # Plan(x.cmd.op)
  PROVE  /\ <<"account", x.cmd.actor>> \in x.locks
         /\ x.authorized <=> x.cmd.actor \in d.admins
  BY CommandOps DEF Sound, ActorFirst, Copies, Held

\* The rows a statement finds, in given tables.
Sought(statement, c, d) ==
  CASE statement = "actor" -> {<<"account", c.actor>>}
    [] statement = "state" -> {<<"state", 1>>}
    [] statement = "track" -> {<<"track", t>> : t \in Used(d) \cap {c.track}}
    [] statement = "tracks" -> {<<"track", t>> : t \in Used(d)}
    [] statement = "modules" -> {<<"module", m>> : m \in Inside(d, c.track)}
    [] statement = "module" ->
         {<<"module", m>> : m \in {k \in {c.module} : Exists(d.modules[k])}}
    [] statement = "items" -> {<<"item", i>> : i \in Contents(d, c.module)}
    [] statement = "item" ->
         {<<"item", i>> : i \in {k \in {c.item} : Exists(d.items[k])}}

LEMMA SoughtRows ==
  ASSUME NEW c, NEW d
  PROVE  /\ Sought("actor", c, d) = {<<"account", c.actor>>}
         /\ Sought("state", c, d) = {<<"state", 1>>}
         /\ Sought("track", c, d) = {<<"track", t>> : t \in Used(d) \cap {c.track}}
         /\ Sought("tracks", c, d) = {<<"track", t>> : t \in Used(d)}
         /\ Sought("modules", c, d) = {<<"module", m>> : m \in Inside(d, c.track)}
         /\ Sought("module", c, d) =
              {<<"module", m>> : m \in {k \in {c.module} : Exists(d.modules[k])}}
         /\ Sought("items", c, d) = {<<"item", i>> : i \in Contents(d, c.module)}
         /\ Sought("item", c, d) =
              {<<"item", i>> : i \in {k \in {c.item} : Exists(d.items[k])}}
<1>1. Sought("actor", c, d) = {<<"account", c.actor>>}
  BY DEF Sought
<1>2. Sought("state", c, d) = {<<"state", 1>>}
  BY DEF Sought
<1>3. Sought("track", c, d) = {<<"track", t>> : t \in Used(d) \cap {c.track}}
  BY DEF Sought
<1>4. Sought("tracks", c, d) = {<<"track", t>> : t \in Used(d)}
  BY DEF Sought
<1>5. Sought("modules", c, d) = {<<"module", m>> : m \in Inside(d, c.track)}
  BY DEF Sought
<1>6. Sought("module", c, d) =
        {<<"module", m>> : m \in {k \in {c.module} : Exists(d.modules[k])}}
  BY DEF Sought
<1>7. Sought("items", c, d) = {<<"item", i>> : i \in Contents(d, c.module)}
  BY DEF Sought
<1>8. Sought("item", c, d) =
        {<<"item", i>> : i \in {k \in {c.item} : Exists(d.items[k])}}
  BY DEF Sought
<1> QED BY <1>1, <1>2, <1>3, <1>4, <1>5, <1>6, <1>7, <1>8

\* What the start of a statement has to find, to keep the transaction sound.
LEMMA StatementSound ==
  ASSUME NEW d, WellFormed(d), NEW x, Sound(x, d), x.cmd \in Commands,
         x.scan = {}, x.plan # Plan(x.cmd.op),
         NEW S \in SUBSET Row, NEW q,
         q \in Suffixes(x.cmd.op),
         q \in {<<>>, <<"tracks">>, <<"modules">>, <<"items">>},
         \A r, s \in S : r[1] = s[1],
         \A r \in S : Reachable(x.cmd, r, d),
         Covered([x EXCEPT !.scan = S, !.plan = q], d)
  PROVE  Sound([x EXCEPT !.scan = S, !.plan = q], d)
<1> DEFINE y == [x EXCEPT !.scan = S, !.plan = q]
<1> SUFFICES Sound(y, d)
  OBVIOUS
<1>1. x \in Transaction
  BY DEF Sound
<1>2. /\ y.cmd = x.cmd /\ y.plan = q /\ y.scan = S /\ y.locks = x.locks
      /\ y.authorized = x.authorized /\ y.order = x.order
      /\ y.count = x.count /\ y.tracks = x.tracks
      /\ y.modules = x.modules /\ y.items = x.items
  BY <1>1 DEF Transaction
<1>3. q \in Plans
  BY PlanStart
<1>4. y \in Transaction
  BY <1>1, <1>3 DEF Transaction
<1>5. <<"account", x.cmd.actor>> \in x.locks
  BY ActorLocked
<1>6. q # Plan(x.cmd.op) /\ q # Tail(Plan(x.cmd.op))
  BY PlanStart
<1>7. Covered(y, d)
  OBVIOUS
<1> HIDE DEF y
<1>8. Copies(y, d)
  BY <1>2 DEF Sound, Copies
<1>9. ActorFirst(y)
  BY <1>2, <1>5, <1>6 DEF ActorFirst
<1>10. OneTable(y)
  BY <1>2 DEF OneTable
<1>11. \A r \in Held(y) : Reachable(y.cmd, r, d)
  BY <1>2 DEF Held, Sound
<1>12. y.cmd # NoCommand
  BY <1>2, CommandOps
<1> QED BY <1>2, <1>4, <1>7, <1>8, <1>9, <1>10, <1>11, <1>12 DEF Sound

\* A statement starts: it finds all the rows it is meant for.
LEMMA StartSound ==
  ASSUME NEW d, WellFormed(d), NEW x, Sound(x, d), x.cmd \in Commands,
         x.scan = {}, x.plan # <<>>, ~Settled(x)
  PROVE  Sound([x EXCEPT !.scan = Sought(Head(x.plan), x.cmd, d),
                         !.plan = Tail(x.plan)], d)
<1> DEFINE c == x.cmd
           S == Sought(Head(x.plan), c, d)
           y == [x EXCEPT !.scan = S, !.plan = Tail(x.plan)]
<1> SUFFICES Sound(y, d)
  OBVIOUS
<1>1. x \in Transaction /\ x.plan \in Suffixes(c.op)
  BY DEF Sound
<1>2. /\ y.cmd = c /\ y.plan = Tail(x.plan) /\ y.scan = S
      /\ y.locks = x.locks /\ Held(y) = x.locks \cup S
  BY <1>1 DEF Transaction, Held
<1>3. /\ d.tracks \in [Tracks -> TrackRow] /\ d.modules \in [Modules -> ModuleRow]
      /\ d.items \in [Items -> ItemRow]
  BY DEF WellFormed, Tables
<1>4. \A m \in Modules : \A t \in Tracks :
        d.modules[m].track = t => Exists(d.modules[m])
  BY CatalogKeysAssumption DEF WellFormed
<1>5. \A i \in Items : \A m \in Modules :
        d.items[i].module = m => Exists(d.items[i])
  BY CatalogKeysAssumption DEF WellFormed
<1>6. x.locks # {} <=> x.plan # Plan(c.op)
  BY PlanStart, ActorLocked, CommandOps DEF Sound, ActorFirst, Held
<1>7. ASSUME x.plan # Plan(c.op), S \subseteq Row,
             Tail(x.plan) \in {<<>>, <<"tracks">>, <<"modules">>, <<"items">>},
             Tail(x.plan) \in Suffixes(c.op),
             \A r, s \in S : r[1] = s[1], \A r \in S : Reachable(c, r, d),
             Covered(y, d)
      PROVE  Sound(y, d)
  BY <1>7, StatementSound
<1>8. x.plan # Plan(c.op) =>
        /\ <<"account", c.actor>> \in x.locks
        /\ c.op \in ModuleReaders /\ x.plan = <<"modules">> =>
             Exists(x.tracks[c.track])
  BY <1>6, ActorLocked DEF Settled, ModuleReaders
<1>9. ASSUME NEW t \in Tracks, Exists(x.tracks[t])
      PROVE  <<"track", t>> \in x.locks
  BY <1>9 DEF Sound, Copies, Exists, AbsentTrack
<1> HIDE DEF y
<1>10. CASE x.plan = Plan(c.op)
  <2>1. S = {<<"account", c.actor>>} /\ S \subseteq Row
    BY <1>10, PlanStart, SoughtRows, CommandOps DEF Row
  <2>2. y.plan = Tail(Plan(c.op)) /\ x.locks = {} /\ Held(y) = S
    BY <1>2, <1>6, <1>10
  <2>3. y \in Transaction
    BY <1>1, <1>2, <2>1, <2>2, PlanStart DEF Transaction, y
  <2>4. Copies(y, d)
    <3>1. /\ y.authorized = x.authorized /\ y.order = x.order
          /\ y.count = x.count /\ y.tracks = x.tracks
          /\ y.modules = x.modules /\ y.items = x.items
      BY <1>1 DEF Transaction, y
    <3> QED BY <1>2, <3>1 DEF Sound, Copies
  <2>5. Covered(y, d)
    BY <2>2, <1>2, PlanStart DEF Covered
  <2>6. ActorFirst(y)
    <3>1. Tail(Plan(c.op)) # Plan(c.op) /\ Held(y) = {<<"account", c.actor>>}
      BY <2>1, <2>2, PlanStart
    <3> HIDE DEF S
    <3> QED BY <1>2, <2>2, <3>1 DEF ActorFirst
  <2>8. OneTable(y)
    BY <1>2, <2>1 DEF OneTable
  <2>7. \A r \in Held(y) : Reachable(c, r, d)
    BY <2>1, <2>2 DEF Reachable
  <2> QED BY <1>2, <2>2, <2>3, <2>4, <2>5, <2>6, <2>7, <2>8, PlanStart,
          CommandOps DEF Sound
<1>11. CASE /\ c.op = "create_track" /\ x.plan = <<"state">>
            /\ Head(x.plan) = "state" /\ Tail(x.plan) = <<>>
  <2>1. S = {<<"state", 1>>}
    BY <1>11, SoughtRows
  <2>2. \A r \in S : r[1] = "state" /\ Reachable(c, r, d) /\ r \in Row
    BY <2>1, <1>11, CommandOps DEF Row, Reachable
  <2>3. x.plan # Plan(c.op) /\ Tail(x.plan) \in Suffixes(c.op)
    BY <1>11, PlanStart, PlanValues, SuffixValues
  <2>4. Covered(y, d)
    BY <1>2, <1>11, <2>1, <2>3, CommandOps
       DEF Covered, Sound, TrackReaders, ModuleReaders
  <2> HIDE DEF S
  <2> QED BY <1>7, <1>11, <2>2, <2>3, <2>4
<1>12. CASE /\ c.op = "move_track" /\ x.plan = <<"state", "tracks">>
            /\ Head(x.plan) = "state" /\ Tail(x.plan) = <<"tracks">>
  <2>1. S = {<<"state", 1>>}
    BY <1>12, SoughtRows
  <2>2. \A r \in S : r[1] = "state" /\ Reachable(c, r, d) /\ r \in Row
    BY <2>1, <1>12, CommandOps DEF Row, Reachable
  <2>3. x.plan # Plan(c.op) /\ Tail(x.plan) \in Suffixes(c.op)
    BY <1>12, PlanStart, PlanValues, SuffixValues
  <2>4. Covered(y, d)
    BY <1>2, <1>12, <2>1, <2>3, CommandOps
       DEF Covered, Sound, TrackReaders, ModuleReaders
  <2> HIDE DEF S
  <2> QED BY <1>7, <1>12, <2>2, <2>3, <2>4
<1>13. CASE /\ c.op = "move_track" /\ x.plan = <<"tracks">>
            /\ Head(x.plan) = "tracks" /\ Tail(x.plan) = <<>>
  <2>1. S = {<<"track", t>> : t \in Used(d)}
    BY <1>13, SoughtRows
  <2>2. \A r \in S : r[1] = "track" /\ Reachable(c, r, d) /\ r \in Row
    BY <2>1, <1>13, CommandOps DEF Row, Reachable, Used
  <2>3. x.plan # Plan(c.op) /\ Tail(x.plan) \in Suffixes(c.op)
    BY <1>13, PlanStart, PlanValues, SuffixValues
  <2>4. Covered(y, d)
    BY <1>2, <1>13, <2>1, <2>3, CommandOps
       DEF Covered, Sound, TrackReaders, ModuleReaders, Held
  <2> HIDE DEF S
  <2> QED BY <1>7, <1>13, <2>2, <2>3, <2>4
<1>14. CASE /\ c.op = "edit_track" /\ x.plan = <<"track">>
            /\ Head(x.plan) = "track" /\ Tail(x.plan) = <<>>
  <2>1. S = {<<"track", t>> : t \in Used(d) \cap {c.track}}
    BY <1>14, SoughtRows
  <2>2. \A r \in S : r[1] = "track" /\ Reachable(c, r, d) /\ r \in Row
    BY <2>1, <1>14, CommandOps DEF Row, Reachable, Used, TrackReaders, ModuleReaders
  <2>3. x.plan # Plan(c.op) /\ Tail(x.plan) \in Suffixes(c.op)
    BY <1>14, PlanStart, PlanValues, SuffixValues
  <2>4. Covered(y, d)
    BY <1>2, <1>14, <2>1, <2>3, CommandOps
       DEF Covered, Sound, TrackReaders, ModuleReaders, Used
  <2> HIDE DEF S
  <2> QED BY <1>7, <1>14, <2>2, <2>3, <2>4
<1>15. CASE /\ c.op \in ModuleReaders /\ x.plan = <<"track", "modules">>
            /\ Head(x.plan) = "track" /\ Tail(x.plan) = <<"modules">>
  <2>1. S = {<<"track", t>> : t \in Used(d) \cap {c.track}}
    BY <1>15, SoughtRows
  <2>2. \A r \in S : r[1] = "track" /\ Reachable(c, r, d) /\ r \in Row
    BY <2>1, <1>15, CommandOps DEF Row, Reachable, Used, TrackReaders, ModuleReaders
  <2>3. x.plan # Plan(c.op) /\ Tail(x.plan) \in Suffixes(c.op)
    BY <1>15, PlanStart, PlanValues, SuffixValues
  <2>4. Covered(y, d)
    BY <1>2, <1>15, <2>1, <2>3, CommandOps
       DEF Covered, Sound, TrackReaders, ModuleReaders, Used
  <2> HIDE DEF S
  <2> QED BY <1>7, <1>15, <2>2, <2>3, <2>4
<1>16. CASE /\ c.op \in ModuleReaders /\ x.plan = <<"modules">>
            /\ Head(x.plan) = "modules" /\ Tail(x.plan) = <<>>
  <2>1. S = {<<"module", m>> : m \in Inside(d, c.track)}
    BY <1>16, SoughtRows
  <2>2. \A r \in S : r[1] = "module" /\ Reachable(c, r, d) /\ r \in Row
    BY <2>1, <1>16, <1>4, CommandOps DEF Row, Reachable, Inside, TrackReaders, ModuleReaders
  <2>3. x.plan # Plan(c.op) /\ Tail(x.plan) \in Suffixes(c.op)
    BY <1>16, PlanStart, PlanValues, SuffixValues
  <2>4. Covered(y, d)
    BY <1>2, <1>16, <2>1, <2>3, <1>8, <1>9, CommandOps
       DEF Covered, Sound, TrackReaders, ModuleReaders, Held
  <2> HIDE DEF S
  <2> QED BY <1>7, <1>16, <2>2, <2>3, <2>4
<1>17. CASE /\ c.op = "create_content_draft" /\ x.plan = <<"module", "items">>
            /\ Head(x.plan) = "module" /\ Tail(x.plan) = <<"items">>
  <2>1. S = {<<"module", m>> : m \in {k \in {c.module} : Exists(d.modules[k])}}
    BY <1>17, SoughtRows
  <2>2. \A r \in S : r[1] = "module" /\ Reachable(c, r, d) /\ r \in Row
    BY <2>1, <1>17, CommandOps DEF Row, Reachable
  <2>3. x.plan # Plan(c.op) /\ Tail(x.plan) \in Suffixes(c.op)
    BY <1>17, PlanStart, PlanValues, SuffixValues
  <2>4. Covered(y, d)
    BY <1>2, <1>17, <2>1, <2>3, CommandOps
       DEF Covered, Sound, TrackReaders, ModuleReaders
  <2> HIDE DEF S
  <2> QED BY <1>7, <1>17, <2>2, <2>3, <2>4
<1>18. CASE /\ c.op = "create_content_draft" /\ x.plan = <<"items">>
            /\ Head(x.plan) = "items" /\ Tail(x.plan) = <<>>
  <2>1. S = {<<"item", i>> : i \in Contents(d, c.module)}
    BY <1>18, SoughtRows
  <2>2. \A r \in S : r[1] = "item" /\ Reachable(c, r, d) /\ r \in Row
    BY <2>1, <1>18, <1>5, CommandOps DEF Row, Reachable, Contents
  <2>3. x.plan # Plan(c.op) /\ Tail(x.plan) \in Suffixes(c.op)
    BY <1>18, PlanStart, PlanValues, SuffixValues
  <2>4. Covered(y, d)
    BY <1>2, <1>18, <2>1, <2>3, CommandOps
       DEF Covered, Sound, TrackReaders, ModuleReaders, Held
  <2> HIDE DEF S
  <2> QED BY <1>7, <1>18, <2>2, <2>3, <2>4
<1>19. CASE /\ c.op = "publish_content_item" /\ x.plan = <<"item">>
            /\ Head(x.plan) = "item" /\ Tail(x.plan) = <<>>
  <2>1. S = {<<"item", i>> : i \in {k \in {c.item} : Exists(d.items[k])}}
    BY <1>19, SoughtRows
  <2>2. \A r \in S : r[1] = "item" /\ Reachable(c, r, d) /\ r \in Row
    BY <2>1, <1>19, CommandOps DEF Row, Reachable
  <2>3. x.plan # Plan(c.op) /\ Tail(x.plan) \in Suffixes(c.op)
    BY <1>19, PlanStart, PlanValues, SuffixValues
  <2>4. Covered(y, d)
    BY <1>2, <1>19, <2>1, <2>3, CommandOps
       DEF Covered, Sound, TrackReaders, ModuleReaders
  <2> HIDE DEF S
  <2> QED BY <1>7, <1>19, <2>2, <2>3, <2>4
<1>20. c \in Commands /\ x.plan \in Suffixes(c.op) /\ x.plan # <<>>
  BY <1>1
<1> HIDE DEF S, c
<1>21. \/ x.plan = Plan(c.op)
       \/ /\ c.op = "create_track" /\ x.plan = <<"state">>
          /\ Head(x.plan) = "state" /\ Tail(x.plan) = <<>>
       \/ /\ c.op = "move_track" /\ x.plan = <<"state", "tracks">>
          /\ Head(x.plan) = "state" /\ Tail(x.plan) = <<"tracks">>
       \/ /\ c.op = "move_track" /\ x.plan = <<"tracks">>
          /\ Head(x.plan) = "tracks" /\ Tail(x.plan) = <<>>
       \/ /\ c.op = "edit_track" /\ x.plan = <<"track">>
          /\ Head(x.plan) = "track" /\ Tail(x.plan) = <<>>
       \/ /\ c.op \in ModuleReaders /\ x.plan = <<"track", "modules">>
          /\ Head(x.plan) = "track" /\ Tail(x.plan) = <<"modules">>
       \/ /\ c.op \in ModuleReaders /\ x.plan = <<"modules">>
          /\ Head(x.plan) = "modules" /\ Tail(x.plan) = <<>>
       \/ /\ c.op = "create_content_draft" /\ x.plan = <<"module", "items">>
          /\ Head(x.plan) = "module" /\ Tail(x.plan) = <<"items">>
       \/ /\ c.op = "create_content_draft" /\ x.plan = <<"items">>
          /\ Head(x.plan) = "items" /\ Tail(x.plan) = <<>>
       \/ /\ c.op = "publish_content_item" /\ x.plan = <<"item">>
          /\ Head(x.plan) = "item" /\ Tail(x.plan) = <<>>
  BY <1>20, NextStatement
<1> QED BY <1>10, <1>11, <1>12, <1>13, <1>14, <1>15, <1>16, <1>17, <1>18,
           <1>19, <1>21, ZenonT(60)

\* A transaction once it has locked row r and read it in given tables.
Granted(x, r, d) ==
  LET read == [x EXCEPT !.scan = @ \ {r}, !.locks = @ \cup {r}]
  IN CASE r[1] = "account" -> [read EXCEPT !.authorized = r[2] \in d.admins]
       [] r[1] = "state" -> [read EXCEPT !.order = d.order,
                                         !.count = Cardinality(Used(d))]
       [] r[1] = "track" -> [read EXCEPT !.tracks[r[2]] = d.tracks[r[2]]]
       [] r[1] = "module" -> [read EXCEPT !.modules[r[2]] = d.modules[r[2]]]
       [] r[1] = "item" -> [read EXCEPT !.items[r[2]] = d.items[r[2]]]

LEMMA GrantedFields ==
  ASSUME NEW x \in Transaction, NEW r \in Row, NEW d, WellFormed(d)
  PROVE  /\ Granted(x, r, d) \in Transaction
         /\ Granted(x, r, d).cmd = x.cmd
         /\ Granted(x, r, d).plan = x.plan
         /\ Granted(x, r, d).scan = x.scan \ {r}
         /\ Granted(x, r, d).locks = x.locks \cup {r}
         /\ r[1] # "account" => Granted(x, r, d).authorized = x.authorized
         /\ r[1] = "account" =>
              (Granted(x, r, d).authorized <=> r[2] \in d.admins)
         /\ IF r[1] = "state"
            THEN /\ Granted(x, r, d).order = d.order
                 /\ Granted(x, r, d).count = Cardinality(Used(d))
            ELSE /\ Granted(x, r, d).order = x.order
                 /\ Granted(x, r, d).count = x.count
         /\ \A t \in Tracks : Granted(x, r, d).tracks[t] =
              IF r = <<"track", t>> THEN d.tracks[t] ELSE x.tracks[t]
         /\ \A m \in Modules : Granted(x, r, d).modules[m] =
              IF r = <<"module", m>> THEN d.modules[m] ELSE x.modules[m]
         /\ \A i \in Items : Granted(x, r, d).items[i] =
              IF r = <<"item", i>> THEN d.items[i] ELSE x.items[i]
<1> DEFINE y == Granted(x, r, d)
           read == [x EXCEPT !.scan = @ \ {r}, !.locks = @ \cup {r}]
<1>1. /\ d.order \in Nat /\ Cardinality(Used(d)) \in Nat
      /\ d.tracks \in [Tracks -> TrackRow] /\ d.modules \in [Modules -> ModuleRow]
      /\ d.items \in [Items -> ItemRow]
  <2>1. IsFiniteSet(Used(d))
    BY CatalogKeysAssumption, FS_Subset DEF Used
  <2> QED BY <2>1, FS_CardinalityType DEF WellFormed, Tables
<1>2. /\ read \in Transaction
      /\ read.cmd = x.cmd /\ read.plan = x.plan /\ read.scan = x.scan \ {r}
      /\ read.locks = x.locks \cup {r} /\ read.authorized = x.authorized
      /\ read.order = x.order /\ read.count = x.count /\ read.tracks = x.tracks
      /\ read.modules = x.modules /\ read.items = x.items
  BY DEF Transaction
<1> HIDE DEF read
<1>3. CASE r[1] = "account"
  <2>1. y = [read EXCEPT !.authorized = r[2] \in d.admins]
    BY <1>3 DEF Granted, read
  <2>6. \A b \in BOOLEAN : [read EXCEPT !.authorized = b] \in Transaction
    BY <1>2 DEF Transaction
  <2>7. (r[2] \in d.admins) \in BOOLEAN
    OBVIOUS
  <2>2. y \in Transaction
    BY <2>1, <2>6, <2>7, Zenon
  <2>3. \A t \in Tracks \cup Modules \cup Items :
          r # <<"track", t>> /\ r # <<"module", t>> /\ r # <<"item", t>>
    BY <1>3
  <2>4. /\ y.cmd = read.cmd /\ y.plan = read.plan /\ y.scan = read.scan
        /\ y.locks = read.locks /\ y.order = read.order /\ y.count = read.count
        /\ y.tracks = read.tracks /\ y.modules = read.modules
        /\ y.items = read.items
    BY <1>2, <2>1 DEF Transaction
  <2>5. y.authorized <=> r[2] \in d.admins
    BY <1>2, <2>1 DEF Transaction
  <2> HIDE DEF y
  <2> QED BY <1>2, <1>3, <2>2, <2>3, <2>4, <2>5 DEF y
<1>4. CASE r[1] = "state"
  <2>1. y = [read EXCEPT !.order = d.order, !.count = Cardinality(Used(d))]
    BY <1>4 DEF Granted, read
  <2>2. y \in Transaction
    BY <1>1, <1>2, <2>1 DEF Transaction
  <2>3. \A t \in Tracks \cup Modules \cup Items :
          r # <<"track", t>> /\ r # <<"module", t>> /\ r # <<"item", t>>
    BY <1>4
  <2>4. /\ y.cmd = read.cmd /\ y.plan = read.plan /\ y.scan = read.scan
        /\ y.locks = read.locks /\ y.order = d.order
        /\ y.count = Cardinality(Used(d)) /\ y.authorized = read.authorized
        /\ y.tracks = read.tracks /\ y.modules = read.modules
        /\ y.items = read.items
    BY <1>2, <2>1 DEF Transaction
  <2> HIDE DEF y
  <2> QED BY <1>2, <1>4, <2>2, <2>3, <2>4 DEF y
<1>5. CASE r[1] = "track"
  <2>1. y = [read EXCEPT !.tracks[r[2]] = d.tracks[r[2]]]
    BY <1>5 DEF Granted, read
  <2>2. r[2] \in Tracks /\ r = <<"track", r[2]>>
    BY <1>5, RowShape
  <2>3. y \in Transaction
    BY <1>1, <1>2, <2>1, <2>2 DEF Transaction
  <2>4. /\ y.cmd = read.cmd /\ y.plan = read.plan /\ y.scan = read.scan
        /\ y.locks = read.locks /\ y.order = read.order
        /\ y.count = read.count /\ y.authorized = read.authorized
        /\ y.tracks = [read.tracks EXCEPT ![r[2]] = d.tracks[r[2]]]
        /\ y.modules = read.modules /\ y.items = read.items
    BY <1>2, <2>1 DEF Transaction
  <2>5. \A t \in Tracks : y.tracks[t] =
          IF r = <<"track", t>> THEN d.tracks[t] ELSE x.tracks[t]
    BY <1>2, <2>2, <2>4 DEF Transaction
  <2>6. \A t \in Modules \cup Items : r # <<"module", t>> /\ r # <<"item", t>>
    BY <1>5
  <2> HIDE DEF y
  <2> QED BY <1>2, <1>5, <2>3, <2>4, <2>5, <2>6 DEF y
<1>6. CASE r[1] = "module"
  <2>1. y = [read EXCEPT !.modules[r[2]] = d.modules[r[2]]]
    BY <1>6 DEF Granted, read
  <2>2. r[2] \in Modules /\ r = <<"module", r[2]>>
    BY <1>6, RowShape
  <2>3. y \in Transaction
    BY <1>1, <1>2, <2>1, <2>2 DEF Transaction
  <2>4. /\ y.cmd = read.cmd /\ y.plan = read.plan /\ y.scan = read.scan
        /\ y.locks = read.locks /\ y.order = read.order
        /\ y.count = read.count /\ y.authorized = read.authorized
        /\ y.modules = [read.modules EXCEPT ![r[2]] = d.modules[r[2]]]
        /\ y.tracks = read.tracks /\ y.items = read.items
    BY <1>2, <2>1 DEF Transaction
  <2>5. \A m \in Modules : y.modules[m] =
          IF r = <<"module", m>> THEN d.modules[m] ELSE x.modules[m]
    BY <1>2, <2>2, <2>4 DEF Transaction
  <2>6. \A t \in Tracks \cup Items : r # <<"track", t>> /\ r # <<"item", t>>
    BY <1>6
  <2> HIDE DEF y
  <2> QED BY <1>2, <1>6, <2>3, <2>4, <2>5, <2>6 DEF y
<1>7. CASE r[1] = "item"
  <2>1. y = [read EXCEPT !.items[r[2]] = d.items[r[2]]]
    BY <1>7 DEF Granted, read
  <2>2. r[2] \in Items /\ r = <<"item", r[2]>>
    BY <1>7, RowShape
  <2>3. y \in Transaction
    BY <1>1, <1>2, <2>1, <2>2 DEF Transaction
  <2>4. /\ y.cmd = read.cmd /\ y.plan = read.plan /\ y.scan = read.scan
        /\ y.locks = read.locks /\ y.order = read.order
        /\ y.count = read.count /\ y.authorized = read.authorized
        /\ y.items = [read.items EXCEPT ![r[2]] = d.items[r[2]]]
        /\ y.tracks = read.tracks /\ y.modules = read.modules
    BY <1>2, <2>1 DEF Transaction
  <2>5. \A i \in Items : y.items[i] =
          IF r = <<"item", i>> THEN d.items[i] ELSE x.items[i]
    BY <1>2, <2>2, <2>4 DEF Transaction
  <2>6. \A t \in Tracks \cup Modules : r # <<"track", t>> /\ r # <<"module", t>>
    BY <1>7
  <2> HIDE DEF y
  <2> QED BY <1>2, <1>7, <2>3, <2>4, <2>5, <2>6 DEF y
<1> QED BY <1>3, <1>4, <1>5, <1>6, <1>7, RowShape

\* What is covered stays covered as the rows found are locked.
LEMMA StaysCovered ==
  ASSUME NEW x, NEW y, NEW d, Covered(x, d),
         y.cmd = x.cmd, y.plan = x.plan, Held(y) = Held(x),
         x.locks \subseteq y.locks
  PROVE  Covered(y, d)
  BY DEF Covered

\* A row is granted and read.
LEMMA GrantSound ==
  ASSUME NEW d, WellFormed(d), NEW x, Sound(x, d), x.cmd \in Commands,
         NEW r \in x.scan
  PROVE  Sound(Granted(x, r, d), d)
<1> DEFINE y == Granted(x, r, d)
<1>1. x \in Transaction /\ r \in Row
  BY DEF Sound, Transaction
<1>2. /\ y.cmd = x.cmd /\ y.plan = x.plan /\ y.scan = x.scan \ {r}
      /\ y.locks = x.locks \cup {r} /\ y \in Transaction
  BY <1>1, GrantedFields
<1>3. Held(y) = Held(x)
  BY <1>2 DEF Held
<1>4. Copies(y, d)
  <2>1. r[1] = "account" => r = <<"account", x.cmd.actor>>
    BY DEF Sound, Held, Reachable
  <2>2. y.authorized <=> <<"account", y.cmd.actor>> \in y.locks
                           /\ y.cmd.actor \in d.admins
    <3>1. CASE r[1] = "account"
      BY <1>1, <1>2, <2>1, <3>1, GrantedFields
    <3>2. CASE r[1] # "account"
      BY <1>1, <1>2, <3>2, GrantedFields DEF Sound, Copies
    <3> QED BY <3>1, <3>2
  <2>3. <<"state", 1>> \in y.locks =>
          y.order = d.order /\ y.count = Cardinality(Used(d))
    <3>1. CASE r[1] = "state"
      BY <1>1, <3>1, GrantedFields
    <3>2. CASE r[1] # "state"
      BY <1>1, <1>2, <3>2, GrantedFields DEF Sound, Copies
    <3> QED BY <3>1, <3>2
  <2>4. ASSUME NEW t \in Tracks
        PROVE  y.tracks[t] =
          IF <<"track", t>> \in y.locks THEN d.tracks[t] ELSE AbsentTrack
    <3>1. y.tracks[t] = IF r = <<"track", t>> THEN d.tracks[t] ELSE x.tracks[t]
      BY <1>1, GrantedFields
    <3>2. x.tracks[t] =
            IF <<"track", t>> \in x.locks THEN d.tracks[t] ELSE AbsentTrack
      BY DEF Sound, Copies
    <3> HIDE DEF y
    <3> QED BY <1>2, <3>1, <3>2
  <2>5. ASSUME NEW m \in Modules
        PROVE  y.modules[m] =
          IF <<"module", m>> \in y.locks THEN d.modules[m] ELSE AbsentModule
    <3>1. y.modules[m] = IF r = <<"module", m>> THEN d.modules[m] ELSE x.modules[m]
      BY <1>1, GrantedFields
    <3>2. x.modules[m] =
            IF <<"module", m>> \in x.locks THEN d.modules[m] ELSE AbsentModule
      BY DEF Sound, Copies
    <3> HIDE DEF y
    <3> QED BY <1>2, <3>1, <3>2
  <2>6. ASSUME NEW i \in Items
        PROVE  y.items[i] =
          IF <<"item", i>> \in y.locks THEN d.items[i] ELSE AbsentItem
    <3>1. y.items[i] = IF r = <<"item", i>> THEN d.items[i] ELSE x.items[i]
      BY <1>1, GrantedFields
    <3>2. x.items[i] =
            IF <<"item", i>> \in x.locks THEN d.items[i] ELSE AbsentItem
      BY DEF Sound, Copies
    <3> HIDE DEF y
    <3> QED BY <1>2, <3>1, <3>2
  <2> HIDE DEF y
  <2> QED BY <2>2, <2>3, <2>4, <2>5, <2>6 DEF Copies
<1> HIDE DEF y
<1>5. Covered(y, d)
  BY <1>2, <1>3, StaysCovered DEF Sound
<1>6. ActorFirst(y)
  BY <1>2, <1>3 DEF Sound, ActorFirst
<1>7. OneTable(y)
  BY <1>2 DEF Sound, OneTable
<1>8. Sound(y, d)
  BY <1>2, <1>3, <1>4, <1>5, <1>6, <1>7, CommandOps DEF Sound
<1> QED BY <1>8 DEF y

-----------------------------------------------------------------------------
(* What the commits of others preserve *)

\* The rows that a commit changes from tables d to tables e are locked in L or
\* new, rows stay with their owner and a new module joins a track that exists,
\* and a set of siblings or the number of tracks changes only under the lock of
\* the owner or of the catalog state.
WritesLocked(L, d, e) ==
  /\ e.admins = d.admins
  /\ \A t \in Tracks :
       /\ e.tracks[t] # d.tracks[t] => <<"track", t>> \in L \/ t \notin Used(d)
       /\ t \in Used(d) => t \in Used(e)
       /\ Inside(e, t) # Inside(d, t) => <<"track", t>> \in L
  /\ \A m \in Modules :
       /\ e.modules[m] # d.modules[m] =>
            <<"module", m>> \in L \/ ~Exists(d.modules[m])
       /\ Exists(d.modules[m]) =>
            Exists(e.modules[m]) /\ e.modules[m].track = d.modules[m].track
       /\ ~Exists(d.modules[m]) /\ Exists(e.modules[m]) =>
            e.modules[m].track \in Used(d)
       /\ Contents(e, m) # Contents(d, m) => <<"module", m>> \in L
  /\ \A i \in Items :
       /\ e.items[i] # d.items[i] =>
            <<"item", i>> \in L \/ ~Exists(d.items[i])
       /\ Exists(d.items[i]) =>
            Exists(e.items[i]) /\ e.items[i].module = d.items[i].module
  /\ e.order # d.order \/ Used(e) # Used(d) => <<"state", 1>> \in L

\* The new rows are not named by command c.
Spares(c, d, e) ==
  /\ c.op \in TrackReaders =>
       (Exists(e.tracks[c.track]) => Exists(d.tracks[c.track]))
  /\ c.op = "create_content_draft" =>
       (Exists(e.modules[c.module]) => Exists(d.modules[c.module]))
  /\ c.op = "publish_content_item" =>
       (Exists(e.items[c.item]) => Exists(d.items[c.item]))

LEMMA OthersSound ==
  ASSUME NEW d, NEW e, WellFormed(d), WellFormed(e), NEW L, WritesLocked(L, d, e),
         NEW y, Sound(y, d), y.locks \cap L = {},
         y.cmd \in Commands \cup {NoCommand}, Spares(y.cmd, d, e)
  PROVE  Sound(y, e)
<1> DEFINE c == y.cmd
<1>0. CASE c = NoCommand
  BY <1>0, NothingRead DEF Sound
<1>1. CASE c \in Commands
  <2>1. y \in Transaction /\ y.plan \in Suffixes(c.op)
    BY DEF Sound
  <2>2. \A r \in Held(y) : Reachable(c, r, e)
    <3>1. ASSUME NEW r, Reachable(c, r, d)
          PROVE  Reachable(c, r, e)
      BY <3>1 DEF Reachable, WritesLocked, Used
    <3> QED BY <3>1 DEF Sound
  <2>3. Copies(y, e)
    <3>1. ASSUME NEW t \in Tracks, <<"track", t>> \in y.locks
          PROVE  e.tracks[t] = d.tracks[t]
      <4>1. t \in Used(d)
        BY <3>1 DEF Sound, Held, Reachable
      <4> QED BY <3>1, <4>1 DEF WritesLocked
    <3>2. ASSUME NEW m \in Modules, <<"module", m>> \in y.locks
          PROVE  e.modules[m] = d.modules[m]
      <4>1. Exists(d.modules[m])
        BY <3>2 DEF Sound, Held, Reachable
      <4> QED BY <3>2, <4>1 DEF WritesLocked
    <3>3. ASSUME NEW i \in Items, <<"item", i>> \in y.locks
          PROVE  e.items[i] = d.items[i]
      <4>1. Exists(d.items[i])
        BY <3>3 DEF Sound, Held, Reachable
      <4> QED BY <3>3, <4>1 DEF WritesLocked
    <3>4. <<"state", 1>> \in y.locks => e.order = d.order /\ Used(e) = Used(d)
      BY DEF WritesLocked
    <3>5. e.admins = d.admins
      BY DEF WritesLocked
    <3>6. \A t \in Tracks : y.tracks[t] =
            IF <<"track", t>> \in y.locks THEN e.tracks[t] ELSE AbsentTrack
      BY <3>1 DEF Sound, Copies
    <3>7. \A m \in Modules : y.modules[m] =
            IF <<"module", m>> \in y.locks THEN e.modules[m] ELSE AbsentModule
      BY <3>2 DEF Sound, Copies
    <3>8. \A i \in Items : y.items[i] =
            IF <<"item", i>> \in y.locks THEN e.items[i] ELSE AbsentItem
      BY <3>3 DEF Sound, Copies
    <3> QED BY <3>4, <3>5, <3>6, <3>7, <3>8 DEF Sound, Copies
  <2>4. Covered(y, e)
    <3>1. Covered(y, d)
      BY DEF Sound
    <3>2. c.op = "move_track" /\ y.plan = <<>> => Used(e) = Used(d)
      BY <3>1 DEF Covered, WritesLocked
    <3>3. c.op \in ModuleReaders /\ y.plan = <<>> =>
            Inside(e, c.track) = Inside(d, c.track)
      <4>1. c.op \in ModuleReaders => c.track \in Tracks
        BY <1>1, CommandOps DEF TrackReaders
      <4> QED BY <3>1, <4>1 DEF Covered, WritesLocked
    <3>4. c.op = "create_content_draft" /\ y.plan = <<>>
                /\ Exists(d.modules[c.module]) =>
            Contents(e, c.module) = Contents(d, c.module)
      <4>1. c.op = "create_content_draft" => c.module \in Modules
        BY <1>1, CommandOps
      <4> QED BY <3>1, <4>1 DEF Covered, WritesLocked
    <3> HIDE DEF c
    <3> QED BY <3>1, <3>2, <3>3, <3>4 DEF Covered, Spares, c
  <2> QED BY <1>1, <2>1, <2>2, <2>3, <2>4, CommandOps DEF Sound
<1> QED BY <1>0, <1>1

\* A role change is not seen by a transaction that locked another account.
LEMMA RoleChangeSound ==
  ASSUME NEW d, WellFormed(d), NEW e, WellFormed(e),
         e.tracks = d.tracks, e.modules = d.modules, e.items = d.items,
         e.order = d.order,
         NEW y, Sound(y, d),
         <<"account", y.cmd.actor>> \in y.locks =>
           (y.cmd.actor \in e.admins <=> y.cmd.actor \in d.admins)
  PROVE  Sound(y, e)
<1>1. /\ Used(e) = Used(d) /\ \A t : Inside(e, t) = Inside(d, t)
      /\ \A m : Contents(e, m) = Contents(d, m)
  BY DEF Used, Inside, Contents
<1>2. Copies(y, e)
  BY <1>1 DEF Sound, Copies
<1>3. Covered(y, e)
  BY <1>1 DEF Sound, Covered
<1>4. \A r \in Held(y) : Reachable(y.cmd, r, e)
  BY <1>1 DEF Sound, Reachable
<1> QED BY <1>2, <1>3, <1>4 DEF Sound

-----------------------------------------------------------------------------
(* What decides: the copies settle the same result as the tables *)

LEMMA Denied ==
  ASSUME NEW a, ~a
  PROVE  /\ \A k, c, f : CreateDecision(a, k, c, f) = "DENIED"
         /\ \A k, r, c, f : EditDecision(a, k, r, c, f) = "DENIED"
         /\ \A k, o, c, n : MoveDecision(a, k, o, c, n) = "DENIED"
         /\ \A r, c, h : TrackStatusDecision(a, r, c, h) = "DENIED"
         /\ \A r, o, c, s : ModuleStatusDecision(a, r, o, c, s) = "DENIED"
<1>1. \A k, c, f : CreateDecision(a, k, c, f) = "DENIED"
  BY DEF CreateDecision, Decision
<1>2. \A k, r, c, f : EditDecision(a, k, r, c, f) = "DENIED"
  BY DEF EditDecision, Decision
<1>3. \A k, o, c, n : MoveDecision(a, k, o, c, n) = "DENIED"
  BY DEF MoveDecision, Decision
<1>4. \A r, c, h : TrackStatusDecision(a, r, c, h) = "DENIED"
  BY DEF TrackStatusDecision, Decision
<1>5. \A r, o, c, s : ModuleStatusDecision(a, r, o, c, s) = "DENIED"
  BY DEF ModuleStatusDecision, Decision
<1> QED BY <1>1, <1>2, <1>3, <1>4, <1>5

LEMMA NotFound ==
  ASSUME NEW a, a, NEW k, ~k
  PROVE  /\ \A r, l, cur, valid : Decision(a, k, r, l, cur, valid) = "NOT_FOUND"
         /\ \A c, f : CreateDecision(a, k, c, f) = "NOT_FOUND"
         /\ \A r, c, f : EditDecision(a, k, r, c, f) = "NOT_FOUND"
         /\ \A o, c, n : MoveDecision(a, k, o, c, n) = "NOT_FOUND"
<1>1. \A r, l, cur, valid : Decision(a, k, r, l, cur, valid) = "NOT_FOUND"
  BY DEF Decision
<1> QED BY <1>1 DEF CreateDecision, EditDecision, MoveDecision

LEMMA SameCreate ==
  ASSUME NEW a \in BOOLEAN, NEW b \in BOOLEAN, a <=> b,
         NEW k \in BOOLEAN, NEW l \in BOOLEAN, a => (k <=> l),
         NEW c, c.ok \in BOOLEAN, NEW f \in BOOLEAN, NEW g \in BOOLEAN,
         a /\ k /\ c.ok => (f <=> g)
  PROVE  CreateDecision(a, k, c, f) = CreateDecision(b, l, c, g)
<1>1. CASE ~a
  BY <1>1, Denied
<1>2. CASE a /\ ~k
  BY <1>2, NotFound
<1>3. CASE a /\ k
  BY <1>3 DEF CreateDecision, Decision
<1> QED BY <1>1, <1>2, <1>3

LEMMA SameEdit ==
  ASSUME NEW a \in BOOLEAN, NEW b \in BOOLEAN, a <=> b,
         NEW k \in BOOLEAN, NEW l \in BOOLEAN, a => (k <=> l),
         NEW r, NEW s, a /\ k => r = s, NEW c, NEW f \in BOOLEAN
  PROVE  EditDecision(a, k, r, c, f) = EditDecision(b, l, s, c, f)
<1>1. CASE ~a
  BY <1>1, Denied
<1>2. CASE a /\ ~k
  BY <1>2, NotFound
<1>3. CASE a /\ k
  BY <1>3
<1> QED BY <1>1, <1>2, <1>3

LEMMA SameMove ==
  ASSUME NEW a \in BOOLEAN, NEW b \in BOOLEAN, a <=> b,
         NEW k \in BOOLEAN, NEW l \in BOOLEAN, a => (k <=> l),
         NEW o, NEW p, NEW m, NEW n, a /\ k => o = p /\ m = n, NEW c
  PROVE  MoveDecision(a, k, o, c, m) = MoveDecision(b, l, p, c, n)
<1>1. CASE ~a
  BY <1>1, Denied
<1>2. CASE a /\ ~k
  BY <1>2, NotFound
<1>3. CASE a /\ k
  BY <1>3
<1> QED BY <1>1, <1>2, <1>3

LEMMA SameTrackStatus ==
  ASSUME NEW a \in BOOLEAN, NEW b \in BOOLEAN, a <=> b,
         NEW r, NEW s, a => (Exists(r) <=> Exists(s)),
         a /\ Exists(r) => r = s,
         NEW c, c.rev \in Int, NEW h \in BOOLEAN, NEW g \in BOOLEAN,
         a /\ Exists(r) /\ r.revision = c.rev /\ c.target = "ACTIVE"
              /\ r.status # "ACTIVE" => (h <=> g)
  PROVE  TrackStatusDecision(a, r, c, h) = TrackStatusDecision(b, s, c, g)
<1>1. CASE ~a
  BY <1>1, Denied
<1>2. CASE a /\ ~Exists(r)
  <2>1. ~Exists(s)
    BY <1>2
  <2> QED BY ZenonT(60), <1>2, <2>1, NotFound DEF TrackStatusDecision
<1>3. CASE a /\ Exists(r)
  <2>1. r = s
    BY <1>3
  <2>2. CASE r.revision = c.rev
    BY <1>3, <2>1, <2>2 DEF TrackStatusDecision, Decision, Supported, Status
  <2>3. CASE r.revision # c.rev
    BY <1>3, <2>1, <2>3 DEF TrackStatusDecision, Decision
  <2> QED BY <2>2, <2>3
<1> QED BY <1>1, <1>2, <1>3

\* Two tables that agree on the rows of a sequence move it alike.
LEMMA SamePlaces ==
  ASSUME NEW keys, NEW rows, NEW copy, \A k \in keys : copy[k] = rows[k],
         NEW x \in keys, NEW p
  PROVE  /\ \A k \in keys : MovedPosition(copy, keys, x, p, k) =
                              MovedPosition(rows, keys, x, p, k)
         /\ Displaced(copy, keys, x, p) = Displaced(rows, keys, x, p)
         /\ \A k \in keys : Moved(copy, keys, x, p, k) =
                              Moved(rows, keys, x, p, k)
<1>1. \A k \in keys : Index(copy, keys, k) = Index(rows, keys, k)
  BY DEF Index
<1>2. \A k \in keys : MovedPosition(copy, keys, x, p, k) =
                        MovedPosition(rows, keys, x, p, k)
  BY <1>1 DEF MovedPosition
<1>3. Displaced(copy, keys, x, p) = Displaced(rows, keys, x, p)
  BY <1>2 DEF Displaced
<1>4. \A k \in keys : Moved(copy, keys, x, p, k) = Moved(rows, keys, x, p, k)
  BY <1>2, <1>3 DEF Moved
<1> QED BY <1>2, <1>3, <1>4

\* Who decides has locked its actor, and reads current authority.
LEMMA DecidesAuthorized ==
  ASSUME NEW d, NEW x, Sound(x, d), x.cmd \in Commands, x.scan = {},
         Settled(x) \/ x.plan = <<>>
  PROVE  /\ <<"account", x.cmd.actor>> \in x.locks
         /\ x.authorized \in BOOLEAN
         /\ x.authorized <=> x.cmd.actor \in d.admins
<1>1. x.plan # Plan(x.cmd.op)
  BY PlanStart, CommandOps DEF Sound, ActorFirst, Held, Settled
<1> QED BY <1>1, ActorLocked DEF Sound, Transaction

\* The rows that were read are the locked ones.
LEMMA ReadRows ==
  ASSUME NEW d, WellFormed(d), NEW x, Sound(x, d), x.scan = {}
  PROVE  /\ \A t \in Tracks : /\ Exists(x.tracks[t]) <=> <<"track", t>> \in x.locks
                              /\ Exists(x.tracks[t]) =>
                                   Exists(d.tracks[t]) /\ x.tracks[t] = d.tracks[t]
         /\ \A m \in Modules : /\ Exists(x.modules[m]) <=>
                                    <<"module", m>> \in x.locks
                               /\ Exists(x.modules[m]) =>
                                    /\ Exists(d.modules[m])
                                    /\ x.modules[m] = d.modules[m]
                               /\ ~Exists(x.modules[m]) => x.modules[m] = AbsentModule
         /\ \A i \in Items : /\ Exists(x.items[i]) <=> <<"item", i>> \in x.locks
                             /\ Exists(x.items[i]) =>
                                  Exists(d.items[i]) /\ x.items[i] = d.items[i]
<1>1. ~Exists(AbsentTrack) /\ ~Exists(AbsentModule) /\ ~Exists(AbsentItem)
  BY DEF Exists, AbsentTrack, AbsentModule, AbsentItem
<1>2. Held(x) = x.locks
  BY DEF Held
<1>3. ASSUME NEW t \in Tracks
      PROVE  <<"track", t>> \in x.locks => Exists(d.tracks[t])
  BY <1>2 DEF Sound, Reachable, Used
<1>4. ASSUME NEW m \in Modules
      PROVE  <<"module", m>> \in x.locks => Exists(d.modules[m])
  BY <1>2 DEF Sound, Reachable
<1>5. ASSUME NEW i \in Items
      PROVE  <<"item", i>> \in x.locks => Exists(d.items[i])
  BY <1>2 DEF Sound, Reachable
<1>6. Copies(x, d)
  BY DEF Sound
<1> QED BY <1>1, <1>3, <1>4, <1>5, <1>6 DEF Copies

\* edit_track and the commands on modules decide on the row of their track.
LEMMA ReadTrack ==
  ASSUME NEW d, WellFormed(d), NEW x, Sound(x, d), x.cmd \in Commands,
         x.scan = {}, x.cmd.op \in TrackReaders,
         x.plan = <<>> \/ (Settled(x) /\ x.authorized)
  PROVE  /\ x.cmd.track \in Tracks
         /\ Exists(x.tracks[x.cmd.track]) <=> Exists(d.tracks[x.cmd.track])
         /\ Exists(d.tracks[x.cmd.track]) =>
              /\ x.tracks[x.cmd.track] = d.tracks[x.cmd.track]
              /\ <<"track", x.cmd.track>> \in x.locks
<1>1. x.cmd.track \in Tracks
  BY CommandOps
<1>2. x.plan \in {<<>>, <<"modules">>}
  BY DEF Settled, TrackReaders, ModuleReaders
<1>3. Exists(d.tracks[x.cmd.track]) => <<"track", x.cmd.track>> \in Held(x)
  BY <1>2 DEF Sound, Covered
<1>4. Held(x) = x.locks
  BY DEF Held
<1> QED BY <1>1, <1>3, <1>4, ReadRows

\* The commands on modules that read all they need know the whole track.
LEMMA ReadSiblings ==
  ASSUME NEW d, WellFormed(d), NEW x, Sound(x, d), x.cmd \in Commands,
         x.scan = {}, x.cmd.op \in ModuleReaders, x.plan = <<>>
  PROVE  /\ Exists(d.tracks[x.cmd.track])
         /\ <<"track", x.cmd.track>> \in x.locks
         /\ ReadModules(x) = Inside(d, x.cmd.track)
         /\ \A m \in Inside(d, x.cmd.track) :
              x.modules[m] = d.modules[m] /\ <<"module", m>> \in x.locks
<1>1. x.cmd.track \in Tracks /\ x.cmd.op \in TrackReaders
  BY CommandOps DEF TrackReaders
<1>2. /\ <<"track", x.cmd.track>> \in x.locks
      /\ \A m \in Inside(d, x.cmd.track) : <<"module", m>> \in x.locks
  BY DEF Sound, Covered, Held
<1>3. Exists(d.tracks[x.cmd.track])
  BY <1>1, <1>2, ReadRows
<1>4. \A m \in Modules : <<"module", m>> \in x.locks =>
        d.modules[m].track = x.cmd.track
  BY CommandOps DEF Sound, Held, Reachable, ModuleReaders
<1>5. ReadModules(x) = Inside(d, x.cmd.track)
  BY <1>2, <1>4, ReadRows DEF ReadModules, Inside
<1> QED BY <1>2, <1>3, <1>5, ReadRows DEF Inside

-----------------------------------------------------------------------------
(* Every commit is a command of Catalog, and writes what it locked *)

\* The bounds of Catalog leave room for one more command.
Room ==
  /\ orderRevision < MaxOrder
  /\ \A t \in Tracks : /\ tracks[t].revision < MaxRevision
                       /\ tracks[t].moduleOrder < MaxOrder
  /\ \A m \in Modules : modules[m].revision < MaxRevision
  /\ \A i \in Items : items[i].revision < MaxRevision

Ready == OrderInv /\ TxInv /\ Owned /\ Room

\* A commit raises no counter by more than one.
Rises(d, e) ==
  /\ e.order <= d.order + 1
  /\ \A t \in Tracks :
       /\ e.tracks[t].revision <= d.tracks[t].revision + 1
       /\ e.tracks[t].moduleOrder <= d.tracks[t].moduleOrder + 1
  /\ \A m \in Modules : e.modules[m].revision <= d.modules[m].revision + 1
  /\ \A i \in Items : e.items[i].revision <= d.items[i].revision + 1

WritesApart(w) ==
  /\ WritesLocked(tx[w].locks, Db, Db')
  /\ Rises(Db, Db')
  /\ \A v \in Workers : Spares(tx[v].cmd, Db, Db')

LEMMA TablesWellFormed ==
  ASSUME OrderInv
  PROVE  WellFormed(Db)
<1>1. Db \in Tables
  BY DEF Db, Tables, OrderInv, TypeInv, TypeOK
<1> QED BY <1>1 DEF Db, WellFormed, OrderInv, TracksOrdered, ModulesOrdered,
                    ItemsOrdered

LEMMA Fields ==
  /\ Db.admins = admins /\ Db.tracks = tracks /\ Db.modules = modules
  /\ Db.items = items /\ Db.order = orderRevision
  /\ Db'.admins = admins' /\ Db'.tracks = tracks' /\ Db'.modules = modules'
  /\ Db'.items = items' /\ Db'.order = orderRevision'
  /\ Used(Db) = UsedTracks /\ Used(Db') = UsedTracks'
  /\ \A t : Inside(Db, t) = ModulesOf(t)
  /\ \A m : Contents(Db, m) = ItemsOf(m)
  BY DEF Db, Used, Inside, Contents, UsedTracks, ModulesOf, ItemsOf

\* What is known when a transaction decides.
LEMMA Deciding ==
  ASSUME Ready, NEW w \in Workers, Decides(w)
  PROVE  /\ tx[w].cmd \in Commands /\ tx[w].cmd \in Command
         /\ tx[w].cmd.actor \in Accounts
         /\ WellFormed(Db) /\ Sound(tx[w], Db)
         /\ tx[w].scan = {}
         /\ Settled(tx[w]) \/ tx[w].plan = <<>>
         /\ tx[w].authorized \in BOOLEAN
         /\ tx[w].authorized <=> tx[w].cmd.actor \in admins
<1>1. /\ tx[w] \in Transaction /\ Sound(tx[w], Db) /\ tx[w].cmd # NoCommand
      /\ tx[w].scan = {}
      /\ Settled(tx[w]) \/ tx[w].plan = <<>>
  BY DEF Ready, TxInv, Decides, Running
<1>2. tx[w].cmd \in Commands
  BY <1>1 DEF Transaction
<1>3. WellFormed(Db)
  BY TablesWellFormed DEF Ready
<1>4. tx[w].authorized \in BOOLEAN
  BY <1>1 DEF Transaction
<1>5. tx[w].authorized <=> tx[w].cmd.actor \in Db.admins
  BY <1>1, <1>2, DecidesAuthorized
<1>6. tx[w].cmd.actor \in Accounts /\ tx[w].cmd \in Command
  BY <1>2, CommandOps, CatalogAssumption
<1> QED BY <1>1, <1>2, <1>3, <1>4, <1>5, <1>6, Fields

LEMMA QuietCommit ==
  ASSUME TypeOK, UNCHANGED <<admins, tracks, modules, items, orderRevision>>,
         NEW w
  PROVE  WritesApart(w)
<1>1. Db' = Db
  BY DEF Db
<1>2. WritesLocked(tx[w].locks, Db, Db)
  BY DEF WritesLocked, Used
<1>3. \A c : Spares(c, Db, Db)
  BY DEF Spares
<1>4. Rises(Db, Db)
  BY Fields DEF Rises, TypeOK, TrackRow, ModuleRow, ItemRow
<1> QED BY <1>1, <1>2, <1>3, <1>4 DEF WritesApart

LEMMA TrackCommit ==
  ASSUME TypeOK, TxInv, NEW w, NEW t \in Tracks, <<"track", t>> \in tx[w].locks,
         Exists(tracks[t]), NEW after, Exists(after),
         after.revision = tracks[t].revision + 1,
         after.moduleOrder = tracks[t].moduleOrder,
         tracks' = [tracks EXCEPT ![t] = after],
         UNCHANGED <<admins, modules, items, orderRevision>>
  PROVE  WritesApart(w)
<1>1. \A k \in Tracks : k # t => tracks'[k] = tracks[k]
  BY DEF TypeOK
<1>2. tracks'[t] = after
  BY DEF TypeOK
<1>3. UsedTracks' = UsedTracks
  BY <1>1, <1>2 DEF UsedTracks
<1>4. \A k : Inside(Db', k) = Inside(Db, k) /\ Contents(Db', k) = Contents(Db, k)
  BY Fields DEF Inside, Contents
<1>5. WritesLocked(tx[w].locks, Db, Db')
  BY <1>1, <1>3, <1>4, Fields DEF WritesLocked
<1>6. \A k : k \in Tracks => (Exists(tracks'[k]) <=> Exists(tracks[k]))
  BY <1>1, <1>2
<1>7. ASSUME NEW v \in Workers PROVE Spares(tx[v].cmd, Db, Db')
  BY <1>6, Fields, CommandOps DEF Spares, TxInv, Transaction
<1>8. Rises(Db, Db')
  BY <1>1, <1>2, Fields DEF Rises, TypeOK, TrackRow, ModuleRow, ItemRow
<1> QED BY <1>5, <1>7, <1>8 DEF WritesApart

LEMMA ModuleCommit ==
  ASSUME TypeOK, TxInv, NEW w, NEW m \in Modules,
         <<"module", m>> \in tx[w].locks, Exists(modules[m]),
         NEW after, Exists(after), after.track = modules[m].track,
         after.revision = modules[m].revision + 1,
         modules' = [modules EXCEPT ![m] = after],
         UNCHANGED <<admins, tracks, items, orderRevision>>
  PROVE  WritesApart(w)
<1>1. \A k \in Modules : k # m => modules'[k] = modules[k]
  BY DEF TypeOK
<1>2. modules'[m] = after
  BY DEF TypeOK
<1>3. /\ \A k : Inside(Db', k) = Inside(Db, k) /\ Contents(Db', k) = Contents(Db, k)
      /\ Used(Db') = Used(Db)
  BY <1>1, <1>2, Fields DEF Inside, Contents, Used
<1>4. \A k \in Modules :
        /\ Exists(modules'[k]) <=> Exists(modules[k])
        /\ modules'[k].track = modules[k].track
  BY <1>1, <1>2
<1>5. WritesLocked(tx[w].locks, Db, Db')
  BY <1>1, <1>3, <1>4, Fields DEF WritesLocked
<1>6. ASSUME NEW v \in Workers PROVE Spares(tx[v].cmd, Db, Db')
  BY <1>4, Fields, CommandOps DEF Spares, TxInv, Transaction
<1>7. Rises(Db, Db')
  BY <1>1, <1>2, Fields DEF Rises, TypeOK, TrackRow, ModuleRow, ItemRow
<1> QED BY <1>5, <1>6, <1>7 DEF WritesApart

LEMMA EditTrackCommits ==
  ASSUME Ready, NEW w \in Workers, CommitEditTrack(w)
  PROVE  EditTrack(tx[w].cmd) /\ WritesApart(w)
<1> DEFINE x == tx[w]
           c == x.cmd
           t == c.track
           row == x.tracks[t]
           auth == x.authorized
           known == Exists(row)
           admin == c.actor \in admins
           present == Exists(tracks[t])
           free == TitleFree(tracks, UsedTracks, t, c.title)
           result == EditDecision(auth, known, row, c, free)
           here == EditDecision(admin, present, tracks[t], c, free)
<1>1. /\ Decides(w) /\ c.op = "edit_track"
      /\ Record(c, "EDIT", "TRACK", t, result, result = "SUCCESS")
      /\ \/ /\ result = "SUCCESS"
            /\ tracks' = [tracks EXCEPT ![t] = Edited(row, c.title)]
            /\ trackVersions' =
                 trackVersions \cup Snapshot(t, row, Edited(row, c.title), c.title)
         \/ result # "SUCCESS" /\ UNCHANGED <<tracks, trackVersions>>
      /\ UNCHANGED <<admins, modules, items, moduleVersions, contentVersions,
                     orderRevision>>
  BY DEF CommitEditTrack
<1>2. /\ c \in Commands /\ c \in EditTrackCmd /\ x.scan = {}
      /\ WellFormed(Db) /\ Sound(x, Db)
      /\ x.authorized \in BOOLEAN /\ (x.authorized <=> c.actor \in admins)
      /\ Settled(x) \/ x.plan = <<>>
  BY <1>1, Deciding, CommandShapes
<1>3. t \in Tracks /\ c.title \in Titles
  BY <1>2 DEF EditTrackCmd
<1>4. x.authorized =>
        /\ Exists(row) <=> Exists(tracks[t])
        /\ Exists(row) => row = tracks[t] /\ <<"track", t>> \in x.locks
  <2>1. x.authorized =>
          /\ Exists(row) <=> Exists(Db.tracks[t])
          /\ Exists(Db.tracks[t]) =>
               row = Db.tracks[t] /\ <<"track", t>> \in x.locks
    BY <1>1, <1>2, ReadTrack DEF TrackReaders
  <2> QED BY <2>1, Fields
<1>5. result = here /\ (result = "SUCCESS" => x.authorized /\ Exists(row))
  <2>1. /\ auth \in BOOLEAN /\ known \in BOOLEAN /\ admin \in BOOLEAN
        /\ present \in BOOLEAN /\ free \in BOOLEAN
    BY <1>2 DEF TitleFree, Exists
  <2>2. /\ auth <=> admin
        /\ auth => (known <=> present)
        /\ auth /\ known => row = tracks[t]
    BY <1>2, <1>4
  <2>3. result = here /\ (result = "SUCCESS" => auth /\ known)
    <3> HIDE DEF auth, known, admin, present, free, row
    <3>1. result = here
      BY <2>1, <2>2, SameEdit
    <3>2. result = "SUCCESS" => auth /\ known
      BY <2>1, Denied, NotFound
    <3> QED BY <3>1, <3>2
  <2> QED BY <2>3
<1>7. tracks[t] \in TrackRow /\ tracks[t].revision < MaxRevision
  BY <1>3 DEF Ready, Room, OrderInv, TypeInv, TypeOK
<1> HIDE DEF free
<1>8. CASE result = "SUCCESS"
  <2>1. row = tracks[t] /\ <<"track", t>> \in x.locks /\ Exists(tracks[t])
    BY <1>4, <1>5, <1>8
  <2>2. EditTrack(c)
    <3> HIDE DEF result
    <3> QED BY <1>1, <1>5, <1>7, <1>8, <2>1 DEF EditTrack, free
  <2>3. /\ Exists(Edited(row, c.title))
        /\ Edited(row, c.title).revision = tracks[t].revision + 1
        /\ Edited(row, c.title).moduleOrder = tracks[t].moduleOrder
    BY <1>7, <2>1, TrackCounts DEF Exists
  <2>4. WritesApart(w)
    <3> HIDE DEF result
    <3> QED BY <1>1, <1>3, <1>8, <2>1, <2>3, TrackCommit
            DEF Ready, OrderInv, TypeInv
  <2> QED BY <2>2, <2>4
<1>9. CASE result # "SUCCESS"
  <2>1. UNCHANGED <<tracks, trackVersions>>
    BY <1>1, <1>9
  <2>2. Snapshot(t, tracks[t], tracks[t], c.title) = {}
    BY DEF Snapshot
  <2>3. tracks = [tracks EXCEPT ![t] = tracks[t]]
    BY DEF Ready, OrderInv, TypeInv, TypeOK
  <2>4. EditTrack(c)
    <3> HIDE DEF result
    <3> QED BY <1>1, <1>5, <1>7, <1>9, <2>1, <2>2, <2>3 DEF EditTrack, free
  <2>5. WritesApart(w)
    BY <1>1, <2>1, QuietCommit DEF Ready, OrderInv, TypeInv
  <2> QED BY <2>4, <2>5
<1> QED BY <1>8, <1>9

LEMMA ChangeTrackStatusCommits ==
  ASSUME Ready, NEW w \in Workers, CommitChangeTrackStatus(w)
  PROVE  ChangeTrackStatus(tx[w].cmd) /\ WritesApart(w)
<1> DEFINE x == tx[w]
           c == x.cmd
           t == c.track
           row == x.tracks[t]
           auth == x.authorized
           admin == c.actor \in admins
           has == ReadActive(x) # {}
           hasHere == ActiveModules(t) # {}
           result == TrackStatusDecision(auth, row, c, has)
           here == TrackStatusDecision(admin, tracks[t], c, hasHere)
           changed == result = "SUCCESS" /\ row.status # c.target
           changedHere == here = "SUCCESS" /\ tracks[t].status # c.target
<1>1. /\ Decides(w) /\ c.op = "change_track_status"
      /\ Record(c, StatusAction(c.target), "TRACK", t, result, changed)
      /\ \/ /\ changed
            /\ tracks' = [tracks EXCEPT ![t] = WithStatus(row, c.target)]
            /\ trackVersions' = trackVersions
                 \cup Snapshot(t, row, WithStatus(row, c.target), row.title)
         \/ ~changed /\ UNCHANGED <<tracks, trackVersions>>
      /\ UNCHANGED <<admins, modules, items, moduleVersions, contentVersions,
                     orderRevision>>
  BY DEF CommitChangeTrackStatus
<1>2. /\ c \in Commands /\ c \in TrackStatusCmd /\ x.scan = {}
      /\ WellFormed(Db) /\ Sound(x, Db)
      /\ x.authorized \in BOOLEAN /\ (x.authorized <=> c.actor \in admins)
      /\ Settled(x) \/ x.plan = <<>>
  BY <1>1, Deciding, CommandShapes
<1>3. t \in Tracks /\ c.rev \in Int /\ c.pub \in BOOLEAN
  BY <1>2 DEF TrackStatusCmd
<1>4. x.authorized =>
        /\ Exists(row) <=> Exists(tracks[t])
        /\ Exists(row) => row = tracks[t] /\ <<"track", t>> \in x.locks
  <2>1. x.authorized =>
          /\ Exists(row) <=> Exists(Db.tracks[t])
          /\ Exists(Db.tracks[t]) =>
               row = Db.tracks[t] /\ <<"track", t>> \in x.locks
    BY <1>1, <1>2, ReadTrack DEF TrackReaders, ModuleReaders
  <2> QED BY <2>1, Fields
<1>5. ASSUME x.authorized, Exists(row), row.revision = c.rev,
             c.target = "ACTIVE", row.status # "ACTIVE"
      PROVE  ReadActive(x) = ActiveModules(t)
  <2>1. ~Settled(x)
    BY <1>1, <1>5 DEF Settled
  <2>2. /\ ReadModules(x) = Inside(Db, t)
        /\ \A m \in Inside(Db, t) : x.modules[m] = Db.modules[m]
    BY <1>1, <1>2, <2>1, ReadSiblings DEF ModuleReaders
  <2>3. /\ ReadModules(x) = ModulesOf(t)
        /\ \A m \in ModulesOf(t) : x.modules[m] = modules[m]
    BY <2>2, Fields
  <2> QED BY <2>3 DEF ReadActive, ActiveModules
<1>6. result = here /\ (result = "SUCCESS" => x.authorized /\ Exists(row))
  <2>1. auth \in BOOLEAN /\ admin \in BOOLEAN /\ has \in BOOLEAN
        /\ hasHere \in BOOLEAN
    BY <1>2
  <2>2. /\ auth <=> admin
        /\ auth => (Exists(row) <=> Exists(tracks[t]))
        /\ auth /\ Exists(row) => row = tracks[t]
        /\ auth /\ Exists(row) /\ row.revision = c.rev /\ c.target = "ACTIVE"
             /\ row.status # "ACTIVE" => (has <=> hasHere)
    BY <1>2, <1>4, <1>5
  <2>3. result = here
    <3> HIDE DEF auth, admin, has, hasHere, row
    <3> QED BY <1>3, <2>1, <2>2, SameTrackStatus
  <2>4. result = "SUCCESS" => auth
    <3> HIDE DEF auth, has, row
    <3> QED BY <2>1, Denied
  <2>5. ~Exists(row) => result # "SUCCESS"
    <3> DEFINE valid == /\ Supported(c.target)
                        /\ \/ c.target = row.status
                           \/ c.target = "INACTIVE"
                           \/ c.pub /\ has
    <3>1. result = Decision(auth, Exists(row), c.rev, 1, row.revision, valid)
      BY DEF TrackStatusDecision
    <3> DEFINE known == Exists(row)
    <3> HIDE DEF auth, valid, row, known, result
    <3>2. auth \in BOOLEAN /\ ~known =>
            Decision(auth, known, c.rev, 1, row.revision, valid) # "SUCCESS"
      BY DEF Decision
    <3> QED BY <2>1, <3>1, <3>2 DEF known
  <2> QED BY <2>3, <2>4, <2>5
<1>7. tracks[t] \in TrackRow /\ tracks[t].revision < MaxRevision
  BY <1>3 DEF Ready, Room, OrderInv, TypeInv, TypeOK
<1>8. result = "SUCCESS" => c.target \in Status
  <2>1. here = "SUCCESS" => c.target \in Status
    <3>1. admin \in BOOLEAN /\ hasHere \in BOOLEAN /\ tracks[t].revision \in Nat
      BY <1>7 DEF TrackRow
    <3> HIDE DEF admin, hasHere
    <3> QED BY <1>3, <3>1, TrackStatusSuccess
  <2> QED BY <2>1, <1>6
<1>9. changedHere <=> changed
  BY <1>4, <1>6
<1>10. CASE changed
  <2>1. row = tracks[t] /\ <<"track", t>> \in x.locks /\ Exists(tracks[t])
    BY <1>4, <1>6, <1>10
  <2>2. ChangeTrackStatus(c)
    <3> HIDE DEF result, has
    <3> QED BY <1>1, <1>6, <1>7, <1>9, <1>10, <2>1 DEF ChangeTrackStatus
  <2>3. /\ Exists(WithStatus(row, c.target))
        /\ WithStatus(row, c.target).revision = tracks[t].revision + 1
        /\ WithStatus(row, c.target).moduleOrder = tracks[t].moduleOrder
    BY <1>7, <1>8, <1>10, <2>1, TrackCounts DEF Exists, Status
  <2>4. WritesApart(w)
    <3> HIDE DEF result
    <3> QED BY <1>1, <1>3, <1>10, <2>1, <2>3, TrackCommit
            DEF Ready, OrderInv, TypeInv
  <2> QED BY <2>2, <2>4
<1>11. CASE ~changed
  <2>1. UNCHANGED <<tracks, trackVersions>>
    BY <1>1, <1>11
  <2>2. Snapshot(t, tracks[t], tracks[t], tracks[t].title) = {}
    BY DEF Snapshot
  <2>3. tracks = [tracks EXCEPT ![t] = tracks[t]]
    BY DEF Ready, OrderInv, TypeInv, TypeOK
  <2>4. ChangeTrackStatus(c)
    <3> HIDE DEF result, has
    <3> QED BY <1>1, <1>6, <1>7, <1>9, <1>11, <2>1, <2>2, <2>3
            DEF ChangeTrackStatus
  <2>5. WritesApart(w)
    BY <1>1, <2>1, QuietCommit DEF Ready, OrderInv, TypeInv
  <2> QED BY <2>4, <2>5
<1> QED BY <1>10, <1>11

\* A command names its rows by fields of its record.
LEMMA NamedKeys ==
  ASSUME NEW c \in Commands
  PROVE  /\ c.op \in TrackReaders => "track" \in DOMAIN c /\ c["track"] = c.track
         /\ c.op = "create_content_draft" =>
              "module" \in DOMAIN c /\ c["module"] = c.module
         /\ c.op = "publish_content_item" =>
              "item" \in DOMAIN c /\ c["item"] = c.item
<1>1. c \in Command
  BY CatalogAssumption
<1>2. c.op \in TrackReaders => "track" \in DOMAIN c
  BY <1>1, CommandShapes DEF TrackReaders, ModuleReaders, EditTrackCmd,
     TrackStatusCmd, CreateModuleCmd, EditModuleCmd, ModuleStatusCmd,
     MoveModuleCmd
<1>3. c.op = "create_content_draft" => "module" \in DOMAIN c
  BY <1>1, CommandShapes DEF CreateDraftCmd
<1>4. c.op = "publish_content_item" => "item" \in DOMAIN c
  BY <1>1, CommandShapes DEF PublishItemCmd
<1> QED BY <1>2, <1>3, <1>4

\* A command that is no call under way spares every key.
LEMMA FreshKey ==
  ASSUME TxInv, NEW v \in Workers, NEW k
  PROVE  /\ ~Named("track", k) /\ tx[v].cmd.op \in TrackReaders =>
              tx[v].cmd.track # k
         /\ ~Named("module", k) /\ tx[v].cmd.op = "create_content_draft" =>
              tx[v].cmd.module # k
         /\ ~Named("item", k) /\ tx[v].cmd.op = "publish_content_item" =>
              tx[v].cmd.item # k
<1>1. tx[v].cmd \in Commands \cup {NoCommand}
  BY DEF TxInv, Transaction
<1>2. tx[v].cmd.op # "none" => tx[v].cmd \in Commands
  BY <1>1 DEF NoCommand
<1> QED BY <1>2, NamedKeys DEF Named, TrackReaders, ModuleReaders

LEMMA CreateTrackCommits ==
  ASSUME Ready, NEW w \in Workers, CommitCreateTrack(w)
  PROVE  CreateTrack(tx[w].cmd) /\ WritesApart(w)
<1> DEFINE x == tx[w]
           c == x.cmd
           position == x.count + 1
           positionHere == Cardinality(UsedTracks) + 1
           auth == x.authorized
           admin == c.actor \in admins
           free == Insertable(tracks, UsedTracks, c.title, position)
           freeHere == Insertable(tracks, UsedTracks, c.title, positionHere)
           result == CreateDecision(auth, TRUE, c, free)
           here == CreateDecision(admin, TRUE, c, freeHere)
<1>1. /\ Decides(w) /\ c.op = "create_track"
      /\ \/ /\ result = "SUCCESS"
            /\ \E t \in {k \in Tracks \ UsedTracks : ~Named("track", k)} :
                 /\ tracks' = [tracks EXCEPT ![t] = NewTrack(c.title, position)]
                 /\ Record(c, "CREATE", "TRACK", t, result, TRUE)
            /\ orderRevision' = x.order + 1
         \/ /\ result # "SUCCESS"
            /\ Record(c, "CREATE", "TRACK", NoOwner, result, FALSE)
            /\ UNCHANGED <<tracks, orderRevision>>
      /\ UNCHANGED <<admins, modules, items, trackVersions, moduleVersions,
                     contentVersions>>
  BY DEF CommitCreateTrack
<1>2. /\ c \in Commands /\ c \in CreateTrackCmd /\ x.scan = {}
      /\ WellFormed(Db) /\ Sound(x, Db)
      /\ x.authorized \in BOOLEAN /\ (x.authorized <=> c.actor \in admins)
      /\ Settled(x) \/ x.plan = <<>>
  BY <1>1, Deciding, CommandShapes
<1>3. c.ok \in BOOLEAN
  BY <1>2 DEF CreateTrackCmd
<1>4. x.authorized /\ c.ok =>
        /\ <<"state", 1>> \in x.locks
        /\ x.count = Cardinality(UsedTracks) /\ x.order = orderRevision
  <2>1. ASSUME x.authorized, c.ok
        PROVE  x.plan = <<>>
    BY <1>1, <1>2, <2>1 DEF Settled
  <2>2. ASSUME x.plan = <<>>
        PROVE  <<"state", 1>> \in x.locks
    BY <1>1, <1>2, <2>2 DEF Sound, Covered, Held
  <2>3. <<"state", 1>> \in x.locks =>
          x.order = Db.order /\ x.count = Cardinality(Used(Db))
    BY <1>2 DEF Sound, Copies
  <2> QED BY <2>1, <2>2, <2>3, Fields
<1>5. result = here /\ (result = "SUCCESS" => x.authorized /\ c.ok)
  <2>1. /\ auth \in BOOLEAN /\ admin \in BOOLEAN /\ free \in BOOLEAN
        /\ freeHere \in BOOLEAN
    BY <1>2 DEF Insertable
  <2>2. (auth <=> admin) /\ (auth /\ c.ok => (free <=> freeHere))
    BY <1>2, <1>4
  <2>3. result = here
    <3> DEFINE yes == TRUE
    <3>1. yes \in BOOLEAN
      OBVIOUS
    <3> HIDE DEF auth, admin, free, freeHere, yes
    <3>2. CreateDecision(auth, yes, c, free) =
            CreateDecision(admin, yes, c, freeHere)
      BY SMTT(40), <1>3, <2>1, <2>2, <3>1, SameCreate
    <3> QED BY <3>2 DEF yes
  <2>4. result = "SUCCESS" => auth
    <3> HIDE DEF auth, free
    <3> QED BY <2>1, Denied
  <2>5. ~c.ok => result # "SUCCESS"
    BY <1>3 DEF CreateDecision, Decision
  <2> QED BY <2>3, <2>4, <2>5
<1>6. orderRevision < MaxOrder
  BY DEF Ready, Room
<1>7. CASE result = "SUCCESS"
  <2>1. /\ <<"state", 1>> \in x.locks /\ x.order = orderRevision
        /\ position = positionHere
    BY <1>4, <1>5, <1>7
  <2> HIDE DEF result
  <2>2. PICK t \in {k \in Tracks \ UsedTracks : ~Named("track", k)} :
          /\ tracks' = [tracks EXCEPT ![t] = NewTrack(c.title, position)]
          /\ Record(c, "CREATE", "TRACK", t, result, TRUE)
    BY <1>1, <1>7
  <2>3. orderRevision' = orderRevision + 1
    BY <1>1, <1>7, <2>1
  <2>4. CreateTrack(c)
    <3>1. \E k \in Tracks \ UsedTracks :
            /\ tracks' = [tracks EXCEPT ![k] = NewTrack(c.title, positionHere)]
            /\ Record(c, "CREATE", "TRACK", k, here, TRUE)
      BY <1>5, <2>1, <2>2
    <3>2. here = "SUCCESS"
      BY <1>5, <1>7
    <3> HIDE DEF here
    <3>3. /\ here = "SUCCESS"
          /\ \E k \in Tracks \ UsedTracks :
               /\ tracks' = [tracks EXCEPT ![k] = NewTrack(c.title, positionHere)]
               /\ Record(c, "CREATE", "TRACK", k, here, TRUE)
          /\ orderRevision' = orderRevision + 1
      BY <2>3, <3>1, <3>2
    <3> QED BY <1>1, <1>6, <3>3 DEF CreateTrack, here
  <2>5. tracks \in [Tracks -> TrackRow]
    BY DEF Ready, OrderInv, TypeInv, TypeOK
  <2>6. /\ t \in Tracks /\ t \notin UsedTracks /\ ~Named("track", t)
        /\ \A k \in Tracks : k # t => tracks'[k] = tracks[k]
    BY <2>2, <2>5
  <2>7. /\ \A k : Inside(Db', k) = Inside(Db, k)
        /\ \A k : Contents(Db', k) = Contents(Db, k)
        /\ UsedTracks \subseteq UsedTracks'
    BY <1>1, <2>6, Fields DEF Inside, Contents, UsedTracks
  <2>8. WritesLocked(x.locks, Db, Db')
    BY <1>1, <2>1, <2>6, <2>7, Fields DEF WritesLocked
  <2>9. ASSUME NEW v \in Workers PROVE Spares(tx[v].cmd, Db, Db')
    <3>1. TxInv
      BY DEF Ready
    <3>2. tx[v].cmd.op \in TrackReaders =>
            tx[v].cmd.track # t /\ tx[v].cmd.track \in Tracks
      BY <2>6, <3>1, FreshKey, CommandOps
         DEF TxInv, Transaction, NoCommand, TrackReaders, ModuleReaders
    <3> QED BY <1>1, <2>6, <3>2, Fields DEF Spares
  <2>10. tracks[t].revision = 0 /\ tracks'[t].revision = 1
         /\ tracks'[t].moduleOrder = 0
    BY <2>2, <2>5, <2>6 DEF Ready, OrderInv, TracksOrdered, UsedTracks, NewTrack
  <2>11. Rises(Db, Db')
    BY <1>1, <2>3, <2>5, <2>6, <2>10, Fields
       DEF Rises, Ready, OrderInv, TypeInv, TypeOK, TrackRow, ModuleRow, ItemRow
  <2> QED BY <2>4, <2>8, <2>9, <2>11 DEF WritesApart
<1>8. CASE result # "SUCCESS"
  <2> HIDE DEF result, here
  <2>1. /\ UNCHANGED <<tracks, orderRevision>>
        /\ Record(c, "CREATE", "TRACK", NoOwner, here, FALSE)
        /\ here # "SUCCESS"
    BY <1>1, <1>5, <1>8
  <2>2. CreateTrack(c)
    BY <1>1, <1>6, <2>1 DEF CreateTrack, here
  <2>3. WritesApart(w)
    BY <1>1, <2>1, QuietCommit DEF Ready, OrderInv, TypeInv
  <2> QED BY <2>2, <2>3
<1> QED BY <1>7, <1>8

LEMMA MoveTrackCommits ==
  ASSUME Ready, NEW w \in Workers, CommitMoveTrack(w)
  PROVE  MoveTrack(tx[w].cmd) /\ WritesApart(w)
<1> DEFINE x == tx[w]
           c == x.cmd
           keys == ReadTracks(x)
           auth == x.authorized
           admin == c.actor \in admins
           known == c.track \in keys
           present == Exists(tracks[c.track])
           result == MoveDecision(auth, known, x.order, c, Cardinality(keys))
           here == MoveDecision(admin, present, orderRevision, c,
                                Cardinality(UsedTracks))
           changed == /\ result = "SUCCESS"
                      /\ Displaced(x.tracks, keys, c.track, c.position) # {}
           changedHere ==
             /\ here = "SUCCESS"
             /\ Displaced(tracks, UsedTracks, c.track, c.position) # {}
           after(t) == Moved(x.tracks, keys, c.track, c.position, t)
<1>1. /\ Decides(w) /\ c.op = "move_track"
      /\ Record(c, "REORDER", "TRACK", c.track, result, changed)
      /\ \/ /\ changed
            /\ tracks' = [t \in Tracks |->
                 IF t \in keys
                 THEN [tracks[t] EXCEPT !.position = after(t).position,
                                        !.revision = after(t).revision]
                 ELSE tracks[t]]
            /\ orderRevision' = x.order + 1
         \/ ~changed /\ UNCHANGED <<tracks, orderRevision>>
      /\ UNCHANGED <<admins, modules, items, trackVersions, moduleVersions,
                     contentVersions>>
  BY DEF CommitMoveTrack
<1>2. /\ c \in Commands /\ c \in MoveTrackCmd /\ x.scan = {}
      /\ WellFormed(Db) /\ Sound(x, Db)
      /\ x.authorized \in BOOLEAN /\ (x.authorized <=> c.actor \in admins)
      /\ Settled(x) \/ x.plan = <<>>
  BY <1>1, Deciding, CommandShapes
<1>3. c.track \in Tracks
  BY <1>2 DEF MoveTrackCmd
<1>4. x.authorized =>
        /\ <<"state", 1>> \in x.locks /\ x.order = orderRevision
        /\ keys = UsedTracks
        /\ \A t \in keys : x.tracks[t] = tracks[t] /\ <<"track", t>> \in x.locks
  <2>1. ASSUME x.authorized
        PROVE  x.plan = <<>>
    BY <1>1, <1>2, <2>1 DEF Settled
  <2>2. ASSUME x.plan = <<>>
        PROVE  <<"state", 1>> \in x.locks
               /\ \A t \in Used(Db) : <<"track", t>> \in x.locks
    BY <1>1, <1>2, <2>2 DEF Sound, Covered, Held
  <2>3. <<"state", 1>> \in x.locks => x.order = Db.order
    BY <1>2 DEF Sound, Copies
  <2>4. ASSUME x.plan = <<>>
        PROVE  /\ keys = Used(Db)
               /\ \A t \in keys : /\ x.tracks[t] = Db.tracks[t]
                                  /\ <<"track", t>> \in x.locks
    <3>1. \A t \in Used(Db) : <<"track", t>> \in x.locks
      BY <2>2, <2>4
    <3>2. \A t \in Tracks :
            /\ Exists(x.tracks[t]) <=> <<"track", t>> \in x.locks
            /\ Exists(x.tracks[t]) =>
                 Exists(Db.tracks[t]) /\ x.tracks[t] = Db.tracks[t]
      BY ZenonT(60), <1>2, ReadRows
    <3> QED BY <3>1, <3>2 DEF ReadTracks, Used
  <2> QED BY <2>1, <2>2, <2>3, <2>4, Fields
<1>5. result = here /\ (result = "SUCCESS" => x.authorized /\ c.track \in keys)
  <2>1. /\ auth \in BOOLEAN /\ admin \in BOOLEAN /\ known \in BOOLEAN
        /\ present \in BOOLEAN
    BY <1>2 DEF Exists
  <2>2. /\ auth <=> admin
        /\ auth => (known <=> present)
        /\ auth => x.order = orderRevision
        /\ auth => Cardinality(keys) = Cardinality(UsedTracks)
    BY <1>2, <1>3, <1>4 DEF UsedTracks
  <2>3. result = here /\ (result = "SUCCESS" => auth /\ known)
    <3> DEFINE n == Cardinality(keys)
               nHere == Cardinality(UsedTracks)
    <3> HIDE DEF auth, admin, known, present, n, nHere
    <3>1. auth => n = nHere
      BY <2>2 DEF n, nHere
    <3>2. MoveDecision(auth, known, x.order, c, n) =
            MoveDecision(admin, present, orderRevision, c, nHere)
      BY <2>1, <2>2, <3>1, SameMove
    <3>3. MoveDecision(auth, known, x.order, c, n) = "SUCCESS" => auth /\ known
      BY <2>1, Denied, NotFound
    <3> QED BY <3>2, <3>3 DEF n, nHere
  <2> QED BY <2>3
<1>6. /\ orderRevision < MaxOrder
      /\ \A t \in Tracks : tracks[t].revision < MaxRevision
      /\ tracks \in [Tracks -> TrackRow]
  BY DEF Ready, Room, OrderInv, TypeInv, TypeOK
<1>7. ASSUME result = "SUCCESS"
      PROVE  /\ Displaced(x.tracks, keys, c.track, c.position) =
                  Displaced(tracks, UsedTracks, c.track, c.position)
             /\ \A t \in keys : after(t) =
                  Moved(tracks, UsedTracks, c.track, c.position, t)
  <2>1. /\ keys = UsedTracks /\ c.track \in keys
        /\ \A t \in keys : x.tracks[t] = tracks[t]
    BY <1>4, <1>5, <1>7
  <2> HIDE DEF keys
  <2>2. /\ Displaced(x.tracks, keys, c.track, c.position) =
             Displaced(tracks, keys, c.track, c.position)
        /\ \A t \in keys : Moved(x.tracks, keys, c.track, c.position, t) =
             Moved(tracks, keys, c.track, c.position, t)
    <3> DEFINE copy == x.tracks
               mover == c.track
               place == c.position
    <3>1. mover \in keys /\ \A k \in keys : copy[k] = tracks[k]
      BY <2>1
    <3> HIDE DEF copy, mover, place
    <3>2. /\ Displaced(copy, keys, mover, place) =
               Displaced(tracks, keys, mover, place)
          /\ \A t \in keys : Moved(copy, keys, mover, place, t) =
               Moved(tracks, keys, mover, place, t)
      BY <3>1, SamePlaces
    <3> QED BY <3>2 DEF copy, mover, place
  <2> QED BY <2>1, <2>2
<1>8. changed <=> changedHere
  BY <1>5, <1>7
<1>9. CASE changed
  <2>1. /\ <<"state", 1>> \in x.locks /\ x.order = orderRevision
        /\ keys = UsedTracks /\ \A t \in keys : <<"track", t>> \in x.locks
        /\ \A t \in keys : after(t) =
             Moved(tracks, UsedTracks, c.track, c.position, t)
    BY <1>4, <1>5, <1>7, <1>9
  <2> DEFINE moved(t) == Moved(tracks, UsedTracks, c.track, c.position, t)
  <2>2. ASSUME NEW t \in UsedTracks
        PROVE  [tracks[t] EXCEPT !.position = moved(t).position,
                                 !.revision = moved(t).revision] = moved(t)
    <3>1. tracks[t] \in TrackRow
      BY <1>6 DEF UsedTracks
    <3> QED BY <3>1 DEF Moved, TrackRow
  <2> HIDE DEF result, changed, keys, after, here
  <2>3. tracks' = [t \in Tracks |->
                     IF t \in UsedTracks THEN moved(t) ELSE tracks[t]]
    <3>1. tracks' = [t \in Tracks |->
                 IF t \in keys
                 THEN [tracks[t] EXCEPT !.position = after(t).position,
                                        !.revision = after(t).revision]
                 ELSE tracks[t]]
      BY <1>1, <1>9
    <3> HIDE DEF moved
    <3> QED BY <2>1, <2>2, <3>1 DEF moved
  <2>4. MoveTrack(c)
    <3>1. changedHere /\ Record(c, "REORDER", "TRACK", c.track, here, changedHere)
      BY <1>1, <1>5, <1>8, <1>9
    <3>2. orderRevision' = orderRevision + 1
      BY <1>1, <1>9, <2>1
    <3> HIDE DEF changedHere
    <3>3. /\ tracks' = [t \in Tracks |->
                IF changedHere /\ t \in UsedTracks
                THEN Moved(tracks, UsedTracks, c.track, c.position, t)
                ELSE tracks[t]]
          /\ orderRevision' = orderRevision + (IF changedHere THEN 1 ELSE 0)
      BY <2>3, <3>1, <3>2
    <3> QED BY <1>1, <1>6, <3>1, <3>3 DEF MoveTrack, changedHere, here
  <2>5. \A t \in Tracks :
          /\ t \notin UsedTracks => tracks'[t] = tracks[t]
          /\ tracks'[t].status = tracks[t].status
    BY <1>6, <2>3 DEF Moved, UsedTracks, TrackRow
  <2>6. \A t \in Tracks : Exists(tracks'[t]) <=> Exists(tracks[t])
    BY <2>5 DEF Exists
  <2>7. /\ \A k : Inside(Db', k) = Inside(Db, k)
        /\ \A k : Contents(Db', k) = Contents(Db, k)
        /\ UsedTracks' = UsedTracks
    BY <1>1, <2>6, Fields DEF Inside, Contents, UsedTracks
  <2>8. WritesLocked(x.locks, Db, Db')
    BY <1>1, <2>1, <2>5, <2>7, Fields DEF WritesLocked, UsedTracks
  <2>9. ASSUME NEW v \in Workers PROVE Spares(tx[v].cmd, Db, Db')
    <3>1. tx[v].cmd.op \in TrackReaders => tx[v].cmd.track \in Tracks
      BY CommandOps DEF Ready, TxInv, Transaction, NoCommand, TrackReaders,
                        ModuleReaders
    <3> QED BY <1>1, <2>6, <3>1, Fields DEF Spares
  <2>10. ASSUME NEW t \in Tracks
         PROVE  /\ tracks'[t].revision <= tracks[t].revision + 1
                /\ tracks'[t].moduleOrder <= tracks[t].moduleOrder + 1
    <3>1. tracks[t] \in TrackRow
      BY <1>6
    <3>2. CASE t \in UsedTracks
      <4>1. tracks'[t] = Moved(tracks, UsedTracks, c.track, c.position, t)
        BY <2>3, <3>2
      <4> QED BY <3>1, <4>1 DEF Moved, TrackRow
    <3>3. CASE t \notin UsedTracks
      <4>1. tracks'[t] = tracks[t]
        BY <2>3, <3>3
      <4> QED BY <3>1, <4>1 DEF TrackRow
    <3> QED BY <3>2, <3>3
  <2>11. orderRevision' = orderRevision + 1
    BY <1>1, <1>9, <2>1
  <2>12. Rises(Db, Db')
    <3>1. /\ \A m \in Modules : modules'[m].revision <= modules[m].revision + 1
          /\ \A i \in Items : items'[i].revision <= items[i].revision + 1
          /\ orderRevision' <= orderRevision + 1
      <4>1. UNCHANGED <<modules, items>>
        BY <1>1
      <4>2. /\ modules \in [Modules -> ModuleRow] /\ items \in [Items -> ItemRow]
            /\ orderRevision \in Nat
        BY DEF Ready, OrderInv, TypeInv, TypeOK
      <4> QED BY <2>11, <4>1, <4>2 DEF ModuleRow, ItemRow
    <3> QED BY <2>10, <3>1, Fields DEF Rises
  <2> QED BY <2>4, <2>8, <2>9, <2>12 DEF WritesApart
<1>10. CASE ~changed
  <2> HIDE DEF result, here
  <2>1. /\ UNCHANGED <<tracks, orderRevision>> /\ ~changedHere
        /\ Record(c, "REORDER", "TRACK", c.track, here, changedHere)
    BY <1>1, <1>5, <1>8, <1>10
  <2> HIDE DEF changedHere
  <2>2. /\ tracks' = [t \in Tracks |->
              IF changedHere /\ t \in UsedTracks
              THEN Moved(tracks, UsedTracks, c.track, c.position, t)
              ELSE tracks[t]]
        /\ orderRevision' = orderRevision + (IF changedHere THEN 1 ELSE 0)
    BY <1>6, <2>1 DEF Ready, OrderInv, TypeInv, TypeOK
  <2>3. MoveTrack(c)
    BY <1>1, <1>6, <2>1, <2>2 DEF MoveTrack, changedHere, here
  <2>4. WritesApart(w)
    BY <1>1, <2>1, QuietCommit DEF Ready, OrderInv, TypeInv
  <2> QED BY <2>3, <2>4
<1> QED BY <1>9, <1>10

\* An administrator's command on a module knows its track and its siblings.
LEMMA ModulesRead ==
  ASSUME Ready, NEW w \in Workers, Decides(w), tx[w].authorized,
         tx[w].cmd.op \in ModuleReaders, tx[w].cmd.op # "change_track_status"
  PROVE  LET x == tx[w]
             t == tx[w].cmd.track
         IN /\ t \in Tracks
            /\ Exists(x.tracks[t]) <=> Exists(tracks[t])
            /\ Exists(tracks[t]) => /\ x.tracks[t] = tracks[t]
                                    /\ <<"track", t>> \in x.locks
            /\ ReadModules(x) = ModulesOf(t)
            /\ \A m \in ModulesOf(t) : /\ x.modules[m] = modules[m]
                                       /\ <<"module", m>> \in x.locks
                                       /\ Exists(modules[m])
            /\ \A m \in Modules \ ModulesOf(t) : x.modules[m].track # t
            /\ ModulesOf(t) # {} => Exists(tracks[t])
<1> DEFINE x == tx[w]
           c == x.cmd
           t == c.track
<1>1. /\ c \in Commands /\ x.scan = {}
      /\ WellFormed(Db) /\ Sound(x, Db)
      /\ Settled(x) \/ x.plan = <<>>
  BY Deciding
<1>2. c.op \in TrackReaders
  BY DEF TrackReaders
<1>3. /\ t \in Tracks
      /\ Exists(x.tracks[t]) <=> Exists(Db.tracks[t])
      /\ Exists(Db.tracks[t]) =>
           x.tracks[t] = Db.tracks[t] /\ <<"track", t>> \in x.locks
  BY <1>1, <1>2, ReadTrack
<1>4. \A m \in ModulesOf(t) : Exists(modules[m])
  BY <1>1, <1>3, Fields, CatalogKeysAssumption DEF WellFormed, ModulesOf
<1>5. ModulesOf(t) # {} => Exists(tracks[t])
  BY <1>4 DEF Ready, Owned, ModulesOf, UsedTracks
<1>6. \A m \in Modules :
        /\ Exists(x.modules[m]) => /\ Exists(Db.modules[m])
                                   /\ x.modules[m] = Db.modules[m]
                                   /\ <<"module", m>> \in x.locks
        /\ ~Exists(x.modules[m]) => x.modules[m] = AbsentModule
  BY <1>1, ReadRows
<1>7. AbsentModule.track # t
  BY <1>3, CatalogKeysAssumption DEF AbsentModule
<1>8. CASE x.plan = <<>>
  <2>1. /\ ReadModules(x) = Inside(Db, t)
        /\ \A m \in Inside(Db, t) :
             x.modules[m] = Db.modules[m] /\ <<"module", m>> \in x.locks
    BY <1>1, <1>8, ReadSiblings
  <2>2. /\ ReadModules(x) = ModulesOf(t)
        /\ \A m \in ModulesOf(t) :
             x.modules[m] = modules[m] /\ <<"module", m>> \in x.locks
    BY <2>1, Fields
  <2>3. \A m \in Modules \ ModulesOf(t) : x.modules[m].track # t
    BY <1>6, <1>7, Fields DEF ModulesOf
  <2> QED BY <1>3, <1>4, <1>5, <2>2, <2>3, Fields
<1>9. CASE x.plan # <<>>
  <2>1. ~Exists(x.tracks[t])
    BY <1>1, <1>9 DEF Settled, ModuleReaders
  <2>2. ModulesOf(t) = {}
    BY <1>3, <1>5, <2>1, Fields
  <2>3. \A m \in Modules : x.modules[m].track # t
    BY <1>6, <1>7, <2>2, Fields DEF ModulesOf
  <2>4. ASSUME NEW m \in Modules, Exists(x.modules[m])
        PROVE  FALSE
    <3>1. <<"module", m>> \in x.locks
      BY <1>6, <2>4
    <3>2. Reachable(c, <<"module", m>>, Db)
      BY <1>1, <3>1 DEF Sound, Held
    <3>3. Db.modules[m].track = t
      BY <3>2, CommandOps DEF Reachable, ModuleReaders
    <3> QED BY <2>2, <3>3, Fields DEF ModulesOf
  <2>5. ReadModules(x) = {}
    BY <2>4 DEF ReadModules
  <2> QED BY <1>3, <2>2, <2>3, <2>5, Fields
<1> QED BY <1>8, <1>9

LEMMA CreateModuleCommits ==
  ASSUME Ready, NEW w \in Workers, CommitCreateModule(w)
  PROVE  CreateModule(tx[w].cmd) /\ WritesApart(w)
<1> DEFINE x == tx[w]
           c == x.cmd
           t == c.track
           position == Cardinality(ReadModules(x)) + 1
           positionHere == Cardinality(ModulesOf(t)) + 1
           auth == x.authorized
           admin == c.actor \in admins
           known == Exists(x.tracks[t])
           present == Exists(tracks[t])
           free == Insertable(modules, ModulesOf(t), c.title, position)
           freeHere == Insertable(modules, ModulesOf(t), c.title, positionHere)
           result == CreateDecision(auth, known, c, free)
           here == CreateDecision(admin, present, c, freeHere)
           added == [tracks EXCEPT ![t].moduleOrder = x.tracks[t].moduleOrder + 1]
           more == [tracks EXCEPT ![t].moduleOrder = @ + 1]
<1>1. /\ Decides(w) /\ c.op = "create_module"
      /\ \/ /\ result = "SUCCESS"
            /\ \E m \in {k \in Modules : ~Exists(modules[k]) /\ ~Named("module", k)} :
                 /\ modules' = [modules EXCEPT
                                  ![m] = NewModule(t, c.title, position)]
                 /\ Record(c, "CREATE", "MODULE", m, result, TRUE)
            /\ tracks' = added
         \/ /\ result # "SUCCESS"
            /\ Record(c, "CREATE", "MODULE", NoOwner, result, FALSE)
            /\ UNCHANGED <<tracks, modules>>
      /\ UNCHANGED <<admins, items, trackVersions, moduleVersions,
                     contentVersions, orderRevision>>
  BY DEF CommitCreateModule
<1>2. /\ c \in Commands /\ c \in CreateModuleCmd
      /\ x.authorized \in BOOLEAN /\ (x.authorized <=> c.actor \in admins)
  BY <1>1, Deciding, CommandShapes
<1>3. c.ok \in BOOLEAN /\ t \in Tracks
  BY <1>2 DEF CreateModuleCmd
<1>4. x.authorized =>
        /\ Exists(x.tracks[t]) <=> Exists(tracks[t])
        /\ Exists(tracks[t]) => x.tracks[t] = tracks[t] /\ <<"track", t>> \in x.locks
        /\ ReadModules(x) = ModulesOf(t)
  BY <1>1, ModulesRead DEF ModuleReaders
<1>5. result = here /\ (result = "SUCCESS" => auth /\ known)
  <2>1. /\ auth \in BOOLEAN /\ admin \in BOOLEAN /\ free \in BOOLEAN
        /\ freeHere \in BOOLEAN /\ known \in BOOLEAN /\ present \in BOOLEAN
    BY <1>2 DEF Insertable, Exists
  <2>2. /\ auth <=> admin
        /\ auth => (known <=> present) /\ (free <=> freeHere)
    BY <1>2, <1>4
  <2> HIDE DEF auth, admin, free, freeHere, known, present
  <2>3. result = here
    BY <1>3, <2>1, <2>2, SameCreate
  <2>4. result = "SUCCESS" => auth /\ known
    BY <2>1, Denied, NotFound
  <2> QED BY <2>3, <2>4
<1>6. /\ tracks[t].moduleOrder < MaxOrder
      /\ tracks \in [Tracks -> TrackRow] /\ modules \in [Modules -> ModuleRow]
  BY <1>3 DEF Ready, Room, OrderInv, TypeInv, TypeOK
<1>7. CASE result = "SUCCESS"
  <2>1. /\ auth /\ present /\ position = positionHere /\ added = more
        /\ <<"track", t>> \in x.locks
    BY <1>4, <1>5, <1>7
  <2> HIDE DEF result, added
  <2>2. PICK m \in {k \in Modules : ~Exists(modules[k]) /\ ~Named("module", k)} :
          /\ modules' = [modules EXCEPT ![m] = NewModule(t, c.title, position)]
          /\ Record(c, "CREATE", "MODULE", m, result, TRUE)
    BY <1>1, <1>7
  <2>3. tracks' = more
    BY <1>1, <1>7, <2>1
  <2>4. CreateModule(c)
    <3>1. /\ here = "SUCCESS"
          /\ \E k \in {k \in Modules : ~Exists(modules[k])} :
               /\ modules' = [modules EXCEPT
                                ![k] = NewModule(t, c.title, positionHere)]
               /\ Record(c, "CREATE", "MODULE", k, here, TRUE)
      BY <1>5, <1>7, <2>1, <2>2
    <3> HIDE DEF here
    <3> QED BY <1>1, <1>6, <2>3, <3>1 DEF CreateModule, here
  <2>5. /\ m \in Modules /\ ~Exists(modules[m]) /\ ~Named("module", m)
        /\ \A k \in Modules : k # m => modules'[k] = modules[k]
        /\ modules'[m].track = t
    BY <1>6, <2>2 DEF NewModule
  <2>6. /\ \A k \in Tracks : k # t => tracks'[k] = tracks[k]
        /\ tracks'[t].status = tracks[t].status
    BY <1>3, <1>6, <2>3 DEF TrackRow
  <2>7. \A k \in Tracks : Exists(tracks'[k]) <=> Exists(tracks[k])
    BY <2>6 DEF Exists
  <2>8. UsedTracks' = UsedTracks /\ \A k : Contents(Db', k) = Contents(Db, k)
    BY <1>1, <2>7, Fields DEF Contents, UsedTracks
  <2>9. \A k \in Tracks : k # t => Inside(Db', k) = Inside(Db, k)
    <3>1. modules[m].track = NoOwner
      BY <2>5 DEF Ready, OrderInv, ModulesOrdered
    <3>2. NoOwner \notin Tracks
      BY CatalogKeysAssumption
    <3> QED BY <2>5, <3>1, <3>2, Fields DEF Inside
  <2>10. WritesLocked(x.locks, Db, Db')
    <3>1. /\ modules'[m].track \in Used(Db)
          /\ \A k \in Modules : k # m => modules'[k] = modules[k]
      BY <1>3, <2>1, <2>5, Fields DEF UsedTracks
    <3>2. \A k \in Modules :
            /\ modules'[k] # modules[k] => ~Exists(modules[k])
            /\ Exists(modules[k]) => modules'[k] = modules[k]
            /\ ~Exists(modules[k]) /\ Exists(modules'[k]) =>
                 modules'[k].track \in Used(Db)
            /\ Contents(Db', k) = Contents(Db, k)
      BY <2>5, <2>8, <3>1
    <3>3. \A k \in Tracks :
            /\ tracks'[k] # tracks[k] => <<"track", k>> \in x.locks
            /\ Inside(Db', k) # Inside(Db, k) => <<"track", k>> \in x.locks
      BY <2>1, <2>6, <2>9
    <3> QED BY <1>1, <2>8, <3>2, <3>3, Fields DEF WritesLocked
  <2>11. ASSUME NEW v \in Workers PROVE Spares(tx[v].cmd, Db, Db')
    <3>1. /\ tx[v].cmd.op \in TrackReaders => tx[v].cmd.track \in Tracks
          /\ tx[v].cmd.op = "create_content_draft" =>
               tx[v].cmd.module \in Modules /\ tx[v].cmd.module # m
      BY <2>5, FreshKey, CommandOps DEF Ready, TxInv, Transaction, NoCommand,
         TrackReaders, ModuleReaders
    <3> QED BY <1>1, <2>5, <2>7, <3>1, Fields DEF Spares
  <2>12. /\ modules[m].revision = 0 /\ modules'[m].revision = 1
         /\ \A k \in Tracks :
              /\ tracks'[k].revision = tracks[k].revision
              /\ tracks'[k].moduleOrder <= tracks[k].moduleOrder + 1
    <3>1. modules[m].revision = 0 /\ modules'[m].revision = 1
      BY <1>6, <2>2, <2>5 DEF Ready, OrderInv, ModulesOrdered, NewModule
    <3>2. \A k \in Tracks :
            /\ tracks'[k].revision = tracks[k].revision
            /\ tracks'[k].moduleOrder <= tracks[k].moduleOrder + 1
      BY <1>3, <1>6, <2>3 DEF TrackRow
    <3> QED BY <3>1, <3>2
  <2>13. Rises(Db, Db')
    BY <1>1, <1>6, <2>5, <2>12, Fields
       DEF Rises, Ready, OrderInv, TypeInv, TypeOK, TrackRow, ModuleRow, ItemRow
  <2> QED BY <2>4, <2>10, <2>11, <2>13 DEF WritesApart
<1>8. CASE result # "SUCCESS"
  <2> HIDE DEF result, here
  <2>1. /\ UNCHANGED <<tracks, modules>>
        /\ Record(c, "CREATE", "MODULE", NoOwner, here, FALSE)
        /\ here # "SUCCESS"
    BY <1>1, <1>5, <1>8
  <2>2. CreateModule(c)
    BY <1>1, <1>6, <2>1 DEF CreateModule, here
  <2>3. WritesApart(w)
    BY <1>1, <2>1, QuietCommit DEF Ready, OrderInv, TypeInv
  <2> QED BY <2>2, <2>3
<1> QED BY <1>7, <1>8

LEMMA EditModuleCommits ==
  ASSUME Ready, NEW w \in Workers, CommitEditModule(w)
  PROVE  EditModule(tx[w].cmd) /\ WritesApart(w)
<1> DEFINE x == tx[w]
           c == x.cmd
           t == c.track
           m == c.module
           row == x.modules[m]
           auth == x.authorized
           known == m \in ReadModules(x)
           admin == c.actor \in admins
           present == modules[m].track = t
           free == TitleFree(modules, ModulesOf(t), m, c.title)
           result == EditDecision(auth, known, row, c, free)
           here == EditDecision(admin, present, modules[m], c, free)
<1>1. /\ Decides(w) /\ c.op = "edit_module"
      /\ Record(c, "EDIT", "MODULE", m, result, result = "SUCCESS")
      /\ \/ /\ result = "SUCCESS"
            /\ modules' = [modules EXCEPT ![m] = Edited(row, c.title)]
            /\ moduleVersions' = moduleVersions
                 \cup Snapshot(m, row, Edited(row, c.title), c.title)
         \/ result # "SUCCESS" /\ UNCHANGED <<modules, moduleVersions>>
      /\ UNCHANGED <<admins, tracks, items, trackVersions, contentVersions,
                     orderRevision>>
  BY DEF CommitEditModule
<1>2. /\ c \in Commands /\ c \in EditModuleCmd
      /\ x.authorized \in BOOLEAN /\ (x.authorized <=> c.actor \in admins)
  BY <1>1, Deciding, CommandShapes
<1>3. t \in Tracks /\ m \in Modules /\ c.title \in Titles
  BY <1>2 DEF EditModuleCmd
<1>4. x.authorized =>
        /\ m \in ReadModules(x) <=> modules[m].track = t
        /\ m \in ReadModules(x) => /\ row = modules[m] /\ Exists(modules[m])
                                   /\ <<"module", m>> \in x.locks
  BY ZenonT(60), <1>1, <1>3, ModulesRead DEF ModuleReaders, ModulesOf
<1>5. result = here /\ (result = "SUCCESS" => auth /\ known)
  <2>1. /\ auth \in BOOLEAN /\ known \in BOOLEAN /\ admin \in BOOLEAN
        /\ present \in BOOLEAN /\ free \in BOOLEAN
    BY <1>2 DEF TitleFree
  <2>2. /\ auth <=> admin
        /\ auth => (known <=> present)
        /\ auth /\ known => row = modules[m]
    BY <1>2, <1>4
  <2> HIDE DEF auth, known, admin, present, free, row
  <2>3. result = here
    BY <2>1, <2>2, SameEdit
  <2>4. result = "SUCCESS" => auth /\ known
    BY <2>1, Denied, NotFound
  <2> QED BY <2>3, <2>4
<1>6. modules[m] \in ModuleRow /\ modules[m].revision < MaxRevision
  BY <1>3 DEF Ready, Room, OrderInv, TypeInv, TypeOK
<1> HIDE DEF free
<1>7. CASE result = "SUCCESS"
  <2>1. row = modules[m] /\ <<"module", m>> \in x.locks /\ Exists(modules[m])
    BY <1>4, <1>5, <1>7
  <2>2. EditModule(c)
    <3> HIDE DEF result
    <3> QED BY <1>1, <1>5, <1>6, <1>7, <2>1 DEF EditModule, free
  <2>3. /\ Exists(Edited(row, c.title))
        /\ Edited(row, c.title).track = modules[m].track
        /\ Edited(row, c.title).revision = modules[m].revision + 1
    BY <1>6, <2>1, ModuleCounts DEF Exists
  <2>4. WritesApart(w)
    <3> HIDE DEF result
    <3> QED BY <1>1, <1>3, <1>7, <2>1, <2>3, ModuleCommit
            DEF Ready, OrderInv, TypeInv
  <2> QED BY <2>2, <2>4
<1>8. CASE result # "SUCCESS"
  <2>1. UNCHANGED <<modules, moduleVersions>>
    BY <1>1, <1>8
  <2>2. Snapshot(m, modules[m], modules[m], c.title) = {}
    BY DEF Snapshot
  <2>3. modules = [modules EXCEPT ![m] = modules[m]]
    BY DEF Ready, OrderInv, TypeInv, TypeOK
  <2>4. EditModule(c)
    <3> HIDE DEF result
    <3> QED BY <1>1, <1>5, <1>6, <1>8, <2>1, <2>2, <2>3 DEF EditModule, free
  <2>5. WritesApart(w)
    BY <1>1, <2>1, QuietCommit DEF Ready, OrderInv, TypeInv
  <2> QED BY <2>4, <2>5
<1> QED BY <1>7, <1>8

LEMMA ChangeModuleStatusCommits ==
  ASSUME Ready, NEW w \in Workers, CommitChangeModuleStatus(w)
  PROVE  ChangeModuleStatus(tx[w].cmd) /\ WritesApart(w)
<1> DEFINE x == tx[w]
           c == x.cmd
           t == c.track
           m == c.module
           row == x.modules[m]
           owner == x.tracks[t]
           auth == x.authorized
           admin == c.actor \in admins
           result == ModuleStatusDecision(auth, row, owner, c, ReadActive(x))
           here == ModuleStatusDecision(admin, modules[m], tracks[t], c,
                                        ActiveModules(t))
           changed == result = "SUCCESS" /\ row.status # c.target
           changedHere == here = "SUCCESS" /\ modules[m].status # c.target
<1>1. /\ Decides(w) /\ c.op = "change_module_status"
      /\ Record(c, StatusAction(c.target), "MODULE", m, result, changed)
      /\ \/ /\ changed
            /\ modules' = [modules EXCEPT ![m] = WithStatus(row, c.target)]
            /\ moduleVersions' = moduleVersions
                 \cup Snapshot(m, row, WithStatus(row, c.target), row.title)
         \/ ~changed /\ UNCHANGED <<modules, moduleVersions>>
      /\ UNCHANGED <<admins, tracks, items, trackVersions, contentVersions,
                     orderRevision>>
  BY DEF CommitChangeModuleStatus
<1>2. /\ c \in Commands /\ c \in ModuleStatusCmd
      /\ x.authorized \in BOOLEAN /\ (x.authorized <=> c.actor \in admins)
  BY <1>1, Deciding, CommandShapes
<1>3. t \in Tracks /\ m \in Modules /\ c.rev \in Int /\ c.pub \in BOOLEAN
  BY <1>2 DEF ModuleStatusCmd
<1>4. x.authorized =>
        /\ row.track = t <=> modules[m].track = t
        /\ row.track = t => /\ row = modules[m] /\ Exists(modules[m])
                            /\ <<"module", m>> \in x.locks
                            /\ owner = tracks[t]
                            /\ ReadActive(x) = ActiveModules(t)
  <2>1. ASSUME x.authorized
        PROVE  /\ Exists(tracks[t]) => owner = tracks[t]
               /\ ReadModules(x) = ModulesOf(t)
               /\ \A k \in ModulesOf(t) : /\ x.modules[k] = modules[k]
                                          /\ <<"module", k>> \in x.locks
                                          /\ Exists(modules[k])
               /\ \A k \in Modules \ ModulesOf(t) : x.modules[k].track # t
               /\ ModulesOf(t) # {} => Exists(tracks[t])
    BY <1>1, <2>1, ModulesRead DEF ModuleReaders
  <2>2. x.authorized => ReadActive(x) = ActiveModules(t)
    BY <2>1 DEF ReadActive, ActiveModules
  <2> QED BY <1>3, <2>1, <2>2 DEF ModulesOf
<1>5. result = here /\ (result = "SUCCESS" => auth /\ row.track = t)
  <2> DEFINE reads == ReadActive(x)
             actives == ActiveModules(t)
             known == row.track = t
  <2>1. auth \in BOOLEAN /\ admin \in BOOLEAN
    BY <1>2
  <2>2. /\ auth <=> admin
        /\ auth => (row.track = t <=> modules[m].track = t)
        /\ auth /\ row.track = t =>
             row = modules[m] /\ owner = tracks[t] /\ reads = actives
    BY <1>2, <1>4
  <2>3. result = here
    <3> DEFINE rowHere == modules[m]
               ownerHere == tracks[t]
    <3>1. /\ auth => (row.track = t <=> rowHere.track = t)
          /\ auth /\ row.track = t =>
               row = rowHere /\ owner = ownerHere /\ reads = actives
          /\ t = c.track /\ c \in Commands
      BY <1>2, <2>2
    <3> HIDE DEF c, auth, admin, row, owner, reads, actives, rowHere, ownerHere
    <3>2. ModuleStatusDecision(auth, row, owner, c, reads) =
            ModuleStatusDecision(admin, rowHere, ownerHere, c, actives)
      <4>1. CASE ~auth
        BY <2>1, <2>2, <4>1, Denied
      <4>2. CASE auth /\ row.track # t
        <5>1. ModuleStatusDecision(auth, row, owner, c, reads) = "NOT_FOUND"
          BY <3>1, <4>2 DEF ModuleStatusDecision, Decision
        <5>2. admin /\ rowHere.track # c.track
          BY <2>2, <3>1, <4>2
        <5>3. ModuleStatusDecision(admin, rowHere, ownerHere, c, actives)
                = "NOT_FOUND"
          BY <5>2 DEF ModuleStatusDecision, Decision
        <5> QED BY <5>1, <5>3
      <4>3. CASE auth /\ row.track = t
        <5>1. /\ row = rowHere /\ owner = ownerHere /\ reads = actives
              /\ auth = admin
          BY <2>1, <2>2, <3>1, <4>3
        <5> QED BY <5>1
      <4> QED BY <2>1, <4>1, <4>2, <4>3
    <3> QED BY <3>2 DEF c, reads, actives, rowHere, ownerHere
  <2>4. result = "SUCCESS" => auth
    <3> HIDE DEF auth, row, owner
    <3> QED BY <2>1, Denied
  <2>5. row.track # t => result # "SUCCESS"
    <3> HIDE DEF auth, row, owner
    <3> QED BY <2>1 DEF ModuleStatusDecision, Decision
  <2> QED BY <2>3, <2>4, <2>5
<1>6. modules[m] \in ModuleRow /\ modules[m].revision < MaxRevision
  BY <1>3 DEF Ready, Room, OrderInv, TypeInv, TypeOK
<1>7. result = "SUCCESS" => c.target \in Status
  <2> DEFINE actives == ActiveModules(t)
  <2>1. here = "SUCCESS" => c.target \in Status
    <3>1. admin \in BOOLEAN /\ modules[m].revision \in Nat
      BY <1>6 DEF ModuleRow
    <3> DEFINE rowHere == modules[m]
               ownerHere == tracks[t]
    <3>2. /\ rowHere.revision \in Nat /\ c.rev \in Int /\ c.pub \in BOOLEAN
          /\ c \in Commands
      BY <1>2, <1>3, <3>1
    <3> HIDE DEF c, admin, actives, rowHere, ownerHere
    <3>3. c.target \notin Status =>
            ModuleStatusDecision(admin, rowHere, ownerHere, c, actives)
              # "SUCCESS"
      BY <3>1, <3>2 DEF ModuleStatusDecision, Decision, Supported, Status
    <3> QED BY <3>3 DEF c, actives, rowHere, ownerHere
  <2> QED BY <2>1, <1>5
<1>8. changedHere <=> changed
  BY <1>4, <1>5
<1>9. CASE changed
  <2>1. row = modules[m] /\ <<"module", m>> \in x.locks /\ Exists(modules[m])
    BY <1>4, <1>5, <1>9
  <2>2. ChangeModuleStatus(c)
    <3> HIDE DEF result
    <3> QED BY <1>1, <1>5, <1>6, <1>8, <1>9, <2>1 DEF ChangeModuleStatus
  <2>3. /\ Exists(WithStatus(row, c.target))
        /\ WithStatus(row, c.target).track = modules[m].track
        /\ WithStatus(row, c.target).revision = modules[m].revision + 1
    BY <1>6, <1>7, <1>9, <2>1, ModuleCounts DEF Exists, Status
  <2>4. WritesApart(w)
    <3> HIDE DEF result
    <3> QED BY <1>1, <1>3, <1>9, <2>1, <2>3, ModuleCommit
            DEF Ready, OrderInv, TypeInv
  <2> QED BY <2>2, <2>4
<1>10. CASE ~changed
  <2>1. UNCHANGED <<modules, moduleVersions>>
    BY <1>1, <1>10
  <2>2. Snapshot(m, modules[m], modules[m], modules[m].title) = {}
    BY DEF Snapshot
  <2>3. modules = [modules EXCEPT ![m] = modules[m]]
    BY DEF Ready, OrderInv, TypeInv, TypeOK
  <2>4. ChangeModuleStatus(c)
    <3> HIDE DEF result
    <3> QED BY <1>1, <1>5, <1>6, <1>8, <1>10, <2>1, <2>2, <2>3
            DEF ChangeModuleStatus
  <2>5. WritesApart(w)
    BY <1>1, <2>1, QuietCommit DEF Ready, OrderInv, TypeInv
  <2> QED BY <2>4, <2>5
<1> QED BY <1>9, <1>10

LEMMA MoveModuleCommits ==
  ASSUME Ready, NEW w \in Workers, CommitMoveModule(w)
  PROVE  MoveModule(tx[w].cmd) /\ WritesApart(w)
<1> DEFINE x == tx[w]
           c == x.cmd
           t == c.track
           keys == ReadModules(x)
           siblings == ModulesOf(t)
           owner == x.tracks[t]
           auth == x.authorized
           admin == c.actor \in admins
           known == c.module \in keys
           present == c.module \in siblings
           result == MoveDecision(auth, known, owner.moduleOrder, c,
                                  Cardinality(keys))
           here == MoveDecision(admin, present, tracks[t].moduleOrder, c,
                                Cardinality(siblings))
           changed == /\ result = "SUCCESS"
                      /\ Displaced(x.modules, keys, c.module, c.position) # {}
           changedHere ==
             /\ here = "SUCCESS"
             /\ Displaced(modules, siblings, c.module, c.position) # {}
           after(m) == Moved(x.modules, keys, c.module, c.position, m)
           added == [tracks EXCEPT ![t].moduleOrder = owner.moduleOrder + 1]
           more == [tracks EXCEPT ![t].moduleOrder = @ + 1]
<1>1. /\ Decides(w) /\ c.op = "move_module"
      /\ Record(c, "REORDER", "MODULE", c.module, result, changed)
      /\ \/ /\ changed
            /\ modules' = [m \in Modules |->
                 IF m \in keys
                 THEN [modules[m] EXCEPT !.position = after(m).position,
                                         !.revision = after(m).revision]
                 ELSE modules[m]]
            /\ tracks' = added
         \/ ~changed /\ UNCHANGED <<modules, tracks>>
      /\ UNCHANGED <<admins, items, trackVersions, moduleVersions,
                     contentVersions, orderRevision>>
  BY DEF CommitMoveModule
<1>2. /\ c \in Commands /\ c \in MoveModuleCmd
      /\ x.authorized \in BOOLEAN /\ (x.authorized <=> c.actor \in admins)
  BY <1>1, Deciding, CommandShapes
<1>3. t \in Tracks /\ c.module \in Modules
  BY <1>2 DEF MoveModuleCmd
<1>4. x.authorized =>
        /\ keys = siblings
        /\ \A m \in keys : x.modules[m] = modules[m] /\ <<"module", m>> \in x.locks
        /\ c.module \in keys => owner = tracks[t] /\ <<"track", t>> \in x.locks
  <2>1. ASSUME x.authorized
        PROVE  /\ Exists(tracks[t]) => owner = tracks[t] /\ <<"track", t>> \in x.locks
               /\ ReadModules(x) = ModulesOf(t)
               /\ \A k \in ModulesOf(t) : /\ x.modules[k] = modules[k]
                                          /\ <<"module", k>> \in x.locks
               /\ ModulesOf(t) # {} => Exists(tracks[t])
    BY <1>1, <2>1, ModulesRead DEF ModuleReaders
  <2> QED BY <2>1
<1>5. result = here /\ (result = "SUCCESS" => auth /\ known)
  <2> DEFINE n == Cardinality(keys)
             nHere == Cardinality(siblings)
             order == owner.moduleOrder
             orderHere == tracks[t].moduleOrder
  <2>1. /\ auth \in BOOLEAN /\ admin \in BOOLEAN /\ known \in BOOLEAN
        /\ present \in BOOLEAN
    BY <1>2
  <2>2. /\ auth <=> admin
        /\ auth => (known <=> present)
        /\ auth /\ known => order = orderHere /\ n = nHere
    BY <1>2, <1>4
  <2>3. MoveDecision(auth, known, order, c, n) =
          MoveDecision(admin, present, orderHere, c, nHere)
    <3> HIDE DEF auth, admin, known, present, n, nHere, order, orderHere
    <3> QED BY <2>1, <2>2, SameMove
  <2>4. MoveDecision(auth, known, order, c, n) = "SUCCESS" => auth /\ known
    <3> HIDE DEF auth, known, n, order
    <3> QED BY <2>1, Denied, NotFound
  <2> QED BY <2>3, <2>4
<1>6. /\ tracks[t].moduleOrder < MaxOrder
      /\ \A m \in siblings : modules[m].revision < MaxRevision
      /\ tracks \in [Tracks -> TrackRow] /\ modules \in [Modules -> ModuleRow]
  BY <1>3 DEF Ready, Room, OrderInv, TypeInv, TypeOK, ModulesOf
<1>7. ASSUME result = "SUCCESS"
      PROVE  /\ Displaced(x.modules, keys, c.module, c.position) =
                  Displaced(modules, siblings, c.module, c.position)
             /\ \A m \in keys : after(m) =
                  Moved(modules, siblings, c.module, c.position, m)
  <2>1. /\ keys = siblings /\ c.module \in keys
        /\ \A m \in keys : x.modules[m] = modules[m]
    BY <1>4, <1>5, <1>7
  <2> HIDE DEF keys, siblings
  <2>2. /\ Displaced(x.modules, keys, c.module, c.position) =
             Displaced(modules, keys, c.module, c.position)
        /\ \A m \in keys : Moved(x.modules, keys, c.module, c.position, m) =
             Moved(modules, keys, c.module, c.position, m)
    <3> DEFINE copy == x.modules
               mover == c.module
               place == c.position
    <3>1. mover \in keys /\ \A k \in keys : copy[k] = modules[k]
      BY <2>1
    <3> HIDE DEF copy, mover, place
    <3>2. /\ Displaced(copy, keys, mover, place) =
               Displaced(modules, keys, mover, place)
          /\ \A m \in keys : Moved(copy, keys, mover, place, m) =
               Moved(modules, keys, mover, place, m)
      BY <3>1, SamePlaces
    <3> QED BY <3>2 DEF copy, mover, place
  <2> QED BY <2>1, <2>2
<1>8. changed <=> changedHere
  BY <1>5, <1>7
<1>9. CASE changed
  <2>1. /\ <<"track", t>> \in x.locks /\ added = more
        /\ keys = siblings /\ \A m \in keys : <<"module", m>> \in x.locks
        /\ \A m \in keys : after(m) =
             Moved(modules, siblings, c.module, c.position, m)
    BY <1>4, <1>5, <1>7, <1>9
  <2> DEFINE moved(m) == Moved(modules, siblings, c.module, c.position, m)
  <2>2. ASSUME NEW m \in siblings
        PROVE  [modules[m] EXCEPT !.position = moved(m).position,
                                  !.revision = moved(m).revision] = moved(m)
    <3>1. modules[m] \in ModuleRow
      BY <1>6 DEF ModulesOf
    <3> QED BY <3>1 DEF Moved, ModuleRow
  <2> HIDE DEF result, changed, keys, after, here, added
  <2>3. modules' = [m \in Modules |->
                      IF m \in siblings THEN moved(m) ELSE modules[m]]
    <3>1. modules' = [m \in Modules |->
                 IF m \in keys
                 THEN [modules[m] EXCEPT !.position = after(m).position,
                                         !.revision = after(m).revision]
                 ELSE modules[m]]
      BY <1>1, <1>9
    <3> HIDE DEF moved
    <3> QED BY <2>1, <2>2, <3>1 DEF moved
  <2>4. tracks' = more
    BY <1>1, <1>9, <2>1
  <2>5. MoveModule(c)
    <3>1. changedHere /\ Record(c, "REORDER", "MODULE", c.module, here, changedHere)
      BY <1>1, <1>5, <1>8, <1>9
    <3> HIDE DEF changedHere
    <3>2. /\ modules' = [m \in Modules |->
                IF changedHere /\ m \in siblings
                THEN Moved(modules, siblings, c.module, c.position, m)
                ELSE modules[m]]
          /\ tracks' = IF changedHere THEN more ELSE tracks
      BY <2>3, <2>4, <3>1
    <3> QED BY <1>1, <1>6, <3>1, <3>2 DEF MoveModule, changedHere, here
  <2>6. \A m \in Modules :
          /\ m \notin siblings => modules'[m] = modules[m]
          /\ modules'[m].status = modules[m].status
          /\ modules'[m].track = modules[m].track
    BY <1>6, <2>3 DEF Moved, ModulesOf, ModuleRow
  <2>7. \A m \in Modules : Exists(modules'[m]) <=> Exists(modules[m])
    BY <2>6 DEF Exists
  <2>8. /\ \A k \in Tracks : k # t => tracks'[k] = tracks[k]
        /\ tracks'[t].status = tracks[t].status
    BY <1>3, <1>6, <2>4 DEF TrackRow
  <2>9. \A k \in Tracks : Exists(tracks'[k]) <=> Exists(tracks[k])
    BY <2>8 DEF Exists
  <2>10. /\ \A k : Inside(Db', k) = Inside(Db, k)
         /\ \A k : Contents(Db', k) = Contents(Db, k)
         /\ UsedTracks' = UsedTracks
    BY <1>1, <2>6, <2>9, Fields DEF Inside, Contents, UsedTracks
  <2>11. WritesLocked(x.locks, Db, Db')
    BY <1>1, <2>1, <2>6, <2>7, <2>8, <2>10, Fields DEF WritesLocked
  <2>12. ASSUME NEW v \in Workers PROVE Spares(tx[v].cmd, Db, Db')
    <3>1. /\ tx[v].cmd.op \in TrackReaders => tx[v].cmd.track \in Tracks
          /\ tx[v].cmd.op = "create_content_draft" =>
               tx[v].cmd.module \in Modules
      BY CommandOps DEF Ready, TxInv, Transaction, NoCommand, TrackReaders,
                        ModuleReaders
    <3> QED BY <1>1, <2>7, <2>9, <3>1, Fields DEF Spares
  <2>13. /\ \A m \in Modules : modules'[m].revision <= modules[m].revision + 1
         /\ \A k \in Tracks :
              /\ tracks'[k].revision = tracks[k].revision
              /\ tracks'[k].moduleOrder <= tracks[k].moduleOrder + 1
    <3>1. ASSUME NEW k \in Modules
          PROVE  modules'[k].revision <= modules[k].revision + 1
      <4>1. modules[k] \in ModuleRow
        BY <1>6
      <4>2. CASE k \in siblings
        <5>1. modules'[k] = Moved(modules, siblings, c.module, c.position, k)
          BY <2>3, <4>2
        <5> QED BY <4>1, <5>1 DEF Moved, ModuleRow
      <4>3. CASE k \notin siblings
        <5>1. modules'[k] = modules[k]
          BY <2>3, <4>3
        <5> QED BY <4>1, <5>1 DEF ModuleRow
      <4> QED BY <4>2, <4>3
    <3>2. \A k \in Tracks :
            /\ tracks'[k].revision = tracks[k].revision
            /\ tracks'[k].moduleOrder <= tracks[k].moduleOrder + 1
      BY <1>3, <1>6, <2>4 DEF TrackRow
    <3> QED BY <3>1, <3>2
  <2>14. Rises(Db, Db')
    <3>1. /\ \A i \in Items : items'[i].revision <= items[i].revision + 1
          /\ orderRevision' <= orderRevision + 1
      <4>1. UNCHANGED <<items, orderRevision>>
        BY <1>1
      <4>2. items \in [Items -> ItemRow] /\ orderRevision \in Nat
        BY DEF Ready, OrderInv, TypeInv, TypeOK
      <4> QED BY <4>1, <4>2 DEF ItemRow
    <3>2. \A k \in Tracks : tracks'[k].revision <= tracks[k].revision + 1
      BY <1>6, <2>13 DEF TrackRow
    <3> QED BY <2>13, <3>1, <3>2, Fields DEF Rises
  <2> QED BY <2>5, <2>11, <2>12, <2>14 DEF WritesApart
<1>10. CASE ~changed
  <2> HIDE DEF result, here
  <2>1. /\ UNCHANGED <<tracks, modules>> /\ ~changedHere
        /\ Record(c, "REORDER", "MODULE", c.module, here, changedHere)
    BY <1>1, <1>5, <1>8, <1>10
  <2> HIDE DEF changedHere
  <2>2. /\ modules' = [m \in Modules |->
              IF changedHere /\ m \in siblings
              THEN Moved(modules, siblings, c.module, c.position, m)
              ELSE modules[m]]
        /\ tracks' = IF changedHere THEN more ELSE tracks
    BY <1>6, <2>1 DEF Ready, OrderInv, TypeInv, TypeOK
  <2>3. MoveModule(c)
    BY <1>1, <1>6, <2>1, <2>2 DEF MoveModule, changedHere, here
  <2>4. WritesApart(w)
    BY <1>1, <2>1, QuietCommit DEF Ready, OrderInv, TypeInv
  <2> QED BY <2>3, <2>4
<1> QED BY <1>9, <1>10

\* create_content_draft locked its module and every item in it.
LEMMA ItemsRead ==
  ASSUME NEW d, WellFormed(d), NEW x, Sound(x, d), x.cmd \in Commands,
         x.scan = {}, x.cmd.op = "create_content_draft", x.plan = <<>>,
         Exists(x.modules[x.cmd.module])
  PROVE  /\ x.cmd.module \in Modules /\ Exists(d.modules[x.cmd.module])
         /\ x.modules[x.cmd.module] = d.modules[x.cmd.module]
         /\ <<"module", x.cmd.module>> \in x.locks
         /\ ReadItems(x) = Contents(d, x.cmd.module)
         /\ \A i \in Contents(d, x.cmd.module) : x.items[i] = d.items[i]
<1> DEFINE m == x.cmd.module
<1>1. m \in Modules
  BY CommandOps
<1>2. /\ Exists(d.modules[m]) /\ x.modules[m] = d.modules[m]
      /\ <<"module", m>> \in x.locks
  BY <1>1, ReadRows
<1>3. \A i \in Contents(d, m) : <<"item", i>> \in x.locks
  BY <1>2 DEF Sound, Covered, Held
<1>4. ASSUME NEW i \in Items, <<"item", i>> \in x.locks
      PROVE  d.items[i].module = m
  <2>1. Reachable(x.cmd, <<"item", i>>, d)
    BY <1>4 DEF Sound, Held
  <2> QED BY <2>1 DEF Reachable
<1>5. ReadItems(x) = Contents(d, m)
  BY <1>3, <1>4, ReadRows DEF ReadItems, Contents
<1>6. ASSUME NEW i \in Contents(d, m)
      PROVE  x.items[i] = d.items[i]
  <2>1. i \in Items /\ <<"item", i>> \in x.locks
    BY <1>3 DEF Contents
  <2>2. Copies(x, d)
    BY DEF Sound
  <2> QED BY <2>1, <2>2 DEF Copies
<1> QED BY <1>1, <1>2, <1>5, <1>6

LEMMA ItemsRise ==
  ASSUME Ready, UNCHANGED <<tracks, orderRevision>>,
         \A m \in Modules : \/ modules'[m].revision = modules[m].revision
                           \/ modules'[m].revision <= modules[m].revision + 1,
         \A i \in Items : \/ items'[i].revision = items[i].revision
                         \/ items'[i].revision <= items[i].revision + 1
  PROVE  Rises(Db, Db')
<1>1. /\ orderRevision \in Nat
      /\ \A t \in Tracks : /\ tracks[t].revision \in Nat
                           /\ tracks[t].moduleOrder \in Nat
      /\ \A m \in Modules : modules[m].revision \in Nat
      /\ \A i \in Items : items[i].revision \in Nat
  BY DEF Ready, OrderInv, TypeInv, TypeOK, TrackRow, ModuleRow, ItemRow
<1>2. orderRevision' <= orderRevision + 1
  BY <1>1
<1>3. ASSUME NEW t \in Tracks
      PROVE  /\ tracks'[t].revision <= tracks[t].revision + 1
             /\ tracks'[t].moduleOrder <= tracks[t].moduleOrder + 1
  BY <1>1
<1>4. ASSUME NEW m \in Modules
      PROVE  modules'[m].revision <= modules[m].revision + 1
  BY <1>1
<1>5. ASSUME NEW i \in Items
      PROVE  items'[i].revision <= items[i].revision + 1
  BY <1>1
<1> QED BY <1>2, <1>3, <1>4, <1>5, Fields DEF Rises

LEMMA CreateContentDraftCommits ==
  ASSUME Ready, NEW w \in Workers, CommitCreateContentDraft(w)
  PROVE  CreateContentDraft(tx[w].cmd) /\ WritesApart(w)
<1> DEFINE x == tx[w]
           c == x.cmd
           m == c.module
           row == x.modules[m]
           siblings == ItemsOf(m)
           auth == x.authorized
           admin == c.actor \in admins
           known == Exists(row)
           valid == Contiguous(x.items, ReadItems(x))
           position == Cardinality(ReadItems(x)) + 1
           more == [modules EXCEPT ![m].revision = @ + 1]
<1>1. /\ Decides(w) /\ c.op = "create_content_draft"
      /\ Decision(auth, known, c.rev, 1, row.revision, valid) = "SUCCESS"
      /\ \E i \in {k \in Items : ~Exists(items[k]) /\ ~Named("item", k)} :
           items' = [items EXCEPT ![i] = NewItem(m, position)]
      /\ modules' = [modules EXCEPT ![m].revision = row.revision + 1]
      /\ UNCHANGED <<admins, tracks, trackVersions, moduleVersions,
                     contentVersions, orderRevision, log>>
  BY DEF CommitCreateContentDraft
<1>2. /\ c \in Commands /\ c \in CreateDraftCmd /\ x.scan = {}
      /\ WellFormed(Db) /\ Sound(x, Db)
      /\ x.authorized \in BOOLEAN /\ (x.authorized <=> c.actor \in admins)
      /\ Settled(x) \/ x.plan = <<>>
  BY <1>1, Deciding, CommandShapes
<1>3. m \in Modules /\ c.rev \in Int
  BY <1>2 DEF CreateDraftCmd
<1>4. /\ tracks \in [Tracks -> TrackRow] /\ modules \in [Modules -> ModuleRow]
      /\ items \in [Items -> ItemRow] /\ modules[m].revision < MaxRevision
  BY <1>3 DEF Ready, Room, OrderInv, TypeInv, TypeOK
<1>5. auth /\ known
  <2>1. x \in Transaction
    BY <1>2 DEF Sound
  <2>2. row.revision \in Int
    BY <1>3, <2>1 DEF Transaction, ModuleRow
  <2>3. auth \in BOOLEAN /\ known \in BOOLEAN /\ valid \in BOOLEAN
    BY <1>2 DEF Exists, Contiguous
  <2> DEFINE now == row.revision
  <2> HIDE DEF auth, known, valid, now
  <2>4. Decision(auth, known, c.rev, 1, now, valid) = "SUCCESS"
    BY <1>1 DEF now
  <2>5. now \in Int
    BY <2>2 DEF now
  <2> QED BY <1>3, <2>3, <2>4, <2>5 DEF Decision
<1>6. x.plan = <<>>
  BY <1>1, <1>2, <1>5 DEF Settled
<1>7. /\ Exists(modules[m]) /\ row = modules[m]
      /\ <<"module", m>> \in x.locks /\ ReadItems(x) = siblings
      /\ \A i \in siblings : x.items[i] = items[i]
  <2>1. /\ Exists(Db.modules[m]) /\ row = Db.modules[m]
        /\ <<"module", m>> \in x.locks /\ ReadItems(x) = Contents(Db, m)
        /\ \A i \in Contents(Db, m) : x.items[i] = Db.items[i]
    BY <1>1, <1>2, <1>5, <1>6, ItemsRead
  <2> QED BY <2>1, Fields
<1>8. valid <=> Contiguous(items, siblings)
  BY <1>7 DEF Contiguous
<1>9. Decision(admin, Exists(modules[m]), c.rev, 1, modules[m].revision,
               Contiguous(items, siblings)) = "SUCCESS"
  <2> DEFINE validHere == Contiguous(items, siblings)
             here == Exists(modules[m])
             now == modules[m].revision
  <2>1. /\ Decision(auth, known, c.rev, 1, now, valid) = "SUCCESS"
        /\ auth = admin /\ known = here /\ valid = validHere
    <3>1. Decision(auth, known, c.rev, 1, now, valid) = "SUCCESS"
      <4> HIDE DEF auth, known, valid
      <4> QED BY <1>1, <1>7
    <3>2. known = here
      BY <1>7
    <3>3. auth = admin
      BY <1>2
    <3>4. valid = validHere
      <4>1. valid \in BOOLEAN /\ validHere \in BOOLEAN
        BY DEF Contiguous
      <4> HIDE DEF valid, validHere
      <4> QED BY <1>8, <4>1 DEF validHere
    <3> QED BY <3>1, <3>2, <3>3, <3>4
  <2>2. Decision(admin, here, c.rev, 1, now, validHere) = "SUCCESS"
    <3> HIDE DEF auth, admin, known, here, valid, validHere, now
    <3> QED BY <2>1
  <2> QED BY <2>2
<1>10. PICK i \in {k \in Items : ~Exists(items[k]) /\ ~Named("item", k)} :
         items' = [items EXCEPT ![i] = NewItem(m, Cardinality(siblings) + 1)]
  BY <1>1, <1>7
<1>11. modules' = more
  BY <1>1, <1>4, <1>7
<1>12. CreateContentDraft(c)
  <2>1. \E k \in {j \in Items : ~Exists(items[j])} :
          items' = [items EXCEPT ![k] = NewItem(m, Cardinality(siblings) + 1)]
    BY <1>10
  <2> QED BY <1>1, <1>4, <1>9, <1>11, <2>1 DEF CreateContentDraft
<1>13. /\ i \in Items /\ ~Exists(items[i]) /\ ~Named("item", i)
       /\ \A k \in Items : k # i => items'[k] = items[k]
       /\ items'[i].module = m
  BY <1>4, <1>10 DEF NewItem
<1>14. items[i].module = NoOwner
  BY <1>13 DEF Ready, OrderInv, ItemsOrdered
<1>15. \A k \in Modules : /\ k # m => modules'[k] = modules[k]
                          /\ modules'[k].status = modules[k].status
                          /\ modules'[k].track = modules[k].track
  BY <1>3, <1>4, <1>11 DEF ModuleRow
<1>16. \A k \in Modules : Exists(modules'[k]) <=> Exists(modules[k])
  BY <1>15 DEF Exists
<1>17. /\ \A k : Inside(Db', k) = Inside(Db, k)
       /\ UsedTracks' = UsedTracks
  <2>1. ASSUME NEW k PROVE Inside(Db', k) = Inside(Db, k)
    <3>1. Db'.modules = modules' /\ Db.modules = modules
      BY Fields
    <3> QED BY <1>15, <3>1 DEF Inside
  <2>2. UsedTracks' = UsedTracks
    BY <1>1 DEF UsedTracks
  <2> QED BY <2>1, <2>2
<1>18. \A k \in Modules : k # m => Contents(Db', k) = Contents(Db, k)
  <2>1. NoOwner \notin Modules
    BY CatalogKeysAssumption
  <2> QED BY <1>13, <1>14, <2>1, Fields DEF Contents
<1>19. WritesLocked(x.locks, Db, Db')
  <2>1. \A t \in Tracks :
          /\ Db'.tracks[t] = Db.tracks[t]
          /\ t \in Used(Db) => t \in Used(Db')
          /\ Inside(Db', t) = Inside(Db, t)
    BY <1>1, <1>17, Fields
  <2>2. ASSUME NEW k \in Modules
        PROVE  /\ Db'.modules[k] # Db.modules[k] => <<"module", k>> \in x.locks
               /\ Exists(Db'.modules[k]) <=> Exists(Db.modules[k])
               /\ Db'.modules[k].track = Db.modules[k].track
               /\ Contents(Db', k) # Contents(Db, k) =>
                    <<"module", k>> \in x.locks
    BY <1>7, <1>15, <1>16, <1>18, Fields
  <2>3. ASSUME NEW k \in Items
        PROVE  /\ Db'.items[k] # Db.items[k] => ~Exists(Db.items[k])
               /\ Exists(Db.items[k]) => Db'.items[k] = Db.items[k]
    BY <1>13, Fields
  <2>4. Db'.admins = Db.admins /\ Db'.order = Db.order /\ Used(Db') = Used(Db)
    BY <1>1, <1>17, Fields
  <2> QED BY <2>1, <2>2, <2>3, <2>4 DEF WritesLocked
<1>20. ASSUME NEW v \in Workers PROVE Spares(tx[v].cmd, Db, Db')
  <2>1. /\ tx[v].cmd.op \in {"create_content_draft"} =>
             tx[v].cmd.module \in Modules
        /\ tx[v].cmd.op = "publish_content_item" =>
             tx[v].cmd.item \in Items /\ tx[v].cmd.item # i
    BY <1>13, FreshKey, CommandOps DEF Ready, TxInv, Transaction, NoCommand
  <2> QED BY <1>1, <1>13, <1>16, <2>1, Fields DEF Spares
<1>21. /\ items[i].revision = 0 /\ items'[i].revision = 1
       /\ \A k \in Modules : modules'[k].revision <= modules[k].revision + 1
  <2>1. items[i].revision = 0 /\ items'[i].revision = 1
    BY <1>4, <1>10, <1>13 DEF Ready, OrderInv, ItemsOrdered, NewItem
  <2>2. \A k \in Modules : modules'[k].revision <= modules[k].revision + 1
    BY <1>3, <1>4, <1>11 DEF ModuleRow
  <2> QED BY <2>1, <2>2
<1>22. Rises(Db, Db')
  <2>1. items[i].revision \in Nat
    BY <1>13 DEF Ready, OrderInv, TypeInv, TypeOK, ItemRow
  <2>2. \A k \in Items : k # i => items'[k].revision = items[k].revision
    BY <1>13
  <2>3. \A k \in Items : \/ items'[k].revision = items[k].revision
                        \/ items'[k].revision <= items[k].revision + 1
    BY <1>21, <2>1, <2>2
  <2>4. UNCHANGED <<tracks, orderRevision>>
    BY <1>1
  <2> QED BY <1>21, <2>3, <2>4, ItemsRise
<1> QED BY <1>12, <1>19, <1>20, <1>22 DEF WritesApart

LEMMA PublishContentItemCommits ==
  ASSUME Ready, NEW w \in Workers, CommitPublishContentItem(w)
  PROVE  PublishContentItem(tx[w].cmd) /\ WritesApart(w)
<1> DEFINE x == tx[w]
           c == x.cmd
           i == c.item
           row == x.items[i]
           auth == x.authorized
           admin == c.actor \in admins
           known == Exists(row)
<1>1. /\ Decides(w) /\ c.op = "publish_content_item"
      /\ Decision(auth, known, c.rev, 1, row.revision, c.ok) = "SUCCESS"
      /\ items' = [items EXCEPT ![i] = Published(row)]
      /\ contentVersions' =
           contentVersions \cup Snapshot(i, row, Published(row), c.title)
      /\ UNCHANGED <<admins, tracks, modules, trackVersions, moduleVersions,
                     orderRevision, log>>
  BY DEF CommitPublishContentItem
<1>2. /\ c \in Commands /\ c \in PublishItemCmd /\ x.scan = {}
      /\ WellFormed(Db) /\ Sound(x, Db)
      /\ x.authorized \in BOOLEAN /\ (x.authorized <=> c.actor \in admins)
  BY <1>1, Deciding, CommandShapes
<1>3. i \in Items /\ c.rev \in Int /\ c.ok \in BOOLEAN
  BY <1>2 DEF PublishItemCmd
<1>4. /\ items \in [Items -> ItemRow] /\ items[i] \in ItemRow
      /\ items[i].revision < MaxRevision
  BY <1>3 DEF Ready, Room, OrderInv, TypeInv, TypeOK
<1>5. auth /\ known
  <2>1. x \in Transaction
    BY <1>2 DEF Sound
  <2>2. row.revision \in Int
    BY <1>3, <2>1 DEF Transaction, ItemRow
  <2>3. auth \in BOOLEAN /\ known \in BOOLEAN
    BY <1>2 DEF Exists
  <2> DEFINE now == row.revision
             valid == c.ok
  <2> HIDE DEF auth, known, valid, now
  <2>4. Decision(auth, known, c.rev, 1, now, valid) = "SUCCESS"
    BY <1>1 DEF now, valid
  <2>5. now \in Int /\ valid \in BOOLEAN
    BY <1>3, <2>2 DEF now, valid
  <2> QED BY <1>3, <2>3, <2>4, <2>5 DEF Decision
<1>6. Exists(items[i]) /\ row = items[i] /\ <<"item", i>> \in x.locks
  <2>1. Exists(Db.items[i]) /\ row = Db.items[i] /\ <<"item", i>> \in x.locks
    BY <1>2, <1>3, <1>5, ReadRows
  <2> QED BY <2>1, Fields
<1>7. PublishContentItem(c)
  <2>1. Decision(admin, Exists(items[i]), c.rev, 1, items[i].revision, c.ok)
          = "SUCCESS"
    <3>1. Decision(auth, Exists(items[i]), c.rev, 1, items[i].revision, c.ok)
            = "SUCCESS"
      BY <1>1, <1>6
    <3>2. auth = admin
      BY <1>2
    <3> HIDE DEF auth, admin
    <3> QED BY <3>1, <3>2
  <2> QED BY <1>1, <1>4, <1>6, <2>1 DEF PublishContentItem
<1>8. /\ Exists(Published(row)) /\ Published(row).module = items[i].module
  BY <1>4, <1>6 DEF Published, ItemRow, Exists
<1>9. /\ \A k \in Items : k # i => items'[k] = items[k]
      /\ items'[i] = Published(row)
  BY <1>1, <1>3, <1>4
<1>10. \A k \in Items : /\ Exists(items'[k]) <=> Exists(items[k])
                        /\ items'[k].module = items[k].module
  BY <1>6, <1>8, <1>9
<1>11. /\ \A k : Contents(Db', k) = Contents(Db, k)
       /\ \A k : Inside(Db', k) = Inside(Db, k)
       /\ UsedTracks' = UsedTracks
  <2>1. /\ Db'.items = items' /\ Db.items = items
        /\ Db'.modules = modules /\ Db.modules = modules
    BY <1>1, Fields
  <2>2. ASSUME NEW k PROVE Contents(Db', k) = Contents(Db, k)
    BY <1>10, <2>1 DEF Contents
  <2>3. ASSUME NEW k PROVE Inside(Db', k) = Inside(Db, k)
    BY <2>1 DEF Inside
  <2>4. UsedTracks' = UsedTracks
    BY <1>1 DEF UsedTracks
  <2> QED BY <2>2, <2>3, <2>4
<1>12. WritesLocked(x.locks, Db, Db')
  BY <1>1, <1>6, <1>9, <1>10, <1>11, Fields DEF WritesLocked
<1>13. ASSUME NEW v \in Workers PROVE Spares(tx[v].cmd, Db, Db')
  <2>1. tx[v].cmd.op = "publish_content_item" => tx[v].cmd.item \in Items
    BY CommandOps DEF Ready, TxInv, Transaction, NoCommand
  <2> QED BY <1>1, <1>10, <2>1, Fields DEF Spares
<1>14. items'[i].revision = items[i].revision + 1
  BY <1>4, <1>6, <1>9 DEF Published, ItemRow
<1>15. Rises(Db, Db')
  <2>1. \A k \in Items : k # i => items'[k].revision = items[k].revision
    BY <1>9
  <2>2. \A k \in Modules : modules'[k].revision = modules[k].revision
    BY <1>1
  <2>3. items[i].revision \in Nat
    BY <1>4 DEF ItemRow
  <2>4. \A k \in Items : \/ items'[k].revision = items[k].revision
                        \/ items'[k].revision <= items[k].revision + 1
    BY <1>14, <2>1, <2>3
  <2>5. UNCHANGED <<tracks, orderRevision>>
    BY <1>1
  <2> QED BY <2>2, <2>4, <2>5, ItemsRise
<1> QED BY <1>7, <1>12, <1>13, <1>15 DEF WritesApart

LEMMA CommitRefines ==
  ASSUME Ready, NEW w \in Workers, Commit(w)
  PROVE  Execute(tx[w].cmd) /\ WritesApart(w) /\ End(w) /\ Decides(w)
<1>1. End(w) /\ Decides(w)
  BY DEF Commit, CommitCreateTrack, CommitEditTrack, CommitChangeTrackStatus,
         CommitMoveTrack, CommitCreateModule, CommitEditModule,
         CommitChangeModuleStatus, CommitMoveModule, CommitCreateContentDraft,
         CommitPublishContentItem
<1>2. Execute(tx[w].cmd) /\ WritesApart(w)
  BY CreateTrackCommits, EditTrackCommits, ChangeTrackStatusCommits,
     MoveTrackCommits, CreateModuleCommits, EditModuleCommits,
     ChangeModuleStatusCommits, MoveModuleCommits, CreateContentDraftCommits,
     PublishContentItemCommits DEF Commit, Execute
<1> QED BY <1>1, <1>2

-----------------------------------------------------------------------------
(* The bounds *)

\* Every command that is not running any more may have raised a counter once,
\* and no other.
Active == {w \in Workers : Running(w)}
Pending == Cardinality(Active)

Beneath(d, n) ==
  /\ d.order <= n
  /\ \A t \in Tracks : d.tracks[t].revision <= n /\ d.tracks[t].moduleOrder <= n
  /\ \A m \in Modules : d.modules[m].revision <= n
  /\ \A i \in Items : d.items[i].revision <= n

Counted ==
  /\ runs \in Nat /\ runs <= MaxCommands
  /\ Beneath(Db, runs - Pending)

LEMMA BeneathMore ==
  ASSUME NEW d, NEW e, WellFormed(d), WellFormed(e), NEW n \in Int
  PROVE  /\ Beneath(d, n) => Beneath(d, n + 1)
         /\ Beneath(d, n) /\ Rises(d, e) => Beneath(e, n + 1)
<1>1. \A f : WellFormed(f) =>
        /\ f.order \in Int
        /\ \A t \in Tracks : /\ f.tracks[t].revision \in Int
                             /\ f.tracks[t].moduleOrder \in Int
        /\ \A m \in Modules : f.modules[m].revision \in Int
        /\ \A i \in Items : f.items[i].revision \in Int
  BY DEF WellFormed, Tables, TrackRow, ModuleRow, ItemRow
<1>2. Beneath(d, n) => Beneath(d, n + 1)
  BY <1>1 DEF Beneath
<1>3. ASSUME Beneath(d, n), Rises(d, e)
      PROVE  Beneath(e, n + 1)
  <2>1. e.order <= n + 1
    BY <1>1, <1>3 DEF Beneath, Rises
  <2>2. \A t \in Tracks :
          e.tracks[t].revision <= n + 1 /\ e.tracks[t].moduleOrder <= n + 1
    BY <1>1, <1>3 DEF Beneath, Rises
  <2>3. \A m \in Modules : e.modules[m].revision <= n + 1
    BY <1>1, <1>3 DEF Beneath, Rises
  <2>4. \A i \in Items : e.items[i].revision <= n + 1
    BY <1>1, <1>3 DEF Beneath, Rises
  <2> QED BY <2>1, <2>2, <2>3, <2>4 DEF Beneath
<1> QED BY <1>2, <1>3

LEMMA PendingCount ==
  /\ IsFiniteSet(Active) /\ Pending \in Nat
  /\ \A w \in Active : Pending >= 1
<1>1. IsFiniteSet(Active)
  BY WorkersAssumption, FS_Subset DEF Active
<1> QED BY <1>1, FS_CardinalityType, FS_EmptySet DEF Pending

\* While a command runs, the bounds of Catalog leave room for it.
LEMMA RoomLeft ==
  ASSUME Counted, OrderInv, NEW w \in Workers, Running(w)
  PROVE  Room
<1>1. w \in Active
  BY DEF Active
<1>2. Pending \in Nat /\ Pending >= 1
  BY <1>1, PendingCount
<1> DEFINE n == runs - Pending
<1>3. n \in Int /\ n < MaxRevision /\ n < MaxOrder
  BY <1>2, WorkersAssumption, CatalogAssumption DEF Counted
<1>4. Beneath(Db, n)
  BY DEF Counted
<1> HIDE DEF n
<1>5. /\ tracks \in [Tracks -> TrackRow] /\ modules \in [Modules -> ModuleRow]
      /\ items \in [Items -> ItemRow] /\ orderRevision \in Nat
  BY DEF OrderInv, TypeInv, TypeOK
<1>6. MaxRevision \in Int /\ MaxOrder \in Int
  BY CatalogAssumption
<1>7. orderRevision < MaxOrder
  BY <1>3, <1>4, <1>5, <1>6, Fields DEF Beneath
<1>8. ASSUME NEW t \in Tracks
      PROVE  tracks[t].revision < MaxRevision /\ tracks[t].moduleOrder < MaxOrder
  <2>1. tracks[t].revision <= n /\ tracks[t].moduleOrder <= n
    BY <1>4, Fields DEF Beneath
  <2> QED BY <1>3, <1>5, <1>6, <2>1 DEF TrackRow
<1>9. ASSUME NEW m \in Modules PROVE modules[m].revision < MaxRevision
  <2>1. modules[m].revision <= n
    BY <1>4, Fields DEF Beneath
  <2> QED BY <1>3, <1>5, <1>6, <2>1 DEF ModuleRow
<1>10. ASSUME NEW i \in Items PROVE items[i].revision < MaxRevision
  <2>1. items[i].revision <= n
    BY <1>4, Fields DEF Beneath
  <2> QED BY <1>3, <1>5, <1>6, <2>1 DEF ItemRow
<1> QED BY <1>7, <1>8, <1>9, <1>10 DEF Room

\* A command that begins is pending, and one that ends is not.
LEMMA PendingChanges ==
  ASSUME NEW w \in Workers, tx \in [Workers -> Transaction]
  PROVE  /\ \A y : /\ ~Running(w) /\ y.cmd # NoCommand
                   /\ tx' = [tx EXCEPT ![w] = y]
                   => Pending' = Pending + 1
         /\ Running(w) /\ tx' = [tx EXCEPT ![w] = Idle] => Pending' = Pending - 1
         /\ \A y : y.cmd = tx[w].cmd /\ tx' = [tx EXCEPT ![w] = y] =>
              Pending' = Pending
<1>1. ASSUME NEW y, ~Running(w), y.cmd # NoCommand, tx' = [tx EXCEPT ![w] = y]
      PROVE  Pending' = Pending + 1
  <2>1. Active' = Active \cup {w} /\ w \notin Active
    BY <1>1 DEF Active, Running
  <2> QED BY <2>1, PendingCount, FS_AddElement DEF Pending
<1>2. ASSUME Running(w), tx' = [tx EXCEPT ![w] = Idle]
      PROVE  Pending' = Pending - 1
  <2>1. Active' = Active \ {w} /\ w \in Active
    BY <1>2 DEF Active, Running, Idle
  <2> QED BY <2>1, PendingCount, FS_RemoveElement DEF Pending
<1>3. ASSUME NEW y, y.cmd = tx[w].cmd, tx' = [tx EXCEPT ![w] = y]
      PROVE  Pending' = Pending
  <2>1. Active' = Active
    BY <1>3 DEF Active, Running
  <2> QED BY <2>1 DEF Pending
<1> QED BY <1>1, <1>2, <1>3

-----------------------------------------------------------------------------
(* The invariant of the transactions *)

Invariant == OrderInv /\ TxInv /\ Owned /\ Counted

LEMMA WellFormedNext == (OrderInv => WellFormed(Db))'
<1>1. OrderInv => WellFormed(Db)
  BY TablesWellFormed
<1> QED BY <1>1, PTL

\* What follows when one transaction moves and the tables stay.
LEMMA OneMoves ==
  ASSUME Invariant, NEW w \in Workers, NEW y, Sound(y, Db),
         \A v \in Workers \ {w} : y.locks \cap tx[v].locks = {},
         tx' = [tx EXCEPT ![w] = y], UNCHANGED vars
  PROVE  OrderInv' /\ TxInv' /\ Owned' /\ Db' = Db
<1>1. OrderInv'
  BY OrderInductive DEF Invariant
<1>2. Db' = Db /\ Owned'
  BY DEF vars, Db, Invariant, Owned, UsedTracks
<1>3. y \in Transaction
  BY DEF Sound
<1>4. TxInv
  BY DEF Invariant
<1>5. tx' \in [Workers -> Transaction]
  BY <1>3, <1>4 DEF TxInv
<1>6. \A v \in Workers : tx'[v] = IF v = w THEN y ELSE tx[v]
  BY <1>4 DEF TxInv
<1>7. \A v \in Workers : Sound(tx'[v], Db')
  BY <1>2, <1>4, <1>6 DEF TxInv
<1>8. ASSUME NEW u \in Workers, NEW v \in Workers, u # v
      PROVE  tx'[u].locks \cap tx'[v].locks = {}
  <2>1. CASE u = w
    BY <1>6, <1>8, <2>1
  <2>2. CASE v = w
    BY <1>6, <1>8, <2>2
  <2>3. CASE u # w /\ v # w
    BY <1>4, <1>6, <1>8, <2>3 DEF TxInv
  <2> QED BY <2>1, <2>2, <2>3
<1> QED BY <1>1, <1>2, <1>5, <1>7, <1>8 DEF TxInv

LEMMA BeginKeeps ==
  ASSUME Invariant, NEW w \in Workers, NEW c \in Commands, Begin(w, c)
  PROVE  Invariant'
<1> DEFINE y == [Idle EXCEPT !.cmd = c, !.plan = Plan(c.op)]
<1>1. /\ ~Running(w) /\ runs < MaxCommands /\ tx' = [tx EXCEPT ![w] = y]
      /\ runs' = runs + 1 /\ UNCHANGED vars
  BY DEF Begin
<1>2. y.cmd = c /\ y.locks = {} /\ c # NoCommand
  BY CommandOps DEF Idle
<1>3. Sound(y, Db)
  BY BeginSound, TablesWellFormed DEF Invariant
<1> HIDE DEF y
<1>4. OrderInv' /\ TxInv' /\ Owned' /\ Db' = Db
  BY <1>1, <1>2, <1>3, OneMoves
<1>5. Pending' = Pending + 1
  BY <1>1, <1>2, PendingChanges DEF Invariant, TxInv
<1>6. runs' - Pending' = runs - Pending
  BY <1>1, <1>5, PendingCount DEF Invariant, Counted
<1>7. Counted'
  BY <1>1, <1>4, <1>6, WorkersAssumption DEF Invariant, Counted
<1> QED BY <1>4, <1>7 DEF Invariant

\* A step of a running command that reads.
LEMMA ReadKeeps ==
  ASSUME Invariant, NEW w \in Workers, NEW y, Sound(y, Db),
         y.cmd = tx[w].cmd,
         \A v \in Workers \ {w} : y.locks \cap tx[v].locks = {},
         tx' = [tx EXCEPT ![w] = y], UNCHANGED <<vars, runs>>
  PROVE  Invariant'
<1>1. OrderInv' /\ TxInv' /\ Owned' /\ Db' = Db
  BY OneMoves
<1>2. Pending' = Pending
  BY PendingChanges DEF Invariant, TxInv
<1>3. Counted'
  BY <1>1, <1>2 DEF Invariant, Counted
<1> QED BY <1>1, <1>3 DEF Invariant

LEMMA StatementKeeps ==
  ASSUME Invariant, NEW w \in Workers, StartStatement(w)
  PROVE  Invariant'
<1> DEFINE x == tx[w]
           y == [x EXCEPT !.scan = Sought(Head(x.plan), x.cmd, Db),
                          !.plan = Tail(x.plan)]
<1>1. /\ x.cmd # NoCommand /\ x.scan = {} /\ ~Settled(x) /\ x.plan # <<>>
      /\ tx' = [tx EXCEPT ![w].scan = Selected(Head(tx[w].plan), tx[w].cmd),
                          ![w].plan = Tail(@)]
      /\ UNCHANGED <<vars, runs>>
  BY DEF StartStatement, Decides, Running
<1>2. /\ x \in Transaction /\ Sound(x, Db)
      /\ \A v \in Workers \ {w} : x.locks \cap tx[v].locks = {}
  BY DEF Invariant, TxInv
<1>3. x.cmd \in Commands
  BY <1>1, <1>2 DEF Transaction
<1>4. \A s, c : Selected(s, c) = Sought(s, c, Db)
  BY Fields DEF Selected, Sought
<1>5. Sound(y, Db)
  BY <1>1, <1>2, <1>3, StartSound, TablesWellFormed DEF Invariant
<1>6. y.cmd = x.cmd /\ y.locks = x.locks
  BY <1>2 DEF Transaction
<1>7. tx' = [tx EXCEPT ![w] = y]
  <2>1. tx \in [Workers -> Transaction]
    BY DEF Invariant, TxInv
  <2>2. Selected(Head(x.plan), x.cmd) = Sought(Head(x.plan), x.cmd, Db)
    BY <1>4
  <2> QED BY <1>1, <2>1, <2>2 DEF Transaction
<1> HIDE DEF y
<1> QED BY <1>1, <1>2, <1>5, <1>6, <1>7, ReadKeeps

\* The next row of a running statement is one of its rows.
LEMMA ScannedNext ==
  ASSUME items \in [Items -> ItemRow], NEW d, NEW x, Sound(x, d), x.scan # {}
  PROVE  /\ NextRow(x.scan) \in x.scan
         /\ NextRow(x.scan)[1] \in {"track", "module"} =>
              \A s \in x.scan : NextRow(x.scan)[2] <= s[2]
<1>1. x.scan \in SUBSET Row
  BY DEF Sound, Transaction
<1>2. \A r, s \in x.scan : r[1] = s[1]
  BY DEF Sound, OneTable
<1>3. \A r \in x.scan : Reachable(x.cmd, r, d)
  BY DEF Sound, Held
<1>4. \A r \in x.scan : /\ r[1] = "account" => r = <<"account", x.cmd.actor>>
                        /\ r[1] = "state" => r = <<"state", 1>>
  BY <1>3 DEF Reachable
<1>5. \A r, s \in x.scan : r[1] \in {"account", "state"} => r = s
  BY <1>2, <1>4
<1> QED BY <1>1, <1>2, <1>5, NextRowFound

LEMMA LockKeeps ==
  ASSUME Invariant, NEW w \in Workers, LockRow(w)
  PROVE  Invariant'
<1> DEFINE x == tx[w]
           r == NextRow(x.scan)
           y == Granted(x, r, Db)
<1>1. /\ x.cmd # NoCommand /\ x.scan # {} /\ Available(w, r)
      /\ tx' = [tx EXCEPT ![w] = y]
      /\ UNCHANGED <<vars, runs>>
  BY Fields DEF LockRow, Running, Granted
<1>2. /\ x \in Transaction /\ Sound(x, Db)
      /\ \A v \in Workers \ {w} : x.locks \cap tx[v].locks = {}
  BY DEF Invariant, TxInv
<1>3. x.cmd \in Commands
  BY <1>1, <1>2 DEF Transaction
<1>4. r \in x.scan
  BY <1>1, <1>2, ScannedNext DEF Invariant, OrderInv, TypeInv, TypeOK
<1>5. WellFormed(Db)
  BY TablesWellFormed DEF Invariant
<1>6. Sound(y, Db)
  BY <1>2, <1>3, <1>4, <1>5, GrantSound
<1>7. y.cmd = x.cmd /\ y.locks = x.locks \cup {r}
  BY <1>2, <1>4, <1>5, GrantedFields DEF Transaction
<1>8. \A v \in Workers \ {w} : y.locks \cap tx[v].locks = {}
  BY <1>1, <1>2, <1>7 DEF Available
<1> HIDE DEF y
<1> QED BY <1>1, <1>6, <1>7, <1>8, ReadKeeps

LEMMA AbortKeeps ==
  ASSUME Invariant, NEW w \in Workers, Abort(w)
  PROVE  Invariant'
<1>1. /\ Running(w) /\ tx' = [tx EXCEPT ![w] = Idle]
      /\ runs' = runs /\ UNCHANGED vars
  BY DEF Abort, End
<1>2. WellFormed(Db)
  BY TablesWellFormed DEF Invariant
<1>3. Sound(Idle, Db) /\ Idle.locks = {}
  BY <1>2, NothingRead DEF Idle
<1>4. OrderInv' /\ TxInv' /\ Owned' /\ Db' = Db
  BY <1>1, <1>3, OneMoves
<1>5. Pending' = Pending - 1
  BY <1>1, PendingChanges DEF Invariant, TxInv
<1>6. /\ runs - Pending \in Int
      /\ runs' - Pending' = (runs - Pending) + 1
  BY <1>1, <1>5, PendingCount DEF Invariant, Counted
<1>7. Beneath(Db', runs' - Pending')
  BY <1>2, <1>4, <1>6, BeneathMore DEF Invariant, Counted
<1>8. Counted'
  BY <1>1, <1>7 DEF Invariant, Counted
<1> QED BY <1>4, <1>8 DEF Invariant

\* A commit is a step of Catalog, and leaves the reads of all others current.
LEMMA CommitKeeps ==
  ASSUME Invariant, NEW w \in Workers, Commit(w)
  PROVE  Invariant' /\ Next
<1>1. Ready
  <2>1. Running(w)
    BY DEF Commit, CommitCreateTrack, CommitEditTrack, CommitChangeTrackStatus,
           CommitMoveTrack, CommitCreateModule, CommitEditModule,
           CommitChangeModuleStatus, CommitMoveModule,
           CommitCreateContentDraft, CommitPublishContentItem, Decides
  <2> QED BY <2>1, RoomLeft DEF Invariant, Ready
<1>2. /\ Execute(tx[w].cmd) /\ Decides(w)
      /\ WritesLocked(tx[w].locks, Db, Db') /\ Rises(Db, Db')
      /\ \A v \in Workers : Spares(tx[v].cmd, Db, Db')
      /\ tx' = [tx EXCEPT ![w] = Idle] /\ runs' = runs
  BY <1>1, CommitRefines DEF WritesApart, End
<1>3. tx[w].cmd \in Commands
  BY <1>1, <1>2, Deciding
<1>4. Next
  BY <1>2, <1>3 DEF Next
<1>5. OrderInv'
  BY <1>4, OrderInductive DEF Invariant
<1>6. WellFormed(Db) /\ WellFormed(Db')
  BY <1>5, TablesWellFormed, WellFormedNext DEF Invariant
<1>7. Owned'
  <2>1. \A m \in Modules : Exists(Db.modules[m]) => Db.modules[m].track \in Used(Db)
    BY Fields DEF Invariant, Owned
  <2>2. ASSUME NEW m \in Modules, Exists(Db'.modules[m])
        PROVE  Db'.modules[m].track \in Used(Db')
    <3>1. Db'.modules[m].track \in Used(Db)
      BY <1>2, <2>1, <2>2 DEF WritesLocked
    <3> QED BY <1>2, <3>1 DEF WritesLocked, Used
  <2> QED BY <2>2, Fields DEF Owned
<1>8. TxInv'
  <2>1. TxInv
    BY DEF Invariant
  <2>2. /\ Idle \in Transaction /\ Idle.locks = {} /\ Sound(Idle, Db')
    BY <1>6, NothingRead DEF Idle
  <2>3. tx' \in [Workers -> Transaction]
    BY <1>2, <2>1, <2>2 DEF TxInv
  <2>4. \A v \in Workers : tx'[v] = IF v = w THEN Idle ELSE tx[v]
    BY <1>2, <2>1 DEF TxInv
  <2>5. ASSUME NEW v \in Workers PROVE Sound(tx'[v], Db')
    <3>1. CASE v = w
      BY <2>2, <2>4, <3>1
    <3>2. CASE v # w
      <4>1. /\ Sound(tx[v], Db) /\ tx[v].locks \cap tx[w].locks = {}
            /\ tx[v].cmd \in Commands \cup {NoCommand}
            /\ Spares(tx[v].cmd, Db, Db')
        BY <1>2, <2>1, <3>2 DEF TxInv, Transaction
      <4>2. Sound(tx[v], Db')
        BY <1>2, <1>6, <4>1, OthersSound
      <4> QED BY <2>4, <3>2, <4>2
    <3> QED BY <3>1, <3>2
  <2>6. ASSUME NEW u \in Workers, NEW v \in Workers, u # v
        PROVE  tx'[u].locks \cap tx'[v].locks = {}
    <3>1. CASE u = w \/ v = w
      BY <2>2, <2>4, <3>1
    <3>2. CASE u # w /\ v # w
      BY <2>1, <2>4, <2>6, <3>2 DEF TxInv
    <3> QED BY <3>1, <3>2
  <2> QED BY <2>3, <2>5, <2>6 DEF TxInv
<1>9. Counted'
  <2>1. Pending' = Pending - 1
    BY <1>2, PendingChanges DEF Invariant, TxInv, Decides
  <2>2. /\ runs - Pending \in Int
        /\ runs' - Pending' = (runs - Pending) + 1
    BY <1>2, <2>1, PendingCount DEF Invariant, Counted
  <2>3. Beneath(Db', runs' - Pending')
    BY <1>2, <1>6, <2>2, BeneathMore DEF Invariant, Counted
  <2> QED BY <1>2, <2>3 DEF Invariant, Counted
<1> QED BY <1>4, <1>5, <1>7, <1>8, <1>9 DEF Invariant

\* A role change waits for the account that a command has locked.
LEMMA RoleChangeKeeps ==
  ASSUME Invariant, NEW a \in Accounts, LockedRoleChange(a)
  PROVE  Invariant' /\ Next
<1>1. /\ \A w \in Workers : <<"account", a>> \notin tx[w].locks
      /\ ChangeContentRole(a) /\ UNCHANGED <<tx, runs>>
  BY DEF LockedRoleChange
<1>2. Next
  BY <1>1 DEF Next
<1>3. OrderInv'
  BY <1>2, OrderInductive DEF Invariant
<1>4. WellFormed(Db) /\ WellFormed(Db')
  BY <1>3, TablesWellFormed, WellFormedNext DEF Invariant
<1>5. /\ UNCHANGED <<tracks, modules, items, orderRevision>>
      /\ \A b : b # a => (b \in admins' <=> b \in admins)
  BY <1>1 DEF ChangeContentRole
<1>6. Owned'
  BY <1>5 DEF Invariant, Owned, UsedTracks
<1>7. /\ Db'.tracks = Db.tracks /\ Db'.modules = Db.modules
      /\ Db'.items = Db.items /\ Db'.order = Db.order
      /\ \A b : b # a => (b \in Db'.admins <=> b \in Db.admins)
  BY <1>5, Fields
<1>8. ASSUME NEW w \in Workers PROVE Sound(tx[w], Db')
  <2>1. Sound(tx[w], Db)
    BY DEF Invariant, TxInv
  <2>2. <<"account", tx[w].cmd.actor>> \in tx[w].locks =>
          (tx[w].cmd.actor \in Db'.admins <=> tx[w].cmd.actor \in Db.admins)
    BY <1>1, <1>7
  <2> QED BY <1>4, <1>7, <2>1, <2>2, RoleChangeSound
<1>9. TxInv'
  BY <1>1, <1>8 DEF Invariant, TxInv
<1>10. Counted'
  <2>1. Pending' = Pending
    BY <1>1 DEF Pending, Active, Running
  <2>2. \A n : Beneath(Db, n) => Beneath(Db', n)
    BY <1>7 DEF Beneath
  <2> QED BY <1>1, <2>1, <2>2 DEF Invariant, Counted
<1> QED BY <1>2, <1>3, <1>6, <1>9, <1>10 DEF Invariant

LEMMA InvariantInductive ==
  /\ Init /\ TxInit => Invariant
  /\ Invariant /\ [TxNext]_txVars => Invariant' /\ [Next]_vars
<1>1. Init /\ TxInit => Invariant
  <2> SUFFICES ASSUME Init, TxInit PROVE Invariant
    OBVIOUS
  <2>1. OrderInv
    BY OrderInductive
  <2>2. WellFormed(Db)
    BY <2>1, TablesWellFormed
  <2>3. Idle \in Transaction /\ Sound(Idle, Db) /\ Idle.locks = {}
    BY <2>2, NothingRead DEF Idle
  <2>4. TxInv
    BY <2>3 DEF TxInit, TxInv
  <2>5. Owned
    BY DEF Init, Owned, Exists, AbsentModule
  <2>6. Pending = 0
    <3>1. Active = {}
      BY DEF TxInit, Active, Running, Idle
    <3> QED BY <3>1, FS_EmptySet DEF Pending
  <2>7. Beneath(Db, 0)
    BY Fields DEF Init, Beneath, AbsentTrack, AbsentModule, AbsentItem
  <2>8. Counted
    BY <2>6, <2>7, WorkersAssumption DEF TxInit, Counted
  <2> QED BY <2>1, <2>4, <2>5, <2>8 DEF Invariant
<1>2. ASSUME Invariant, TxNext
      PROVE  Invariant' /\ [Next]_vars
  <2>1. ASSUME NEW w \in Workers, NEW c \in Commands, Begin(w, c)
        PROVE  Invariant' /\ [Next]_vars
    BY <1>2, <2>1, BeginKeeps DEF Begin
  <2>2. ASSUME NEW w \in Workers, StartStatement(w)
        PROVE  Invariant' /\ [Next]_vars
    BY <1>2, <2>2, StatementKeeps DEF StartStatement
  <2>3. ASSUME NEW w \in Workers, LockRow(w)
        PROVE  Invariant' /\ [Next]_vars
    BY <1>2, <2>3, LockKeeps DEF LockRow
  <2>4. ASSUME NEW w \in Workers, Abort(w)
        PROVE  Invariant' /\ [Next]_vars
    BY <1>2, <2>4, AbortKeeps DEF Abort
  <2>5. ASSUME NEW w \in Workers, Commit(w)
        PROVE  Invariant' /\ [Next]_vars
    BY <1>2, <2>5, CommitKeeps
  <2>6. ASSUME NEW a \in Accounts, LockedRoleChange(a)
        PROVE  Invariant' /\ [Next]_vars
    BY <1>2, <2>6, RoleChangeKeeps
  <2> QED BY <1>2, <2>1, <2>2, <2>3, <2>4, <2>5, <2>6 DEF TxNext
<1>3. ASSUME Invariant, UNCHANGED txVars
      PROVE  Invariant' /\ [Next]_vars
  <2>1. UNCHANGED vars /\ UNCHANGED <<tx, runs>> /\ Db' = Db
    BY <1>3 DEF txVars, vars, Db
  <2>2. OrderInv'
    BY <1>3, <2>1, OrderInductive DEF Invariant
  <2>3. TxInv'
    BY <1>3, <2>1 DEF Invariant, TxInv
  <2>4. Owned'
    BY <1>3, <2>1 DEF Invariant, Owned, UsedTracks, vars
  <2>5. Pending' = Pending
    BY <2>1 DEF Pending, Active, Running
  <2>6. Counted'
    BY <1>3, <2>1, <2>5 DEF Invariant, Counted
  <2> QED BY <2>1, <2>2, <2>3, <2>4, <2>6 DEF Invariant
<1> QED BY <1>1, <1>2, <1>3

-----------------------------------------------------------------------------
(* The theorems *)

\* No decision is taken on a stale row: whatever a transaction has locked and
\* copied, the role of its actor, the order revision, the number of tracks or a
\* row, is what the tables hold until the transaction ends.
THEOREM ReadsAlwaysCurrent == TxSpec => []ReadsStayCurrent
<1>1. Invariant => ReadsStayCurrent
  <2> SUFFICES ASSUME Invariant, NEW w \in Workers, NEW r \in tx[w].locks
               PROVE  CASE r[1] = "account" ->
                             tx[w].authorized = (r[2] \in admins)
                        [] r[1] = "state" ->
                             /\ tx[w].order = orderRevision
                             /\ tx[w].count = Cardinality(UsedTracks)
                        [] r[1] = "track" -> tx[w].tracks[r[2]] = tracks[r[2]]
                        [] r[1] = "module" -> tx[w].modules[r[2]] = modules[r[2]]
                        [] r[1] = "item" -> tx[w].items[r[2]] = items[r[2]]
    BY DEF ReadsStayCurrent
  <2>1. /\ Sound(tx[w], Db) /\ tx[w] \in Transaction /\ r \in Row
        /\ Copies(tx[w], Db)
    BY DEF Invariant, TxInv, Transaction, Sound
  <2>2. Reachable(tx[w].cmd, r, Db)
    BY <2>1 DEF Sound, Held
  <2>3. CASE r[1] = "account"
    <3>1. r[2] = tx[w].cmd.actor /\ r = <<"account", tx[w].cmd.actor>>
      BY <2>2, <2>3 DEF Reachable
    <3>2. tx[w].authorized <=> r[2] \in admins
      BY <2>1, <3>1, Fields DEF Copies
    <3>3. tx[w].authorized \in BOOLEAN
      BY <2>1 DEF Transaction
    <3>4. tx[w].authorized = (r[2] \in admins)
      BY <3>2, <3>3
    <3> QED BY <2>3, <3>4
  <2>4. CASE r[1] = "state"
    <3>1. /\ tx[w].order = orderRevision
          /\ tx[w].count = Cardinality(UsedTracks)
      BY <2>1, <2>4, RowShape, Fields DEF Copies
    <3> QED BY <2>4, <3>1
  <2>5. CASE r[1] = "track"
    <3>1. tx[w].tracks[r[2]] = tracks[r[2]]
      BY <2>1, <2>5, RowShape, Fields DEF Copies
    <3> QED BY <2>5, <3>1
  <2>6. CASE r[1] = "module"
    <3>1. tx[w].modules[r[2]] = modules[r[2]]
      BY <2>1, <2>6, RowShape, Fields DEF Copies
    <3> QED BY <2>6, <3>1
  <2>7. CASE r[1] = "item"
    <3>1. tx[w].items[r[2]] = items[r[2]]
      BY <2>1, <2>7, RowShape, Fields DEF Copies
    <3> QED BY <2>7, <3>1
  <2> QED BY <2>1, <2>3, <2>4, <2>5, <2>6, <2>7, RowShape
<1> QED BY <1>1, InvariantInductive, PTL DEF TxSpec

\* Every commit of a transaction is one step of Catalog, whatever statements of
\* other transactions were interleaved with its own.
THEOREM CommandsAlwaysAtomic == TxSpec => CommandsAreAtomic
<1> QED BY InvariantInductive, PTL DEF TxSpec, CommandsAreAtomic

\* The transactions implement Catalog: what holds of every behaviour of Catalog
\* holds of the tables that the transactions share.
THEOREM TransactionsImplementCatalog == TxSpec => Spec
<1> QED BY CommandsAlwaysAtomic, PTL DEF TxSpec, Spec, CommandsAreAtomic

\* So the sequences stay contiguous under every interleaving of the
\* statements of the transactions.
COROLLARY TransactionsKeepSequences == TxSpec => []PositionsContiguous
<1> QED BY TransactionsImplementCatalog, SequencesContiguous, PTL

-----------------------------------------------------------------------------
(* Why no transactions wait in a circle. Tables are locked in one order,    *)
(* and two transactions that want rows of one table from each other would   *)
(* both hold the row that owns them.                                        *)

\* Before the statement on a table starts, no row of that table is held, and
\* the items of a module are locked after the module.
Staged(x) ==
  /\ x.scan \cap x.locks = {}
  /\ \A r \in Held(x) :
       /\ x.plan = <<"tracks">> => r[1] # "track"
       /\ x.plan = <<"modules">> => r[1] # "module"
       /\ x.plan = <<"items">> => r[1] # "item"
       /\ r[1] = "item" /\ x.cmd.op = "create_content_draft" =>
            <<"module", x.cmd.module>> \in x.locks

\* A module that has items exists.
Housed(d) == \A m \in Modules : Contents(d, m) # {} => Exists(d.modules[m])

StageInv == Housed(Db) /\ \A w \in Workers : Staged(tx[w])

\* What a transaction holds when it holds or wants a row.
LEMMA OwnersFirst ==
  ASSUME NEW d, NEW x, Sound(x, d), Staged(x), x.cmd \in Commands,
         NEW r \in Held(x)
  PROVE  /\ r[1] # "account" => <<"account", x.cmd.actor>> \in x.locks
         /\ r[1] = "track" /\ x.cmd.op = "move_track" =>
              <<"state", 1>> \in x.locks
         /\ r[1] = "module" /\ x.cmd.op \in ModuleReaders =>
              <<"track", x.cmd.track>> \in x.locks
<1>1. /\ x.plan \in Suffixes(x.cmd.op) /\ ActorFirst(x) /\ Covered(x, d)
      /\ x.cmd.op # "none"
  BY CommandOps DEF Sound
<1>2. /\ x.plan # Plan(x.cmd.op)
      /\ r[1] # "account" => x.plan # Tail(Plan(x.cmd.op))
  BY <1>1 DEF ActorFirst
<1>3. r[1] # "account" => <<"account", x.cmd.actor>> \in x.locks
  BY <1>1, <1>2 DEF ActorFirst
<1>4. ASSUME r[1] = "track", x.cmd.op = "move_track"
      PROVE  <<"state", 1>> \in x.locks
  <2>1. x.plan = <<>>
    BY <1>1, <1>2, <1>4, PlanValues, SuffixValues, Tails DEF Staged
  <2> QED BY <1>1, <1>4, <2>1 DEF Covered
<1>5. ASSUME r[1] = "module", x.cmd.op \in ModuleReaders
      PROVE  <<"track", x.cmd.track>> \in x.locks
  <2>1. x.plan = <<>>
    BY <1>1, <1>2, <1>5, PlanValues, SuffixValues, Tails DEF Staged
  <2> QED BY <1>1, <1>5, <2>1 DEF Covered
<1> QED BY <1>3, <1>4, <1>5

\* How many rows of the order are still ahead of a transaction that wants r.
Ahead(x, r) ==
  CASE r[1] = "account" -> 7
    [] r[1] = "state" -> 6
    [] r[1] = "track" -> IF x.cmd.op = "move_track" THEN 4 ELSE 5
    [] r[1] = "module" -> IF x.cmd.op = "create_content_draft" THEN 3 ELSE 2
    [] r[1] = "item" -> IF x.cmd.op = "publish_content_item" THEN 1 ELSE 0

LEMMA AheadValues ==
  ASSUME NEW x, NEW r
  PROVE  /\ r[1] = "account" => Ahead(x, r) = 7
         /\ r[1] = "state" => Ahead(x, r) = 6
         /\ r[1] = "track" =>
              Ahead(x, r) = IF x.cmd.op = "move_track" THEN 4 ELSE 5
         /\ r[1] = "module" =>
              Ahead(x, r) = IF x.cmd.op = "create_content_draft" THEN 3 ELSE 2
         /\ r[1] = "item" =>
              Ahead(x, r) = IF x.cmd.op = "publish_content_item" THEN 1 ELSE 0
<1>1. r[1] = "account" => Ahead(x, r) = 7
  BY DEF Ahead
<1>2. r[1] = "state" => Ahead(x, r) = 6
  BY DEF Ahead
<1>3. r[1] = "track" => Ahead(x, r) = IF x.cmd.op = "move_track" THEN 4 ELSE 5
  BY DEF Ahead
<1>4. r[1] = "module" =>
        Ahead(x, r) = IF x.cmd.op = "create_content_draft" THEN 3 ELSE 2
  BY DEF Ahead
<1>5. r[1] = "item" =>
        Ahead(x, r) = IF x.cmd.op = "publish_content_item" THEN 1 ELSE 0
  BY DEF Ahead
<1> QED BY <1>1, <1>2, <1>3, <1>4, <1>5

\* Which rows a command can want or hold, table by table.
LEMMA ReachableRows ==
  ASSUME NEW c \in Commands, NEW r, NEW d, Reachable(c, r, d)
  PROVE  \/ r[1] = "account" /\ r = <<"account", c.actor>>
         \/ /\ r[1] = "state" /\ r = <<"state", 1>>
            /\ c.op \in {"create_track", "move_track"}
         \/ r[1] = "track" /\ c.op = "move_track"
         \/ /\ r[1] = "track" /\ r = <<"track", c.track>>
            /\ c.op \in TrackReaders
         \/ /\ r[1] = "module" /\ d.modules[r[2]].track = c.track
            /\ c.op \in ModuleReaders
         \/ /\ r[1] = "module" /\ r = <<"module", c.module>>
            /\ c.op = "create_content_draft"
         \/ /\ r[1] = "item" /\ d.items[r[2]].module = c.module
            /\ c.op = "create_content_draft"
         \/ /\ r[1] = "item" /\ r = <<"item", c.item>>
            /\ c.op = "publish_content_item"
  BY DEF Reachable

\* Whoever is waited for and waits itself has less ahead.
LEMMA HolderIsAhead ==
  ASSUME NEW d, NEW x, NEW y, Sound(x, d), Sound(y, d), Staged(x), Staged(y),
         x.cmd \in Commands, y.cmd \in Commands, x.locks \cap y.locks = {},
         NEW r \in x.scan, r \in y.locks, NEW s \in y.scan
  PROVE  Ahead(y, s) < Ahead(x, r)
<1> DEFINE b == x.cmd  c == y.cmd
<1>1. /\ r \in Held(x) /\ r \in Held(y) /\ s \in Held(y)
      /\ s \notin y.locks
  BY DEF Held, Staged
<1>2. Reachable(b, r, d) /\ Reachable(c, r, d) /\ Reachable(c, s, d)
  BY <1>1 DEF Sound
<1>3. /\ r[1] # "account" => s[1] # "account"
      /\ r[1] = "account" => s[1] # "account"
  <2>1. s[1] = "account" => s = <<"account", c.actor>>
    BY <1>2, ReachableRows
  <2>2. r[1] = "account" => r = <<"account", c.actor>>
    BY <1>2, ReachableRows
  <2>3. r[1] # "account" => <<"account", c.actor>> \in y.locks
    BY <1>1, OwnersFirst
  <2> QED BY <1>1, <2>1, <2>2, <2>3
<1>4. CASE r[1] = "account"
  BY <1>2, <1>3, <1>4, ReachableRows, AheadValues
<1>5. CASE r[1] = "state"
  <2>1. s[1] = "track" /\ c.op = "move_track"
    BY <1>1, <1>2, <1>3, <1>5, ReachableRows DEF TrackReaders, ModuleReaders
  <2> QED BY <1>5, <2>1, AheadValues
<1>6. CASE r[1] = "track"
  <2>1. CASE c.op = "move_track"
    <3>1. <<"state", 1>> \in y.locks
      BY <1>1, <1>6, <2>1, OwnersFirst
    <3>2. s[1] = "track"
      BY <1>1, <1>2, <1>3, <2>1, <3>1, ReachableRows DEF TrackReaders, ModuleReaders
    <3>3. b.op # "move_track"
      BY <1>1, <1>6, <3>1, OwnersFirst
    <3> QED BY <1>6, <2>1, <3>2, <3>3, AheadValues
  <2>2. CASE c.op \in TrackReaders
    <3>1. r = <<"track", c.track>>
      BY <1>2, <1>6, <2>2, ReachableRows DEF TrackReaders, ModuleReaders
    <3>2. s[1] = "module" /\ c.op # "create_content_draft"
      BY <1>1, <1>2, <1>3, <2>2, <3>1, ReachableRows DEF TrackReaders, ModuleReaders
    <3> QED BY <1>6, <3>2, AheadValues
  <2> QED BY <1>2, <1>6, <2>1, <2>2, ReachableRows
<1>7. CASE r[1] = "module"
  <2>1. CASE c.op \in ModuleReaders
    <3>1. <<"track", c.track>> \in y.locks /\ d.modules[r[2]].track = c.track
      BY <1>1, <1>2, <1>7, <2>1, OwnersFirst, ReachableRows DEF ModuleReaders
    <3>2. s[1] = "module" /\ c.op # "create_content_draft"
      BY <1>1, <1>2, <1>3, <2>1, <3>1, ReachableRows DEF TrackReaders, ModuleReaders
    <3>3. b.op \notin ModuleReaders
      <4> SUFFICES ASSUME b.op \in ModuleReaders PROVE FALSE
        OBVIOUS
      <4>1. d.modules[r[2]].track = b.track
        BY <1>2, <1>7, ReachableRows DEF ModuleReaders
      <4>2. <<"track", b.track>> \in x.locks
        BY <1>1, <1>7, OwnersFirst
      <4> QED BY <3>1, <4>1, <4>2
    <3>4. b.op = "create_content_draft"
      BY <1>2, <1>7, <3>3, ReachableRows
    <3> QED BY <1>7, <3>2, <3>4, AheadValues
  <2>2. CASE c.op = "create_content_draft"
    <3>1. r = <<"module", c.module>>
      BY <1>2, <1>7, <2>2, ReachableRows DEF ModuleReaders
    <3>2. s[1] = "item"
      BY <1>1, <1>2, <1>3, <2>2, <3>1, ReachableRows DEF TrackReaders, ModuleReaders
    <3> QED BY <1>7, <2>2, <3>2, AheadValues
  <2> QED BY <1>2, <1>7, <2>1, <2>2, ReachableRows
<1>8. CASE r[1] = "item"
  <2>1. CASE c.op = "publish_content_item"
    BY <1>1, <1>2, <1>3, <1>8, <2>1, ReachableRows DEF TrackReaders, ModuleReaders
  <2>2. CASE c.op = "create_content_draft"
    <3>1. <<"module", c.module>> \in y.locks /\ d.items[r[2]].module = c.module
      BY <1>1, <1>2, <1>8, <2>2, ReachableRows DEF Staged
    <3>2. s[1] = "item"
      BY <1>1, <1>2, <1>3, <2>2, <3>1, ReachableRows DEF TrackReaders, ModuleReaders
    <3>3. b.op # "create_content_draft"
      <4> SUFFICES ASSUME b.op = "create_content_draft" PROVE FALSE
        OBVIOUS
      <4>1. d.items[r[2]].module = b.module
        BY <1>2, <1>8, ReachableRows
      <4>2. <<"module", b.module>> \in x.locks
        BY <1>1, <1>8 DEF Staged
      <4> QED BY <3>1, <4>1, <4>2
    <3>4. b.op = "publish_content_item"
      BY <1>2, <1>8, <3>3, ReachableRows
    <3> QED BY <1>8, <2>2, <3>2, <3>4, AheadValues
  <2> QED BY <1>2, <1>8, <2>1, <2>2, ReachableRows
<1> QED BY <1>2, <1>4, <1>5, <1>6, <1>7, <1>8, ReachableRows

\* A transaction that starts a statement.
LEMMA StatementStaged ==
  ASSUME NEW d, WellFormed(d), Housed(d), NEW x, Sound(x, d), Staged(x),
         x.cmd \in Commands, x.scan = {}, x.plan # <<>>
  PROVE  Staged([x EXCEPT !.scan = Sought(Head(x.plan), x.cmd, d),
                          !.plan = Tail(x.plan)])
<1> DEFINE c == x.cmd
           S == Sought(Head(x.plan), c, d)
           y == [x EXCEPT !.scan = S, !.plan = Tail(x.plan)]
<1> SUFFICES Staged(y)
  OBVIOUS
<1>1. x \in Transaction /\ x.plan \in Suffixes(c.op)
  BY DEF Sound
<1>2. /\ y.cmd = c /\ y.plan = Tail(x.plan) /\ y.scan = S
      /\ y.locks = x.locks /\ Held(y) = x.locks \cup S /\ Held(x) = x.locks
  BY <1>1 DEF Transaction, Held
<1>3. ActorFirst(x) /\ c.op # "none" /\ \A r \in x.locks : Reachable(c, r, d)
  BY <1>2, CommandOps DEF Sound
<1> HIDE DEF y
<1>4. CASE x.plan = Plan(c.op)
  <2>1. x.locks = {}
    BY <1>2, <1>3, <1>4 DEF ActorFirst
  <2>2. S = {<<"account", c.actor>>}
    BY <1>4, PlanStart, SoughtRows
  <2> QED BY <1>2, <2>1, <2>2 DEF Staged
<1>5. ASSUME NEW k, x.plan = Tail(Plan(c.op)), \A r \in S : r[1] = k,
             k # "account", k = "item" => c.op # "create_content_draft",
             \/ y.plan = <<>>
             \/ y.plan = <<"tracks">> /\ k # "track"
             \/ y.plan = <<"modules">> /\ k # "module"
             \/ y.plan = <<"items">> /\ k # "item"
      PROVE  Staged(y)
  <2>1. x.locks = {<<"account", c.actor>>}
    BY <1>2, <1>3, <1>5, PlanStart DEF ActorFirst
  <2> HIDE DEF S
  <2>2. \A r \in Held(y) : r[1] = "account" \/ r[1] = k
    BY <1>2, <1>5, <2>1
  <2>3. y.scan \cap y.locks = {}
    BY <1>2, <1>5, <2>1
  <2>4. /\ y.plan = <<"tracks">> => k # "track"
        /\ y.plan = <<"modules">> => k # "module"
        /\ y.plan = <<"items">> => k # "item"
    BY SMTT(40), <1>5
  <2> QED BY <1>2, <1>5, <2>2, <2>3, <2>4 DEF Staged
<1>6. CASE c.op = "create_track" /\ x.plan = <<"state">>
  <2>1. S = {<<"state", 1>>} /\ y.plan = <<>>
    BY <1>2, <1>6, SoughtRows, Tails
  <2>2. x.plan = Tail(Plan(c.op))
    BY <1>6, PlanValues, Tails
  <2>3. \A r \in S : r[1] = "state"
    BY <2>1
  <2> HIDE DEF S
  <2> QED BY <1>5, <1>6, <2>1, <2>2, <2>3
<1>7. CASE c.op = "move_track" /\ x.plan = <<"state", "tracks">>
  <2>1. S = {<<"state", 1>>} /\ y.plan = <<"tracks">>
    BY <1>2, <1>7, SoughtRows, Tails
  <2>2. x.plan = Tail(Plan(c.op))
    BY <1>7, PlanValues, Tails
  <2>3. \A r \in S : r[1] = "state"
    BY <2>1
  <2> HIDE DEF S
  <2> QED BY <1>5, <1>7, <2>1, <2>2, <2>3
<1>8. CASE c.op \in TrackReaders /\ x.plan \in {<<"track">>, <<"track", "modules">>}
  <2>0. Head(x.plan) = "track" /\ Tail(x.plan) \in {<<>>, <<"modules">>}
    BY <1>8, Tails
  <2>1. S = {<<"track", t>> : t \in Used(d) \cap {c.track}}
    BY <2>0, SoughtRows
  <2>2. x.plan = Tail(Plan(c.op))
    <3>1. CASE c.op = "edit_track"
      BY <1>1, <1>8, <3>1, PlanValues, SuffixValues, Tails
    <3>2. CASE c.op \in ModuleReaders
      BY <1>1, <1>8, <3>2, PlanValues, SuffixValues, Tails
    <3> QED BY <1>8, <3>1, <3>2 DEF TrackReaders
  <2>3. \A r \in S : r[1] = "track"
    BY <2>1
  <2> HIDE DEF S
  <2> QED BY <1>2, <1>5, <2>0, <2>2, <2>3
<1>9. CASE c.op = "create_content_draft" /\ x.plan = <<"module", "items">>
  <2>1. S = {<<"module", m>> : m \in {k \in {c.module} : Exists(d.modules[k])}}
        /\ y.plan = <<"items">>
    BY <1>2, <1>9, SoughtRows, Tails
  <2>2. x.plan = Tail(Plan(c.op))
    BY <1>9, PlanValues, Tails
  <2>3. \A r \in S : r[1] = "module"
    BY <2>1
  <2> HIDE DEF S
  <2> QED BY <1>5, <1>9, <2>1, <2>2, <2>3
<1>10. CASE c.op = "publish_content_item" /\ x.plan = <<"item">>
  <2>1. S = {<<"item", i>> : i \in {k \in {c.item} : Exists(d.items[k])}}
        /\ y.plan = <<>>
    BY <1>2, <1>10, SoughtRows, Tails
  <2>2. x.plan = Tail(Plan(c.op))
    BY <1>10, PlanValues, Tails
  <2>3. \A r \in S : r[1] = "item"
    BY <2>1
  <2> HIDE DEF S
  <2> QED BY <1>5, <1>10, <2>1, <2>2, <2>3
<1>11. CASE c.op = "move_track" /\ x.plan = <<"tracks">>
  <2>1. S = {<<"track", t>> : t \in Used(d)} /\ y.plan = <<>>
    BY <1>2, <1>11, SoughtRows, Tails
  <2>2. \A r \in x.locks : r[1] # "track"
    BY <1>2, <1>11 DEF Staged
  <2> QED BY <1>2, <1>11, <2>1, <2>2 DEF Staged
<1>12. CASE c.op \in ModuleReaders /\ x.plan = <<"modules">>
  <2>1. S = {<<"module", m>> : m \in Inside(d, c.track)} /\ y.plan = <<>>
    BY <1>2, <1>12, SoughtRows, Tails
  <2>2. \A r \in x.locks : r[1] # "module"
    BY <1>2, <1>12 DEF Staged
  <2> QED BY <1>2, <1>12, <2>1, <2>2 DEF Staged, ModuleReaders
<1>13. CASE c.op = "create_content_draft" /\ x.plan = <<"items">>
  <2>1. S = {<<"item", i>> : i \in Contents(d, c.module)} /\ y.plan = <<>>
    BY <1>2, <1>13, SoughtRows, Tails
  <2>2. \A r \in x.locks : r[1] # "item"
    BY <1>2, <1>13 DEF Staged
  <2>3. ASSUME S # {} PROVE <<"module", c.module>> \in x.locks
    <3>1. c.module \in Modules
      BY <1>13, CommandOps
    <3>2. Exists(d.modules[c.module])
      BY <2>1, <2>3, <3>1 DEF Housed
    <3>3. Covered(x, d)
      BY DEF Sound
    <3> QED BY <1>2, <1>13, <3>2, <3>3 DEF Covered
  <2>4. \A r \in S : r[1] = "item"
    BY <2>1
  <2> HIDE DEF S
  <2>5. y.scan \cap y.locks = {}
    BY <1>2, <2>2, <2>4
  <2>6. y.plan = <<>> /\ c.op = "create_content_draft"
    BY <1>13, <2>1
  <2>7. \A r \in Held(y) : r[1] = "item" => <<"module", c.module>> \in x.locks
    BY <1>2, <2>2, <2>3
  <2>8. /\ y.plan # <<"tracks">> /\ y.plan # <<"modules">>
        /\ y.plan # <<"items">>
    BY <2>6
  <2> QED BY <1>2, <2>5, <2>7, <2>8 DEF Staged
<1> QED BY <1>1, <1>4, <1>6, <1>7, <1>8, <1>9, <1>10, <1>11, <1>12, <1>13,
           NextStatement DEF TrackReaders

\* What follows when one transaction moves and the tables stay.
LEMMA OneStages ==
  ASSUME Invariant, StageInv, NEW w \in Workers, NEW y, Staged(y),
         tx' = [tx EXCEPT ![w] = y], Db' = Db
  PROVE  StageInv'
<1>1. \A v \in Workers : tx'[v] = IF v = w THEN y ELSE tx[v]
  BY DEF Invariant, TxInv
<1>2. \A v \in Workers : Staged(tx'[v])
  BY <1>1 DEF StageInv
<1> QED BY <1>2 DEF StageInv

LEMMA IdleStaged == Staged(Idle)
  BY DEF Staged, Held, Idle

LEMMA StageInductive ==
  /\ Init /\ TxInit => StageInv
  /\ Invariant /\ StageInv /\ [TxNext]_txVars => StageInv'
<1>1. Init /\ TxInit => StageInv
  <2> SUFFICES ASSUME Init, TxInit PROVE StageInv
    OBVIOUS
  <2>1. Housed(Db)
    BY Fields, CatalogKeysAssumption DEF Init, Housed, ItemsOf, AbsentItem
  <2>2. \A w \in Workers : Staged(tx[w])
    BY IdleStaged DEF TxInit
  <2> QED BY <2>1, <2>2 DEF StageInv
<1>2. ASSUME Invariant, StageInv, NEW w \in Workers, NEW c \in Commands,
             Begin(w, c)
      PROVE  StageInv'
  <2> DEFINE y == [Idle EXCEPT !.cmd = c, !.plan = Plan(c.op)]
  <2>1. tx' = [tx EXCEPT ![w] = y] /\ Db' = Db
    BY <1>2 DEF Begin, vars, Db
  <2>2. Staged(y)
    BY DEF Staged, Held, Idle
  <2> HIDE DEF y
  <2> QED BY <1>2, <2>1, <2>2, OneStages
<1>3. ASSUME Invariant, StageInv, NEW w \in Workers, StartStatement(w)
      PROVE  StageInv'
  <2> DEFINE x == tx[w]
             y == [x EXCEPT !.scan = Sought(Head(x.plan), x.cmd, Db),
                            !.plan = Tail(x.plan)]
  <2>1. /\ x.cmd # NoCommand /\ x.scan = {} /\ x.plan # <<>>
        /\ UNCHANGED vars
    BY <1>3 DEF StartStatement, Running, Decides
  <2>2. Sound(x, Db) /\ x \in Transaction /\ x.cmd \in Commands
    BY <1>3, <2>1 DEF Invariant, TxInv, Transaction
  <2>3. Staged(y)
    BY <1>3, <2>1, <2>2, StatementStaged, TablesWellFormed DEF Invariant, StageInv
  <2>4. Selected(Head(x.plan), x.cmd) = Sought(Head(x.plan), x.cmd, Db)
    BY Fields DEF Selected, Sought
  <2>5. tx' = [tx EXCEPT ![w] = y]
    <3>1. tx \in [Workers -> Transaction]
      BY <1>3 DEF Invariant, TxInv
    <3> QED BY <1>3, <2>4, <3>1 DEF StartStatement, Transaction
  <2>6. Db' = Db
    BY <2>1 DEF vars, Db
  <2> HIDE DEF y
  <2> QED BY <1>3, <2>3, <2>5, <2>6, OneStages
<1>4. ASSUME Invariant, StageInv, NEW w \in Workers, LockRow(w)
      PROVE  StageInv'
  <2> DEFINE x == tx[w]
             r == NextRow(x.scan)
             y == Granted(x, r, Db)
  <2>1. /\ x.scan # {} /\ tx' = [tx EXCEPT ![w] = y] /\ UNCHANGED vars
    BY <1>4, Fields DEF LockRow, Granted
  <2>2. x \in Transaction /\ Sound(x, Db) /\ Staged(x)
    BY <1>4 DEF Invariant, TxInv, StageInv
  <2>3. r \in x.scan
    BY <1>4, <2>1, <2>2, ScannedNext DEF Invariant, OrderInv, TypeInv, TypeOK
  <2>4. /\ y.cmd = x.cmd /\ y.plan = x.plan /\ y.scan = x.scan \ {r}
        /\ y.locks = x.locks \cup {r}
    BY <1>4, <2>2, <2>3, GrantedFields, TablesWellFormed DEF Invariant, Transaction
  <2> HIDE DEF y
  <2>5. Staged(y)
    BY <2>2, <2>3, <2>4 DEF Staged, Held
  <2>6. Db' = Db
    BY <2>1 DEF vars, Db
  <2> QED BY <1>4, <2>1, <2>5, <2>6, OneStages
<1>5. ASSUME Invariant, StageInv, NEW w \in Workers, Abort(w)
      PROVE  StageInv'
  <2>1. tx' = [tx EXCEPT ![w] = Idle] /\ Db' = Db
    BY <1>5 DEF Abort, End, vars, Db
  <2> QED BY <1>5, <2>1, IdleStaged, OneStages
<1>6. ASSUME Invariant, StageInv, NEW w \in Workers, Commit(w)
      PROVE  StageInv'
  <2>1. Ready
    <3>1. Running(w)
      BY <1>6 DEF Commit, CommitCreateTrack, CommitEditTrack,
             CommitChangeTrackStatus, CommitMoveTrack, CommitCreateModule,
             CommitEditModule, CommitChangeModuleStatus, CommitMoveModule,
             CommitCreateContentDraft, CommitPublishContentItem, Decides
    <3> QED BY <1>6, <3>1, RoomLeft DEF Invariant, Ready
  <2>2. WritesLocked(tx[w].locks, Db, Db') /\ tx' = [tx EXCEPT ![w] = Idle]
    BY <1>6, <2>1, CommitRefines DEF WritesApart, End
  <2>3. \A r \in tx[w].locks : Reachable(tx[w].cmd, r, Db)
    BY <1>6 DEF Invariant, TxInv, Sound, Held
  <2>4. ASSUME NEW m \in Modules, Contents(Db', m) # {}
        PROVE  Exists(Db'.modules[m])
    <3>1. Contents(Db, m) # {} \/ <<"module", m>> \in tx[w].locks
      BY <2>2, <2>4 DEF WritesLocked
    <3>2. Exists(Db.modules[m])
      BY <1>6, <2>3, <3>1 DEF StageInv, Housed, Reachable
    <3> QED BY <2>2, <3>2 DEF WritesLocked
  <2>5. \A v \in Workers : tx'[v] = IF v = w THEN Idle ELSE tx[v]
    BY <1>6, <2>2 DEF Invariant, TxInv
  <2>6. \A v \in Workers : Staged(tx'[v])
    BY <1>6, <2>5, IdleStaged DEF StageInv
  <2> QED BY <2>4, <2>6 DEF StageInv, Housed
<1>7. ASSUME Invariant, StageInv, NEW a \in Accounts, LockedRoleChange(a)
      PROVE  StageInv'
  <2>1. /\ tx' = tx /\ Db'.modules = Db.modules /\ Db'.items = Db.items
    BY <1>7, Fields DEF LockedRoleChange, ChangeContentRole
  <2> QED BY <1>7, <2>1 DEF StageInv, Housed, Contents
<1>8. ASSUME StageInv, UNCHANGED txVars
      PROVE  StageInv'
  BY <1>8 DEF txVars, vars, StageInv, Db
<1> QED BY <1>1, <1>2, <1>3, <1>4, <1>5, <1>6, <1>7, <1>8 DEF TxNext

\* No set of transactions waits for row locks in a circle: of any that wait, the
\* one with the least ahead waits for nobody among them. Waits at a unique index
\* are not part of the model.
THEOREM LocksNeverCircle == TxSpec => []NoWaitCircle
<1>1. Invariant /\ StageInv => NoWaitCircle
  <2> SUFFICES ASSUME Invariant, StageInv, NEW S \in (SUBSET Workers) \ {{}},
                      \A w \in S : /\ Waits(w)
                                   /\ \E v \in S \ {w} :
                                        NextRow(tx[w].scan) \in tx[v].locks
               PROVE  FALSE
    BY DEF NoWaitCircle
  <2> DEFINE left == [w \in S |-> Ahead(tx[w], NextRow(tx[w].scan))]
             A == {left[w] : w \in S}
  <2>1. ASSUME NEW w \in S
        PROVE  /\ Sound(tx[w], Db) /\ Staged(tx[w])
               /\ tx[w].cmd \in Commands
               /\ NextRow(tx[w].scan) \in tx[w].scan
               /\ NextRow(tx[w].scan) \in Row
               /\ left[w] \in Nat
    <3>1. /\ w \in Workers /\ tx[w] \in Transaction
          /\ tx[w].cmd # NoCommand /\ tx[w].scan # {}
      BY DEF Invariant, TxInv, Waits, Running
    <3>2. Sound(tx[w], Db) /\ Staged(tx[w]) /\ tx[w].cmd \in Commands
      BY <3>1 DEF Invariant, TxInv, StageInv, Transaction
    <3>3. NextRow(tx[w].scan) \in tx[w].scan
      BY <3>1, <3>2, ScannedNext DEF Invariant, OrderInv, TypeInv, TypeOK
    <3>4. NextRow(tx[w].scan) \in Row
      BY <3>1, <3>3 DEF Transaction
    <3>5. left[w] \in Nat
      BY <3>4, RowShape, AheadValues
    <3> QED BY <3>2, <3>3, <3>4, <3>5
  <2>2. A \in SUBSET Nat /\ A # {}
    <3>1. \A w \in S : left[w] \in Nat
      BY <2>1
    <3>2. S # {}
      OBVIOUS
    <3> HIDE DEF left
    <3>3. \A n \in A : n \in Nat
      BY <3>1
    <3>4. A # {}
      BY <3>2
    <3> QED BY <3>3, <3>4
  <2>3. PICK w \in S : \A v \in S : left[w] <= left[v]
    <3>1. PICK n \in A : \A k \in A : n <= k
      <4> HIDE DEF A
      <4> QED BY <2>2, LeastNumber
    <3> QED BY <3>1
  <2>4. PICK v \in S \ {w} : NextRow(tx[w].scan) \in tx[v].locks
    OBVIOUS
  <2>5. tx[w].locks \cap tx[v].locks = {}
    BY <2>4 DEF Invariant, TxInv
  <2>6. left[v] < left[w]
    BY <2>1, <2>4, <2>5, HolderIsAhead
  <2> HIDE DEF left
  <2> QED BY <2>1, <2>3, <2>4, <2>6
<1> QED BY <1>1, InvariantInductive, StageInductive, PTL DEF TxSpec
=============================================================================
