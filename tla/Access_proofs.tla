--------------------------- MODULE Access_proofs ---------------------------
(* The sets of a user and of a role are replaced whole, the default branch  *)
(* is an allowed one and an assignment is lost only to a late removal,      *)
(* proved for any number of requests, roles, permissions and branches; and  *)
(* the menu of the web shows only pages whose list the api answers.         *)
EXTENDS Access, Permissions, TLAPS

Item == Role \cup Permission \cup Branch
Row == Item \X Nat
Pc == {"idle", "failed", "done", "check", "accessAll", "resolve", "snapshot",
       "delete", "insert", "commit", "default", "allowed", "setDefault",
       "countRoles", "deleteRole", "dropBranch"}
Ended == {"idle", "failed", "done"}
Batch == {"snapshot", "delete", "insert", "commit"}

Request == [pc : Pc, op : Operation \cup {[kind |-> "none"]},
            read : [default : Branch \cup {Null}, all : BOOLEAN],
            snap : SUBSET Row, gone : SUBSET Row, clock : Nat, version : Nat]

ShapeInv ==
    /\ held \in [Owner -> SUBSET Row] /\ Items(held["roles"]) \subseteq Role
    /\ asked \in [Owner -> SUBSET Item]
    /\ version \in [Owner -> Nat]
    /\ default \in Branch \cup {Null}
    /\ clock \in Nat
    /\ req \in [Req -> Request]

\* Where each kind of request can be.
PlaceOf(r) ==
    /\ req[r].pc \in {"check", "resolve"} \cup Batch =>
          Op(r) \in Operation /\ Op(r).kind = "replace"
    /\ req[r].pc = "resolve" => Op(r).set = "branches"
    /\ req[r].pc = "accessAll" =>
          /\ Op(r) \in Operation
          /\ \/ Op(r).kind = "replace" /\ Op(r).set = "branches"
             \/ Op(r).kind = "default"
    /\ req[r].pc \in {"default", "allowed", "setDefault"} =>
          Op(r) \in Operation /\ Op(r).kind = "default"
    /\ req[r].pc \in {"countRoles", "deleteRole"} =>
          Op(r) \in Operation /\ Op(r).kind = "countRoles"
    /\ req[r].pc = "dropBranch" => Op(r) \in Operation /\ Op(r).kind = "dropBranch"
PlaceInv == \A r \in Req : PlaceOf(r)

\* A batch whose set nobody has replaced since its snapshot deletes all there
\* is; a removal whose user got no roles since its count finds none.
BatchOf(r) ==
    /\ req[r].pc \in {"delete", "insert", "commit"} =>
          req[r].version <= version[Op(r).set]
    /\ req[r].pc = "delete" /\ version[Op(r).set] = req[r].version =>
          held[Op(r).set] \subseteq req[r].snap
    /\ req[r].pc \in {"insert", "commit"} /\ version[Op(r).set] = req[r].version =>
          held[Op(r).set] \subseteq req[r].gone
    /\ req[r].pc = "deleteRole" =>
          /\ req[r].version <= version["roles"]
          /\ version["roles"] = req[r].version => Op(r).item \notin Items(held["roles"])
BatchInv == \A r \in Req : BatchOf(r)

\* What a request has read is so as long as nobody has written.
FreshOf(r) ==
    /\ req[r].clock <= clock
    /\ req[r].pc \in Batch /\ Op(r).set = "branches" =>
          \/ Op(r).default \in {Keep, Null}
          \/ req[r].read.all \/ Op(r).default \in Op(r).items
    /\ req[r].clock = clock /\ req[r].pc \notin Ended =>
          /\ req[r].read.default = default
          /\ \/ req[r].pc \in {"resolve", "allowed"}
             \/ req[r].pc \in Batch /\ Op(r).set = "branches"
             => (req[r].read.all <=> AccessAll \in Granted(held))
          /\ req[r].pc = "setDefault" => Allowed(held, Op(r).default)
FreshInv == \A r \in Req : FreshOf(r)

\* The inductive invariant.
AccessInv == /\ ShapeInv /\ PlaceInv /\ BatchInv /\ FreshInv
             /\ SetsAreWhole /\ DefaultAllowed

-----------------------------------------------------------------------------
LEMMA OperationKinds ==
  ASSUME NEW op \in Operation
  PROVE  /\ op.kind \in {"replace", "default", "countRoles", "dropBranch"}
         /\ op.kind = "replace" =>
               /\ op.set \in Owner
               /\ op.items \subseteq Item
               /\ op.set = "roles" => op.items \subseteq Role
               /\ op.set = "branches" => op.default \in Branch \cup {Null, Keep}
         /\ op.kind = "default" => op.default \in Branch \cup {Null}
         /\ op.kind = "countRoles" => op.item \in Role
         /\ op.kind = "dropBranch" => op.item \in Branch
  <1>1. op \in Admitted
    BY AccessAssumption
  <1> QED
    BY <1>1, AccessAssumption DEF Admitted, Owner, Item

LEMMA ItemsGrow ==
  ASSUME NEW rows, NEW more, rows \subseteq more PROVE Items(rows) \subseteq Items(more)
  BY DEF Items

LEMMA ItemsJoined ==
  ASSUME NEW rows, NEW more PROVE Items(rows \cup more) = Items(rows) \cup Items(more)
  BY DEF Items

LEMMA ItemsInserted ==
  ASSUME NEW items, NEW v PROVE Items(RowsOf(items, v)) = items
  <1>1. \A i \in items : <<i, v>> \in RowsOf(items, v) /\ <<i, v>>[1] = i
    BY DEF RowsOf
  <1>2. \A row \in RowsOf(items, v) : row[1] \in items
    BY DEF RowsOf
  <1>3. items \subseteq Items(RowsOf(items, v))
    <2> SUFFICES ASSUME NEW i \in items PROVE i \in Items(RowsOf(items, v))
      OBVIOUS
    <2>1. PICK row \in RowsOf(items, v) : row[1] = i
      BY <1>1
    <2> QED
      BY <2>1 DEF Items
  <1>4. Items(RowsOf(items, v)) \subseteq items
    BY <1>2 DEF Items
  <1> QED
    BY <1>3, <1>4

LEMMA ItemsWithout ==
  ASSUME NEW rows, NEW i PROVE Items({row \in rows : row[1] # i}) = Items(rows) \ {i}
  BY DEF Items

LEMMA ItemsNone == Items({}) = {}
  BY DEF Items

LEMMA IdleRequest == Idle \in Request
  BY DEF Idle, Request, Pc

LEMMA AccessInit == Init => AccessInv
  <1> SUFFICES ASSUME Init PROVE AccessInv
    OBVIOUS
  <1>1. ShapeInv
    BY IdleRequest, ItemsNone DEF Init, ShapeInv, Owner
  <1>2. PlaceInv /\ BatchInv
    BY DEF Init, PlaceInv, PlaceOf, BatchInv, BatchOf, Idle, Batch
  <1>3. FreshInv
    BY DEF Init, FreshInv, FreshOf, Idle, Batch, Ended
  <1>4. SetsAreWhole /\ DefaultAllowed
    BY ItemsNone DEF Init, SetsAreWhole, DefaultAllowed, Allowed
  <1> QED
    BY <1>1, <1>2, <1>3, <1>4 DEF AccessInv

-----------------------------------------------------------------------------
(* The readings change their own request only. *)

LEMMA OwnStep ==
  ASSUME AccessInv, NEW r \in Req, UNCHANGED <<Data, History>>,
         req' \in [Req -> Request], \A s \in Req \ {r} : req'[s] = req[s],
         PlaceOf(r)', BatchOf(r)', FreshOf(r)'
  PROVE  AccessInv'
  <1> USE DEF AccessInv, Data, History
  <1>1. ShapeInv'
    BY DEF ShapeInv
  <1>2. ASSUME NEW s \in Req PROVE PlaceOf(s)' /\ BatchOf(s)' /\ FreshOf(s)'
    <2>1. CASE s = r
      BY <2>1
    <2>2. CASE s # r
      <3>1. req'[s] = req[s]
        BY <2>2
      <3>2. PlaceOf(s) /\ BatchOf(s) /\ FreshOf(s)
        BY DEF PlaceInv, BatchInv, FreshInv
      <3> QED
        BY <3>1, <3>2 DEF PlaceOf, BatchOf, FreshOf, Op, Allowed, Granted
    <2> QED
      BY <2>1, <2>2
  <1>3. SetsAreWhole' /\ DefaultAllowed'
    BY DEF SetsAreWhole, DefaultAllowed, Allowed, Granted
  <1> QED
    BY <1>1, <1>2, <1>3 DEF PlaceInv, BatchInv, FreshInv

\* A request that ends says nothing any more.
LEMMA EndedStep ==
  ASSUME NEW r \in Req, req \in [Req -> Request], NEW pc \in {"failed", "done"},
         req' = [req EXCEPT ![r] = [Idle EXCEPT !.pc = pc]], clock \in Nat, clock' \in Nat
  PROVE  /\ req' \in [Req -> Request]
         /\ \A s \in Req \ {r} : req'[s] = req[s]
         /\ PlaceOf(r)' /\ BatchOf(r)' /\ FreshOf(r)'
  <1>1. [Idle EXCEPT !.pc = pc] \in Request
    BY DEF Idle, Request, Pc
  <1>2. req'[r] = [Idle EXCEPT !.pc = pc]
    OBVIOUS
  <1>3. req'[r].pc = pc /\ req'[r].clock = 0
    BY <1>2 DEF Idle
  <1> QED
    BY <1>1, <1>3 DEF PlaceOf, BatchOf, FreshOf, Batch, Ended

LEMMA FailStep ==
  ASSUME AccessInv, NEW r \in Req, Fail(r), UNCHANGED <<Data, History>>
  PROVE  AccessInv'
  <1>1. req' = [req EXCEPT ![r] = [Idle EXCEPT !.pc = "failed"]]
    BY DEF Fail
  <1>2. req \in [Req -> Request] /\ clock \in Nat /\ clock' \in Nat
    BY DEF AccessInv, ShapeInv, History
  <1> QED
    BY <1>1, <1>2, EndedStep, OwnStep, Zenon

\* A step to the next statement of the same request.
Moved(r, pc) ==
    /\ req' \in [Req -> Request] /\ \A s \in Req \ {r} : req'[s] = req[s]
    /\ req'[r].pc = pc /\ req'[r].op = req[r].op /\ req'[r].read = req[r].read
    /\ req'[r].snap = req[r].snap /\ req'[r].gone = req[r].gone
    /\ req'[r].clock = req[r].clock /\ req'[r].version = req[r].version
    /\ PlaceOf(r) /\ BatchOf(r) /\ FreshOf(r) /\ req[r] \in Request

LEMMA GotoStep ==
  ASSUME AccessInv, NEW r \in Req, NEW pc \in Pc, Goto(r, pc)
  PROVE  Moved(r, pc)
  <1>1. req \in [Req -> Request] /\ req[r] \in Request
    BY DEF AccessInv, ShapeInv
  <1>2. req' = [req EXCEPT ![r] = [req[r] EXCEPT !.pc = pc]]
    BY DEF Goto
  <1>3. [req[r] EXCEPT !.pc = pc] \in Request
    BY <1>1 DEF Request
  <1>4. req' \in [Req -> Request] /\ \A s \in Req \ {r} : req'[s] = req[s]
    BY <1>1, <1>2, <1>3
  <1>5. req'[r] = [req[r] EXCEPT !.pc = pc]
    BY <1>1, <1>2
  <1> QED
    BY <1>1, <1>4, <1>5 DEF Moved, AccessInv, PlaceInv, BatchInv, FreshInv, Request

LEMMA BeginStep ==
  ASSUME AccessInv, NEW r \in Req, NEW op \in Operation, Begin(r, op)
  PROVE  AccessInv'
  <1> DEFINE q == [pc |-> Entry(op), op |-> op,
                   read |-> [default |-> default, all |-> FALSE],
                   snap |-> {}, gone |-> {},
                   clock |-> clock, version |-> version["roles"]]
  <1>1. req' = [req EXCEPT ![r] = q] /\ UNCHANGED <<Data, History>>
    BY DEF Begin
  <1>2. ShapeInv
    BY DEF AccessInv
  <1>3. Entry(op) \in {"check", "default", "countRoles", "dropBranch"}
        /\ (Entry(op) = "check" <=> op.kind = "replace")
        /\ (Entry(op) # "check" => Entry(op) = op.kind)
    BY OperationKinds DEF Entry
  <1>5. version["roles"] \in Nat
    BY <1>2 DEF ShapeInv, Owner
  <1>6. q \in Request
    BY <1>2, <1>3, <1>5 DEF Request, Pc, ShapeInv
  <1>7. req' \in [Req -> Request] /\ req'[r] = q /\ \A s \in Req \ {r} : req'[s] = req[s]
    BY <1>1, <1>2, <1>6 DEF ShapeInv
  <1>4. /\ q.pc = Entry(op) /\ q.op = op /\ q.read.default = default
        /\ q.clock = clock
    OBVIOUS
  <1> HIDE DEF q
  <1>8. PlaceOf(r)'
    BY <1>3, <1>4, <1>7 DEF PlaceOf, Op, Batch
  <1>9. BatchOf(r)'
    BY <1>3, <1>4, <1>7 DEF BatchOf, Op
  <1>10. FreshOf(r)'
    <2>1. clock' = clock /\ default' = default /\ clock \in Nat
      BY <1>1, <1>2 DEF Data, History, ShapeInv
    <2> QED
      BY <1>3, <1>4, <1>7, <2>1 DEF FreshOf, Op, Batch
  <1> QED
    BY <1>1, <1>7, <1>8, <1>9, <1>10, OwnStep

LEMMA CheckItemsStep ==
  ASSUME AccessInv, NEW r \in Req, CheckItems(r)
  PROVE  AccessInv'
  <1>1. UNCHANGED <<Data, History>> /\ req[r].pc = "check"
    BY DEF CheckItems, At
  <1>2. CASE Fail(r)
    BY <1>1, <1>2, FailStep
  <1>3. CASE Op(r).set = "branches" /\ Goto(r, "accessAll")
    <2>1. Moved(r, "accessAll")
      BY <1>3, GotoStep DEF Pc
    <2>2. PlaceOf(r)' /\ BatchOf(r)' /\ FreshOf(r)'
      BY <1>1, <1>3, <2>1
      DEF Moved, PlaceOf, BatchOf, FreshOf, Op, Batch, Ended, Data, History,
          Granted, Allowed
    <2> QED
      BY <1>1, <2>1, <2>2, OwnStep DEF Moved
  <1>4. CASE Op(r).set # "branches" /\ Goto(r, "snapshot")
    <2>1. Moved(r, "snapshot")
      BY <1>4, GotoStep DEF Pc
    <2>2. PlaceOf(r)' /\ BatchOf(r)' /\ FreshOf(r)'
      BY <1>1, <1>4, <2>1
      DEF Moved, PlaceOf, BatchOf, FreshOf, Op, Batch, Ended, Data, History,
          Granted, Allowed
    <2> QED
      BY <1>1, <2>1, <2>2, OwnStep DEF Moved
  <1> QED
    BY <1>2, <1>3, <1>4 DEF CheckItems

LEMMA ResolveStep ==
  ASSUME AccessInv, NEW r \in Req, Resolve(r)
  PROVE  AccessInv'
  <1>1. UNCHANGED <<Data, History>> /\ req[r].pc = "resolve"
    BY DEF Resolve, At
  <1>2. CASE Fail(r)
    BY <1>1, <1>2, FailStep
  <1>3. CASE /\ \/ Op(r).default \in {Keep, Null}
                \/ req[r].read.all \/ Op(r).default \in Op(r).items
             /\ Goto(r, "snapshot")
    <2>1. Moved(r, "snapshot")
      BY <1>3, GotoStep DEF Pc
    <2>2. PlaceOf(r)' /\ BatchOf(r)' /\ FreshOf(r)'
      BY <1>1, <1>3, <2>1
      DEF Moved, PlaceOf, BatchOf, FreshOf, Op, Batch, Ended, Data, History,
          Granted, Allowed
    <2> QED
      BY <1>1, <2>1, <2>2, OwnStep DEF Moved
  <1> QED
    BY <1>2, <1>3 DEF Resolve

LEMMA CheckDefaultStep ==
  ASSUME AccessInv, NEW r \in Req, CheckDefault(r)
  PROVE  AccessInv'
  <1>1. UNCHANGED <<Data, History>> /\ req[r].pc = "default"
    BY DEF CheckDefault, At
  <1>2. CASE Fail(r)
    BY <1>1, <1>2, FailStep
  <1>3. CASE Op(r).default = Null /\ Goto(r, "setDefault")
    <2>1. Moved(r, "setDefault")
      BY <1>3, GotoStep DEF Pc
    <2>2. PlaceOf(r)' /\ BatchOf(r)' /\ FreshOf(r)'
      BY <1>1, <1>3, <2>1
      DEF Moved, PlaceOf, BatchOf, FreshOf, Op, Batch, Ended, Data, History,
          Granted, Allowed
    <2> QED
      BY <1>1, <2>1, <2>2, OwnStep DEF Moved
  <1>4. CASE Goto(r, "accessAll")
    <2>1. Moved(r, "accessAll")
      BY <1>4, GotoStep DEF Pc
    <2>2. PlaceOf(r)' /\ BatchOf(r)' /\ FreshOf(r)'
      BY <1>1, <1>4, <2>1
      DEF Moved, PlaceOf, BatchOf, FreshOf, Op, Batch, Ended, Data, History,
          Granted, Allowed
    <2> QED
      BY <1>1, <2>1, <2>2, OwnStep DEF Moved
  <1> QED
    BY <1>2, <1>3, <1>4 DEF CheckDefault

LEMMA AssertBranchAllowedStep ==
  ASSUME AccessInv, NEW r \in Req, AssertBranchAllowed(r)
  PROVE  AccessInv'
  <1>1. UNCHANGED <<Data, History>> /\ req[r].pc = "allowed"
    BY DEF AssertBranchAllowed, At
  <1>2. CASE Fail(r)
    BY <1>1, <1>2, FailStep
  <1>3. CASE (req[r].read.all \/ Op(r).default \in Items(held["branches"]))
             /\ Goto(r, "setDefault")
    <2>1. Moved(r, "setDefault")
      BY <1>3, GotoStep DEF Pc
    <2>2. PlaceOf(r)' /\ BatchOf(r)' /\ FreshOf(r)'
      BY <1>1, <1>3, <2>1
      DEF Moved, PlaceOf, BatchOf, FreshOf, Op, Batch, Ended, Data, History,
          Granted, Allowed
    <2> QED
      BY <1>1, <2>1, <2>2, OwnStep DEF Moved
  <1> QED
    BY <1>2, <1>3 DEF AssertBranchAllowed

LEMMA InsertRowsStep ==
  ASSUME AccessInv, NEW r \in Req, InsertRows(r)
  PROVE  AccessInv'
  <1>1. UNCHANGED <<Data, History>> /\ req[r].pc = "insert"
    BY DEF InsertRows, At
  <1>2. CASE Fail(r)
    BY <1>1, <1>2, FailStep
  <1>3. CASE Goto(r, "commit")
    <2>1. Moved(r, "commit")
      BY <1>3, GotoStep DEF Pc
    <2>2. PlaceOf(r)' /\ BatchOf(r)' /\ FreshOf(r)'
      BY <1>1, <1>3, <2>1
      DEF Moved, PlaceOf, BatchOf, FreshOf, Op, Batch, Ended, Data, History,
          Granted, Allowed
    <2> QED
      BY <1>1, <2>1, <2>2, OwnStep DEF Moved
  <1> QED
    BY <1>2, <1>3 DEF InsertRows

LEMMA InterruptStep ==
  ASSUME AccessInv, NEW r \in Req, Interrupt(r)
  PROVE  AccessInv'
  BY FailStep DEF Interrupt

LEMMA HasAccessAllStep ==
  ASSUME AccessInv, NEW r \in Req, HasAccessAll(r)
  PROVE  AccessInv'
  <1> DEFINE all == AccessAll \in Granted(held)
             pc == IF Op(r).kind = "replace" THEN "resolve" ELSE "allowed"
             q == [req[r] EXCEPT !.read = [@ EXCEPT !.all = all], !.pc = pc]
  <1>1. /\ UNCHANGED <<Data, History>> /\ req[r].pc = "accessAll"
        /\ req' = [req EXCEPT ![r] = q]
    BY DEF HasAccessAll, At
  <1>2. /\ req \in [Req -> Request] /\ req[r] \in Request
        /\ PlaceOf(r) /\ FreshOf(r)
    BY DEF AccessInv, ShapeInv, PlaceInv, FreshInv
  <1>3. all \in BOOLEAN /\ pc \in Pc
    BY DEF Pc
  <1> HIDE DEF all, pc
  <1>4. /\ q \in Request /\ q.pc = pc /\ q.op = req[r].op /\ q.clock = req[r].clock
        /\ q.read.default = req[r].read.default /\ q.read.all = all
    BY <1>2, <1>3 DEF Request
  <1> HIDE DEF q
  <1>5. /\ req' \in [Req -> Request] /\ req'[r] = q
        /\ \A s \in Req \ {r} : req'[s] = req[s]
    BY <1>1, <1>2, <1>4
  <1>6. PlaceOf(r)' /\ BatchOf(r)'
    BY <1>1, <1>2, <1>4, <1>5 DEF PlaceOf, BatchOf, Op, Batch, pc
  <1>7. FreshOf(r)'
    <2>1. req'[r].pc \in {"resolve", "allowed"} /\ req'[r].clock = req[r].clock
      BY <1>4, <1>5 DEF pc
    <2>2. /\ clock' = clock /\ default' = default
          /\ all = (AccessAll \in Granted(held))'
      BY <1>1 DEF all, Granted, Data, History
    <2>3. /\ req[r].clock <= clock
          /\ req[r].clock = clock => req[r].read.default = default
      BY <1>1, <1>2 DEF FreshOf, Ended
    <2>4. req'[r].read.default = req[r].read.default /\ req'[r].read.all = all
      BY <1>4, <1>5
    <2> QED
      BY <2>1, <2>2, <2>3, <2>4 DEF FreshOf, Batch
  <1> QED
    BY <1>1, <1>5, <1>6, <1>7, OwnStep

LEMMA SnapshotStep ==
  ASSUME AccessInv, NEW r \in Req, Snapshot(r)
  PROVE  AccessInv'
  <1> DEFINE x == Op(r).set
             q == [req[r] EXCEPT !.snap = held[x], !.pc = "delete",
                                 !.version = version[x]]
  <1>1. /\ UNCHANGED <<Data, History>> /\ req[r].pc = "snapshot"
        /\ req' = [req EXCEPT ![r] = q]
    BY DEF Snapshot, At
  <1>2. /\ ShapeInv /\ req[r] \in Request /\ PlaceOf(r) /\ FreshOf(r)
    BY DEF AccessInv, ShapeInv, PlaceInv, FreshInv
  <1>3. x \in Owner
    BY <1>1, <1>2, OperationKinds DEF PlaceOf, Batch
  <1>4. held[x] \in SUBSET Row /\ version[x] \in Nat
    BY <1>2, <1>3 DEF ShapeInv
  <1> HIDE DEF x
  <1>5. /\ q \in Request /\ q.pc = "delete" /\ q.op = req[r].op /\ q.clock = req[r].clock
        /\ q.read = req[r].read /\ q.snap = held[x] /\ q.version = version[x]
    BY <1>2, <1>4 DEF Request, Pc
  <1> HIDE DEF q
  <1>6. /\ req' \in [Req -> Request] /\ req'[r] = q
        /\ \A s \in Req \ {r} : req'[s] = req[s]
    BY <1>1, <1>2, <1>5 DEF ShapeInv
  <1>7. PlaceOf(r)'
    BY <1>1, <1>2, <1>5, <1>6 DEF PlaceOf, Op, Batch
  <1>8. BatchOf(r)'
    BY <1>1, <1>4, <1>5, <1>6 DEF BatchOf, Op, x, Data, History
  <1>9. FreshOf(r)'
    BY <1>1, <1>2, <1>5, <1>6
    DEF FreshOf, Op, Batch, Ended, Data, History, Granted
  <1> QED
    BY <1>1, <1>6, <1>7, <1>8, <1>9, OwnStep

LEMMA DeleteRowsStep ==
  ASSUME AccessInv, NEW r \in Req, DeleteRows(r)
  PROVE  AccessInv'
  <1> DEFINE x == Op(r).set
             gone == req[r].snap \cap held[x]
             q == [req[r] EXCEPT !.gone = gone, !.pc = "insert"]
  <1>1. /\ UNCHANGED <<Data, History>> /\ req[r].pc = "delete"
        /\ req' = [req EXCEPT ![r] = q]
    BY DEF DeleteRows, At
  <1>2. /\ req \in [Req -> Request] /\ req[r] \in Request
        /\ PlaceOf(r) /\ BatchOf(r) /\ FreshOf(r)
    BY DEF AccessInv, ShapeInv, PlaceInv, BatchInv, FreshInv
  <1>3. gone \in SUBSET Row
    BY <1>2 DEF Request
  <1>4. req[r].version <= version[x]
        /\ (version[x] = req[r].version => held[x] \subseteq gone)
    BY <1>1, <1>2 DEF BatchOf
  <1> HIDE DEF x, gone
  <1>5. /\ q \in Request /\ q.pc = "insert" /\ q.op = req[r].op /\ q.clock = req[r].clock
        /\ q.read = req[r].read /\ q.gone = gone /\ q.version = req[r].version
    BY <1>2, <1>3 DEF Request, Pc
  <1> HIDE DEF q
  <1>6. /\ req' \in [Req -> Request] /\ req'[r] = q
        /\ \A s \in Req \ {r} : req'[s] = req[s]
    BY <1>1, <1>2, <1>5
  <1>7. PlaceOf(r)'
    BY <1>1, <1>2, <1>5, <1>6 DEF PlaceOf, Op, Batch
  <1>8. BatchOf(r)'
    <2>1. req'[r].op.set = x /\ held' = held /\ version' = version
      BY <1>1, <1>5, <1>6 DEF x, Op, Data, History
    <2> QED
      BY <1>4, <1>5, <1>6, <2>1 DEF BatchOf, Op
  <1>9. FreshOf(r)'
    BY <1>1, <1>2, <1>5, <1>6
    DEF FreshOf, Op, Batch, Ended, Data, History, Granted
  <1> QED
    BY <1>1, <1>6, <1>7, <1>8, <1>9, OwnStep

LEMMA CountUserRolesStep ==
  ASSUME AccessInv, NEW r \in Req, CountUserRoles(r)
  PROVE  AccessInv'
  <1> DEFINE q == [req[r] EXCEPT !.pc = "deleteRole", !.version = version["roles"]]
  <1>1. UNCHANGED <<Data, History>> /\ req[r].pc = "countRoles"
    BY DEF CountUserRoles, At
  <1>2. CASE Fail(r)
    BY <1>1, <1>2, FailStep
  <1>3. CASE Op(r).item \in role \ Items(held["roles"]) /\ req' = [req EXCEPT ![r] = q]
    <2>1. /\ ShapeInv /\ req[r] \in Request /\ PlaceOf(r) /\ FreshOf(r)
      BY DEF AccessInv, ShapeInv, PlaceInv, FreshInv
    <2>2. version["roles"] \in Nat
      BY <2>1 DEF ShapeInv, Owner
    <2>3. /\ q \in Request /\ q.pc = "deleteRole" /\ q.op = req[r].op
          /\ q.clock = req[r].clock /\ q.read = req[r].read
          /\ q.version = version["roles"]
      BY <2>1, <2>2 DEF Request, Pc
    <2> HIDE DEF q
    <2>4. /\ req' \in [Req -> Request] /\ req'[r] = q
          /\ \A s \in Req \ {r} : req'[s] = req[s]
      BY <1>3, <2>1, <2>3 DEF ShapeInv
    <2>5. PlaceOf(r)'
      BY <1>1, <2>1, <2>3, <2>4 DEF PlaceOf, Op, Batch
    <2>6. BatchOf(r)'
      BY <1>1, <1>3, <2>2, <2>3, <2>4 DEF BatchOf, Op, Data, History
    <2>7. FreshOf(r)'
      BY <1>1, <2>1, <2>3, <2>4
      DEF FreshOf, Op, Batch, Ended, Data, History, Granted
    <2> QED
      BY <1>1, <2>4, <2>5, <2>6, <2>7, OwnStep
  <1> QED
    BY <1>2, <1>3 DEF CountUserRoles

-----------------------------------------------------------------------------
(* The writes end their request; the others find a later clock, and either  *)
(* another version of a set or no more rows than before.                    *)

LEMMA WriteStep ==
  ASSUME AccessInv, NEW r \in Req, Done(r), Tick,
         held' \in [Owner -> SUBSET Row], Items(held'["roles"]) \subseteq Role,
         asked' \in [Owner -> SUBSET Item],
         version' \in [Owner -> Nat], default' \in Branch \cup {Null},
         \A y \in Owner : \/ version'[y] = version[y] /\ held'[y] \subseteq held[y]
                          \/ version'[y] = version[y] + 1,
         SetsAreWhole', DefaultAllowed'
  PROVE  AccessInv'
  <1>1. req \in [Req -> Request] /\ clock \in Nat /\ version \in [Owner -> Nat]
    BY DEF AccessInv, ShapeInv
  <1>2. clock' = clock + 1 /\ clock' \in Nat
    BY <1>1 DEF Tick
  <1>3. /\ req' \in [Req -> Request] /\ \A s \in Req \ {r} : req'[s] = req[s]
        /\ PlaceOf(r)' /\ BatchOf(r)' /\ FreshOf(r)'
    <2>1. req' = [req EXCEPT ![r] = [Idle EXCEPT !.pc = "done"]]
      BY DEF Done
    <2> QED
      BY <1>1, <1>2, <2>1, EndedStep, Zenon
  <1>4. ASSUME NEW s \in Req PROVE PlaceOf(s)' /\ BatchOf(s)' /\ FreshOf(s)'
    <2>1. CASE s = r
      BY <1>3, <2>1
    <2>2. CASE s # r
      <3>1. /\ req'[s] = req[s] /\ req[s] \in Request
            /\ PlaceOf(s) /\ BatchOf(s) /\ FreshOf(s)
        BY <1>1, <1>3, <2>2 DEF AccessInv, PlaceInv, BatchInv, FreshInv
      <3>2. PlaceOf(s)'
        BY <3>1 DEF PlaceOf, Op
      <3>3. FreshOf(s)'
        <4>1. req[s].clock \in Nat /\ req[s].clock <= clock
          BY <3>1 DEF FreshOf, Request
        <4>2. req[s].clock # clock' /\ req[s].clock <= clock'
          BY <1>1, <1>2, <4>1
        <4> QED
          BY <3>1, <4>2 DEF FreshOf, Op
      <3>4. BatchOf(s)'
        <4>1. CASE req[s].pc \in {"delete", "insert", "commit"}
          <5>1. Op(s).set \in Owner
            BY <3>1, <4>1, OperationKinds DEF PlaceOf, Batch
          <5>2. version[Op(s).set] \in Nat /\ req[s].version \in Nat
            BY <1>1, <3>1, <5>1 DEF Request
          <5>3. \/ /\ version'[Op(s).set] = version[Op(s).set]
                   /\ held'[Op(s).set] \subseteq held[Op(s).set]
                \/ version'[Op(s).set] = version[Op(s).set] + 1
            BY <5>1
          <5> QED
            BY <3>1, <4>1, <5>2, <5>3 DEF BatchOf, Op
        <4>2. CASE req[s].pc = "deleteRole"
          <5>1. version["roles"] \in Nat /\ req[s].version \in Nat
            BY <1>1, <3>1 DEF Request, Owner
          <5>2. \/ version'["roles"] = version["roles"] /\ held'["roles"] \subseteq held["roles"]
                \/ version'["roles"] = version["roles"] + 1
            BY DEF Owner
          <5> QED
            BY <3>1, <4>2, <5>1, <5>2, ItemsGrow DEF BatchOf, Op
        <4> QED
          BY <3>1, <4>1, <4>2 DEF BatchOf
      <3> QED
        BY <3>2, <3>3, <3>4
    <2> QED
      BY <2>1, <2>2
  <1> QED
    BY <1>2, <1>3, <1>4 DEF AccessInv, ShapeInv, PlaceInv, BatchInv, FreshInv

LEMMA CommitStep ==
  ASSUME AccessInv, NEW r \in Req, Commit(r)
  PROVE  AccessInv'
  <1> DEFINE x == Op(r).set
             rows == RowsOf(Op(r).items, version[x] + 1)
             new == (held[x] \ req[r].gone) \cup rows
  <1>1. /\ req[r].pc = "commit" /\ Done(r) /\ Tick
        /\ held' = [held EXCEPT ![x] = (@ \ req[r].gone)
                                         \cup RowsOf(Op(r).items, version'[x])]
        /\ asked' = [asked EXCEPT ![x] = Op(r).items]
        /\ mixed' = IF version[x] = req[r].version THEN mixed \ {x} ELSE mixed \cup {x}
        /\ version' = [version EXCEPT ![x] = @ + 1]
    BY DEF Commit, At
  <1>2. /\ ShapeInv /\ req[r] \in Request /\ PlaceOf(r) /\ BatchOf(r) /\ FreshOf(r)
    BY DEF AccessInv, ShapeInv, PlaceInv, BatchInv, FreshInv
  <1>3. /\ Op(r) \in Operation /\ Op(r).kind = "replace" /\ x \in Owner
        /\ Op(r).items \subseteq Item
        /\ x = "roles" => Op(r).items \subseteq Role
        /\ x = "branches" => Op(r).default \in Branch \cup {Null, Keep}
    BY <1>1, <1>2, OperationKinds DEF PlaceOf, Batch
  <1>4. version[x] \in Nat /\ held[x] \in SUBSET Row
    BY <1>2, <1>3 DEF ShapeInv
  <1>13. rows \in SUBSET Row /\ Items(rows) = Op(r).items
    <2>1. rows \in SUBSET Row
      BY <1>3, <1>4 DEF RowsOf, Row
    <2> QED
      BY <2>1, ItemsInserted
  <1>14. version'[x] = version[x] + 1
    BY <1>1, <1>2, <1>3 DEF ShapeInv
  <1>15. held' = [held EXCEPT ![x] = new]
    BY <1>1, <1>14
  <1> HIDE DEF rows
  <1>16. new \in SUBSET Row
    BY <1>4, <1>13
  <1>5. version[x] = req[r].version => Items(new) = Op(r).items
    <2>1. version[x] = req[r].version => new = rows
      BY <1>1, <1>2 DEF BatchOf
    <2> QED
      BY <1>13, <2>1
  <1>6. Op(r).items \subseteq Items(new)
    BY <1>13, ItemsJoined
  <1>17. Items(new) \subseteq Items(held[x]) \cup Op(r).items
    <2>1. Items(held[x] \ req[r].gone) \subseteq Items(held[x])
      BY ItemsGrow
    <2> QED
      BY <1>13, <2>1, ItemsJoined
  <1> HIDE DEF new
  <1>11. Items(held["roles"]) \subseteq Role /\ (x = "roles" => Items(new) \subseteq Role)
    BY <1>2, <1>3, <1>17 DEF ShapeInv
  <1>12. Items(held'["roles"]) \subseteq Role
    BY <1>2, <1>11, <1>15 DEF ShapeInv, Owner
  <1>7. /\ held' \in [Owner -> SUBSET Row] /\ asked' \in [Owner -> SUBSET Item]
        /\ version' \in [Owner -> Nat]
    BY <1>1, <1>2, <1>3, <1>4, <1>15, <1>16 DEF ShapeInv
  <1>8. \A y \in Owner : \/ version'[y] = version[y] /\ held'[y] \subseteq held[y]
                         \/ version'[y] = version[y] + 1
    BY <1>1, <1>2, <1>3, <1>15 DEF ShapeInv
  <1>9. SetsAreWhole'
    <2> SUFFICES ASSUME NEW y \in Owner
                 PROVE  /\ asked'[y] \subseteq Items(held'[y])
                        /\ y \notin mixed' => Items(held'[y]) = asked'[y]
      BY DEF SetsAreWhole, Owner
    <2>1. CASE y = x
      <3>1. asked'[y] = Op(r).items /\ held'[y] = new
        BY <1>1, <1>2, <1>3, <1>15, <2>1 DEF ShapeInv
      <3> QED
        BY <1>1, <1>5, <1>6, <2>1, <3>1
    <2>2. CASE y # x
      <3>1. /\ asked[y] \subseteq Items(held[y])
            /\ y \notin mixed => Items(held[y]) = asked[y]
        BY DEF AccessInv, SetsAreWhole
      <3>2. asked'[y] = asked[y] /\ held'[y] = held[y]
        BY <1>1, <1>2, <1>15, <2>2 DEF ShapeInv
      <3> QED
        BY <1>1, <2>2, <3>1, <3>2
    <2> QED
      BY <2>1, <2>2
  <1>10. DefaultAllowed' /\ default' \in Branch \cup {Null}
    <2>1. CASE x # "branches"
      BY <1>1, <1>2, <2>1 DEF Commit, Shaken, DefaultAllowed, ShapeInv
    <2>2. CASE x = "branches"
      <3>1. default' = Resolved(r) /\ slack' = (clock # req[r].clock)
        BY <2>2 DEF Commit, Wrote
      <3>2. /\ \/ Op(r).default \in {Keep, Null}
               \/ req[r].read.all \/ Op(r).default \in Op(r).items
            /\ Op(r).default \in Branch \cup {Null, Keep}
            /\ req[r].read.default \in Branch \cup {Null}
        BY <1>1, <1>2, <1>3, <2>2 DEF FreshOf, Batch, Request
      <3>3. default' \in Branch \cup {Null}
        BY <3>1, <3>2 DEF Resolved
      <3>4. \/ default' = Null \/ default' \in Op(r).items \/ req[r].read.all
        BY <3>1, <3>2 DEF Resolved
      <3>5. held'["branches"] = new /\ held'["roles"] = held["roles"]
            /\ \A z \in Role : held'[z] = held[z]
        BY <1>2, <1>15, <2>2, AccessAssumption DEF ShapeInv, Owner
      <3>6. ASSUME ~slack' PROVE Allowed(held, default)'
        <4>1. req[r].clock = clock
          BY <3>1, <3>6
        <4>2. req[r].read.all => AccessAll \in Granted(held)
          BY <1>1, <1>2, <2>2, <4>1 DEF FreshOf, Batch, Ended
        <4>3. Granted(held') = Granted(held)
          BY <1>11, <3>5 DEF Granted
        <4> QED
          BY <1>6, <3>4, <3>5, <4>2, <4>3 DEF Allowed
      <3> QED
        BY <3>3, <3>6 DEF DefaultAllowed
    <2> QED
      BY <2>1, <2>2
  <1> QED
    BY <1>1, <1>7, <1>8, <1>9, <1>10, <1>12, WriteStep

LEMMA SetDefaultStep ==
  ASSUME AccessInv, NEW r \in Req, SetDefault(r)
  PROVE  AccessInv'
  <1>1. req[r].pc = "setDefault" /\ UNCHANGED <<held, role, branch, version, asked, mixed>>
    BY DEF SetDefault, At
  <1>2. CASE Fail(r) /\ UNCHANGED <<default, slack, clock>>
    BY <1>1, <1>2, FailStep DEF Data, History
  <1>3. CASE /\ default' = Op(r).default /\ Op(r).default \in branch \cup {Null}
             /\ Wrote(r) /\ Tick /\ Done(r)
    <2>1. ShapeInv /\ PlaceOf(r) /\ FreshOf(r) /\ SetsAreWhole
      BY DEF AccessInv, PlaceInv, FreshInv
    <2>2. Op(r).default \in Branch \cup {Null}
      BY <1>1, <2>1, OperationKinds DEF PlaceOf
    <2>3. DefaultAllowed'
      BY <1>1, <1>3, <2>1 DEF Wrote, FreshOf, Ended, DefaultAllowed, Allowed, Granted
    <2>4. SetsAreWhole'
      BY <1>1, <2>1 DEF SetsAreWhole
    <2> QED
      BY <1>1, <1>3, <2>1, <2>2, <2>3, <2>4, WriteStep DEF ShapeInv
  <1> QED
    BY <1>2, <1>3 DEF SetDefault

LEMMA DeleteRoleStep ==
  ASSUME AccessInv, NEW r \in Req, DeleteRole(r)
  PROVE  AccessInv'
  <1> DEFINE i == Op(r).item
  <1>1. req[r].pc = "deleteRole" /\ UNCHANGED <<branch, default, version, mixed>>
    BY DEF DeleteRole, At
  <1>2. CASE Fail(r) /\ UNCHANGED <<role, held, asked, slack, clock>>
    BY <1>1, <1>2, FailStep DEF Data, History
  <1>3. CASE /\ held' = [Without(held, "roles", i) EXCEPT ![i] = {}]
             /\ asked' = [asked EXCEPT !["roles"] = @ \ {i}, ![i] = {}]
             /\ Shaken /\ Tick /\ Done(r)
    <2>1. ShapeInv /\ PlaceOf(r) /\ SetsAreWhole
      BY DEF AccessInv, PlaceInv
    <2>2. i \in Role
      BY <1>1, <2>1, OperationKinds DEF PlaceOf
    <2> HIDE DEF i
    <2>3. /\ i \in Owner /\ i # "roles" /\ "roles" \in Owner
      BY <2>2, AccessAssumption DEF Owner
    <2>4. /\ held' \in [Owner -> SUBSET Row] /\ asked' \in [Owner -> SUBSET Item]
          /\ held'["roles"] = {row \in held["roles"] : row[1] # i} /\ held'[i] = {}
          /\ asked'["roles"] = asked["roles"] \ {i} /\ asked'[i] = {}
          /\ \A y \in Owner \ {"roles", i} : held'[y] = held[y] /\ asked'[y] = asked[y]
      BY <1>3, <2>1, <2>3 DEF ShapeInv, Without
    <2>5. \A y \in Owner : held'[y] \subseteq held[y]
      BY <2>4
    <2>6. SetsAreWhole'
      <3> SUFFICES ASSUME NEW y \in Owner
                   PROVE  /\ asked'[y] \subseteq Items(held'[y])
                          /\ y \notin mixed => Items(held'[y]) = asked'[y]
        BY <1>1 DEF SetsAreWhole, Owner
      <3>1. /\ asked[y] \subseteq Items(held[y])
            /\ y \notin mixed => Items(held[y]) = asked[y]
        BY <2>1 DEF SetsAreWhole
      <3>2. \/ /\ asked'[y] = asked[y] \ {i} /\ Items(held'[y]) = Items(held[y]) \ {i}
            \/ asked'[y] = {} /\ Items(held'[y]) = {}
            \/ asked'[y] = asked[y] /\ Items(held'[y]) = Items(held[y])
        <4>1. Items({row \in held[y] : row[1] # i}) = Items(held[y]) \ {i}
          BY ItemsWithout, Zenon
        <4> QED
          BY <2>4, <4>1, ItemsNone
      <3> QED
        BY <3>1, <3>2
    <2>7. DefaultAllowed'
      BY <1>1, <1>3 DEF Shaken, DefaultAllowed, Allowed
    <2>8. Items(held'["roles"]) \subseteq Role
      BY <2>1, <2>4, ItemsGrow DEF ShapeInv
    <2> QED
      BY <1>1, <1>3, <2>1, <2>4, <2>5, <2>6, <2>7, <2>8, WriteStep DEF ShapeInv
  <1> QED
    BY <1>2, <1>3 DEF DeleteRole

LEMMA DeleteBranchStep ==
  ASSUME AccessInv, NEW r \in Req, DeleteBranch(r)
  PROVE  AccessInv'
  <1> DEFINE i == Op(r).item
  <1>1. req[r].pc = "dropBranch" /\ UNCHANGED <<role, default, version, mixed, slack>>
    BY DEF DeleteBranch, At
  <1>2. CASE Fail(r) /\ UNCHANGED <<branch, held, asked, clock>>
    BY <1>1, <1>2, FailStep DEF Data, History
  <1>3. CASE /\ i # default
             /\ held' = Without(held, "branches", i)
             /\ asked' = [asked EXCEPT !["branches"] = @ \ {i}]
             /\ Tick /\ Done(r)
    <2>1. ShapeInv /\ SetsAreWhole /\ DefaultAllowed
      BY DEF AccessInv
    <2> HIDE DEF i
    <2>2. /\ held' \in [Owner -> SUBSET Row] /\ asked' \in [Owner -> SUBSET Item]
          /\ held'["branches"] = {row \in held["branches"] : row[1] # i}
          /\ asked'["branches"] = asked["branches"] \ {i}
          /\ \A y \in Owner \ {"branches"} : held'[y] = held[y] /\ asked'[y] = asked[y]
      BY <1>3, <2>1 DEF ShapeInv, Without, Owner
    <2>3. \A y \in Owner : held'[y] \subseteq held[y]
      BY <2>2
    <2>4. SetsAreWhole'
      <3> SUFFICES ASSUME NEW y \in Owner
                   PROVE  /\ asked'[y] \subseteq Items(held'[y])
                          /\ y \notin mixed => Items(held'[y]) = asked'[y]
        BY <1>1 DEF SetsAreWhole, Owner
      <3>1. /\ asked[y] \subseteq Items(held[y])
            /\ y \notin mixed => Items(held[y]) = asked[y]
        BY <2>1 DEF SetsAreWhole
      <3>2. \/ /\ asked'[y] = asked[y] \ {i} /\ Items(held'[y]) = Items(held[y]) \ {i}
            \/ asked'[y] = asked[y] /\ Items(held'[y]) = Items(held[y])
        <4>1. Items({row \in held[y] : row[1] # i}) = Items(held[y]) \ {i}
          BY ItemsWithout, Zenon
        <4> QED
          BY <2>2, <4>1
      <3> QED
        BY <3>1, <3>2
    <2>5. DefaultAllowed'
      <3>1. held'["roles"] = held["roles"] /\ \A z \in Role : held'[z] = held[z]
        BY <2>2, AccessAssumption DEF Owner
      <3>2. Granted(held') = Granted(held)
        BY <2>1, <3>1 DEF Granted, ShapeInv
      <3> QED
        <4>1. Items({row \in held["branches"] : row[1] # i}) = Items(held["branches"]) \ {i}
          BY ItemsWithout, Zenon
        <4>2. Items(held'["branches"]) = Items(held["branches"]) \ {i}
          BY <2>2, <4>1
        <4> QED
          BY <1>1, <1>3, <2>1, <3>2, <4>2 DEF DefaultAllowed, Allowed
    <2>6. Items(held'["roles"]) \subseteq Role
      BY <2>1, <2>2 DEF ShapeInv, Owner
    <2> QED
      BY <1>1, <1>3, <2>1, <2>2, <2>3, <2>4, <2>5, <2>6, WriteStep DEF ShapeInv
  <1> QED
    BY <1>2, <1>3 DEF DeleteBranch

-----------------------------------------------------------------------------
LEMMA AccessStep == AccessInv /\ [Next]_vars => AccessInv'
  <1> SUFFICES ASSUME AccessInv, [Next]_vars PROVE AccessInv'
    OBVIOUS
  <1>1. ASSUME NEW r \in Req, NEW op \in Operation, Begin(r, op) PROVE AccessInv'
    BY <1>1, BeginStep
  <1>2. ASSUME NEW r \in Req, Statement(r) PROVE AccessInv'
    <2>1. CASE CheckItems(r)
      BY <2>1, CheckItemsStep
    <2>2. CASE HasAccessAll(r)
      BY <2>2, HasAccessAllStep
    <2>3. CASE Resolve(r)
      BY <2>3, ResolveStep
    <2>4. CASE CheckDefault(r)
      BY <2>4, CheckDefaultStep
    <2>5. CASE AssertBranchAllowed(r)
      BY <2>5, AssertBranchAllowedStep
    <2>6. CASE Snapshot(r)
      BY <2>6, SnapshotStep
    <2>7. CASE DeleteRows(r)
      BY <2>7, DeleteRowsStep
    <2>8. CASE InsertRows(r)
      BY <2>8, InsertRowsStep
    <2>9. CASE Commit(r)
      BY <2>9, CommitStep
    <2>10. CASE SetDefault(r)
      BY <2>10, SetDefaultStep
    <2>11. CASE CountUserRoles(r)
      BY <2>11, CountUserRolesStep
    <2>12. CASE DeleteRole(r)
      BY <2>12, DeleteRoleStep
    <2>13. CASE DeleteBranch(r)
      BY <2>13, DeleteBranchStep
    <2>14. CASE Interrupt(r)
      BY <2>14, InterruptStep
    <2> QED
      BY <1>2, <2>1, <2>2, <2>3, <2>4, <2>5, <2>6, <2>7, <2>8, <2>9, <2>10, <2>11,
         <2>12, <2>13, <2>14 DEF Statement
  <1>3. CASE UNCHANGED vars
    BY <1>3
    DEF vars, AccessInv, ShapeInv, PlaceInv, PlaceOf, BatchInv, BatchOf, FreshInv,
        FreshOf, SetsAreWhole, DefaultAllowed, Allowed, Granted, Op
  <1> QED
    BY <1>1, <1>2, <1>3 DEF Next

\* Every reachable state of users, roles and branches satisfies the inductive
\* invariant of this module.
THEOREM AccessInvariant == Spec => []AccessInv
  BY AccessInit, AccessStep, PTL DEF Spec

\* Nothing of the set asked for last is missing, less what was removed since,
\* and the set is no larger unless its last replacement overlapped the one
\* before (replaceRoles, replaceBranches, replacePermissions).
THEOREM ReplacedWhole == Spec => []SetsAreWhole
  <1>1. AccessInv => SetsAreWhole
    BY DEF AccessInv
  <1> QED
    BY AccessInvariant, <1>1, PTL

\* The default branch of a user is an allowed one unless it was written from
\* an older reading, or given at creation, or its permission was taken away
\* (replaceBranches, update and the removal of branches and roles).
THEOREM DefaultKept == Spec => []DefaultAllowed
  <1>1. AccessInv => DefaultAllowed
    BY DEF AccessInv
  <1> QED
    BY AccessInvariant, <1>1, PTL

\* RolesService.remove takes an assignment along only if it was made after the
\* users with the role had been counted.
THEOREM AssignmentsLostLate == Spec => AssignmentLostOnlyIfLate
  <1> DEFINE Late == \A i \in Items(held["roles"]) :
                        i \in role \ role' =>
                            \E r \in Req : /\ At(r, "deleteRole") /\ Op(r).item = i
                                           /\ req[r].version # version["roles"]
  <1>1. AccessInv /\ [Next]_vars => [Late]_vars
    <2> SUFFICES ASSUME AccessInv, Next, NEW i \in Items(held["roles"]), i \in role \ role'
                 PROVE  \E r \in Req : /\ At(r, "deleteRole") /\ Op(r).item = i
                                       /\ req[r].version # version["roles"]
      OBVIOUS
    <2>1. PICK r \in Req : DeleteRole(r)
      BY DEF Next, Statement, Begin, CheckItems, HasAccessAll, Resolve, CheckDefault,
             AssertBranchAllowed, Snapshot, DeleteRows, InsertRows, Commit, SetDefault,
             Interrupt, CountUserRoles, DeleteBranch, Data
    <2>2. /\ At(r, "deleteRole") /\ Op(r).item = i
      BY <2>1 DEF DeleteRole
    <2>3. BatchOf(r)
      BY DEF AccessInv, BatchInv
    <2> QED
      BY <2>2, <2>3 DEF BatchOf, At
  <1> QED
    BY AccessInvariant, <1>1, PTL DEF Spec, AssignmentLostOnlyIfLate

-----------------------------------------------------------------------------
\* Every entry of the menu has a route, which asks for the same code or for
\* none but a session.
LEMMA MenuIsRouted == \A n \in Nav : n[1] \in Ungated \/ n \in Route
  BY DEF Nav, Ungated, Route, Reading

\* The list of its page asks for the same code.
LEMMA MenuIsServed == \A n \in Nav : <<ListOf(n[1]), n[2]>> \in Required
  BY SMTT(60)
  DEF Nav, ListOf, Required, Reading, Managing, Asks, Managed, ByVerb,
      BranchesController, UsersController, RolesController, ParamsController,
      CurrenciesController, TaxesController, UnitsController,
      DepartmentsController, ProductCategoriesController, ProductsController,
      StockController, MovementsController, PartnersController,
      PurchaseOrdersController, GoodsReceiptsController, QuotationsController,
      SalesOrdersController, InvoicesController

\* Whatever codes a user holds, an entry the menu shows him (filterNav) opens
\* its page (ProtectedRoute), and the api answers the list of the page
\* (PermissionsGuard).
THEOREM MenuOpens ==
  \A codes : \A p \in Visible(codes) :
      /\ Shown(TRUE, codes, p) = "page"
      /\ Guards(TRUE, codes, ListOf(p)) = 200
  <1> SUFFICES ASSUME NEW codes, NEW p \in Visible(codes)
               PROVE  /\ Shown(TRUE, codes, p) = "page"
                      /\ Guards(TRUE, codes, ListOf(p)) = 200
    OBVIOUS
  <1>1. PICK c \in codes : <<p, c>> \in Nav
    BY DEF Visible
  <1>2. p \in Ungated \/ <<p, c>> \in Route
    BY <1>1, MenuIsRouted
  <1>3. <<ListOf(p), c>> \in Required
    BY <1>1, MenuIsServed
  <1> QED
    BY <1>2, <1>3 DEF Shown, Guards
=============================================================================
