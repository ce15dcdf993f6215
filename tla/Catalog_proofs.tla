--------------------------- MODULE Catalog_proofs ---------------------------
(* No SKU of the sequence is given twice or lost, an entry loses its parent  *)
(* only if it came late, and the categories stay a forest unless moves of    *)
(* them overlap, proved for any number of requests and rows.                 *)
EXTENDS Catalog, FiniteSetTheorems, TLAPS

Pc == {"new", "find", "reference", "climb", "sequence", "reserve", "write",
       "done", "failed"}

Request == [pc : Pc, op : Operation \cup {NoOp}, cursor : Nat, seen : SUBSET Nat,
            sku : Nat, during : SUBSET Nat]

\* Ids below the next one; references to rows that are there.
RowInv ==
    /\ nextId \in Nat \ {0}
    /\ entry \in [DOMAIN entry -> Entry]
    /\ DOMAIN entry \subseteq 1..(nextId - 1)
    /\ \A e \in DOMAIN entry : entry[e].ref = Null \/ entry[e].ref \in DOMAIN entry

\* Where each kind of request can be.
PlaceOf(r) ==
    /\ req[r].pc # "new" => Op(r) \in Operation
    /\ req[r].pc \in {"find", "climb"} => Op(r).act # "create"
    /\ req[r].pc \in {"reference", "climb"} => Op(r).act # "remove"
    /\ req[r].pc \in {"sequence", "reserve"} => Op(r).act = "create" /\ Op(r).kind = "product"
    /\ req[r].pc = "reserve" => nextSku # 0

\* A request that has a SKU creates a product with it.
SkuOf(r) ==
    req[r].sku # 0 =>
        /\ Op(r).act = "create" /\ Op(r).kind = "product"
        /\ req[r].pc \in {"write", "done", "failed"}
        /\ nextSku # 0 /\ req[r].sku \in FirstSku..(nextSku - 1)
        /\ req[r].pc = "done" => \E e \in DOMAIN entry : entry[e].sku = req[r].sku

SkuInv ==
    /\ nextSku \in Nat /\ (nextSku = 0 \/ nextSku >= FirstSku)
    /\ \A r \in Req : SkuOf(r)
    /\ \A r, s \in Req : req[r].sku # 0 /\ req[r].sku = req[s].sku => r = s
    /\ \A n \in FirstSku..(nextSku - 1) : \E r \in Req : req[r].sku = n
    /\ \A e \in DOMAIN entry :
          entry[e].sku >= FirstSku =>
              /\ entry[e].kind = "product"
              /\ \E r \in Req : req[r].pc = "done" /\ req[r].sku = entry[e].sku

\* A removal knows of every entry that refers to its row, but for products,
\* which stop it.
RemovalOf(r) ==
    req[r].pc = "write" /\ Op(r).act = "remove" =>
        /\ Op(r).id # Null
        /\ \A e \in DOMAIN entry :
              entry[e].ref = Op(r).id => entry[e].kind = "product" \/ e \in req[r].during

CatalogInv ==
    /\ RowInv
    /\ req \in [Req -> Request]
    /\ \A r \in Req : PlaceOf(r) /\ RemovalOf(r)
    /\ SkuInv

-----------------------------------------------------------------------------
LEMMA OperationKinds ==
  ASSUME NEW op \in Operation
  PROVE  /\ op.act \in {"create", "update", "remove"} /\ op.kind \in Kind
         /\ op.id \in Nat /\ op.ref \in Nat
  BY DEF Operation

LEMMA CatalogInit == Init => CatalogInv
  <1> SUFFICES ASSUME Init PROVE CatalogInv
    OBVIOUS
  <1>1. RowInv
    <2>1. /\ Initial \in [1..Len(Initial) -> Entry] /\ Len(Initial) \in Nat
          /\ DOMAIN Initial = 1..Len(Initial)
      BY InitialAssumption
    <2>2. \A e \in DOMAIN Initial : Initial[e].ref = Null \/ Initial[e].ref \in DOMAIN Initial
      BY InitialAssumption
    <2> QED
      BY <2>1, <2>2 DEF Init, RowInv
  <1>2. req \in [Req -> Request]
    BY DEF Init, Request, Pc, Null
  <1>3. \A r \in Req : PlaceOf(r) /\ RemovalOf(r)
    BY DEF Init, PlaceOf, RemovalOf
  <1>4. SkuInv
    <2>1. \A e \in DOMAIN Initial : Initial[e].sku < FirstSku /\ Initial[e].sku \in Nat
      <3>1. \A e \in DOMAIN Initial : Initial[e] \in Entry
        BY InitialAssumption
      <3> QED
        BY <3>1, InitialAssumption DEF Entry
    <2> QED
      BY <2>1, SkuAssumption DEF Init, SkuInv, SkuOf
  <1> QED
    BY <1>1, <1>2, <1>3, <1>4 DEF CatalogInv

-----------------------------------------------------------------------------
(* The checks change their own request only, and give it no SKU. *)

LEMMA CheckStep ==
  ASSUME CatalogInv, NEW r \in Req, NEW q \in Request, req' = [req EXCEPT ![r] = q],
         UNCHANGED <<entry, nextId>>,
         nextSku' = nextSku \/ (nextSku = 0 /\ nextSku' = FirstSku),
         q.sku = req[r].sku,
         q.sku # 0 => /\ q.op = req[r].op /\ q.pc \in {"write", "failed"}
                      /\ req[r].pc # "done",
         req[r].pc # "done",
         PlaceOf(r)', RemovalOf(r)'
  PROVE  CatalogInv'
  <1>1. /\ req \in [Req -> Request] /\ req' \in [Req -> Request]
        /\ \A s \in Req : req'[s].sku = req[s].sku
        /\ \A s \in Req \ {r} : req'[s] = req[s]
        /\ req'[r] = q
    BY DEF CatalogInv
  <1>2. RowInv'
    BY DEF CatalogInv, RowInv
  <1>3. \A s \in Req : PlaceOf(s)' /\ RemovalOf(s)'
    BY <1>1, SkuAssumption DEF CatalogInv, PlaceOf, RemovalOf, Op, SkuInv
  <1>4. SkuInv'
    <2>1. nextSku' \in Nat /\ (nextSku' = 0 \/ nextSku' >= FirstSku)
      BY SkuAssumption DEF CatalogInv, SkuInv
    <2>2. FirstSku..(nextSku' - 1) = FirstSku..(nextSku - 1)
      BY SkuAssumption DEF CatalogInv, SkuInv
    <2>3. ASSUME NEW s \in Req PROVE SkuOf(s)'
      BY <1>1, <2>2, SkuAssumption DEF CatalogInv, SkuInv, SkuOf, Op
    <2>4. \A e \in DOMAIN entry :
             entry[e].sku >= FirstSku =>
                 /\ entry[e].kind = "product"
                 /\ \E s \in Req : req'[s].pc = "done" /\ req'[s].sku = entry[e].sku
      BY <1>1 DEF CatalogInv, SkuInv
    <2> QED
      BY <1>1, <2>1, <2>2, <2>3, <2>4 DEF CatalogInv, SkuInv
  <1> QED
    BY <1>1, <1>2, <1>3, <1>4 DEF CatalogInv

LEMMA BeginStep ==
  ASSUME CatalogInv, NEW r \in Req, Begin(r)
  PROVE  CatalogInv'
  <1>1. PICK op \in Script[r] :
           req' = [req EXCEPT ![r].op = op,
                    ![r].pc = IF op.act = "create" THEN Refer(op) ELSE "find"]
    BY DEF Begin
  <1> DEFINE pc == IF op.act = "create" THEN Refer(op) ELSE "find"
             q == [req[r] EXCEPT !.op = op, !.pc = pc]
  <1>2. /\ req[r].pc = "new" /\ UNCHANGED <<entry, nextId, nextSku>>
        /\ req' = [req EXCEPT ![r] = q]
    BY <1>1 DEF Begin
  <1>3. op \in Operation
    BY ScriptAssumption
  <1>4. /\ req \in [Req -> Request] /\ req[r] \in Request /\ SkuOf(r)
    BY DEF CatalogInv, SkuInv
  <1>5. /\ pc \in {"find", "reference", "sequence", "write"} /\ pc \in Pc
        /\ op.act # "create" => pc = "find"
        /\ pc = "find" => op.act # "create"
        /\ pc = "sequence" => op.act = "create" /\ op.kind = "product"
    BY DEF Refer, Checked, Pc
  <1> HIDE DEF pc
  <1>6. /\ q \in Request /\ q.pc = pc /\ q.op = op /\ q.sku = req[r].sku
    BY <1>3, <1>4, <1>5 DEF Request
  <1>7. req[r].sku = 0
    BY <1>2, <1>4 DEF SkuOf
  <1> HIDE DEF q
  <1>8. req'[r] = q
    BY <1>2, <1>4
  <1>9. PlaceOf(r)' /\ RemovalOf(r)'
    BY <1>3, <1>5, <1>6, <1>8 DEF PlaceOf, RemovalOf, Op
  <1> QED
    BY <1>2, <1>6, <1>7, <1>9, CheckStep

\* A step to another statement of the request.
LEMMA GotoStep ==
  ASSUME CatalogInv, NEW r \in Req, NEW pc \in {"failed", "reference", "climb", "sequence",
                                               "write"},
         Goto(r, pc), UNCHANGED <<entry, nextId, nextSku>>,
         req[r].pc \in {"find", "reference", "climb", "write"},
         req[r].pc = "write" => pc = "failed",
         pc \in {"reference", "climb"} => Op(r).act # "remove",
         pc = "climb" => Op(r).act # "create",
         pc = "sequence" => Op(r).act = "create" /\ Op(r).kind = "product",
         pc = "write" /\ Op(r).act = "remove" =>
            /\ Op(r).id # Null
            /\ \A e \in DOMAIN entry : entry[e].ref = Op(r).id => entry[e].kind = "product"
  PROVE  CatalogInv'
  <1> DEFINE q == [req[r] EXCEPT !.pc = pc]
  <1>1. /\ req \in [Req -> Request] /\ req[r] \in Request /\ PlaceOf(r) /\ SkuOf(r)
        /\ req' = [req EXCEPT ![r] = q]
    BY DEF CatalogInv, SkuInv, Goto
  <1>2. /\ q \in Request /\ q.pc = pc /\ q.op = req[r].op /\ q.sku = req[r].sku
    BY <1>1 DEF Request, Pc
  <1> HIDE DEF q
  <1>3. req'[r] = q
    BY <1>1
  <1>4. q.sku # 0 => q.pc \in {"write", "failed"}
    BY <1>1, <1>2 DEF SkuOf
  <1>5. PlaceOf(r)' /\ RemovalOf(r)'
    BY <1>1, <1>2, <1>3 DEF PlaceOf, RemovalOf, Op
  <1> QED
    BY <1>1, <1>2, <1>4, <1>5, CheckStep

LEMMA FindStep ==
  ASSUME CatalogInv, NEW r \in Req, Find(r)
  PROVE  CatalogInv'
  <1>1. req[r].pc = "find" /\ UNCHANGED <<entry, nextId, nextSku>>
    BY DEF Find
  <1>2. PlaceOf(r) /\ RowInv
    BY DEF CatalogInv
  <1>3. CASE Goto(r, "failed")
    BY <1>1, <1>3, GotoStep
  <1>4. CASE /\ Exists(Op(r).id, Op(r).kind)
             /\ Op(r).act = "remove" =>
                   \A e \in RefersTo(Op(r).id) : entry[e].kind = "product"
             /\ Goto(r, IF Op(r).act = "remove" THEN "write" ELSE Refer(Op(r)))
    <2>1. Op(r).id # Null
      BY <1>2, <1>4 DEF Exists, RowInv, Null
    <2>2. CASE Op(r).act = "remove"
      <3>1. \A e \in DOMAIN entry : entry[e].ref = Op(r).id => entry[e].kind = "product"
        BY <1>4, <2>2 DEF RefersTo
      <3>2. Goto(r, "write")
        BY <1>4, <2>2
      <3> QED
        BY <1>1, <2>1, <2>2, <3>1, <3>2, GotoStep
    <2>3. CASE Op(r).act # "remove"
      <3>1. Goto(r, Refer(Op(r))) /\ Refer(Op(r)) \in {"reference", "sequence", "write"}
            /\ Op(r).act # "create"
        BY <1>1, <1>2, <1>4, <2>3 DEF Refer, Checked, PlaceOf
      <3>2. Refer(Op(r)) # "sequence"
        BY <3>1 DEF Refer, Checked
      <3> QED
        BY <1>1, <2>3, <3>1, <3>2, GotoStep
    <2> QED
      BY <2>2, <2>3
  <1> QED
    BY <1>3, <1>4 DEF Find

LEMMA ReferenceStep ==
  ASSUME CatalogInv, NEW r \in Req, Reference(r)
  PROVE  CatalogInv'
  <1>1. req[r].pc = "reference" /\ UNCHANGED <<entry, nextId, nextSku>>
    BY DEF Reference
  <1>2. /\ req \in [Req -> Request] /\ req[r] \in Request /\ PlaceOf(r) /\ SkuOf(r)
    BY DEF CatalogInv, SkuInv
  <1>3. CASE Goto(r, "failed")
    BY <1>1, <1>3, GotoStep
  <1>4. CASE /\ Op(r).act = "update"
             /\ req' = [req EXCEPT ![r].pc = "climb", ![r].cursor = Op(r).ref]
    <2> DEFINE q == [req[r] EXCEPT !.pc = "climb", !.cursor = Op(r).ref]
    <2>1. req' = [req EXCEPT ![r] = q] /\ Op(r).ref \in Nat
      BY <1>1, <1>2, <1>4, OperationKinds DEF PlaceOf
    <2>2. /\ q \in Request /\ q.pc = "climb" /\ q.op = req[r].op /\ q.sku = req[r].sku
      BY <1>2, <2>1 DEF Request, Pc
    <2> HIDE DEF q
    <2>3. req'[r] = q /\ req[r].sku = 0
      BY <1>1, <1>2, <2>1 DEF SkuOf
    <2>4. PlaceOf(r)' /\ RemovalOf(r)'
      BY <1>1, <1>2, <1>4, <2>2, <2>3 DEF PlaceOf, RemovalOf, Op
    <2> QED
      BY <1>1, <2>1, <2>2, <2>3, <2>4, CheckStep
  <1>5. CASE Goto(r, Checked(Op(r)))
    <2>1. /\ Checked(Op(r)) \in {"sequence", "write"}
          /\ Checked(Op(r)) = "sequence" => Op(r).act = "create" /\ Op(r).kind = "product"
          /\ Op(r).act # "remove"
      BY <1>1, <1>2 DEF Checked, PlaceOf
    <2> QED
      BY <1>1, <1>5, <2>1, GotoStep
  <1> QED
    BY <1>3, <1>4, <1>5 DEF Reference

LEMMA ClimbStep ==
  ASSUME CatalogInv, NEW r \in Req, Climb(r)
  PROVE  CatalogInv'
  <1> DEFINE c == req[r].cursor
             up == IF c \in DOMAIN entry THEN entry[c].ref ELSE Null
             q == [req[r] EXCEPT !.seen = @ \cup {c}, !.cursor = up]
  <1>1. req[r].pc = "climb" /\ UNCHANGED <<entry, nextId, nextSku>>
    BY DEF Climb
  <1>2. /\ req \in [Req -> Request] /\ req[r] \in Request /\ PlaceOf(r) /\ SkuOf(r)
        /\ RowInv
    BY DEF CatalogInv, SkuInv
  <1>3. CASE Goto(r, "failed")
    BY <1>1, <1>3, GotoStep
  <1>4. CASE Goto(r, "write")
    BY <1>1, <1>2, <1>4, GotoStep DEF PlaceOf
  <1>5. CASE req' = [req EXCEPT ![r] = q]
    <2>1. c \in Nat /\ up \in Nat
      BY <1>2 DEF Request, RowInv, Entry, Null
    <2> HIDE DEF c, up
    <2>2. /\ q \in Request /\ q.pc = "climb" /\ q.op = req[r].op /\ q.sku = req[r].sku
      BY <1>1, <1>2, <2>1 DEF Request, Pc
    <2> HIDE DEF q
    <2>3. req'[r] = q /\ req[r].sku = 0
      BY <1>1, <1>2, <1>5 DEF SkuOf
    <2>4. PlaceOf(r)' /\ RemovalOf(r)'
      BY <1>1, <1>2, <2>2, <2>3 DEF PlaceOf, RemovalOf, Op
    <2> QED
      BY <1>1, <1>5, <2>2, <2>3, <2>4, CheckStep
  <1> QED
    BY <1>3, <1>4, <1>5 DEF Climb

LEMMA EnsureSkuSequenceRowStep ==
  ASSUME CatalogInv, NEW r \in Req, EnsureSkuSequenceRow(r)
  PROVE  CatalogInv'
  <1> DEFINE q == [req[r] EXCEPT !.pc = "reserve"]
  <1>1. /\ req[r].pc = "sequence" /\ UNCHANGED <<entry, nextId>>
        /\ req' = [req EXCEPT ![r] = q]
        /\ nextSku' = IF nextSku = 0 THEN FirstSku ELSE nextSku
    BY DEF EnsureSkuSequenceRow, Goto
  <1>2. /\ req \in [Req -> Request] /\ req[r] \in Request /\ PlaceOf(r) /\ SkuOf(r)
    BY DEF CatalogInv, SkuInv
  <1>3. /\ q \in Request /\ q.pc = "reserve" /\ q.op = req[r].op /\ q.sku = req[r].sku
    BY <1>2 DEF Request, Pc
  <1> HIDE DEF q
  <1>4. req'[r] = q /\ req[r].sku = 0 /\ nextSku' # 0
    BY <1>1, <1>2, SkuAssumption DEF SkuOf
  <1>5. PlaceOf(r)' /\ RemovalOf(r)'
    BY <1>1, <1>2, <1>3, <1>4 DEF PlaceOf, RemovalOf, Op
  <1> QED
    BY <1>1, <1>3, <1>4, <1>5, CheckStep

LEMMA ReserveProductSkuStep ==
  ASSUME CatalogInv, NEW r \in Req, ReserveProductSku(r)
  PROVE  CatalogInv'
  <1> DEFINE q == [req[r] EXCEPT !.pc = "write", !.sku = nextSku]
  <1>1. /\ req[r].pc = "reserve" /\ UNCHANGED <<entry, nextId>>
        /\ req' = [req EXCEPT ![r] = q] /\ nextSku' = nextSku + 1
    BY DEF ReserveProductSku
  <1>2. /\ req \in [Req -> Request] /\ req[r] \in Request /\ PlaceOf(r) /\ SkuOf(r)
        /\ RowInv /\ SkuInv
    BY DEF CatalogInv, SkuInv
  <1>3. /\ nextSku \in Nat /\ nextSku >= FirstSku /\ nextSku # 0 /\ req[r].sku = 0
    BY <1>1, <1>2 DEF PlaceOf, SkuInv, SkuOf
  <1>4. /\ q \in Request /\ q.pc = "write" /\ q.op = req[r].op /\ q.sku = nextSku
    BY <1>2, <1>3 DEF Request, Pc
  <1> HIDE DEF q
  <1>5. /\ req' \in [Req -> Request] /\ req'[r] = q
        /\ \A s \in Req \ {r} : req'[s] = req[s]
    BY <1>1, <1>2, <1>4
  <1>6. RowInv'
    BY <1>1, <1>2 DEF RowInv
  <1>7. \A s \in Req : PlaceOf(s)' /\ RemovalOf(s)'
    <2> TAKE s \in Req
    <2>1. PlaceOf(s) /\ RemovalOf(s) /\ nextSku' # 0
      BY <1>1, <1>3 DEF CatalogInv
    <2>2. CASE s = r
      BY <1>1, <1>2, <1>4, <1>5, <2>2 DEF PlaceOf, RemovalOf, Op
    <2>3. CASE s # r
      BY <1>1, <1>5, <2>1, <2>3 DEF PlaceOf, RemovalOf, Op
    <2> QED
      BY <2>2, <2>3
  <1>8. SkuInv'
    <2>1. \A s \in Req \ {r} : req[s].sku # nextSku
      <3> SUFFICES ASSUME NEW s \in Req, req[s].sku = nextSku PROVE FALSE
        OBVIOUS
      <3>1. req[s].sku \in FirstSku..(nextSku - 1)
        BY <1>2, <1>3 DEF SkuInv, SkuOf
      <3> QED
        BY <1>3, <3>1
    <2>2. ASSUME NEW s \in Req PROVE SkuOf(s)'
      <3>1. CASE s = r
        BY <1>1, <1>2, <1>3, <1>4, <1>5, <3>1, SkuAssumption DEF SkuOf, Op, PlaceOf
      <3>2. CASE s # r
        <4>1. req'[s] = req[s] /\ SkuOf(s)
          BY <1>2, <1>5, <3>2 DEF SkuInv
        <4>2. FirstSku..(nextSku - 1) \subseteq FirstSku..(nextSku' - 1) /\ nextSku' # 0
          BY <1>1, <1>3, SkuAssumption
        <4> QED
          BY <1>1, <4>1, <4>2 DEF SkuOf, Op
      <3> QED
        BY <3>1, <3>2
    <2>3. \A s, t \in Req : req'[s].sku # 0 /\ req'[s].sku = req'[t].sku => s = t
      BY <1>2, <1>4, <1>5, <2>1 DEF SkuInv
    <2>4. ASSUME NEW n \in FirstSku..(nextSku' - 1) PROVE \E s \in Req : req'[s].sku = n
      <3>1. CASE n = nextSku
        BY <1>4, <1>5, <3>1
      <3>2. CASE n # nextSku
        <4>1. n \in FirstSku..(nextSku - 1)
          BY <1>1, <1>3, <3>2, SkuAssumption
        <4>2. PICK s \in Req : req[s].sku = n
          BY <1>2, <4>1 DEF SkuInv
        <4>3. s # r
          BY <1>3, <4>1, <4>2, SkuAssumption
        <4> QED
          BY <1>5, <4>2, <4>3
      <3> QED
        BY <3>1, <3>2
    <2>5. ASSUME NEW e \in DOMAIN entry, entry[e].sku >= FirstSku
          PROVE  /\ entry[e].kind = "product"
                 /\ \E s \in Req : req'[s].pc = "done" /\ req'[s].sku = entry[e].sku
      <3>1. PICK s \in Req : req[s].pc = "done" /\ req[s].sku = entry[e].sku
        BY <1>2, <2>5 DEF SkuInv
      <3>2. s # r
        BY <1>1, <3>1
      <3> QED
        BY <1>2, <1>5, <2>5, <3>1, <3>2 DEF SkuInv
    <2> QED
      BY <1>1, <1>3, <2>2, <2>3, <2>4, <2>5, SkuAssumption DEF SkuInv
  <1> QED
    BY <1>5, <1>6, <1>7, <1>8 DEF CatalogInv

-----------------------------------------------------------------------------
(* The statement that writes the row *)

LEMMA WroteFacts ==
  ASSUME CatalogInv, NEW r \in Req, NEW id \in Nat, WroteBy(r, "done", id)
  PROVE  /\ req' \in [Req -> Request]
         /\ req'[r].pc = "done" /\ req'[r].op = req[r].op /\ req'[r].sku = req[r].sku
         /\ \A s \in Req \ {r} :
               /\ req'[s].pc = req[s].pc /\ req'[s].op = req[s].op
               /\ req'[s].sku = req[s].sku
               /\ req[s].during \subseteq req'[s].during
               /\ req[s].pc = "write" => id \in req'[s].during
  <1>1. req \in [Req -> Request]
    BY DEF CatalogInv
  <1>2. req'[r] = [req[r] EXCEPT !.pc = "done"]
    BY DEF WroteBy
  <1>3. [req[r] EXCEPT !.pc = "done"] \in Request
    BY <1>1 DEF Request, Pc
  <1>4. ASSUME NEW s \in Req \ {r}
        PROVE  /\ req'[s] \in Request
               /\ req'[s].pc = req[s].pc /\ req'[s].op = req[s].op
               /\ req'[s].sku = req[s].sku
               /\ req[s].during \subseteq req'[s].during
               /\ req[s].pc = "write" => id \in req'[s].during
    <2>1. req[s] \in Request
      BY <1>1
    <2>2. CASE Running(s)
      <3>1. req'[s] = [req[s] EXCEPT !.during = @ \cup {id}]
        BY <2>2 DEF WroteBy
      <3>2. [req[s] EXCEPT !.during = @ \cup {id}] \in Request
        BY <2>1 DEF Request
      <3> QED
        BY <2>1, <3>1, <3>2 DEF Request
    <2>3. CASE ~Running(s)
      <3>1. req'[s] = req[s]
        BY <2>3 DEF WroteBy
      <3> QED
        BY <2>1, <2>3, <3>1 DEF Running
    <2> QED
      BY <2>2, <2>3
  <1>5. req' \in [Req -> Request]
    <2>1. DOMAIN req' = Req /\ req' = [u \in Req |-> req'[u]]
      BY DEF WroteBy
    <2>2. \A u \in Req : req'[u] \in Request
      BY <1>2, <1>3, <1>4
    <2> QED
      BY <2>1, <2>2
  <1> QED
    BY <1>1, <1>2, <1>3, <1>4, <1>5 DEF Request

\* A write keeps the kind and the SKU of the rows it does not make or delete,
\* and makes no row refer to another behind the back of a removal.
LEMMA RowStep ==
  ASSUME CatalogInv, NEW r \in Req, NEW id \in Nat, WroteBy(r, "done", id),
         req[r].pc = "write", nextSku' = nextSku, RowInv',
         \A e \in DOMAIN entry \cap DOMAIN entry' :
             entry'[e].kind = entry[e].kind /\ entry'[e].sku = entry[e].sku,
         \A e \in DOMAIN entry \ DOMAIN entry' : entry[e].kind # "product",
         \A e \in DOMAIN entry' \ DOMAIN entry :
             entry'[e].kind = Op(r).kind /\ entry'[e].sku = req[r].sku,
         req[r].sku # 0 => \E e \in DOMAIN entry' : entry'[e].sku = req[r].sku,
         \A e \in DOMAIN entry' :
             \/ e = id \/ entry'[e].ref = Null
             \/ e \in DOMAIN entry /\ entry'[e].ref = entry[e].ref
  PROVE  CatalogInv'
  <1>1. /\ req \in [Req -> Request] /\ PlaceOf(r) /\ SkuOf(r) /\ SkuInv /\ RowInv
    BY DEF CatalogInv, SkuInv
  <1>2. /\ req' \in [Req -> Request]
        /\ req'[r].pc = "done" /\ req'[r].op = req[r].op /\ req'[r].sku = req[r].sku
        /\ \A s \in Req \ {r} :
              /\ req'[s].pc = req[s].pc /\ req'[s].op = req[s].op
              /\ req'[s].sku = req[s].sku
              /\ req[s].during \subseteq req'[s].during
              /\ req[s].pc = "write" => id \in req'[s].during
    BY WroteFacts
  <1>3. ASSUME NEW s \in Req PROVE PlaceOf(s)' /\ RemovalOf(s)'
    <2>1. CASE s = r
      BY <1>1, <1>2, <2>1 DEF PlaceOf, RemovalOf, Op
    <2>2. CASE s # r
      <3>1. PlaceOf(s) /\ RemovalOf(s)
        BY DEF CatalogInv
      <3>2. PlaceOf(s)'
        BY <1>2, <2>2, <3>1 DEF PlaceOf, Op
      <3>3. RemovalOf(s)'
        BY <1>2, <2>2, <3>1 DEF RemovalOf, Op
      <3> QED
        BY <3>2, <3>3
    <2> QED
      BY <2>1, <2>2
  <1>4. ASSUME NEW s \in Req PROVE SkuOf(s)'
    <2> SUFFICES ASSUME req[s].sku # 0 PROVE SkuOf(s)'
      BY <1>2 DEF SkuOf
    <2>1. SkuOf(s)
      BY <1>1 DEF SkuInv
    <2>2. CASE s = r
      BY <1>2, <2>1, <2>2 DEF SkuOf, Op
    <2>3. CASE s # r
      <3>1. ASSUME req[s].pc = "done"
            PROVE  \E e \in DOMAIN entry' : entry'[e].sku = req[s].sku
        <4>1. PICK e \in DOMAIN entry : entry[e].sku = req[s].sku
          BY <2>1, <3>1 DEF SkuOf
        <4>2. entry[e].sku >= FirstSku
          BY <2>1, <4>1, SkuAssumption DEF SkuOf
        <4>3. entry[e].kind = "product"
          BY <1>1, <4>2 DEF SkuInv
        <4> QED
          BY <4>1, <4>3
      <3> QED
        BY <1>2, <2>1, <2>3, <3>1 DEF SkuOf, Op
    <2> QED
      BY <2>2, <2>3
  <1>5. \A s, t \in Req : req'[s].sku # 0 /\ req'[s].sku = req'[t].sku => s = t
    BY <1>1, <1>2 DEF SkuInv
  <1>6. \A n \in FirstSku..(nextSku - 1) : \E s \in Req : req'[s].sku = n
    BY <1>1, <1>2 DEF SkuInv
  <1>7. ASSUME NEW e \in DOMAIN entry', entry'[e].sku >= FirstSku
        PROVE  /\ entry'[e].kind = "product"
               /\ \E s \in Req : req'[s].pc = "done" /\ req'[s].sku = entry'[e].sku
    <2>1. CASE e \in DOMAIN entry
      <3>1. PICK s \in Req : req[s].pc = "done" /\ req[s].sku = entry[e].sku
        BY <1>1, <1>7, <2>1 DEF SkuInv
      <3>2. s # r
        BY <3>1
      <3> QED
        BY <1>1, <1>2, <1>7, <2>1, <3>1, <3>2 DEF SkuInv
    <2>2. CASE e \notin DOMAIN entry
      <3>1. req[r].sku # 0
        BY <1>7, <2>2, SkuAssumption
      <3> QED
        BY <1>1, <1>2, <2>2, <3>1 DEF SkuOf
    <2> QED
      BY <2>1, <2>2
  <1>8. SkuInv'
    BY <1>1, <1>4, <1>5, <1>6, <1>7 DEF SkuInv
  <1> QED
    BY <1>2, <1>3, <1>8 DEF CatalogInv

LEMMA CreateStep ==
  ASSUME CatalogInv, NEW r \in Req, req[r].pc = "write", Create(r), Op(r).act = "create",
         ForeignKey(Op(r)), nextSku' = nextSku
  PROVE  CatalogInv'
  <1>1. /\ req \in [Req -> Request] /\ req[r] \in Request /\ PlaceOf(r) /\ SkuOf(r)
        /\ RowInv
    BY DEF CatalogInv, SkuInv
  <1>2. /\ Op(r).kind \in Kind /\ Op(r).ref \in Nat /\ req[r].sku \in Nat
        /\ nextId \in Nat \ {0}
    BY <1>1, OperationKinds DEF PlaceOf, Request, RowInv
  <1> DEFINE new == [kind |-> Op(r).kind, ref |-> Op(r).ref, gone |-> FALSE,
                     sku |-> req[r].sku, under |-> {}]
  <1>3. new \in Entry /\ new.kind = Op(r).kind /\ new.ref = Op(r).ref
        /\ new.sku = req[r].sku
    BY <1>2 DEF Entry
  <1>4. /\ entry' = [e \in DOMAIN entry \cup {nextId} |-> IF e # nextId THEN entry[e] ELSE new]
        /\ nextId' = nextId + 1 /\ WroteBy(r, "done", nextId)
    BY DEF Create
  <1> HIDE DEF new
  <1>5. nextId \notin DOMAIN entry
    BY <1>1, <1>2 DEF RowInv
  <1>6. /\ DOMAIN entry' = DOMAIN entry \cup {nextId} /\ entry'[nextId] = new
        /\ \A e \in DOMAIN entry : entry'[e] = entry[e]
    BY <1>4, <1>5
  <1>7. Op(r).ref = Null \/ Op(r).ref \in DOMAIN entry
    BY DEF ForeignKey, Row
  <1>8. RowInv'
    <2>1. entry' \in [DOMAIN entry' -> Entry]
      BY <1>1, <1>3, <1>4, <1>6 DEF RowInv
    <2>2. DOMAIN entry' \subseteq 1..(nextId' - 1)
      BY <1>1, <1>2, <1>4, <1>6 DEF RowInv
    <2>3. \A e \in DOMAIN entry' : entry'[e].ref = Null \/ entry'[e].ref \in DOMAIN entry'
      BY <1>1, <1>3, <1>6, <1>7 DEF RowInv
    <2> QED
      BY <1>2, <1>4, <2>1, <2>2, <2>3 DEF RowInv
  <1> QED
    BY <1>2, <1>3, <1>4, <1>5, <1>6, <1>8, RowStep

LEMMA UpdateStep ==
  ASSUME CatalogInv, NEW r \in Req, req[r].pc = "write", Update(r), Op(r).act = "update",
         ForeignKey(Op(r)), Row(Op(r).id, Op(r).kind), nextSku' = nextSku
  PROVE  CatalogInv'
  <1> DEFINE id == Op(r).id
             new == [entry[id] EXCEPT !.ref = Op(r).ref, !.under = req[r].during]
  <1>1. /\ req \in [Req -> Request] /\ req[r] \in Request /\ PlaceOf(r) /\ SkuOf(r)
        /\ RowInv /\ id \in DOMAIN entry /\ entry[id] \in Entry
    BY DEF CatalogInv, SkuInv, Row, RowInv
  <1>2. /\ id \in Nat /\ Op(r).ref \in Nat /\ req[r].sku = 0
        /\ req[r].during \in SUBSET Nat
    BY <1>1, OperationKinds DEF PlaceOf, SkuOf, Request
  <1>3. /\ new \in Entry /\ new.kind = entry[id].kind /\ new.sku = entry[id].sku
        /\ new.ref = Op(r).ref
    BY <1>1, <1>2 DEF Entry
  <1>4. /\ entry' = [entry EXCEPT ![id] = new]
        /\ nextId' = nextId /\ WroteBy(r, "done", id)
    BY DEF Update
  <1>5. Op(r).ref = Null \/ Op(r).ref \in DOMAIN entry
    BY DEF ForeignKey, Row
  <1> HIDE DEF new, id
  <1>6. /\ DOMAIN entry' = DOMAIN entry /\ entry'[id] = new
        /\ \A e \in DOMAIN entry \ {id} : entry'[e] = entry[e]
    BY <1>1, <1>4
  <1>7. RowInv'
    <2>1. entry' \in [DOMAIN entry' -> Entry]
      BY <1>1, <1>3, <1>4 DEF RowInv
    <2>2. \A e \in DOMAIN entry' : entry'[e].ref = Null \/ entry'[e].ref \in DOMAIN entry'
      BY <1>1, <1>3, <1>5, <1>6 DEF RowInv
    <2> QED
      BY <1>1, <1>4, <1>6, <2>1, <2>2 DEF RowInv
  <1> QED
    BY <1>2, <1>3, <1>4, <1>6, <1>7, RowStep

LEMMA DeleteStep ==
  ASSUME CatalogInv, NEW r \in Req, req[r].pc = "write", Delete(r), Op(r).act = "remove",
         Op(r).kind # "product", Row(Op(r).id, Op(r).kind), nextSku' = nextSku
  PROVE  CatalogInv'
  <1> DEFINE id == Op(r).id
  <1>1. /\ req \in [Req -> Request] /\ req[r] \in Request /\ PlaceOf(r) /\ SkuOf(r)
        /\ RowInv /\ id \in DOMAIN entry /\ entry[id].kind # "product"
    BY DEF CatalogInv, SkuInv, Row, RowInv
  <1>2. id \in Nat /\ req[r].sku = 0
    BY <1>1, OperationKinds DEF PlaceOf, SkuOf
  <1>3. /\ entry' = [e \in DOMAIN entry \ {id} |->
                        IF entry[e].ref = id THEN [entry[e] EXCEPT !.ref = Null]
                        ELSE entry[e]]
        /\ nextId' = nextId /\ WroteBy(r, "done", id)
    BY DEF Delete
  <1> HIDE DEF id
  <1>4. DOMAIN entry' = DOMAIN entry \ {id}
    BY <1>3
  <1>5. ASSUME NEW e \in DOMAIN entry'
        PROVE  /\ entry'[e] \in Entry
               /\ entry'[e].kind = entry[e].kind /\ entry'[e].sku = entry[e].sku
               /\ entry'[e].ref = Null \/ (entry'[e].ref = entry[e].ref /\ entry[e].ref # id)
    <2>1. e \in DOMAIN entry /\ entry[e] \in Entry
      BY <1>1, <1>4 DEF RowInv
    <2>2. CASE entry[e].ref = id
      <3>1. entry'[e] = [entry[e] EXCEPT !.ref = Null]
        BY <1>3, <1>4, <2>2
      <3> QED
        BY <2>1, <3>1 DEF Entry, Null
    <2>3. CASE entry[e].ref # id
      BY <1>3, <1>4, <2>1, <2>3
    <2> QED
      BY <2>2, <2>3
  <1>6. RowInv'
    <2>1. entry' \in [DOMAIN entry' -> Entry]
      BY <1>3, <1>4, <1>5
    <2>2. \A e \in DOMAIN entry' : entry'[e].ref = Null \/ entry'[e].ref \in DOMAIN entry'
      BY <1>1, <1>4, <1>5 DEF RowInv
    <2> QED
      BY <1>1, <1>3, <1>4, <2>1, <2>2 DEF RowInv
  <1> QED
    BY <1>1, <1>2, <1>3, <1>4, <1>5, <1>6, RowStep

LEMMA SoftDeleteStep ==
  ASSUME CatalogInv, NEW r \in Req, req[r].pc = "write", SoftDelete(r), Op(r).act = "remove",
         Row(Op(r).id, "product"), nextSku' = nextSku
  PROVE  CatalogInv'
  <1> DEFINE id == Op(r).id
             new == [entry[id] EXCEPT !.gone = TRUE]
  <1>1. /\ req \in [Req -> Request] /\ req[r] \in Request /\ PlaceOf(r) /\ SkuOf(r)
        /\ RowInv /\ id \in DOMAIN entry /\ entry[id] \in Entry
    BY DEF CatalogInv, SkuInv, Row, RowInv
  <1>2. id \in Nat /\ req[r].sku = 0
    BY <1>1, OperationKinds DEF PlaceOf, SkuOf
  <1>3. /\ new \in Entry /\ new.kind = entry[id].kind /\ new.sku = entry[id].sku
        /\ new.ref = entry[id].ref
    BY <1>1 DEF Entry
  <1>4. /\ entry' = [entry EXCEPT ![id] = new]
        /\ nextId' = nextId /\ WroteBy(r, "done", id)
    BY DEF SoftDelete
  <1> HIDE DEF new, id
  <1>5. /\ DOMAIN entry' = DOMAIN entry /\ entry'[id] = new
        /\ \A e \in DOMAIN entry \ {id} : entry'[e] = entry[e]
    BY <1>1, <1>4
  <1>6. RowInv'
    BY <1>1, <1>3, <1>4, <1>5 DEF RowInv
  <1> QED
    BY <1>2, <1>3, <1>4, <1>5, <1>6, RowStep

LEMMA WriteStep ==
  ASSUME CatalogInv, NEW r \in Req, Write(r)
  PROVE  CatalogInv'
  <1>1. req[r].pc = "write" /\ nextSku' = nextSku
    BY DEF Write
  <1>2. CASE Op(r).act = "create" /\ ForeignKey(Op(r)) /\ Create(r)
    BY <1>1, <1>2, CreateStep
  <1>3. CASE /\ Op(r).act = "update" /\ ForeignKey(Op(r)) /\ Row(Op(r).id, Op(r).kind)
             /\ Update(r)
    BY <1>1, <1>3, UpdateStep
  <1>4. CASE /\ Op(r).act = "remove" /\ Op(r).kind # "product"
             /\ Row(Op(r).id, Op(r).kind) /\ Delete(r)
    BY <1>1, <1>4, DeleteStep
  <1>5. CASE /\ Op(r).act = "remove" /\ Row(Op(r).id, "product") /\ SoftDelete(r)
    BY <1>1, <1>5, SoftDeleteStep
  <1>6. CASE Goto(r, "failed") /\ UNCHANGED <<entry, nextId>>
    BY <1>1, <1>6, GotoStep
  <1> QED
    BY <1>1, <1>2, <1>3, <1>4, <1>5, <1>6 DEF Write

LEMMA CrashStep ==
  ASSUME CatalogInv, Crash
  PROVE  CatalogInv'
  <1>1. /\ req' = [r \in Req |-> IF Running(r) THEN [req[r] EXCEPT !.pc = "failed"]
                                 ELSE req[r]]
        /\ UNCHANGED <<entry, nextId, nextSku>>
    BY DEF Crash
  <1>2. req \in [Req -> Request] /\ RowInv /\ SkuInv
    BY DEF CatalogInv
  <1>3. ASSUME NEW r \in Req
        PROVE  /\ req'[r] \in Request /\ req'[r].op = req[r].op /\ req'[r].sku = req[r].sku
               /\ req'[r].pc \in {"new", "done"} => req'[r].pc = req[r].pc
               /\ req[r].pc \in {"new", "done"} => req'[r].pc = req[r].pc
               /\ req'[r].pc \in {"new", "done", "failed"}
    <2>1. req[r] \in Request
      BY <1>2
    <2>2. CASE Running(r)
      <3>1. /\ req'[r] = [req[r] EXCEPT !.pc = "failed"]
            /\ req[r].pc \notin {"new", "done"}
        BY <1>1, <2>2 DEF Running
      <3> QED
        BY <2>1, <3>1 DEF Request, Pc
    <2>3. CASE ~Running(r)
      BY <1>1, <2>1, <2>3 DEF Running
    <2> QED
      BY <2>2, <2>3
  <1>4. req' \in [Req -> Request]
    BY <1>1, <1>3
  <1>5. \A r \in Req : PlaceOf(r)' /\ RemovalOf(r)'
    <2> TAKE r \in Req
    <2>1. PlaceOf(r)
      BY DEF CatalogInv
    <2>2. PlaceOf(r)'
      BY <1>3, <2>1 DEF PlaceOf, Op
    <2>3. RemovalOf(r)'
      BY <1>3 DEF RemovalOf
    <2> QED
      BY <2>2, <2>3
  <1>6. SkuInv'
    <2>1. ASSUME NEW r \in Req PROVE SkuOf(r)'
      <3>1. SkuOf(r)
        BY <1>2 DEF SkuInv
      <3> QED
        BY <1>1, <1>3, <3>1 DEF SkuOf, Op
    <2>2. \A e \in DOMAIN entry :
             entry[e].sku >= FirstSku =>
                 /\ entry[e].kind = "product"
                 /\ \E r \in Req : req'[r].pc = "done" /\ req'[r].sku = entry[e].sku
      BY <1>2, <1>3 DEF SkuInv
    <2>3. \A n \in FirstSku..(nextSku - 1) : \E r \in Req : req'[r].sku = n
      BY <1>2, <1>3 DEF SkuInv
    <2>4. \A r, s \in Req : req'[r].sku # 0 /\ req'[r].sku = req'[s].sku => r = s
      BY <1>2, <1>3 DEF SkuInv
    <2> QED
      BY <1>1, <1>2, <2>1, <2>2, <2>3, <2>4 DEF SkuInv
  <1>7. RowInv'
    BY <1>1, <1>2 DEF RowInv
  <1> QED
    BY <1>4, <1>5, <1>6, <1>7 DEF CatalogInv

LEMMA CatalogStep == CatalogInv /\ [Next]_vars => CatalogInv'
  <1> SUFFICES ASSUME CatalogInv, [Next]_vars PROVE CatalogInv'
    OBVIOUS
  <1>1. CASE Crash
    BY <1>1, CrashStep
  <1>2. ASSUME NEW r \in Req, Begin(r) \/ Step(r) PROVE CatalogInv'
    BY <1>2, BeginStep, FindStep, ReferenceStep, ClimbStep, EnsureSkuSequenceRowStep,
       ReserveProductSkuStep, WriteStep DEF Step
  <1>3. CASE UNCHANGED vars
    BY <1>3 DEF vars, CatalogInv, RowInv, SkuInv, SkuOf, PlaceOf, RemovalOf, Op
  <1> QED
    BY <1>1, <1>2, <1>3 DEF Next

-----------------------------------------------------------------------------
\* Every reachable state of the catalogs satisfies the inductive invariant:
\* references lead to rows, a removal about to happen knows of its children,
\* SKUs below the sequence belong to one request each.
THEOREM CatalogInvariant == Spec => []CatalogInv
  BY CatalogInit, CatalogStep, PTL DEF Spec

LEMMA SkusFollow == CatalogInv => SkusAccounted
  <1> SUFFICES ASSUME CatalogInv PROVE SkusAccounted
    OBVIOUS
  <1>1. SkuInv /\ req \in [Req -> Request]
    BY DEF CatalogInv
  <1>2. ASSUME NEW n \in FirstSku..(nextSku - 1)
        PROVE  Cardinality({r \in Req : req[r].sku = n}) = 1
    <2>1. PICK r \in Req : req[r].sku = n
      BY <1>1 DEF SkuInv
    <2>2. n # 0
      BY <1>1, SkuAssumption DEF SkuInv
    <2>3. {s \in Req : req[s].sku = n} = {r}
      BY <1>1, <2>1, <2>2 DEF SkuInv
    <2> QED
      BY <2>3, FS_Singleton
  <1>3. ASSUME NEW r \in Req, req[r].sku # 0
        PROVE  /\ req[r].sku \in FirstSku..(nextSku - 1)
               /\ req[r].pc = "done" <=> \E e \in DOMAIN entry : entry[e].sku = req[r].sku
    <2>1. SkuOf(r)
      BY <1>1 DEF SkuInv
    <2>2. ASSUME NEW e \in DOMAIN entry, entry[e].sku = req[r].sku PROVE req[r].pc = "done"
      <3>1. entry[e].sku >= FirstSku
        BY <1>1, <1>3, <2>1, <2>2, SkuAssumption DEF SkuInv, SkuOf
      <3>2. PICK s \in Req : req[s].pc = "done" /\ req[s].sku = entry[e].sku
        BY <1>1, <3>1 DEF SkuInv
      <3> QED
        BY <1>1, <1>3, <2>2, <3>2 DEF SkuInv
    <2> QED
      BY <1>3, <2>1, <2>2 DEF SkuOf
  <1> QED
    BY <1>2, <1>3 DEF SkusAccounted

\* The sequence of SKUs may leave gaps and never repeats: whatever requests
\* interleave, fail or die, a SKU that was given out belongs to one request,
\* and to a product exactly if that request went through.
THEOREM SkusOnce == Spec => []SkusAccounted
  BY CatalogInvariant, SkusFollow, PTL

LEMMA DetachStep ==
  ASSUME CatalogInv, [Next]_vars,
         NEW e \in DOMAIN entry \cap DOMAIN entry',
         entry[e].ref # Null, entry[e].ref \notin DOMAIN entry'
  PROVE  \E r \in Req : /\ Op(r).act = "remove" /\ Op(r).id = entry[e].ref
                       /\ e \in req[r].during
  <1>1. entry[e].ref \in DOMAIN entry
    BY DEF CatalogInv, RowInv
  <1>2. DOMAIN entry # DOMAIN entry'
    BY <1>1
  <1>3. PICK r \in Req : Step(r)
    BY <1>2 DEF Next, vars, Crash, Begin
  <1>4. Write(r)
    BY <1>2, <1>3 DEF Step, Find, Reference, Climb, EnsureSkuSequenceRow, ReserveProductSku
  <1>5. req[r].pc = "write" /\ RemovalOf(r)
    BY <1>4 DEF Write, CatalogInv
  <1>6. ~Create(r)
    BY <1>1 DEF Create
  <1>7. ~Update(r) /\ ~SoftDelete(r)
    BY <1>2 DEF Update, SoftDelete
  <1>8. Op(r).act = "remove" /\ ~Restricted(Op(r).id) /\ Delete(r)
    BY <1>2, <1>4, <1>6, <1>7 DEF Write
  <1>9. entry[e].ref = Op(r).id
    BY <1>1, <1>8 DEF Delete
  <1>10. entry[e].kind # "product"
    BY <1>8, <1>9 DEF Restricted, RefersTo
  <1> QED
    BY <1>5, <1>8, <1>9, <1>10 DEF RemovalOf

\* Removing a row takes the reference only from entries that came late: an
\* entry that is left without its parent or branch was written after the
\* removal had counted none.
THEOREM DetachedLate == Spec => DetachedOnlyByLateArrival
  <1>1. CatalogInv /\ [Next]_vars =>
           [\A e \in DOMAIN entry \cap DOMAIN entry' :
              entry[e].ref # Null /\ entry[e].ref \notin DOMAIN entry' =>
                  \E r \in Req : /\ Op(r).act = "remove" /\ Op(r).id = entry[e].ref
                                 /\ e \in req[r].during]_vars
    BY DetachStep
  <1> QED
    BY CatalogInvariant, <1>1, PTL DEF Spec, DetachedOnlyByLateArrival

-----------------------------------------------------------------------------
(* The tree of categories                                                   *)

\* S holds the way from the new parent up, and nobody wrote a row of it while
\* the move ran, but perhaps the row to be moved.
Leads(r, S) ==
    /\ S \subseteq DOMAIN entry /\ Op(r).ref \in S
    /\ \A e \in S \ {Op(r).id} : entry[e].ref \in S /\ e \notin req[r].during

Moving(r) == Op(r).act = "update" /\ Op(r).kind = "category" /\ Op(r).ref # Null

\* A climb stays on a way that leads round, and so never leaves it for a write.
ClimbedOf(r) ==
    /\ Op(r).act = "update" /\ req[r].pc \in {"reference", "climb", "write"}
          => Op(r).id \in Nat /\ Op(r).id < nextId
    /\ Moving(r) /\ req[r].pc = "climb" => \A S : Leads(r, S) => req[r].cursor \in S
    /\ Moving(r) /\ req[r].pc = "write" => \A S : ~Leads(r, S)

KindInv ==
    \A e \in DOMAIN entry :
        entry[e].ref # Null => entry[entry[e].ref].kind = RefKind(entry[e].kind)

TreeInv == KindInv /\ ForestUnlessMoves /\ \A r \in Req : ClimbedOf(r)

LEMMA TreeInit == Init => TreeInv
  <1> SUFFICES ASSUME Init PROVE TreeInv
    OBVIOUS
  <1>1. KindInv
    BY InitialAssumption DEF Init, KindInv
  <1>2. ForestUnlessMoves
    BY ForestAssumption DEF Init, ForestUnlessMoves, Circular
  <1>3. \A r \in Req : ClimbedOf(r)
    BY DEF Init, ClimbedOf
  <1> QED
    BY <1>1, <1>2, <1>3 DEF TreeInv

\* The checks write no row.
LEMMA ChecksKeepTree ==
  ASSUME CatalogInv, TreeInv, NEW r \in Req, entry' = entry, nextId' = nextId,
         \A s \in Req \ {r} : req'[s] = req[s], ClimbedOf(r)'
  PROVE  TreeInv'
  <1>1. KindInv' /\ ForestUnlessMoves'
    BY DEF TreeInv, KindInv, ForestUnlessMoves, Circular
  <1>2. ASSUME NEW s \in Req \ {r} PROVE ClimbedOf(s)'
    <2>1. ClimbedOf(s) /\ req'[s] = req[s]
      BY DEF TreeInv
    <2> QED
      BY <2>1 DEF ClimbedOf, Moving, Leads, Op
  <1> QED
    BY <1>1, <1>2 DEF TreeInv

LEMMA GotoTree ==
  ASSUME CatalogInv, TreeInv, NEW r \in Req, NEW pc, Goto(r, pc), entry' = entry,
         nextId' = nextId,
         Op(r).act = "update" /\ pc \in {"reference", "climb", "write"}
            => Op(r).id \in Nat /\ Op(r).id < nextId,
         pc # "climb", pc = "write" /\ Moving(r) => \A S : ~Leads(r, S)
  PROVE  TreeInv'
  <1>1. /\ req \in [Req -> Request] /\ req[r] \in Request
    BY DEF CatalogInv
  <1> DEFINE q == [req[r] EXCEPT !.pc = pc]
  <1>2. req' = [req EXCEPT ![r] = q]
    BY DEF Goto
  <1>3. /\ q.pc = pc /\ q.op = req[r].op /\ q.during = req[r].during
    BY <1>1 DEF Request
  <1> HIDE DEF q
  <1>4. req'[r] = q /\ \A s \in Req \ {r} : req'[s] = req[s]
    BY <1>1, <1>2
  <1>5. ClimbedOf(r)'
    BY <1>3, <1>4 DEF ClimbedOf, Moving, Leads, Op
  <1> QED
    BY <1>4, <1>5, ChecksKeepTree

LEMMA ClimbTree ==
  ASSUME CatalogInv, TreeInv, NEW r \in Req, Climb(r)
  PROVE  TreeInv'
  <1> DEFINE c == req[r].cursor
             up == IF c \in DOMAIN entry THEN entry[c].ref ELSE Null
             q == [req[r] EXCEPT !.seen = @ \cup {c}, !.cursor = up]
  <1>1. /\ req[r].pc = "climb" /\ UNCHANGED <<entry, nextId>> /\ ClimbedOf(r) /\ RowInv
        /\ req \in [Req -> Request] /\ req[r] \in Request
    BY DEF Climb, TreeInv, CatalogInv
  <1>2. CASE Goto(r, "failed")
    BY <1>1, <1>2, GotoTree
  <1>3. CASE c = Null /\ Goto(r, "write")
    <2>1. ASSUME Moving(r), NEW S, Leads(r, S) PROVE FALSE
      <3>1. Null \in S /\ S \subseteq DOMAIN entry
        BY <1>1, <1>3, <2>1 DEF ClimbedOf, Leads
      <3> QED
        BY <1>1, <3>1 DEF RowInv, Null
    <2> QED
      BY <1>1, <1>3, <2>1, GotoTree DEF ClimbedOf
  <1>4. CASE c # Op(r).id /\ req' = [req EXCEPT ![r] = q]
    <2>1. /\ q.pc = "climb" /\ q.op = req[r].op /\ q.during = req[r].during /\ q.cursor = up
      BY <1>1 DEF Request
    <2>2. ASSUME Moving(r), NEW S, Leads(r, S) PROVE up \in S
      <3>1. c \in S
        BY <1>1, <2>2 DEF ClimbedOf
      <3> QED
        BY <1>4, <2>2, <3>1 DEF Leads
    <2> HIDE DEF q, up, c
    <2>3. req'[r] = q /\ \A s \in Req \ {r} : req'[s] = req[s]
      BY <1>1, <1>4
    <2>4. ClimbedOf(r)'
      <3>1. \A S : Leads(r, S)' => Leads(r, S)
        BY <1>1, <2>1, <2>3 DEF Leads, Op
      <3> QED
        BY <1>1, <2>1, <2>2, <2>3, <3>1 DEF ClimbedOf, Moving, Op
    <2> QED
      BY <1>1, <2>3, <2>4, ChecksKeepTree
  <1> QED
    BY <1>2, <1>3, <1>4 DEF Climb

LEMMA ChecksTree ==
  ASSUME CatalogInv, TreeInv, NEW r \in Req,
         Find(r) \/ Reference(r) \/ EnsureSkuSequenceRow(r) \/ ReserveProductSku(r)
  PROVE  TreeInv'
  <1>1. /\ req \in [Req -> Request] /\ req[r] \in Request /\ PlaceOf(r) /\ RowInv
        /\ ClimbedOf(r)
    BY DEF CatalogInv, TreeInv
  <1>2. UNCHANGED <<entry, nextId>>
    BY DEF Find, Reference, EnsureSkuSequenceRow, ReserveProductSku
  <1>3. CASE Goto(r, "failed")
    BY <1>2, <1>3, GotoTree
  <1>4. CASE /\ Find(r) /\ Exists(Op(r).id, Op(r).kind)
             /\ Goto(r, IF Op(r).act = "remove" THEN "write" ELSE Refer(Op(r)))
    <2>1. Op(r).id \in Nat /\ Op(r).id < nextId
      BY <1>1, <1>4 DEF Exists, RowInv
    <2>2. CASE Op(r).act = "remove"
      BY <1>2, <1>4, <2>2, GotoTree DEF Moving
    <2>3. CASE Op(r).act # "remove"
      <3>1. Goto(r, Refer(Op(r))) /\ Refer(Op(r)) # "climb"
        BY <1>4, <2>3 DEF Refer, Checked
      <3>2. Refer(Op(r)) = "write" => ~Moving(r)
        BY DEF Refer, Moving
      <3> QED
        BY <1>2, <2>1, <3>1, <3>2, GotoTree
    <2> QED
      BY <2>2, <2>3
  <1>5. CASE Reference(r) /\ Goto(r, Checked(Op(r)))
             /\ ~(Op(r).act = "update" /\ Op(r).kind = "category")
    <2>1. Checked(Op(r)) # "climb" /\ ~Moving(r)
      BY <1>5 DEF Checked, Moving
    <2>2. Op(r).act = "update" => Op(r).id \in Nat /\ Op(r).id < nextId
      BY <1>1, <1>5 DEF ClimbedOf, Reference
    <2> QED
      BY <1>2, <1>5, <2>1, <2>2, GotoTree
  <1>6. CASE /\ Reference(r) /\ Op(r).act = "update"
             /\ req' = [req EXCEPT ![r].pc = "climb", ![r].cursor = Op(r).ref]
    <2> DEFINE q == [req[r] EXCEPT !.pc = "climb", !.cursor = Op(r).ref]
    <2>1. /\ q.pc = "climb" /\ q.op = req[r].op /\ q.during = req[r].during
          /\ q.cursor = Op(r).ref /\ req' = [req EXCEPT ![r] = q]
      BY <1>1, <1>6 DEF Request
    <2> HIDE DEF q
    <2>2. req'[r] = q /\ \A s \in Req \ {r} : req'[s] = req[s]
      BY <1>1, <2>1
    <2>3. Op(r).id \in Nat /\ Op(r).id < nextId
      BY <1>1, <1>6 DEF ClimbedOf, Reference
    <2>4. ClimbedOf(r)'
      BY <1>2, <2>1, <2>2, <2>3 DEF ClimbedOf, Leads, Op
    <2> QED
      BY <1>2, <2>2, <2>4, ChecksKeepTree
  <1>7. CASE EnsureSkuSequenceRow(r) \/ ReserveProductSku(r)
    <2>1. Op(r).act = "create"
      BY <1>1, <1>7 DEF PlaceOf, EnsureSkuSequenceRow, ReserveProductSku
    <2>2. req'[r].op = req[r].op /\ \A s \in Req \ {r} : req'[s] = req[s]
      <3>1. CASE EnsureSkuSequenceRow(r)
        BY <1>1, <3>1 DEF EnsureSkuSequenceRow, Goto, Request
      <3>2. CASE ReserveProductSku(r)
        BY <1>1, <3>2 DEF ReserveProductSku, Request
      <3> QED
        BY <1>7, <3>1, <3>2
    <2>3. ClimbedOf(r)'
      BY <2>1, <2>2 DEF ClimbedOf, Moving, Op
    <2> QED
      BY <1>2, <2>2, <2>3, ChecksKeepTree
  <1> QED
    BY <1>3, <1>4, <1>5, <1>6, <1>7 DEF Find, Reference

\* A write is noted by every climb that is on its way, and what was not
\* written leads where it led.
LEMMA WritesKeepClimbs ==
  ASSUME CatalogInv, TreeInv, NEW r \in Req, NEW id \in Nat, WroteBy(r, "done", id),
         RowInv', nextId' >= nextId,
         \A e \in DOMAIN entry' \ DOMAIN entry : e = nextId,
         \A e \in DOMAIN entry' :
             \/ e = id \/ entry'[e].ref = Null
             \/ e \in DOMAIN entry /\ entry'[e].ref = entry[e].ref
  PROVE  \A s \in Req : ClimbedOf(s)'
  <1>1. /\ req \in [Req -> Request] /\ nextId \in Nat /\ nextId' \in Nat
        /\ Null \notin DOMAIN entry'
    BY DEF CatalogInv, RowInv, Null
  <1>2. TAKE s \in Req
  <1>3. CASE s = r
    <2>1. req'[s].pc = "done"
      BY <1>3, WroteFacts
    <2> QED
      BY <2>1 DEF ClimbedOf
  <1>4. CASE s # r
    <2>1. /\ req'[s].pc = req[s].pc /\ req'[s].op = req[s].op
          /\ req'[s].cursor = req[s].cursor
          /\ req[s].during \subseteq req'[s].during
          /\ Running(s) => id \in req'[s].during
      <3>1. req[s] \in Request
        BY <1>1
      <3>2. CASE Running(s)
        <4>1. req'[s] = [req[s] EXCEPT !.during = @ \cup {id}]
          BY <1>4, <3>2 DEF WroteBy
        <4> QED
          BY <3>1, <4>1 DEF Request
      <3>3. CASE ~Running(s)
        BY <1>4, <3>1, <3>3 DEF WroteBy
      <3> QED
        BY <3>2, <3>3
    <2>2. ClimbedOf(s)
      BY DEF TreeInv
    <2>3. ASSUME Op(s).act = "update", req[s].pc \in {"climb", "write"},
                 NEW S, Leads(s, S)'
          PROVE  Leads(s, S)
      <3>1. /\ S \subseteq DOMAIN entry' /\ Op(s).ref \in S /\ id \in req'[s].during
            /\ \A e \in S \ {Op(s).id} : entry'[e].ref \in S /\ e \notin req'[s].during
        BY <2>1, <2>3 DEF Leads, Op, Running
      <3>2. \A e \in S \ {Op(s).id} :
               e \in DOMAIN entry /\ entry'[e].ref = entry[e].ref /\ e \notin req[s].during
        BY <1>1, <2>1, <3>1
      <3>3. Op(s).id \in S => Op(s).id \in DOMAIN entry
        BY <1>1, <2>2, <2>3, <3>1 DEF ClimbedOf
      <3>4. S \subseteq DOMAIN entry
        BY <3>2, <3>3
      <3> QED
        BY <3>1, <3>2, <3>4 DEF Leads
    <2> QED
      BY <1>1, <2>1, <2>2, <2>3 DEF ClimbedOf, Moving, Op
  <1> QED
    BY <1>3, <1>4

\* A circle of the rows there were already has its two moves.
LEMMA OldCircle ==
  ASSUME ForestUnlessMoves, NEW S, NEW T \in SUBSET S, T \subseteq DOMAIN entry, T # {},
         \A e \in T : entry[e].ref \in T /\ entry'[e].under = entry[e].under
  PROVE  \E d, e \in S : d # e /\ e \in entry'[d].under
  <1>1. Circular(T)
    BY DEF Circular
  <1>2. PICK d, e \in T : d # e /\ e \in entry[d].under
    BY <1>1 DEF ForestUnlessMoves
  <1> QED
    BY <1>2

LEMMA CreateTree ==
  ASSUME CatalogInv, TreeInv, CatalogInv', NEW r \in Req, req[r].pc = "write", Create(r),
         ForeignKey(Op(r))
  PROVE  TreeInv'
  <1> DEFINE new == [kind |-> Op(r).kind, ref |-> Op(r).ref, gone |-> FALSE,
                     sku |-> req[r].sku, under |-> {}]
  <1>1. /\ entry' = [e \in DOMAIN entry \cup {nextId} |-> IF e # nextId THEN entry[e] ELSE new]
        /\ nextId' = nextId + 1 /\ WroteBy(r, "done", nextId)
        /\ new.ref = Op(r).ref /\ new.kind = Op(r).kind
    BY DEF Create
  <1>2. RowInv /\ RowInv' /\ KindInv /\ ForestUnlessMoves /\ nextId \in Nat \ {0}
    BY DEF CatalogInv, TreeInv, RowInv
  <1>3. nextId \notin DOMAIN entry
    BY <1>2 DEF RowInv
  <1> HIDE DEF new
  <1>4. /\ DOMAIN entry' = DOMAIN entry \cup {nextId} /\ entry'[nextId] = new
        /\ \A e \in DOMAIN entry : entry'[e] = entry[e]
    BY <1>1, <1>3
  <1>5. new.ref # Null => new.ref \in DOMAIN entry /\ entry[new.ref].kind = RefKind(new.kind)
    BY <1>1 DEF ForeignKey, Row
  <1>6. KindInv'
    BY <1>2, <1>4, <1>5 DEF KindInv, RowInv
  <1>7. ForestUnlessMoves'
    <2> SUFFICES ASSUME NEW S \in SUBSET DOMAIN entry', Circular(S)'
                 PROVE  \E d, e \in S : d # e /\ e \in entry'[d].under
      BY DEF ForestUnlessMoves
    <2> DEFINE T == S \ {nextId}
    <2>1. \A e \in S : entry'[e].ref \in DOMAIN entry
      <3> TAKE e \in S
      <3>1. entry'[e].ref \in S /\ entry'[e].ref # Null
        BY <1>2 DEF Circular, RowInv, Null
      <3> QED
        BY <1>2, <1>4, <1>5, <3>1 DEF RowInv
    <2>2. \A e \in S : entry'[e].ref \in T
      BY <1>3, <2>1 DEF Circular
    <2>3. /\ T \subseteq DOMAIN entry /\ T # {}
          /\ \A e \in T : entry[e].ref \in T /\ entry'[e].under = entry[e].under
      BY <1>4, <2>2 DEF Circular
    <2> HIDE DEF T
    <2>4. T \in SUBSET S
      BY DEF T
    <2> QED
      BY <1>2, <2>3, <2>4, OldCircle
  <1>8. \A s \in Req : ClimbedOf(s)'
    BY <1>1, <1>2, <1>4, WritesKeepClimbs
  <1> QED
    BY <1>6, <1>7, <1>8 DEF TreeInv

\* A move that closes a circle climbed it all, so somebody wrote one of its
\* rows meanwhile; other rows than categories are on no circle.
LEMMA UpdateTree ==
  ASSUME CatalogInv, TreeInv, CatalogInv', NEW r \in Req, req[r].pc = "write", Update(r),
         Op(r).act = "update", ForeignKey(Op(r)), Row(Op(r).id, Op(r).kind)
  PROVE  TreeInv'
  <1> DEFINE id == Op(r).id
             new == [entry[id] EXCEPT !.ref = Op(r).ref, !.under = req[r].during]
  <1>1. /\ RowInv /\ RowInv' /\ KindInv /\ ForestUnlessMoves /\ ClimbedOf(r)
        /\ id \in DOMAIN entry /\ entry[id] \in Entry /\ entry[id].kind = Op(r).kind
    BY DEF CatalogInv, TreeInv, RowInv, Row
  <1>2. id \in Nat /\ Op(r).kind \in Kind
    BY <1>1 DEF RowInv, Entry
  <1>3. /\ new.kind = entry[id].kind /\ new.ref = Op(r).ref /\ new.under = req[r].during
    BY <1>1 DEF Entry
  <1>4. /\ entry' = [entry EXCEPT ![id] = new]
        /\ nextId' = nextId /\ WroteBy(r, "done", id)
    BY DEF Update
  <1>5. Op(r).ref # Null =>
           Op(r).ref \in DOMAIN entry /\ entry[Op(r).ref].kind = RefKind(Op(r).kind)
    BY DEF ForeignKey, Row
  <1> HIDE DEF new, id
  <1>6. /\ DOMAIN entry' = DOMAIN entry /\ entry'[id] = new
        /\ \A e \in DOMAIN entry \ {id} : entry'[e] = entry[e]
    BY <1>1, <1>4
  <1>7. /\ \A e \in DOMAIN entry : entry'[e].kind = entry[e].kind
        /\ nextId \in Nat
    BY <1>1, <1>3, <1>6 DEF RowInv
  <1>8. KindInv'
    BY <1>1, <1>3, <1>5, <1>6, <1>7 DEF KindInv, RowInv
  <1>9. ForestUnlessMoves'
    <2> SUFFICES ASSUME NEW S \in SUBSET DOMAIN entry', Circular(S)'
                 PROVE  \E d, e \in S : d # e /\ e \in entry'[d].under
      BY DEF ForestUnlessMoves
    <2>1. /\ S # {} /\ S \subseteq DOMAIN entry /\ Null \notin S
          /\ \A e \in S : entry'[e].ref \in S
      BY <1>1, <1>6 DEF Circular, RowInv, Null
    <2>2. CASE id \notin S
      <3>1. /\ \A e \in S : entry[e].ref \in S /\ entry'[e].under = entry[e].under
            /\ S \in SUBSET S /\ S \subseteq DOMAIN entry /\ S # {}
        BY <1>6, <2>1, <2>2
      <3>2. Circular(S)
        BY <2>1, <3>1 DEF Circular
      <3>3. PICK d, e \in S : d # e /\ e \in entry[d].under
        BY <1>1, <3>1, <3>2 DEF ForestUnlessMoves
      <3> QED
        BY <3>1, <3>3
    <2>3. CASE id \in S
      <3>1. Op(r).ref \in S /\ Op(r).ref # Null
        BY <1>3, <1>6, <2>1, <2>3
      <3>2. CASE Op(r).kind = "category"
        <4>1. PICK e \in S \ {id} : e \in req[r].during
          <5> SUFFICES ASSUME \A e \in S \ {id} : e \notin req[r].during PROVE FALSE
            OBVIOUS
          <5>1. Leads(r, S)
            BY <1>6, <2>1, <3>1 DEF Leads, id
          <5> QED
            BY <1>1, <3>1, <3>2, <5>1 DEF ClimbedOf, Moving
        <4> QED
          BY <1>3, <1>6, <2>3, <4>1
      <3>3. CASE Op(r).kind # "category"
        <4>1. Op(r).kind \in {"warehouse", "product"}
          <5>1. entry[Op(r).ref].kind \in Kind
            BY <1>1, <1>5, <3>1 DEF RowInv, Entry
          <5> QED
            BY <1>2, <1>5, <3>1, <3>3, <5>1 DEF RefKind, Kind
        <4>2. \A e \in S : entry'[e].ref # id
          <5> SUFFICES ASSUME NEW e \in S, entry'[e].ref = id PROVE FALSE
            OBVIOUS
          <5>1. entry'[id].kind = RefKind(entry'[e].kind)
            BY <1>6, <1>8, <2>1 DEF KindInv
          <5>2. /\ entry'[id].kind \in {"warehouse", "product"} /\ entry'[e].kind \in Kind
            BY <1>1, <1>3, <1>6, <2>1, <4>1 DEF RowInv, Entry
          <5> QED
            BY <5>1, <5>2 DEF RefKind, Kind
        <4> DEFINE T == S \ {id}
        <4>3. /\ T \subseteq DOMAIN entry /\ T # {} /\ T \in SUBSET S
              /\ \A e \in T : entry[e].ref \in T /\ entry'[e].under = entry[e].under
          BY <1>6, <2>1, <4>2
        <4> HIDE DEF T
        <4>4. Circular(T)
          BY <4>3 DEF Circular
        <4>5. PICK d, e \in T : d # e /\ e \in entry[d].under
          BY <1>1, <4>3, <4>4 DEF ForestUnlessMoves
        <4> QED
          BY <4>3, <4>5
      <3> QED
        BY <3>2, <3>3
    <2> QED
      BY <2>2, <2>3
  <1>10. \A s \in Req : ClimbedOf(s)'
    BY <1>1, <1>2, <1>4, <1>6, <1>7, WritesKeepClimbs
  <1> QED
    BY <1>8, <1>9, <1>10 DEF TreeInv

LEMMA DeleteTree ==
  ASSUME CatalogInv, TreeInv, CatalogInv', NEW r \in Req, req[r].pc = "write", Delete(r),
         Row(Op(r).id, Op(r).kind)
  PROVE  TreeInv'
  <1> DEFINE id == Op(r).id
  <1>1. /\ RowInv /\ RowInv' /\ KindInv /\ ForestUnlessMoves /\ id \in DOMAIN entry
    BY DEF CatalogInv, TreeInv, Row
  <1>2. id \in Nat /\ nextId \in Nat
    BY <1>1 DEF RowInv
  <1>3. /\ entry' = [e \in DOMAIN entry \ {id} |->
                        IF entry[e].ref = id THEN [entry[e] EXCEPT !.ref = Null]
                        ELSE entry[e]]
        /\ nextId' = nextId /\ WroteBy(r, "done", id)
    BY DEF Delete
  <1> HIDE DEF id
  <1>4. DOMAIN entry' = DOMAIN entry \ {id}
    BY <1>3
  <1>5. ASSUME NEW e \in DOMAIN entry'
        PROVE  /\ entry'[e].kind = entry[e].kind /\ entry'[e].under = entry[e].under
               /\ entry'[e].ref = Null \/ (entry'[e].ref = entry[e].ref /\ entry[e].ref # id)
    <2>1. e \in DOMAIN entry /\ entry[e] \in Entry
      BY <1>1, <1>4 DEF RowInv
    <2>2. CASE entry[e].ref = id
      <3>1. entry'[e] = [entry[e] EXCEPT !.ref = Null]
        BY <1>3, <1>4, <2>2
      <3> QED
        BY <2>1, <3>1 DEF Entry, Null
    <2>3. CASE entry[e].ref # id
      BY <1>3, <1>4, <2>1, <2>3
    <2> QED
      BY <2>2, <2>3
  <1>6. KindInv'
    BY <1>1, <1>4, <1>5 DEF KindInv, RowInv
  <1>7. ForestUnlessMoves'
    <2> SUFFICES ASSUME NEW S \in SUBSET DOMAIN entry', Circular(S)'
                 PROVE  \E d, e \in S : d # e /\ e \in entry'[d].under
      BY DEF ForestUnlessMoves
    <2>1. /\ S # {} /\ S \subseteq DOMAIN entry /\ Null \notin S
          /\ \A e \in S : entry'[e].ref \in S
      BY <1>1, <1>4 DEF Circular, RowInv, Null
    <2>2. \A e \in S : entry[e].ref \in S /\ entry'[e].under = entry[e].under
      BY <1>5, <2>1
    <2> QED
      BY <1>1, <2>1, <2>2, OldCircle
  <1>8. \A s \in Req : ClimbedOf(s)'
    BY <1>1, <1>2, <1>3, <1>4, <1>5, WritesKeepClimbs
  <1> QED
    BY <1>6, <1>7, <1>8 DEF TreeInv

LEMMA SoftDeleteTree ==
  ASSUME CatalogInv, TreeInv, CatalogInv', NEW r \in Req, req[r].pc = "write", SoftDelete(r),
         Row(Op(r).id, "product")
  PROVE  TreeInv'
  <1> DEFINE id == Op(r).id
             new == [entry[id] EXCEPT !.gone = TRUE]
  <1>1. /\ RowInv /\ RowInv' /\ KindInv /\ ForestUnlessMoves
        /\ id \in DOMAIN entry /\ entry[id] \in Entry
    BY DEF CatalogInv, TreeInv, RowInv, Row
  <1>2. id \in Nat /\ nextId \in Nat
    BY <1>1 DEF RowInv
  <1>3. /\ new.kind = entry[id].kind /\ new.ref = entry[id].ref
        /\ new.under = entry[id].under
    BY <1>1 DEF Entry
  <1>4. /\ entry' = [entry EXCEPT ![id] = new]
        /\ nextId' = nextId /\ WroteBy(r, "done", id)
    BY DEF SoftDelete
  <1> HIDE DEF new, id
  <1>5. /\ DOMAIN entry' = DOMAIN entry
        /\ \A e \in DOMAIN entry :
              /\ entry'[e].kind = entry[e].kind /\ entry'[e].ref = entry[e].ref
              /\ entry'[e].under = entry[e].under
    BY <1>1, <1>3, <1>4
  <1>6. KindInv'
    BY <1>1, <1>5 DEF KindInv, RowInv
  <1>7. ForestUnlessMoves'
    BY <1>1, <1>5 DEF ForestUnlessMoves, Circular
  <1>8. \A s \in Req : ClimbedOf(s)'
    BY <1>1, <1>2, <1>4, <1>5, WritesKeepClimbs
  <1> QED
    BY <1>6, <1>7, <1>8 DEF TreeInv

LEMMA WriteTree ==
  ASSUME CatalogInv, TreeInv, CatalogInv', NEW r \in Req, Write(r)
  PROVE  TreeInv'
  <1>1. req[r].pc = "write"
    BY DEF Write
  <1>2. CASE ForeignKey(Op(r)) /\ Create(r)
    BY <1>1, <1>2, CreateTree
  <1>3. CASE /\ Op(r).act = "update" /\ ForeignKey(Op(r)) /\ Row(Op(r).id, Op(r).kind)
             /\ Update(r)
    BY <1>1, <1>3, UpdateTree
  <1>4. CASE Row(Op(r).id, Op(r).kind) /\ Delete(r)
    BY <1>1, <1>4, DeleteTree
  <1>5. CASE Row(Op(r).id, "product") /\ SoftDelete(r)
    BY <1>1, <1>5, SoftDeleteTree
  <1>6. CASE Goto(r, "failed") /\ UNCHANGED <<entry, nextId>>
    BY <1>6, GotoTree
  <1> QED
    BY <1>2, <1>3, <1>4, <1>5, <1>6 DEF Write

LEMMA BeginTree ==
  ASSUME CatalogInv, TreeInv, NEW r \in Req, Begin(r)
  PROVE  TreeInv'
  <1>1. PICK op \in Script[r] :
           req' = [req EXCEPT ![r].op = op,
                    ![r].pc = IF op.act = "create" THEN Refer(op) ELSE "find"]
    BY DEF Begin
  <1> DEFINE pc == IF op.act = "create" THEN Refer(op) ELSE "find"
             q == [req[r] EXCEPT !.op = op, !.pc = pc]
  <1>2. /\ UNCHANGED <<entry, nextId>> /\ req' = [req EXCEPT ![r] = q]
        /\ req \in [Req -> Request] /\ req[r] \in Request
    BY <1>1 DEF Begin, CatalogInv
  <1>3. op.act = "update" => pc = "find"
    OBVIOUS
  <1> HIDE DEF pc
  <1>4. q.pc = pc /\ q.op = op
    BY <1>2 DEF Request
  <1> HIDE DEF q
  <1>5. req'[r] = q /\ \A s \in Req \ {r} : req'[s] = req[s]
    BY <1>2
  <1>6. ClimbedOf(r)'
    BY <1>3, <1>4, <1>5 DEF ClimbedOf, Moving, Op
  <1> QED
    BY <1>2, <1>5, <1>6, ChecksKeepTree

LEMMA CrashTree ==
  ASSUME CatalogInv, TreeInv, Crash
  PROVE  TreeInv'
  <1>1. /\ req' = [r \in Req |-> IF Running(r) THEN [req[r] EXCEPT !.pc = "failed"]
                                 ELSE req[r]]
        /\ UNCHANGED <<entry, nextId>> /\ req \in [Req -> Request]
    BY DEF Crash, CatalogInv
  <1>2. \A r \in Req : req'[r].pc \in {"new", "done", "failed"}
    BY <1>1 DEF Running, Request
  <1>3. \A r \in Req : ClimbedOf(r)'
    BY <1>2 DEF ClimbedOf
  <1>4. KindInv' /\ ForestUnlessMoves'
    BY <1>1 DEF TreeInv, KindInv, ForestUnlessMoves, Circular
  <1> QED
    BY <1>3, <1>4 DEF TreeInv

LEMMA TreeStep == CatalogInv /\ CatalogInv' /\ TreeInv /\ [Next]_vars => TreeInv'
  <1> SUFFICES ASSUME CatalogInv, CatalogInv', TreeInv, [Next]_vars PROVE TreeInv'
    OBVIOUS
  <1>1. CASE Crash
    BY <1>1, CrashTree
  <1>2. ASSUME NEW r \in Req, Begin(r) \/ Step(r) PROVE TreeInv'
    BY <1>2, BeginTree, ChecksTree, ClimbTree, WriteTree DEF Step
  <1>3. CASE UNCHANGED vars
    BY <1>3 DEF vars, TreeInv, KindInv, ForestUnlessMoves, Circular, ClimbedOf, Moving,
                Leads, Op
  <1> QED
    BY <1>1, <1>2, <1>3 DEF Next

\* The categories stay a forest, whatever is created, moved and removed at the
\* same time, unless two moves overlap: on every circle of parents there is a
\* category that was moved while somebody wrote another one of the circle.
THEOREM ForestKept == Spec => []ForestUnlessMoves
  <1>1. TreeInv => ForestUnlessMoves
    BY DEF TreeInv
  <1> QED
    BY <1>1, TreeInit, TreeStep, CatalogInvariant, PTL DEF Spec
=============================================================================
