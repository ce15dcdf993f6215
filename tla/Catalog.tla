------------------------------- MODULE Catalog -------------------------------
(***************************************************************************)
(* The catalogs under concurrent requests: product categories (a tree),    *)
(* branches and their warehouses, products and their SKU sequence.         *)
(*                                                                         *)
(* Every entry refers to at most one other: a category to its parent, a    *)
(* warehouse to its branch, a product to its category.  The services check *)
(* a reference with one query and write the row with another, and no       *)
(* transaction spans the two; what happens to references to a row that is  *)
(* removed in between is up to the foreign keys: SET NULL for parents and  *)
(* branches, RESTRICT for the category of a product.                       *)
(*                                                                         *)
(* Left out: names and codes (unique, checked by the database), the other  *)
(* references of a product (unit, tax, department: RESTRICT, like its      *)
(* category), prices, companies (every query is of one company).           *)
(***************************************************************************)
EXTENDS Integers, Sequences, FiniteSets

CONSTANTS Req,      \* requests
          Script,   \* what each request may ask: [act, kind, id, ref]
          Initial,  \* the rows there are, by id
          FirstSku  \* where the sequence of SKUs starts (100000)

Kind == {"category", "branch", "warehouse", "product"}

\* Ids are positive; 0 stands for null.
Null == 0
RefKind(kind) == CASE kind = "warehouse" -> "branch"
                   [] kind \in {"category", "product"} -> "category"
                   [] kind = "branch" -> "none"

Entry == [kind : Kind, ref : Nat, gone : BOOLEAN, sku : Nat, under : SUBSET Nat]

Operation == [act : {"create", "update", "remove"}, kind : Kind, id : Nat, ref : Nat]

ASSUME ScriptAssumption == Script \in [Req -> SUBSET Operation]
\* Ids are serial; a SKU from before is none of the sequence.
ASSUME InitialAssumption ==
    /\ Initial \in Seq(Entry)
    /\ \A e \in DOMAIN Initial :
          /\ Initial[e].sku < FirstSku
          /\ Initial[e].ref # Null =>
                /\ Initial[e].ref \in DOMAIN Initial
                /\ Initial[Initial[e].ref].kind = RefKind(Initial[e].kind)
\* What there is to begin with is a forest.
ASSUME ForestAssumption ==
    \A S \in SUBSET DOMAIN Initial : S # {} => \E e \in S : Initial[e].ref \notin S
ASSUME SkuAssumption == FirstSku \in Nat \ {0}

VARIABLES entry,    \* rows by id; gone: deleted_at is set (products); under is
                    \* history: ids somebody else wrote while e was being moved
          nextId,
          nextSku,  \* document_sequence of PRODUCT_SKU, 0 while there is no row
          req       \* requests: [pc, op, cursor, seen, sku], and as history
                    \* during: ids others wrote while it ran
vars == <<entry, nextId, nextSku, req>>

Op(r) == req[r].op
Ended(r) == req[r].pc \in {"done", "failed"}
Running(r) == req[r].pc \notin {"new", "done", "failed"}
Goto(r, pc) == req' = [req EXCEPT ![r].pc = pc]

Exists(id, kind) ==
    id \in DOMAIN entry /\ entry[id].kind = kind /\ ~entry[id].gone
\* Foreign keys and categories know nothing of deleted_at.
Row(id, kind) == id \in DOMAIN entry /\ entry[id].kind = kind
RefersTo(id) == {e \in DOMAIN entry : entry[e].ref = id}

\* After its checks a creation of a product reserves a SKU; the others write.
Checked(op) ==
    IF op.act = "create" /\ op.kind = "product" THEN "sequence" ELSE "write"
\* A reference that is sent and not null is looked up.
Refer(op) == IF op.ref # Null THEN "reference" ELSE Checked(op)

-----------------------------------------------------------------------------
Begin(r) ==
    /\ req[r].pc = "new"
    /\ \E op \in Script[r] :
          req' = [req EXCEPT ![r].op = op,
                    ![r].pc = IF op.act = "create" THEN Refer(op) ELSE "find"]
    /\ UNCHANGED <<entry, nextId, nextSku>>

FindUnrefused(r) ==                                            \* faulty
    /\ req[r].pc = "find"
    /\ IF Exists(Op(r).id, Op(r).kind)
       THEN Goto(r, IF Op(r).act = "remove" THEN "write" ELSE Refer(Op(r)))
       ELSE Goto(r, "failed")
    /\ UNCHANGED <<entry, nextId, nextSku>>
\* The row by its id; with it the number of its subcategories or warehouses,
\* when it is to be removed.  No category becomes its own parent.
Find(r) ==
    /\ req[r].pc = "find"
    /\ IF /\ Exists(Op(r).id, Op(r).kind)
          /\ Op(r).act = "update" => Op(r).ref # Op(r).id
          /\ Op(r).act = "remove" =>
                \A e \in RefersTo(Op(r).id) : entry[e].kind = "product"
       THEN Goto(r, IF Op(r).act = "remove" THEN "write" ELSE Refer(Op(r)))
       ELSE Goto(r, "failed")
    /\ UNCHANGED <<entry, nextId, nextSku>>

\* assertParentInCompany, assertBranchInCompany, assertReferencesValid.
Reference(r) ==
    /\ req[r].pc = "reference"
    /\ IF ~Row(Op(r).ref, RefKind(Op(r).kind)) THEN Goto(r, "failed")
       ELSE IF Op(r).act = "update" /\ Op(r).kind = "category"
       THEN req' = [req EXCEPT ![r].pc = "climb", ![r].cursor = Op(r).ref]
       ELSE Goto(r, Checked(Op(r)))
    /\ UNCHANGED <<entry, nextId, nextSku>>

ClimbUnguarded(r) ==                                           \* faulty
    /\ req[r].pc = "climb"
    /\ LET c == req[r].cursor
       IN  IF c = Null THEN Goto(r, "write")
           ELSE IF c = Op(r).id THEN Goto(r, "failed")
           ELSE req' = [req EXCEPT ![r].cursor =
                           IF c \in DOMAIN entry THEN entry[c].ref ELSE Null]
    /\ UNCHANGED <<entry, nextId, nextSku>>
ClimbOneStep(r) ==                                             \* faulty
    /\ req[r].pc = "climb"
    /\ Goto(r, IF req[r].cursor = Op(r).id THEN "failed" ELSE "write")
    /\ UNCHANGED <<entry, nextId, nextSku>>
\* assertNoCycle, one round of its loop: a query for each ancestor, which may
\* be gone by then; an ancestor met twice means there is a cycle already.
Climb(r) ==
    /\ req[r].pc = "climb"
    /\ LET c == req[r].cursor
       IN  IF c = Null THEN Goto(r, "write")
           ELSE IF c = Op(r).id \/ c \in req[r].seen THEN Goto(r, "failed")
           ELSE req' = [req EXCEPT ![r].seen = @ \cup {c}, ![r].cursor =
                           IF c \in DOMAIN entry THEN entry[c].ref ELSE Null]
    /\ UNCHANGED <<entry, nextId, nextSku>>

-----------------------------------------------------------------------------
(* The SKU of a new product, in two statements that commit at once *)

\* INSERT .. ON CONFLICT DO NOTHING.
EnsureSkuSequenceRow(r) ==
    /\ req[r].pc = "sequence"
    /\ nextSku' = IF nextSku = 0 THEN FirstSku ELSE nextSku
    /\ Goto(r, "reserve")
    /\ UNCHANGED <<entry, nextId>>

LastSku == {entry[e].sku : e \in DOMAIN entry} \cup {FirstSku - 1}
ReserveMaxPlusOne(r) ==                                        \* faulty
    /\ req[r].pc = "reserve"
    /\ req' = [req EXCEPT ![r].pc = "write", ![r].sku =
                  (CHOOSE m \in LastSku : \A n \in LastSku : m >= n) + 1]
    /\ nextSku' = nextSku + 1
    /\ UNCHANGED <<entry, nextId>>
\* UPDATE .. SET next_value = next_value + 1 RETURNING next_value - 1.
ReserveProductSku(r) ==
    /\ req[r].pc = "reserve"
    /\ req' = [req EXCEPT ![r].pc = "write", ![r].sku = nextSku]
    /\ nextSku' = nextSku + 1
    /\ UNCHANGED <<entry, nextId>>

-----------------------------------------------------------------------------
(* The statement that writes the row *)

\* Every other request that runs notes the id.
WroteBy(r, pc, id) ==
    req' = [u \in Req |->
               IF u = r THEN [req[u] EXCEPT !.pc = pc]
               ELSE IF Running(u) THEN [req[u] EXCEPT !.during = @ \cup {id}]
               ELSE req[u]]

ForeignKey(op) == op.ref # Null => Row(op.ref, RefKind(op.kind))

Create(r) ==
    /\ entry' = [e \in DOMAIN entry \cup {nextId} |->
                    IF e # nextId THEN entry[e]
                    ELSE [kind |-> Op(r).kind, ref |-> Op(r).ref, gone |-> FALSE,
                          sku |-> req[r].sku, under |-> {}]]
    /\ WroteBy(r, "done", nextId)
    /\ nextId' = nextId + 1

Update(r) ==
    /\ entry' = [entry EXCEPT ![Op(r).id].ref = Op(r).ref,
                              ![Op(r).id].under = req[r].during]
    /\ WroteBy(r, "done", Op(r).id)
    /\ UNCHANGED nextId

\* ON DELETE SET NULL of parent_id and branch_id.
Delete(r) ==
    /\ entry' = [e \in DOMAIN entry \ {Op(r).id} |->
                    IF entry[e].ref = Op(r).id THEN [entry[e] EXCEPT !.ref = Null]
                    ELSE entry[e]]
    /\ WroteBy(r, "done", Op(r).id)
    /\ UNCHANGED nextId

\* The extension turns the deletion of a product into an update.
SoftDelete(r) ==
    /\ entry' = [entry EXCEPT ![Op(r).id].gone = TRUE]
    /\ WroteBy(r, "done", Op(r).id)
    /\ UNCHANGED nextId

\* ON DELETE RESTRICT of category_id, of removed products too (P2003).
Restricted(id) == \E e \in RefersTo(id) : entry[e].kind = "product"

Write(r) ==
    /\ req[r].pc = "write"
    /\ CASE Op(r).act = "create" /\ ForeignKey(Op(r)) -> Create(r)
         [] /\ Op(r).act = "update" /\ ForeignKey(Op(r))
            /\ Row(Op(r).id, Op(r).kind) -> Update(r)
         [] /\ Op(r).act = "remove" /\ Op(r).kind # "product"
            /\ Row(Op(r).id, Op(r).kind) /\ ~Restricted(Op(r).id) -> Delete(r)
         [] /\ Op(r).act = "remove" /\ Op(r).kind = "product"
            /\ Row(Op(r).id, "product") -> SoftDelete(r)
         [] OTHER -> Goto(r, "failed") /\ UNCHANGED <<entry, nextId>>
    /\ UNCHANGED nextSku

\* The process dies, and every running request with it.
Crash ==
    /\ \E r \in Req : Running(r)
    /\ req' = [r \in Req |-> IF Running(r) THEN [req[r] EXCEPT !.pc = "failed"]
                             ELSE req[r]]
    /\ UNCHANGED <<entry, nextId, nextSku>>

-----------------------------------------------------------------------------
NoOp == [act |-> "none", kind |-> "category", id |-> Null, ref |-> Null]
Init ==
    /\ entry = Initial
    /\ nextId = 1 + Len(Initial)
    /\ nextSku = 0
    /\ req = [r \in Req |-> [pc |-> "new", op |-> NoOp, cursor |-> Null,
                             seen |-> {}, sku |-> 0, during |-> {}]]

Step(r) ==
    \/ Find(r) \/ Reference(r) \/ Climb(r)
    \/ EnsureSkuSequenceRow(r) \/ ReserveProductSku(r) \/ Write(r)

Next == Crash \/ \E r \in Req : Begin(r) \/ Step(r)

Spec == Init /\ [][Next]_vars

\* A request that has begun goes on.
LiveSpec == Spec /\ \A r \in Req : WF_vars(Step(r))

-----------------------------------------------------------------------------
(* Properties *)

\* No way leads out of S: it holds a cycle, and a cycle is such a set.
Circular(S) == S # {} /\ \A e \in S : entry[e].ref \in S

\* The categories are a forest, unless two moves of categories that are now
\* on one cycle overlapped.
ForestUnlessMoves ==
    \A S \in SUBSET DOMAIN entry :
        Circular(S) => \E d, e \in S : d # e /\ e \in entry[d].under

\* An entry that nobody moves loses its parent or branch only if it was put
\* there after the request that removes the parent had counted none.
DetachedOnlyByLateArrival ==
    [][\A e \in DOMAIN entry \cap DOMAIN entry' :
          entry[e].ref # Null /\ entry[e].ref \notin DOMAIN entry' =>
              \E r \in Req : /\ Op(r).act = "remove" /\ Op(r).id = entry[e].ref
                             /\ e \in req[r].during]_vars

\* Every SKU that left the sequence belongs to one request, and to a product
\* exactly if that request went through: gaps, never a repetition.
SkusAccounted ==
    /\ \A n \in FirstSku..(nextSku - 1) :
          Cardinality({r \in Req : req[r].sku = n}) = 1
    /\ \A r \in Req :
          req[r].sku # 0 =>
              /\ req[r].sku \in FirstSku..(nextSku - 1)
              /\ req[r].pc = "done" <=>
                    \E e \in DOMAIN entry : entry[e].sku = req[r].sku

\* Every request ends, even one that climbs into a cycle two others closed.
EveryRequestEnds == \A r \in Req : Running(r) ~> Ended(r)
=============================================================================
