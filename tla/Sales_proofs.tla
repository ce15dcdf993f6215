---------------------------- MODULE Sales_proofs ----------------------------
(* References between quotation, orders and invoices survive every         *)
(* interleaving, and an order made from a quotation is its copy, proved     *)
(* for any number of requests, orders and invoices.                        *)
EXTENDS SalesOverlap, FiniteSetTheorems, TLAPS

Fields == {"status", "customer", "total", "ref", "number"}

Transition == {"SEND", "ACCEPT", "REJECT", "EXPIRE", "CONFIRM", "CANCEL"}

\* Rows have their columns, ids come from the sequence.
ShapeInv ==
    /\ nextDoc \in Nat \ {0}
    /\ \A d \in DOMAIN heads :
           d \in 1 .. nextDoc - 1 /\ DOMAIN heads[d] = Fields
    /\ \A n \in DOMAIN invoices :
           DOMAIN invoices[n] = {"status", "order", "customer"}
    /\ pc \in [Tx -> Active \cup {"idle"}]
    /\ DOMAIN job = Tx

\* Where each kind of request can be.
Places(kind) ==
    CASE kind = "UPDATE" -> {"read", "lines", "clear", "clearing", "save"}
      [] kind = "REMOVE" -> {"read", "delete"}
      [] kind \in Transition -> {"read", "status"}
      [] kind = "CONVERT" -> {"read", "lines", "insert", "mark"}
      [] kind = "INVOICE" -> {"read", "issue", "close"}
      [] kind = "VOID" -> {"read", "void"}

PlaceInv ==
    \A t \in Tx : pc[t] # "idle" =>
        job[t] \in Job /\ pc[t] \in Places(job[t].kind)

\* A document that somebody's uncommitted row refers to is there.
HoldInv ==
    \A t \in Tx : pc[t] \in {"mark", "close"} =>
        job[t].doc \in DOMAIN heads \cup {0}

\* Invoices refer to orders, never to a quotation.
BillInv ==
    \A n \in DOMAIN invoices :
        invoices[n].order # 0 =>
            /\ invoices[n].order \in DOMAIN heads \ {Quote}
            /\ heads[invoices[n].order].status # "DRAFT"

OriginInv ==
    \A o \in DOMAIN heads \ {Quote} :
        heads[o].ref = Quote => Quote \in DOMAIN heads /\ heads[Quote].ref # 0

\* The inductive invariant.
SalesInv == ShapeInv /\ PlaceInv /\ HoldInv /\ BillInv /\ OriginInv

-----------------------------------------------------------------------------
LEMMA JobFacts ==
    ASSUME NEW j \in Job
    PROVE  /\ j.kind \in Kind
           /\ j.doc \in Nat
           /\ j.kind = "CONVERT" => j.doc = Quote
           /\ j.kind = "INVOICE" => j.doc # Quote
  BY JobAssumption DEF OfQuote

LEMMA TransitionsLeaveDraft ==
    DOMAIN To = Transition /\ \A k \in Transition : To[k] # "DRAFT"
  BY DEF To, Transition

LEMMA SalesInit == Init => SalesInv
  BY DEF Init, SalesInv, ShapeInv, PlaceInv, HoldInv, BillInv, OriginInv,
         NoRows, Quote

\* The end of a request that leaves the documents alone.
LEMMA RollbackKeeps ==
    ASSUME SalesInv, NEW t \in Tx, Rollback(t) PROVE SalesInv'
  <1> USE DEF SalesInv
  <1>1. /\ UNCHANGED <<heads, invoices, nextDoc>>
        /\ pc' = [pc EXCEPT ![t] = "idle"]
        /\ job' = [job EXCEPT ![t] = None]
    BY DEF Rollback, End, Goto
  <1>2. ShapeInv'
    BY <1>1 DEF ShapeInv
  <1>3. PlaceInv' /\ HoldInv'
    BY <1>1 DEF PlaceInv, HoldInv, ShapeInv
  <1>4. BillInv' /\ OriginInv'
    BY <1>1 DEF BillInv, OriginInv
  <1>5. QED
    BY <1>2, <1>3, <1>4

\* A statement that moves its request on and changes no document; an insert
\* finds the document it refers to.
LEMMA MoveKeeps ==
    ASSUME SalesInv, NEW t \in Tx, NEW w \in Places(job[t].kind),
           pc[t] # "idle",
           UNCHANGED <<heads, invoices, nextDoc, job>>,
           pc' = [pc EXCEPT ![t] = w],
           w \in {"mark", "close"} => job[t].doc \in DOMAIN heads \cup {0}
    PROVE  SalesInv'
  <1> USE DEF SalesInv
  <1>1. job[t].kind \in Kind
    BY JobFacts DEF PlaceInv
  <1>2. w \in Active
    BY <1>1 DEF Places, Active, Kind, OfQuote, OfOrder, Transition
  <1>3. ShapeInv'
    BY <1>2 DEF ShapeInv
  <1>4. PlaceInv' /\ HoldInv'
    BY DEF PlaceInv, HoldInv, ShapeInv
  <1>5. BillInv' /\ OriginInv'
    BY DEF BillInv, OriginInv
  <1>6. QED
    BY <1>3, <1>4, <1>5

\* An UPDATE by id that ends its request: the reference stays, and so does
\* the status unless it moves past DRAFT.
Writes(t, h) ==
    LET d == job[t].doc
    IN  /\ d \in DOMAIN heads
        /\ heads' = [heads EXCEPT ![d] = h]
        /\ DOMAIN h = Fields
        /\ h.ref = heads[d].ref
        /\ h.status = heads[d].status \/ h.status # "DRAFT"
        /\ nextDoc' = nextDoc
        /\ pc' = [pc EXCEPT ![t] = "idle"]
        /\ job' = [job EXCEPT ![t] = None]

LEMMA WriteKeeps ==
    ASSUME SalesInv, NEW t \in Tx, NEW h, Writes(t, h), invoices' = invoices
    PROVE  SalesInv'
  <1> USE DEF SalesInv, Writes
  <1>1. DOMAIN heads' = DOMAIN heads
    OBVIOUS
  <1>2. \A d \in DOMAIN heads :
            /\ DOMAIN heads'[d] = Fields
            /\ heads'[d].ref = heads[d].ref
            /\ heads[d].status # "DRAFT" => heads'[d].status # "DRAFT"
    BY DEF ShapeInv
  <1>3. ShapeInv'
    BY <1>1, <1>2 DEF ShapeInv
  <1>4. PlaceInv' /\ HoldInv'
    BY <1>1 DEF PlaceInv, HoldInv, ShapeInv
  <1>5. BillInv'
    BY <1>1, <1>2 DEF BillInv
  <1>6. OriginInv'
    BY <1>1, <1>2 DEF OriginInv
  <1>7. QED
    BY <1>3, <1>4, <1>5, <1>6

-----------------------------------------------------------------------------
(* The actions *)

LEMMA CreatesKeep == ASSUME SalesInv, CreateQuotation \/ CreateOrder PROVE SalesInv'
  <1> USE DEF SalesInv
  <1>1. PICK h : /\ heads' = With(heads, nextDoc, h)
                 /\ DOMAIN h = Fields /\ h.ref = 0
    <2>1. \A c, ls, n : /\ DOMAIN NewHeader(c, ls, 0, n) = Fields
                        /\ NewHeader(c, ls, 0, n).ref = 0
      BY DEF NewHeader, Fields
    <2>2. QED
      BY <2>1 DEF CreateQuotation, CreateOrder
  <1>2. nextDoc' = nextDoc + 1 /\ UNCHANGED <<invoices, pc, job>>
    BY DEF CreateQuotation, CreateOrder, txVars
  <1>3. nextDoc \notin DOMAIN heads
    BY DEF ShapeInv
  <1>4. /\ DOMAIN heads' = DOMAIN heads \cup {nextDoc}
        /\ heads'[nextDoc] = h
        /\ \A d \in DOMAIN heads : heads'[d] = heads[d]
    BY <1>1, <1>3 DEF With
  <1>5. ShapeInv'
    BY <1>1, <1>2, <1>4 DEF ShapeInv
  <1>6. PlaceInv' /\ HoldInv'
    BY <1>2, <1>4 DEF PlaceInv, HoldInv
  <1>7. BillInv'
    BY <1>2, <1>4 DEF BillInv
  <1>8. OriginInv'
    BY <1>1, <1>4 DEF OriginInv, Quote
  <1>9. QED
    BY <1>5, <1>6, <1>7, <1>8

LEMMA BeginKeeps == ASSUME SalesInv, NEW t \in Tx, Begin(t) PROVE SalesInv'
  <1> USE DEF SalesInv
  <1>1. PICK j \in Job, w \in {"issue", "read"} :
            /\ job' = [job EXCEPT ![t] = j]
            /\ pc' = [pc EXCEPT ![t] = w]
            /\ w = "issue" => j.kind = "INVOICE"
    BY DEF Begin, Goto
  <1>2. UNCHANGED <<heads, invoices, nextDoc>>
    BY DEF Begin
  <1>3. w \in Places(j.kind)
    BY <1>1, JobFacts DEF Places, Kind, OfQuote, OfOrder, Transition
  <1>4. ShapeInv'
    BY <1>1, <1>2 DEF ShapeInv, Active
  <1>5. PlaceInv' /\ HoldInv'
    BY <1>1, <1>2, <1>3 DEF PlaceInv, HoldInv, ShapeInv
  <1>6. BillInv' /\ OriginInv'
    BY <1>2 DEF BillInv, OriginInv
  <1>7. QED
    BY <1>4, <1>5, <1>6

LEMMA ReadsKeep ==
    ASSUME SalesInv, NEW t \in Tx,
           ReadHeader(t) \/ ReadLinesToUpdate(t) \/ ReadLinesToConvert(t)
    PROVE  SalesInv'
  <1>1. /\ pc[t] # "idle"
        /\ UNCHANGED <<heads, invoices, nextDoc, job>>
    BY DEF ReadHeader, ReadLinesToUpdate, ReadLinesToConvert
  <1>2. job[t].kind \in Kind
    BY <1>1, JobFacts DEF SalesInv, PlaceInv
  <1>3. CASE ReadHeader(t)
    <2> DEFINE w == CASE job[t].kind \in {"UPDATE", "CONVERT"} -> "lines"
                      [] job[t].kind = "REMOVE" -> "delete"
                      [] job[t].kind = "INVOICE" -> "issue"
                      [] job[t].kind = "VOID" -> "void"
                      [] job[t].kind \in DOMAIN To -> "status"
    <2>1. pc' = [pc EXCEPT ![t] = w]
      BY <1>3 DEF ReadHeader, Goto
    <2>2. w \in Places(job[t].kind) /\ w \notin {"mark", "close"}
      BY <1>2, TransitionsLeaveDraft DEF Places, Kind, OfQuote, OfOrder, Transition
    <2> HIDE DEF w
    <2>3. QED
      BY <1>1, <2>1, <2>2, MoveKeeps
  <1>4. CASE ReadLinesToUpdate(t)
    <2>1. PICK w \in {"clear", "save"} : pc' = [pc EXCEPT ![t] = w]
      BY <1>4 DEF ReadLinesToUpdate, Goto
    <2>2. w \in Places(job[t].kind)
      BY <1>4 DEF ReadLinesToUpdate, Places, Transition
    <2>3. QED
      BY <1>1, <2>1, <2>2, MoveKeeps
  <1>5. CASE ReadLinesToConvert(t)
    <2>1. pc' = [pc EXCEPT ![t] = "insert"] /\ "insert" \in Places(job[t].kind)
      BY <1>5 DEF ReadLinesToConvert, Goto, Places, Transition
    <2>2. QED
      BY <1>1, <2>1, MoveKeeps
  <1>6. QED
    BY <1>3, <1>4, <1>5

LEMMA ClearsKeep ==
    ASSUME SalesInv, NEW t \in Tx, StartClear(t) \/ ClearLines(t)
    PROVE  SalesInv'
  <1>1. PICK w \in {"clearing", "save"} : pc' = [pc EXCEPT ![t] = w]
    BY DEF StartClear, ClearLines, Goto
  <1>2. /\ pc[t] \in {"clear", "clearing"}
        /\ UNCHANGED <<heads, invoices, nextDoc, job>>
    BY DEF StartClear, ClearLines
  <1>3. w \in Places(job[t].kind)
    BY <1>2, JobFacts DEF SalesInv, PlaceInv, Places, Kind, OfQuote, OfOrder,
                          Transition
  <1>4. QED
    BY <1>1, <1>2, <1>3, MoveKeeps

LEMMA InsertsKeep ==
    ASSUME SalesInv, NEW t \in Tx, InsertOrder(t) \/ Issue(t)
    PROVE  SalesInv'
  <1>1. /\ pc[t] \in {"insert", "issue"}
        /\ UNCHANGED <<heads, invoices, nextDoc, job>>
    BY DEF InsertOrder, Issue
  <1>2. job[t] \in Job /\ pc[t] \in Places(job[t].kind)
    BY <1>1 DEF SalesInv, PlaceInv
  <1>3. CASE InsertOrder(t)
    <2>1. /\ pc[t] = "insert" /\ pc' = [pc EXCEPT ![t] = "mark"]
          /\ Quote \in DOMAIN heads
      BY <1>3 DEF InsertOrder, Goto
    <2>2. job[t].kind = "CONVERT"
      BY <1>2, <2>1, JobFacts DEF Places, Kind, OfQuote, OfOrder, Transition
    <2>3. job[t].doc = Quote /\ "mark" \in Places(job[t].kind)
      BY <1>2, <2>2, JobFacts DEF Places, Transition
    <2>4. QED
      BY <1>1, <2>1, <2>3, MoveKeeps
  <1>4. CASE Issue(t)
    <2>1. /\ pc[t] = "issue" /\ pc' = [pc EXCEPT ![t] = "close"]
          /\ job[t].doc \in DOMAIN heads \cup {0}
      BY <1>4 DEF Issue, Goto
    <2>2. job[t].kind = "INVOICE"
      BY <1>2, <2>1, JobFacts DEF Places, Kind, OfQuote, OfOrder, Transition
    <2>3. "close" \in Places(job[t].kind)
      BY <2>2 DEF Places, Transition
    <2>4. QED
      BY <1>1, <2>1, <2>3, MoveKeeps
  <1>5. QED
    BY <1>3, <1>4

LEMMA SaveKeeps == ASSUME SalesInv, NEW t \in Tx, Save(t) PROVE SalesInv'
  <1>0. PICK h : h = [heads[job[t].doc] EXCEPT !.customer = local[t].customer,
                                               !.total = local[t].total]
    OBVIOUS
  <1>1. /\ job[t].doc \in DOMAIN heads
        /\ heads' = [heads EXCEPT ![job[t].doc] = h]
        /\ UNCHANGED <<invoices, nextDoc>>
        /\ pc' = [pc EXCEPT ![t] = "idle"]
        /\ job' = [job EXCEPT ![t] = None]
    BY <1>0 DEF Save, SaveAs, End, Goto
  <1>2. DOMAIN heads[job[t].doc] = Fields
    BY <1>1 DEF SalesInv, ShapeInv
  <1>3. /\ DOMAIN h = Fields
        /\ h.ref = heads[job[t].doc].ref
        /\ h.status = heads[job[t].doc].status
    BY <1>0, <1>2 DEF Fields
  <1>4. Writes(t, h)
    BY <1>1, <1>3 DEF Writes
  <1>5. QED
    BY <1>1, <1>4, WriteKeeps

LEMMA SetStatusKeeps ==
    ASSUME SalesInv, NEW t \in Tx, SetStatus(t) PROVE SalesInv'
  <1>0. PICK h : h = [heads[job[t].doc] EXCEPT !.status = To[job[t].kind]]
    OBVIOUS
  <1>1. /\ pc[t] = "status"
        /\ job[t].doc \in DOMAIN heads
        /\ heads' = [heads EXCEPT ![job[t].doc] = h]
        /\ UNCHANGED <<invoices, nextDoc>>
        /\ pc' = [pc EXCEPT ![t] = "idle"]
        /\ job' = [job EXCEPT ![t] = None]
    BY <1>0 DEF SetStatus, End, Goto
  <1>2. job[t].kind \in Transition
    BY <1>1, JobFacts DEF SalesInv, PlaceInv, Places, Kind, OfQuote, OfOrder,
                          Transition
  <1>3. DOMAIN heads[job[t].doc] = Fields
    BY <1>1 DEF SalesInv, ShapeInv
  <1>4. /\ DOMAIN h = Fields
        /\ h.ref = heads[job[t].doc].ref
        /\ h.status # "DRAFT"
    BY <1>0, <1>2, <1>3, TransitionsLeaveDraft DEF Fields
  <1>5. Writes(t, h)
    BY <1>1, <1>4 DEF Writes
  <1>6. QED
    BY <1>1, <1>5, WriteKeeps

\* Foreign keys: no row refers to the deleted document, committed or not.
LEMMA DeleteKeeps == ASSUME SalesInv, NEW t \in Tx, Delete(t) PROVE SalesInv'
  <1> USE DEF SalesInv
  <1> DEFINE d == job[t].doc
  <1>1. /\ d \in DOMAIN heads
        /\ \A u \in Tx : ~KeyShare(u, d)
        /\ ~ReferredTo(d)
        /\ heads' = Without(heads, {d})
        /\ UNCHANGED <<invoices, nextDoc>>
        /\ pc' = [pc EXCEPT ![t] = "idle"]
        /\ job' = [job EXCEPT ![t] = None]
    BY DEF Delete, DeleteIf, End, Goto
  <1>2. /\ DOMAIN heads' = DOMAIN heads \ {d}
        /\ \A x \in DOMAIN heads' : heads'[x] = heads[x]
    BY <1>1 DEF Without
  <1> HIDE DEF d
  <1>3. \A n \in DOMAIN invoices : invoices[n].order # d \/ d = 0
    BY <1>1 DEF ReferredTo, InvoicesOf, BillInv
  <1>4. d # 0
    BY <1>1 DEF ShapeInv
  <1>5. \A u \in Tx : pc[u] \in {"mark", "close"} => job[u].doc # d
    <2> SUFFICES ASSUME NEW u \in Tx, pc[u] \in {"mark", "close"}
                 PROVE  job[u].doc # d
      OBVIOUS
    <2>1. job[u].kind = IF pc[u] = "mark" THEN "CONVERT" ELSE "INVOICE"
      BY JobFacts DEF PlaceInv, Places, Kind, OfQuote, OfOrder, Transition
    <2>2. Inserted(u, "CONVERT") \/ Inserted(u, "INVOICE")
      BY <2>1 DEF Inserted
    <2>3. QED
      BY <1>1, <2>2 DEF KeyShare
  <1>6. ShapeInv'
    BY <1>1, <1>2 DEF ShapeInv
  <1>7. PlaceInv'
    BY <1>1 DEF PlaceInv, ShapeInv
  <1>8. HoldInv'
    BY <1>1, <1>2, <1>5 DEF HoldInv, ShapeInv
  <1>9. BillInv'
    BY <1>1, <1>2, <1>3, <1>4 DEF BillInv
  <1>10. OriginInv'
    <2>1. CASE d = Quote
      BY <1>1, <1>2, <2>1 DEF OriginInv, ReferredTo, OrdersOfQuote, Orders
    <2>2. CASE d # Quote
      BY <1>2, <2>2 DEF OriginInv
    <2>3. QED
      BY <2>1, <2>2
  <1>11. QED
    BY <1>6, <1>7, <1>8, <1>9, <1>10

\* The conversion commits an order with an id nobody refers to, and the
\* reference of the quotation to it.
LEMMA ConvertKeeps ==
    ASSUME SalesInv, NEW t \in Tx, MarkConverted(t) PROVE SalesInv'
  <1> USE DEF SalesInv
  <1>1. PICK h, m :
            /\ heads' = With([heads EXCEPT ![Quote] = m], nextDoc, h)
            /\ DOMAIN h = Fields
            /\ m = Marked(nextDoc)
    <2>1. \A c, ls, n : DOMAIN NewHeader(c, ls, Quote, n) = Fields
      BY DEF NewHeader, Fields
    <2>2. QED
      BY <2>1 DEF MarkConverted
  <1>2. /\ pc[t] = "mark"
        /\ invoices' = invoices /\ nextDoc' = nextDoc + 1
        /\ pc' = [pc EXCEPT ![t] = "idle"]
        /\ job' = [job EXCEPT ![t] = None]
    BY DEF MarkConverted, End, Goto
  <1>3. job[t].kind = "CONVERT"
    BY <1>2, JobFacts DEF PlaceInv, Places, Kind, OfQuote, OfOrder, Transition
  <1>4. Quote \in DOMAIN heads
    <2>1. job[t].doc = Quote
      BY <1>2, <1>3, JobFacts DEF PlaceInv
    <2>2. QED
      BY <1>2, <2>1 DEF HoldInv, Quote
  <1>5. nextDoc \notin DOMAIN heads /\ nextDoc # Quote /\ nextDoc # 0
    BY <1>4 DEF ShapeInv
  <1>6. DOMAIN m = Fields /\ m.ref = nextDoc
    BY <1>1, <1>4 DEF Marked, ShapeInv, Fields
  <1>7. /\ DOMAIN heads' = DOMAIN heads \cup {nextDoc}
        /\ heads'[nextDoc] = h
        /\ heads'[Quote] = m
        /\ \A d \in DOMAIN heads \ {Quote} : heads'[d] = heads[d]
    BY <1>1, <1>4, <1>5 DEF With
  <1>8. ShapeInv'
    <2>1. \A d \in DOMAIN heads' : d \in 1 .. nextDoc' - 1
      BY <1>2, <1>7 DEF ShapeInv
    <2>2. DOMAIN h = Fields
      BY <1>1
    <2>3. \A d \in DOMAIN heads' : DOMAIN heads'[d] = Fields
      BY <1>6, <1>7, <2>2 DEF ShapeInv
    <2>4. nextDoc' \in Nat \ {0}
      BY <1>2 DEF ShapeInv
    <2>5. QED
      BY <1>2, <2>1, <2>3, <2>4 DEF ShapeInv
  <1>9. PlaceInv' /\ HoldInv'
    BY <1>2, <1>7 DEF PlaceInv, HoldInv, ShapeInv
  <1>10. BillInv'
    BY <1>2, <1>7 DEF BillInv
  <1>11. OriginInv'
    BY <1>4, <1>5, <1>6, <1>7 DEF OriginInv
  <1>12. QED
    BY <1>8, <1>9, <1>10, <1>11

\* The invoice commits with its order INVOICED, or without an order.
LEMMA CloseKeeps == ASSUME SalesInv, NEW t \in Tx, Close(t) PROVE SalesInv'
  <1> USE DEF SalesInv
  <1> DEFINE d == job[t].doc
  <1>0. PICK h : h = [heads[d] EXCEPT !.status = "INVOICED"]
    OBVIOUS
  <1>1. /\ pc[t] = "close"
        /\ heads' = IF d = 0 THEN heads ELSE [heads EXCEPT ![d] = h]
        /\ nextDoc' = nextDoc
        /\ pc' = [pc EXCEPT ![t] = "idle"]
        /\ job' = [job EXCEPT ![t] = None]
    BY <1>0 DEF Close, CloseWith, End, Goto
  <1>2. PICK n, v : /\ invoices' = With(invoices, n, v)
                    /\ DOMAIN v = {"status", "order", "customer"}
                    /\ v.order = d
    BY DEF Close, CloseWith
  <1>3. job[t].kind = "INVOICE"
    BY <1>1, JobFacts DEF PlaceInv, Places, Kind, OfQuote, OfOrder, Transition
  <1>4. d # Quote /\ d \in DOMAIN heads \cup {0}
    BY <1>1, <1>3, JobFacts DEF PlaceInv, HoldInv
  <1> HIDE DEF d
  <1>5. 0 \notin DOMAIN heads
    BY DEF ShapeInv
  <1>6. d \in DOMAIN heads =>
            DOMAIN h = Fields /\ h.status = "INVOICED" /\ h.ref = heads[d].ref
    BY <1>0 DEF ShapeInv, Fields
  <1>7. /\ DOMAIN heads' = DOMAIN heads
        /\ d # 0 => heads'[d] = h
        /\ \A x \in DOMAIN heads \ {d} : heads'[x] = heads[x]
    BY <1>1, <1>4, <1>5
  <1>8. /\ DOMAIN invoices' = DOMAIN invoices \cup {n}
        /\ invoices'[n] = v
        /\ \A x \in DOMAIN invoices \ {n} : invoices'[x] = invoices[x]
    BY <1>2 DEF With
  <1>9. ShapeInv'
    BY <1>1, <1>2, <1>4, <1>5, <1>6, <1>7, <1>8 DEF ShapeInv
  <1>10. PlaceInv' /\ HoldInv'
    BY <1>1, <1>7 DEF PlaceInv, HoldInv, ShapeInv
  <1>11. BillInv'
    BY <1>2, <1>4, <1>6, <1>7, <1>8 DEF BillInv
  <1>12. OriginInv'
    BY <1>4, <1>5, <1>6, <1>7 DEF OriginInv
  <1>13. QED
    BY <1>9, <1>10, <1>11, <1>12

LEMMA VoidKeeps == ASSUME SalesInv, NEW t \in Tx, Void(t) PROVE SalesInv'
  <1> USE DEF SalesInv
  <1>1. /\ invoices' = [invoices EXCEPT ![job[t].number].status = "CANCELLED"]
        /\ UNCHANGED <<heads, nextDoc>>
        /\ pc' = [pc EXCEPT ![t] = "idle"]
        /\ job' = [job EXCEPT ![t] = None]
    BY DEF Void, VoidAs, End, Goto
  <1>2. /\ DOMAIN invoices' = DOMAIN invoices
        /\ \A n \in DOMAIN invoices :
               /\ DOMAIN invoices'[n] = DOMAIN invoices[n]
               /\ invoices'[n].order = invoices[n].order
    BY <1>1 DEF ShapeInv
  <1>3. ShapeInv'
    BY <1>1, <1>2 DEF ShapeInv
  <1>4. PlaceInv' /\ HoldInv'
    BY <1>1 DEF PlaceInv, HoldInv, ShapeInv
  <1>5. BillInv' /\ OriginInv'
    BY <1>1, <1>2 DEF BillInv, OriginInv
  <1>6. QED
    BY <1>3, <1>4, <1>5

-----------------------------------------------------------------------------
LEMMA SalesStep == SalesInv /\ [Next]_vars => SalesInv'
  <1> SUFFICES ASSUME SalesInv, [Next]_vars PROVE SalesInv'
    OBVIOUS
  <1>1. CASE CreateQuotation \/ CreateOrder
    BY <1>1, CreatesKeep
  <1>2. ASSUME NEW t \in Tx, Begin(t) PROVE SalesInv'
    BY <1>2, BeginKeeps
  <1>3. ASSUME NEW t \in Tx, Step(t) PROVE SalesInv'
    BY <1>3, ReadsKeep, ClearsKeep, SaveKeeps, SetStatusKeeps, DeleteKeeps,
       InsertsKeep, ConvertKeeps, CloseKeeps, VoidKeeps, RollbackKeeps
       DEF Step, Refuse, Abort
  <1>4. ASSUME NEW t \in Tx, Interrupt(t) PROVE SalesInv'
    BY <1>4, RollbackKeeps DEF Interrupt
  <1>5. CASE UNCHANGED vars
    BY <1>5 DEF vars, txVars, SalesInv, ShapeInv, PlaceInv, HoldInv, BillInv,
                OriginInv
  <1>6. QED
    BY <1>1, <1>2, <1>3, <1>4, <1>5 DEF Next

\* Whatever the requests and their interleaving, an order that was invoiced
\* is never deleted and never a DRAFT again.
THEOREM InvoicesKeepOrder == Spec => []InvoiceKeepsOrder
  <1>1. SalesInv => InvoiceKeepsOrder
    BY DEF SalesInv, BillInv, InvoiceKeepsOrder
  <1>2. QED
    BY <1>1, SalesInit, SalesStep, PTL DEF Spec

\* Whatever the requests and their interleaving, a quotation an order was
\* made from is never deleted and never forgets it was converted.
THEOREM OrdersKeepQuotation == Spec => []OrderKeepsQuotation
  <1>1. SalesInv => OrderKeepsQuotation
    BY DEF SalesInv, OriginInv, OrderKeepsQuotation, OrdersOfQuote, Orders
  <1>2. QED
    BY <1>1, SalesInit, SalesStep, PTL DEF Spec

-----------------------------------------------------------------------------
(* The history of stale writes: SalesOverlap *)

\* What a request that has read, and whose document has not changed since,
\* may still count on.
FreshInv ==
    \A t \in Tx : HasRead(t) /\ t \notin stale =>
        /\ job[t].kind = "CONVERT" =>
               Quote \in DOMAIN heads /\ heads[Quote].ref = 0
        /\ job[t].kind = "INVOICE" /\ job[t].doc # 0 =>
               /\ job[t].doc \in DOMAIN heads
               /\ heads[job[t].doc].status = "CONFIRMED"
        /\ job[t].kind = "CONFIRM" =>
               /\ job[t].doc \in DOMAIN heads
               /\ heads[job[t].doc].status = "DRAFT"

\* Nothing but a late invoice or a late confirmation takes an order that has
\* an invoice out of the statuses no invoice starts from.
BilledInv ==
    \A o \in Orders :
        \/ Raced(o, {"INVOICE", "CONFIRM"})
        \/ InvoicesOf(o) = {}
        \/ /\ heads[o].status \in {"INVOICED", "CANCELLED"}
           /\ \A m, n \in InvoicesOf(o) : m = n

\* The inductive invariant.
OverlapInv == SalesInv /\ FreshInv /\ BilledInv /\ OneOrderPerQuotation

-----------------------------------------------------------------------------
(* Steps, and what they leave alone *)

Acts(t) == Begin(t) \/ Step(t) \/ Interrupt(t)

\* A step of t moves t alone; t keeps its request until it ends.
LEMMA ActFrame ==
    ASSUME NEW t \in Tx, Acts(t)
    PROVE  \E w : /\ pc' = [pc EXCEPT ![t] = w]
                  /\ \/ job' = job
                     \/ w = "idle" /\ job' = [job EXCEPT ![t] = None]
                     \/ pc[t] = "idle" /\ \E j \in Job : job' = [job EXCEPT ![t] = j]
  <1>1. CASE Begin(t)
    BY <1>1 DEF Begin, Goto
  <1>2. CASE ReadHeader(t) \/ ReadLinesToUpdate(t) \/ ReadLinesToConvert(t)
    BY <1>2 DEF ReadHeader, ReadLinesToUpdate, ReadLinesToConvert, Goto
  <1>3. CASE StartClear(t) \/ ClearLines(t) \/ InsertOrder(t) \/ Issue(t)
    BY <1>3 DEF StartClear, ClearLines, InsertOrder, Issue, Goto
  <1>4. ASSUME End(t)
        PROVE  pc' = [pc EXCEPT ![t] = "idle"] /\ job' = [job EXCEPT ![t] = None]
    BY <1>4 DEF End, Goto
  <1>5. CASE Save(t) \/ SetStatus(t) \/ Delete(t) \/ MarkConverted(t)
             \/ Close(t) \/ Void(t)
    <2>1. End(t)
      BY <1>5 DEF Save, SaveAs, SetStatus, Delete, DeleteIf, MarkConverted,
                  Close, CloseWith, Void, VoidAs
    <2>2. QED
      BY <1>4, <2>1
  <1>6. CASE Refuse(t) \/ Abort(t) \/ Interrupt(t)
    BY <1>4, <1>6 DEF Refuse, Abort, Interrupt, Rollback
  <1>7. QED
    BY <1>1, <1>2, <1>3, <1>5, <1>6 DEF Acts, Step

LEMMA RacedGrows ==
    ASSUME Watch, NEW d, NEW K, Raced(d, K) PROVE Raced(d, K)'
  BY DEF Watch, Raced

\* A request that had read and is not stale now found its document as it is.
LEMMA StillFresh ==
    ASSUME Watch, NEW u \in Tx, HasRead(u), pc'[u] # "idle", u \notin stale'
    PROVE  /\ u \notin stale
           /\ job[u].doc \in DOMAIN heads =>
                  /\ job[u].doc \in DOMAIN heads'
                  /\ heads'[job[u].doc] = heads[job[u].doc]
  BY DEF Watch, Touches

\* A stale request that commits is remembered.
LEMMA LateWrite ==
    ASSUME Watch, NEW t \in Tx, t \in stale, Commits(t)
    PROVE  <<job[t].doc, job[t].kind>> \in raced'
  BY DEF Watch

-----------------------------------------------------------------------------
LEMMA FreshRead ==
    ASSUME SalesInv, NEW t \in Tx, ReadHeader(t)
    PROVE  /\ job[t].kind = "CONVERT" =>
                  Quote \in DOMAIN heads /\ heads[Quote].ref = 0
           /\ job[t].kind = "INVOICE" =>
                  /\ job[t].doc \in DOMAIN heads
                  /\ heads[job[t].doc].status = "CONFIRMED"
           /\ job[t].kind = "CONFIRM" =>
                  /\ job[t].doc \in DOMAIN heads
                  /\ heads[job[t].doc].status = "DRAFT"
  <1>1. pc[t] = "read" /\ Admissible(t)
    BY DEF ReadHeader
  <1>2. job[t] \in Job
    BY <1>1 DEF SalesInv, PlaceInv
  <1>3. CASE job[t].kind = "CONVERT"
    BY <1>1, <1>2, <1>3, JobFacts DEF Admissible, Convertible
  <1>4. CASE job[t].kind = "INVOICE"
    BY <1>1, <1>4 DEF Admissible, Billable
  <1>5. CASE job[t].kind = "CONFIRM"
    <2>1. job[t].kind \in DOMAIN AllowedFrom /\ AllowedFrom["CONFIRM"] = {"DRAFT"}
      BY <1>5 DEF AllowedFrom
    <2>2. QED
      BY <1>1, <1>5, <2>1 DEF Admissible
  <1>6. QED
    BY <1>3, <1>4, <1>5

\* Who has read after the step either had before, or reads in it.
LEMMA FreshKeeps ==
    ASSUME OverlapInv, NEW t \in Tx, Acts(t), Watch PROVE FreshInv'
  <1>1. PICK w : /\ pc' = [pc EXCEPT ![t] = w]
                 /\ \/ job' = job
                    \/ w = "idle" /\ job' = [job EXCEPT ![t] = None]
                    \/ pc[t] = "idle"
                       /\ \E j \in Job : job' = [job EXCEPT ![t] = j]
    BY ActFrame
  <1>2. pc \in [Tx -> Active \cup {"idle"}] /\ DOMAIN job = Tx
    BY DEF OverlapInv, SalesInv, ShapeInv
  <1>3. ASSUME NEW u \in Tx, HasRead(u), HasRead(u)', u \notin stale'
        PROVE  /\ job'[u] = job[u] /\ u \notin stale
               /\ job[u].doc \in DOMAIN heads =>
                      /\ job[u].doc \in DOMAIN heads'
                      /\ heads'[job[u].doc] = heads[job[u].doc]
    <2>1. pc[u] # "idle" /\ pc'[u] # "idle"
      BY <1>3 DEF HasRead
    <2>2. job'[u] = job[u]
      BY <1>1, <1>2, <2>1
    <2>3. QED
      BY <1>3, <2>1, <2>2, StillFresh
  <1>4. ASSUME NEW u \in Tx, ~HasRead(u), HasRead(u)'
        PROVE  u = t /\ (ReadHeader(t) \/ Begin(t))
    <2>1. u = t
      BY <1>1, <1>2, <1>4 DEF HasRead
    <2>2. pc[t] \in {"idle", "read"} /\ pc'[t] # "idle"
      BY <1>4, <2>1 DEF HasRead
    <2>3. ~End(t)
      BY <1>2, <2>2 DEF End, Goto
    <2>4. QED
      BY <2>1, <2>2, <2>3 DEF Acts, Step, ReadLinesToUpdate, ReadLinesToConvert,
             Refuse, StartClear, ClearLines, Save, SaveAs, SetStatus, Delete,
             DeleteIf, InsertOrder, MarkConverted, Issue, Close, CloseWith,
             Void, VoidAs, Abort, Interrupt, Rollback
  <1>5. ASSUME NEW u \in Tx, HasRead(u)', u \notin stale'
        PROVE  /\ job'[u].kind = "CONVERT" =>
                      Quote \in DOMAIN heads' /\ heads'[Quote].ref = 0
               /\ job'[u].kind = "INVOICE" /\ job'[u].doc # 0 =>
                      /\ job'[u].doc \in DOMAIN heads'
                      /\ heads'[job'[u].doc].status = "CONFIRMED"
               /\ job'[u].kind = "CONFIRM" =>
                      /\ job'[u].doc \in DOMAIN heads'
                      /\ heads'[job'[u].doc].status = "DRAFT"
    <2>1. CASE HasRead(u)
      <3>1. job'[u] = job[u] /\ u \notin stale
        BY <1>3, <1>5, <2>1
      <3>2. job[u].kind = "CONVERT" => job[u].doc = Quote
        BY <2>1, JobFacts DEF HasRead, OverlapInv, SalesInv, PlaceInv
      <3>3. QED
        BY <1>3, <1>5, <2>1, <3>1, <3>2 DEF OverlapInv, FreshInv
    <2>2. CASE u = t /\ ReadHeader(t)
      <3>1. UNCHANGED <<heads, job>>
        BY <2>2 DEF ReadHeader
      <3>2. QED
        BY <2>2, <3>1, FreshRead DEF OverlapInv
    <2>3. CASE u = t /\ Begin(t)
      <3>1. PICK j \in Job :
                /\ job' = [job EXCEPT ![t] = j]
                /\ pc' = [pc EXCEPT ![t] = IF j.kind = "INVOICE" /\ j.doc = 0
                                           THEN "issue" ELSE "read"]
        BY <2>3 DEF Begin, Goto
      <3>2. j.kind = "INVOICE" /\ j.doc = 0
        BY <1>2, <1>5, <2>3, <3>1 DEF HasRead
      <3>3. QED
        BY <1>2, <2>3, <3>1, <3>2
    <2>4. QED
      BY <1>4, <1>5, <2>1, <2>2, <2>3
  <1>6. QED
    BY <1>5 DEF FreshInv, HasRead

-----------------------------------------------------------------------------
(* One order per quotation *)

LEMMA NoNewOrderOfQuote ==
    ASSUME OneOrderPerQuotation, Watch, OrdersOfQuote' \subseteq OrdersOfQuote
    PROVE  OneOrderPerQuotation'
  <1>1. CASE Raced(Quote, {"CONVERT"})
    BY <1>1, RacedGrows DEF OneOrderPerQuotation
  <1>2. CASE \A a, b \in OrdersOfQuote : a = b
    BY <1>2 DEF OneOrderPerQuotation
  <1>3. QED
    BY <1>1, <1>2 DEF OneOrderPerQuotation

\* The orders and what the quotation and the invoices say of them.
Calm ==
    /\ \A o \in Orders' :
           o \in Orders /\ heads'[o].ref = heads[o].ref
                        /\ heads'[o].status = heads[o].status
    /\ DOMAIN invoices' = DOMAIN invoices
    /\ \A n \in DOMAIN invoices : invoices'[n].order = invoices[n].order

LEMMA CalmKeeps ==
    ASSUME OverlapInv, Watch, Calm PROVE OneOrderPerQuotation' /\ BilledInv'
  <1>1. OrdersOfQuote' \subseteq OrdersOfQuote
    BY DEF Calm, OrdersOfQuote
  <1>2. ASSUME NEW o \in Orders'
        PROVE  o \in Orders /\ InvoicesOf(o)' = InvoicesOf(o)
               /\ heads'[o].status = heads[o].status
    BY <1>2 DEF Calm, InvoicesOf
  <1>3. ASSUME NEW o \in Orders'
        PROVE  \/ Raced(o, {"INVOICE", "CONFIRM"})'
               \/ InvoicesOf(o)' = {}
               \/ /\ heads'[o].status \in {"INVOICED", "CANCELLED"}
                  /\ \A m, n \in InvoicesOf(o)' : m = n
    BY <1>2, <1>3, RacedGrows DEF OverlapInv, BilledInv
  <1>4. QED
    BY <1>1, <1>3, NoNewOrderOfQuote DEF OverlapInv, BilledInv

\* Nothing committed changed.
LEMMA NoCommitKeeps ==
    ASSUME OverlapInv, Watch, UNCHANGED <<heads, invoices>>
    PROVE  OneOrderPerQuotation' /\ BilledInv'
  BY CalmKeeps DEF Calm, Orders

-----------------------------------------------------------------------------
(* The steps that commit *)

LEMMA CreatesKeepBoth ==
    ASSUME OverlapInv, Watch, CreateQuotation \/ CreateOrder
    PROVE  OneOrderPerQuotation' /\ BilledInv'
  <1>1. PICK h : heads' = With(heads, nextDoc, h) /\ h.ref = 0
    <2>1. \A c, ls, n : NewHeader(c, ls, 0, n).ref = 0
      BY DEF NewHeader
    <2>2. QED
      BY <2>1 DEF CreateQuotation, CreateOrder
  <1>2. invoices' = invoices
    BY DEF CreateQuotation, CreateOrder
  <1>3. nextDoc \notin DOMAIN heads /\ nextDoc # 0
    BY DEF OverlapInv, SalesInv, ShapeInv
  <1>4. /\ DOMAIN heads' = DOMAIN heads \cup {nextDoc}
        /\ heads'[nextDoc].ref = 0
        /\ \A d \in DOMAIN heads : heads'[d] = heads[d]
    BY <1>1, <1>3 DEF With
  <1>5. OrdersOfQuote' \subseteq OrdersOfQuote
    BY <1>4 DEF OrdersOfQuote, Orders, Quote
  <1>6. InvoicesOf(nextDoc) = {}
    BY <1>3 DEF InvoicesOf, OverlapInv, SalesInv, BillInv
  <1>7. ASSUME NEW o \in Orders'
        PROVE  \/ Raced(o, {"INVOICE", "CONFIRM"})'
               \/ InvoicesOf(o)' = {}
               \/ /\ heads'[o].status \in {"INVOICED", "CANCELLED"}
                  /\ \A m, n \in InvoicesOf(o)' : m = n
    <2>1. InvoicesOf(o)' = InvoicesOf(o)
      BY <1>2 DEF InvoicesOf
    <2>2. CASE o \in Orders
      BY <1>4, <2>1, <2>2, RacedGrows DEF OverlapInv, BilledInv, Orders
    <2>3. CASE o = nextDoc
      BY <1>6, <2>1, <2>3
    <2>4. QED
      BY <1>4, <1>7, <2>2, <2>3 DEF Orders
  <1>8. QED
    BY <1>5, <1>7, NoNewOrderOfQuote DEF OverlapInv, BilledInv

LEMMA SaveIsCalm ==
    ASSUME OverlapInv, NEW t \in Tx, Save(t) PROVE Calm
  <1>0. PICK h : h = [heads[job[t].doc] EXCEPT !.customer = local[t].customer,
                                               !.total = local[t].total]
    OBVIOUS
  <1>1. /\ job[t].doc \in DOMAIN heads
        /\ heads' = [heads EXCEPT ![job[t].doc] = h]
        /\ invoices' = invoices
    BY <1>0 DEF Save, SaveAs
  <1>2. h.ref = heads[job[t].doc].ref /\ h.status = heads[job[t].doc].status
    BY <1>0, <1>1 DEF OverlapInv, SalesInv, ShapeInv, Fields
  <1>3. QED
    BY <1>1, <1>2 DEF Calm, Orders

LEMMA DeleteIsCalm ==
    ASSUME NEW t \in Tx, Delete(t) PROVE Calm
  BY DEF Delete, DeleteIf, Without, Calm, Orders

LEMMA VoidIsCalm ==
    ASSUME OverlapInv, NEW t \in Tx, Void(t) PROVE Calm
  <1>1. /\ heads' = heads
        /\ invoices' = [invoices EXCEPT ![job[t].number].status = "CANCELLED"]
    BY DEF Void, VoidAs
  <1>2. /\ DOMAIN invoices' = DOMAIN invoices
        /\ \A n \in DOMAIN invoices : invoices'[n].order = invoices[n].order
    BY <1>1 DEF OverlapInv, SalesInv, ShapeInv
  <1>3. QED
    BY <1>1, <1>2 DEF Calm, Orders

\* A transition brings an order with an invoice to CANCELLED, or to CONFIRMED
\* on a stale read.
LEMMA SetStatusKeepsBoth ==
    ASSUME OverlapInv, NEW t \in Tx, SetStatus(t), Watch
    PROVE  OneOrderPerQuotation' /\ BilledInv'
  <1> DEFINE d == job[t].doc
             k == job[t].kind
  <1>0. PICK h : h = [heads[d] EXCEPT !.status = To[k]]
    OBVIOUS
  <1>1. /\ pc[t] = "status" /\ pc'[t] = "idle"
        /\ d \in DOMAIN heads
        /\ heads' = [heads EXCEPT ![d] = h]
        /\ invoices' = invoices
    BY <1>0 DEF SetStatus, End, Goto, OverlapInv, SalesInv, ShapeInv
  <1>2. job[t] \in Job /\ k \in Transition
    BY <1>1, JobFacts DEF OverlapInv, SalesInv, PlaceInv, Places, Kind, OfQuote,
                          OfOrder, Transition
  <1>3. d # Quote => k \in {"CONFIRM", "CANCEL"}
    BY <1>2, JobAssumption DEF OfQuote, Transition
  <1>4. h.ref = heads[d].ref /\ h.status = To[k]
    BY <1>0, <1>1 DEF OverlapInv, SalesInv, ShapeInv, Fields
  <1>5. DOMAIN heads' = DOMAIN heads /\ heads'[d] = h
        /\ \A x \in DOMAIN heads \ {d} : heads'[x] = heads[x]
    BY <1>1
  <1>6. OrdersOfQuote' \subseteq OrdersOfQuote
    BY <1>4, <1>5 DEF OrdersOfQuote, Orders
  <1>7. ASSUME NEW o \in Orders'
        PROVE  \/ Raced(o, {"INVOICE", "CONFIRM"})'
               \/ InvoicesOf(o)' = {}
               \/ /\ heads'[o].status \in {"INVOICED", "CANCELLED"}
                  /\ \A m, n \in InvoicesOf(o)' : m = n
    <2>1. InvoicesOf(o)' = InvoicesOf(o) /\ o \in Orders
      BY <1>1, <1>5 DEF InvoicesOf, Orders
    <2>2. CASE o # d \/ heads' = heads
      BY <1>5, <2>1, <2>2, RacedGrows DEF OverlapInv, BilledInv, Orders
    <2>3. CASE o = d /\ k = "CANCEL"
      <3>1. heads'[o].status = "CANCELLED"
        BY <1>4, <1>5, <2>3 DEF To
      <3>2. QED
        BY <2>1, <3>1, RacedGrows DEF OverlapInv, BilledInv
    <2>4. CASE o = d /\ k = "CONFIRM" /\ heads' # heads
      <3>1. CASE t \in stale
        <4>1. <<d, k>> \in raced'
          BY <1>1, <2>4, <3>1, LateWrite DEF Commits
        <4>2. QED
          BY <2>4, <4>1 DEF Raced
      <3>2. CASE t \notin stale
        <4>1. heads[o].status = "DRAFT"
          BY <1>1, <2>4, <3>2 DEF OverlapInv, FreshInv, HasRead
        <4>2. QED
          BY <2>1, <4>1, RacedGrows DEF OverlapInv, BilledInv
      <3>3. QED
        BY <3>1, <3>2
    <2>5. QED
      BY <1>3, <2>1, <2>2, <2>3, <2>4 DEF Orders
  <1>8. QED
    BY <1>6, <1>7, NoNewOrderOfQuote DEF OverlapInv, BilledInv

\* A conversion on a fresh read finds a quotation without orders.
LEMMA ConvertKeepsBoth ==
    ASSUME OverlapInv, NEW t \in Tx, MarkConverted(t), Watch
    PROVE  OneOrderPerQuotation' /\ BilledInv'
  <1>1. PICK h, m : heads' = With([heads EXCEPT ![Quote] = m], nextDoc, h)
    BY DEF MarkConverted
  <1>2. /\ pc[t] = "mark" /\ pc'[t] = "idle" /\ invoices' = invoices
    BY DEF MarkConverted, End, Goto, OverlapInv, SalesInv, ShapeInv
  <1>3. job[t].kind = "CONVERT" /\ job[t].doc = Quote
    BY <1>2, JobFacts DEF OverlapInv, SalesInv, PlaceInv, Places, Kind, OfQuote,
                          OfOrder, Transition
  <1>4. nextDoc \notin DOMAIN heads /\ nextDoc # 0
    BY DEF OverlapInv, SalesInv, ShapeInv
  <1>5. /\ DOMAIN heads' = DOMAIN heads \cup {nextDoc}
        /\ \A d \in DOMAIN heads \ {Quote} : heads'[d] = heads[d]
    BY <1>1, <1>4 DEF With
  <1>6. OneOrderPerQuotation'
    <2>1. CASE t \in stale
      <3>1. Commits(t)
        BY <1>2, <1>4, <1>5 DEF Commits
      <3>2. <<Quote, "CONVERT">> \in raced'
        BY <1>3, <2>1, <3>1, LateWrite
      <3>3. QED
        BY <3>2 DEF Raced, OneOrderPerQuotation
    <2>2. CASE t \notin stale
      <3>1. heads[Quote].ref = 0
        BY <1>2, <1>3, <2>2 DEF OverlapInv, FreshInv, HasRead
      <3>2. OrdersOfQuote = {}
        BY <3>1 DEF OrdersOfQuote, Orders, OverlapInv, SalesInv, OriginInv
      <3>3. OrdersOfQuote' \subseteq {nextDoc}
        BY <1>5, <3>2 DEF OrdersOfQuote, Orders
      <3>4. QED
        BY <3>3 DEF OneOrderPerQuotation
    <2>3. QED
      BY <2>1, <2>2
  <1>7. InvoicesOf(nextDoc) = {}
    BY <1>4 DEF InvoicesOf, OverlapInv, SalesInv, BillInv
  <1>8. ASSUME NEW o \in Orders'
        PROVE  \/ Raced(o, {"INVOICE", "CONFIRM"})'
               \/ InvoicesOf(o)' = {}
               \/ /\ heads'[o].status \in {"INVOICED", "CANCELLED"}
                  /\ \A x, n \in InvoicesOf(o)' : x = n
    <2>1. InvoicesOf(o)' = InvoicesOf(o)
      BY <1>2 DEF InvoicesOf
    <2>2. CASE o \in Orders
      BY <1>5, <2>1, <2>2, RacedGrows DEF OverlapInv, BilledInv, Orders
    <2>3. CASE o = nextDoc
      BY <1>7, <2>1, <2>3
    <2>4. QED
      BY <1>5, <1>8, <2>2, <2>3 DEF Orders
  <1>9. QED
    BY <1>6, <1>8 DEF BilledInv

\* An invoice on a fresh read finds its order CONFIRMED, hence without one.
LEMMA CloseKeepsBoth ==
    ASSUME OverlapInv, NEW t \in Tx, Close(t), Watch
    PROVE  OneOrderPerQuotation' /\ BilledInv'
  <1> DEFINE d == job[t].doc
  <1>0. PICK h : h = [heads[d] EXCEPT !.status = "INVOICED"]
    OBVIOUS
  <1>1. /\ pc[t] = "close" /\ pc'[t] = "idle"
        /\ heads' = IF d = 0 THEN heads ELSE [heads EXCEPT ![d] = h]
    BY <1>0 DEF Close, CloseWith, End, Goto, OverlapInv, SalesInv, ShapeInv
  <1>2. PICK f, v : invoices' = With(invoices, f, v) /\ v.order = d
    BY DEF Close, CloseWith
  <1>3. job[t].kind = "INVOICE"
    BY <1>1, JobFacts DEF OverlapInv, SalesInv, PlaceInv, Places, Kind, OfQuote,
                          OfOrder, Transition
  <1>4. d \in DOMAIN heads \cup {0} /\ 0 \notin DOMAIN heads
    BY <1>1 DEF OverlapInv, SalesInv, HoldInv, ShapeInv
  <1>5. d \in DOMAIN heads => h.status = "INVOICED" /\ h.ref = heads[d].ref
    BY <1>0 DEF OverlapInv, SalesInv, ShapeInv, Fields
  <1>6. /\ DOMAIN heads' = DOMAIN heads
        /\ d # 0 => heads'[d] = h
        /\ \A x \in DOMAIN heads \ {d} : heads'[x] = heads[x]
    BY <1>1, <1>4
  <1>7. OrdersOfQuote' \subseteq OrdersOfQuote
    BY <1>4, <1>5, <1>6 DEF OrdersOfQuote, Orders
  <1>8. \A o : /\ InvoicesOf(o)' \subseteq InvoicesOf(o) \cup {f}
               /\ o # d => InvoicesOf(o)' \subseteq InvoicesOf(o)
    BY <1>2 DEF InvoicesOf, With
  <1>9. ASSUME NEW o \in Orders'
        PROVE  \/ Raced(o, {"INVOICE", "CONFIRM"})'
               \/ InvoicesOf(o)' = {}
               \/ /\ heads'[o].status \in {"INVOICED", "CANCELLED"}
                  /\ \A m, n \in InvoicesOf(o)' : m = n
    <2>1. o \in Orders /\ o # 0
      BY <1>4, <1>6 DEF Orders
    <2>2. CASE o # d
      <3>1. heads'[o] = heads[o] /\ InvoicesOf(o)' \subseteq InvoicesOf(o)
        BY <1>6, <1>8, <2>1, <2>2 DEF Orders
      <3>2. CASE Raced(o, {"INVOICE", "CONFIRM"})
        BY <3>2, RacedGrows
      <3>3. CASE InvoicesOf(o) = {}
        BY <3>1, <3>3
      <3>4. CASE /\ heads[o].status \in {"INVOICED", "CANCELLED"}
                 /\ \A m, n \in InvoicesOf(o) : m = n
        BY <3>1, <3>4
      <3>5. QED
        BY <2>1, <3>2, <3>3, <3>4 DEF OverlapInv, BilledInv
    <2>3. CASE o = d /\ <<heads, batches, invoices>>' = <<heads, batches, invoices>>
      <3>1. InvoicesOf(o)' = InvoicesOf(o)
        BY <2>3 DEF InvoicesOf
      <3>2. QED
        BY <2>1, <2>3, <3>1, RacedGrows DEF OverlapInv, BilledInv
    <2>4. CASE o = d /\ t \in stale
               /\ <<heads, batches, invoices>>' # <<heads, batches, invoices>>
      <3>1. <<d, "INVOICE">> \in raced'
        BY <1>1, <1>3, <2>4, LateWrite DEF Commits
      <3>2. QED
        BY <2>4, <3>1 DEF Raced
    <2>5. CASE o = d /\ t \notin stale
      <3>1. heads[o].status = "CONFIRMED"
        BY <1>1, <1>3, <2>1, <2>5 DEF OverlapInv, FreshInv, HasRead
      <3>2. Raced(o, {"INVOICE", "CONFIRM"}) \/ InvoicesOf(o) = {}
        BY <2>1, <3>1 DEF OverlapInv, BilledInv
      <3>3. CASE InvoicesOf(o) = {}
        <4>1. InvoicesOf(o)' \subseteq {f}
          BY <1>8, <3>3
        <4>2. heads'[o].status = "INVOICED"
          BY <1>5, <1>6, <2>1, <2>5 DEF Orders
        <4>3. QED
          BY <4>1, <4>2
      <3>4. QED
        BY <3>2, <3>3, RacedGrows
    <2>6. QED
      BY <2>2, <2>3, <2>4, <2>5
  <1>10. QED
    BY <1>7, <1>9, NoNewOrderOfQuote DEF OverlapInv, BilledInv

-----------------------------------------------------------------------------
LEMMA OverlapInit == HInit => OverlapInv
  <1>1. HInit => SalesInv
    BY SalesInit DEF HInit
  <1>2. HInit => FreshInv /\ BilledInv /\ OneOrderPerQuotation
    BY DEF HInit, Init, FreshInv, HasRead, BilledInv, OneOrderPerQuotation,
           Orders, OrdersOfQuote, NoRows
  <1>3. QED
    BY <1>1, <1>2 DEF OverlapInv

LEMMA OverlapStep == OverlapInv /\ [HNext]_hvars => OverlapInv'
  <1> SUFFICES ASSUME OverlapInv, [HNext]_hvars PROVE OverlapInv'
    OBVIOUS
  <1>1. CASE UNCHANGED hvars
    <2>1. UNCHANGED <<heads, invoices, nextDoc, pc, job, stale, raced>>
      BY <1>1 DEF hvars, vars, txVars
    <2>2. UNCHANGED vars
      BY <1>1 DEF hvars
    <2>3. SalesInv'
      BY <2>2, SalesStep DEF OverlapInv
    <2>4. FreshInv' /\ BilledInv' /\ OneOrderPerQuotation'
      BY <2>1 DEF OverlapInv, FreshInv, HasRead, BilledInv, Orders, Raced,
                  InvoicesOf, OneOrderPerQuotation, OrdersOfQuote
    <2>5. QED
      BY <2>3, <2>4 DEF OverlapInv
  <1>2. CASE HCreate
    <2>1. (CreateQuotation \/ CreateOrder) /\ Watch
      BY <1>2 DEF HCreate
    <2>2. SalesInv'
      BY <2>1, SalesStep DEF OverlapInv, Next
    <2>3. UNCHANGED <<pc, job>>
      BY <2>1 DEF CreateQuotation, CreateOrder, txVars
    <2>4. ASSUME NEW u \in Tx, HasRead(u)', u \notin stale'
          PROVE  /\ HasRead(u) /\ job'[u] = job[u] /\ u \notin stale
                 /\ job[u].doc \in DOMAIN heads =>
                        /\ job[u].doc \in DOMAIN heads'
                        /\ heads'[job[u].doc] = heads[job[u].doc]
      <3>1. HasRead(u) /\ job'[u] = job[u] /\ pc'[u] # "idle"
        BY <2>3, <2>4 DEF HasRead
      <3>2. QED
        BY <2>1, <2>4, <3>1, StillFresh
    <2>5. ASSUME NEW u \in Tx, HasRead(u)', u \notin stale'
          PROVE  job[u].kind = "CONVERT" => job[u].doc = Quote
      BY <2>4, <2>5, JobFacts DEF HasRead, OverlapInv, SalesInv, PlaceInv
    <2>6. FreshInv'
      BY <2>4, <2>5 DEF OverlapInv, FreshInv
    <2>7. QED
      BY <2>1, <2>2, <2>6, CreatesKeepBoth DEF OverlapInv
  <1>3. ASSUME NEW t \in Tx, Acts(t), Watch PROVE OverlapInv'
    <2>1. SalesInv'
      BY <1>3, SalesStep DEF OverlapInv, Acts, Next
    <2>2. FreshInv'
      BY <1>3, FreshKeeps
    <2>3. CASE UNCHANGED <<heads, invoices>>
      BY <1>3, <2>1, <2>2, <2>3, NoCommitKeeps DEF OverlapInv
    <2>4. CASE Save(t) \/ Delete(t) \/ Void(t)
      BY <1>3, <2>1, <2>2, <2>4, SaveIsCalm, DeleteIsCalm, VoidIsCalm, CalmKeeps
         DEF OverlapInv
    <2>5. CASE SetStatus(t) \/ MarkConverted(t) \/ Close(t)
      BY <1>3, <2>1, <2>2, <2>5, SetStatusKeepsBoth, ConvertKeepsBoth,
         CloseKeepsBoth DEF OverlapInv
    <2>6. \/ UNCHANGED <<heads, invoices>>
          \/ Save(t) \/ Delete(t) \/ Void(t)
          \/ SetStatus(t) \/ MarkConverted(t) \/ Close(t)
      BY <1>3 DEF Acts, Step, Begin, Interrupt, Rollback, ReadHeader,
             ReadLinesToUpdate, ReadLinesToConvert, Refuse, StartClear,
             ClearLines, InsertOrder, Issue, Abort
    <2>7. QED
      BY <2>3, <2>4, <2>5, <2>6
  <1>4. QED
    BY <1>1, <1>2, <1>3 DEF HNext, HBegin, HStep, Acts

\* Two orders come from one quotation only if a conversion wrote on a stale
\* read: no other interleaving of the services' steps leads there.
THEOREM OneOrderEach == HSpec => []OneOrderPerQuotation
  <1>1. OverlapInv => OneOrderPerQuotation
    BY DEF OverlapInv
  <1>2. QED
    BY <1>1, OverlapInit, OverlapStep, PTL DEF HSpec

\* An order has two invoices only if an invoice or a confirmation of it wrote
\* on a stale read.
THEOREM OneInvoiceEach == HSpec => []BilledOnce
  <1>1. OverlapInv => BilledOnce
    BY DEF OverlapInv, BilledInv, BilledOnce
  <1>2. QED
    BY <1>1, OverlapInit, OverlapStep, PTL DEF HSpec

-----------------------------------------------------------------------------
(* An order is INVOICED exactly when it has an invoice *)

\* The numbers of the invoices being issued are free and their own.
NumberInv ==
    \A t \in Tx : pc[t] = "close" =>
        /\ job[t].number \notin DOMAIN invoices
        /\ \A u \in Tx \ {t} : pc[u] = "close" => job[u].number # job[t].number

\* A request of these kinds, on a fresh read, finds one of these statuses.
Finds(kinds, statuses) ==
    \A t \in Tx : HasRead(t) /\ t \notin stale /\ job[t].kind \in kinds =>
        job[t].doc \in DOMAIN heads /\ heads[job[t].doc].status \in statuses

\* A cancellation on a fresh read finds an order that is not INVOICED.
CancelInv == Finds({"CANCEL"}, {"DRAFT", "CONFIRMED"})

StatusInv == OverlapInv /\ NumberInv /\ CancelInv /\ InvoicedHasInvoice

LEMMA OnlyIssueCloses ==
    ASSUME SalesInv, NEW t \in Tx, Acts(t), pc'[t] = "close" PROVE Issue(t) \/ UNCHANGED vars
  <1>1. pc \in [Tx -> Active \cup {"idle"}]
    BY DEF SalesInv, ShapeInv
  <1>2. ~End(t)
    BY <1>1 DEF End, Goto
  <1>3. ~Begin(t)
    BY <1>1 DEF Begin, Goto
  <1>4. ~ReadHeader(t)
    <2> SUFFICES ASSUME ReadHeader(t) PROVE FALSE
      OBVIOUS
    <2>1. pc[t] = "read" /\ job[t].kind \in Kind
      BY JobFacts DEF ReadHeader, SalesInv, PlaceInv
    <2>2. \/ job[t].kind \in {"UPDATE", "CONVERT", "REMOVE", "INVOICE", "VOID"}
          \/ job[t].kind \in DOMAIN To
      BY <2>1, TransitionsLeaveDraft DEF Kind, OfQuote, OfOrder, Transition
    <2>3. pc'[t] \in {"lines", "delete", "issue", "void", "status"}
      BY <1>1, <2>2 DEF ReadHeader, Goto
    <2>4. QED
      BY <2>3
  <1>5. ~(ReadLinesToUpdate(t) \/ ReadLinesToConvert(t) \/ StartClear(t) \/ ClearLines(t)
          \/ InsertOrder(t))
    BY <1>1 DEF ReadLinesToUpdate, ReadLinesToConvert, StartClear, ClearLines, InsertOrder, Goto
  <1>6. QED
    BY <1>2, <1>3, <1>4, <1>5 DEF Acts, Step, Refuse, Save, SaveAs, SetStatus, Delete,
           DeleteIf, MarkConverted, Close, CloseWith, Void, VoidAs, Abort, Interrupt, Rollback

LEMMA NumberKeeps ==
    ASSUME OverlapInv, NumberInv, NEW t \in Tx, Acts(t) PROVE NumberInv'
  <1>1. PICK w : /\ pc' = [pc EXCEPT ![t] = w]
                 /\ \/ job' = job
                    \/ w = "idle" /\ job' = [job EXCEPT ![t] = None]
                    \/ pc[t] = "idle"
                       /\ \E j \in Job : job' = [job EXCEPT ![t] = j]
    BY ActFrame
  <1>2. pc \in [Tx -> Active \cup {"idle"}] /\ DOMAIN job = Tx
    BY DEF OverlapInv, SalesInv, ShapeInv
  <1>3. \A u \in Tx \ {t} : pc'[u] = pc[u] /\ job'[u] = job[u]
    BY <1>1, <1>2
  <1>4. ASSUME NEW u \in Tx \ {t}, pc[u] = "close"
        PROVE  job[u].number \notin DOMAIN invoices'
    <2>1. CASE Close(t)
      <3>1. pc[t] = "close" /\ DOMAIN invoices' = DOMAIN invoices \cup {job[t].number}
        BY <2>1 DEF Close, CloseWith, With
      <3>2. QED
        BY <1>4, <3>1 DEF NumberInv
    <2>2. CASE DOMAIN invoices' = DOMAIN invoices
      BY <1>4, <2>2 DEF NumberInv
    <2>3. Close(t) \/ DOMAIN invoices' = DOMAIN invoices
      BY DEF Acts, Step, Begin, Interrupt, Rollback, ReadHeader, ReadLinesToUpdate,
             ReadLinesToConvert, Refuse, StartClear, ClearLines, InsertOrder, Issue, Abort,
             Save, SaveAs, SetStatus, Delete, DeleteIf, MarkConverted, Void, VoidAs
    <2>4. QED
      BY <2>1, <2>2, <2>3
  <1>5. CASE pc'[t] # "close"
    BY <1>3, <1>4, <1>5 DEF NumberInv
  <1>6. CASE pc'[t] = "close" /\ Issue(t)
    <2>1. /\ job' = job /\ invoices' = invoices /\ job[t].number \notin DOMAIN invoices
          /\ NumberFree(t, "INVOICE", job[t].number)
      BY <1>6 DEF Issue
    <2>2. ASSUME NEW u \in Tx \ {t}, pc[u] = "close" PROVE job[u].number # job[t].number
      <3>1. job[u].kind = "INVOICE"
        BY <2>2, JobFacts DEF OverlapInv, SalesInv, PlaceInv, Places, Kind, OfQuote,
                              OfOrder, Transition
      <3>2. QED
        BY <2>1, <2>2, <3>1 DEF NumberFree, Inserted
    <2>3. QED
      BY <1>3, <1>4, <2>1, <2>2 DEF NumberInv
  <1>7. CASE UNCHANGED vars
    BY <1>7 DEF vars, txVars, NumberInv
  <1>8. QED
    BY <1>5, <1>6, <1>7, OnlyIssueCloses DEF OverlapInv

LEMMA FindsKeeps ==
    ASSUME OverlapInv, NEW K, NEW S, Finds(K, S), "INVOICE" \notin K,
           NEW t \in Tx, Acts(t), Watch,
           ReadHeader(t) /\ job[t].kind \in K =>
               job[t].doc \in DOMAIN heads /\ heads[job[t].doc].status \in S
    PROVE  Finds(K, S)'
  <1>1. PICK w : /\ pc' = [pc EXCEPT ![t] = w]
                 /\ \/ job' = job
                    \/ w = "idle" /\ job' = [job EXCEPT ![t] = None]
                    \/ pc[t] = "idle"
                       /\ \E j \in Job : job' = [job EXCEPT ![t] = j]
    BY ActFrame
  <1>2. pc \in [Tx -> Active \cup {"idle"}] /\ DOMAIN job = Tx
    BY DEF OverlapInv, SalesInv, ShapeInv
  <1>3. ASSUME NEW u \in Tx, HasRead(u)', u \notin stale', job'[u].kind \in K
        PROVE  /\ job'[u].doc \in DOMAIN heads'
               /\ heads'[job'[u].doc].status \in S
    <2>1. CASE HasRead(u)
      <3>1. pc[u] # "idle" /\ pc'[u] # "idle"
        BY <1>3, <2>1 DEF HasRead
      <3>2. job'[u] = job[u]
        BY <1>1, <1>2, <3>1
      <3>3. QED
        BY <1>3, <2>1, <3>1, <3>2, StillFresh DEF Finds
    <2>2. CASE ~HasRead(u)
      <3>1. u = t /\ pc[t] \in {"idle", "read"} /\ pc'[t] \notin {"idle", "read"}
        BY <1>1, <1>2, <1>3, <2>2 DEF HasRead
      <3>2. ~End(t)
        BY <1>2, <3>1 DEF End, Goto
      <3>3. ~Begin(t)
        BY <1>2, <1>3, <3>1 DEF Begin, Goto
      <3>4. ReadHeader(t)
        BY <3>1, <3>2, <3>3 DEF Acts, Step, ReadLinesToUpdate, ReadLinesToConvert,
               Refuse, StartClear, ClearLines, Save, SaveAs, SetStatus, Delete,
               DeleteIf, InsertOrder, MarkConverted, Issue, Close, CloseWith,
               Void, VoidAs, Abort, Interrupt, Rollback
      <3>5. job[t].kind \in K /\ UNCHANGED <<heads, job>>
        BY <1>3, <3>1, <3>4 DEF ReadHeader
      <3>6. QED
        BY <3>1, <3>4, <3>5
    <2>3. QED
      BY <2>1, <2>2
  <1>4. QED
    BY <1>3 DEF Finds, HasRead

LEMMA FindsWhenCreated ==
    ASSUME NEW K, NEW S, Finds(K, S), Watch, CreateQuotation \/ CreateOrder
    PROVE  Finds(K, S)'
  <1>1. UNCHANGED <<pc, job>>
    BY DEF CreateQuotation, CreateOrder, txVars
  <1>2. ASSUME NEW u \in Tx, HasRead(u)', u \notin stale', job'[u].kind \in K
        PROVE  /\ job'[u].doc \in DOMAIN heads'
               /\ heads'[job'[u].doc].status \in S
    <2>1. HasRead(u) /\ job'[u] = job[u] /\ pc'[u] # "idle"
      BY <1>1, <1>2 DEF HasRead
    <2>2. QED
      BY <1>2, <2>1, StillFresh DEF Finds
  <1>3. QED
    BY <1>2 DEF Finds, HasRead

LEMMA CancelKeeps ==
    ASSUME OverlapInv, CancelInv, NEW t \in Tx, Acts(t), Watch PROVE CancelInv'
  <1>1. ASSUME ReadHeader(t), job[t].kind \in {"CANCEL"}
        PROVE  /\ job[t].doc \in DOMAIN heads
               /\ heads[job[t].doc].status \in {"DRAFT", "CONFIRMED"}
    <2>1. "CANCEL" \in DOMAIN AllowedFrom /\ AllowedFrom["CANCEL"] = {"DRAFT", "CONFIRMED"}
      BY DEF AllowedFrom
    <2>2. QED
      BY <1>1, <2>1 DEF ReadHeader, Admissible
  <1>2. QED
    BY <1>1, FindsKeeps DEF CancelInv

\* Where a step leaves the status of an order and who bills it alone.
Settled(o) ==
    \/ Raced(o, {"CONFIRM", "CANCEL"})
    \/ heads[o].status = "INVOICED" <=> InvoicesOf(o) # {}

LEMMA SettledKeeps ==
    ASSUME Watch, NEW o, Settled(o), InvoicesOf(o)' = InvoicesOf(o),
           heads'[o].status = heads[o].status
    PROVE  Settled(o)'
  BY RacedGrows DEF Settled

LEMMA CalmSettles ==
    ASSUME InvoicedHasInvoice, Watch, Calm PROVE InvoicedHasInvoice'
  <1>1. ASSUME NEW o \in Orders' PROVE Settled(o)'
    <2>1. o \in Orders /\ InvoicesOf(o)' = InvoicesOf(o)
          /\ heads'[o].status = heads[o].status
      BY <1>1 DEF Calm, InvoicesOf
    <2>2. QED
      BY <2>1, SettledKeeps DEF InvoicedHasInvoice, Settled
  <1>2. QED
    BY <1>1 DEF InvoicedHasInvoice, Settled

\* A new order is a DRAFT, and no invoice is of it yet.
LEMMA NewOrderSettles ==
    ASSUME OverlapInv, InvoicedHasInvoice, Watch, invoices' = invoices,
           NEW h, h.status = "DRAFT",
           DOMAIN heads' = DOMAIN heads \cup {nextDoc}, heads'[nextDoc] = h,
           \A d \in DOMAIN heads \ {Quote} : heads'[d] = heads[d]
    PROVE  InvoicedHasInvoice'
  <1>1. nextDoc \notin DOMAIN heads /\ nextDoc # 0
    BY DEF OverlapInv, SalesInv, ShapeInv
  <1>2. InvoicesOf(nextDoc) = {}
    BY <1>1 DEF InvoicesOf, OverlapInv, SalesInv, BillInv
  <1>3. ASSUME NEW o \in Orders' PROVE Settled(o)'
    <2>1. InvoicesOf(o)' = InvoicesOf(o)
      BY DEF InvoicesOf
    <2>2. CASE o \in Orders
      BY <2>1, <2>2, SettledKeeps DEF InvoicedHasInvoice, Settled, Orders
    <2>3. CASE o = nextDoc
      <3>1. heads'[o].status = "DRAFT" /\ InvoicesOf(o)' = {}
        BY <1>2, <2>1, <2>3
      <3>2. QED
        BY <3>1 DEF Settled
    <2>4. QED
      BY <1>3, <2>2, <2>3 DEF Orders
  <1>4. QED
    BY <1>3 DEF InvoicedHasInvoice, Settled

LEMMA CreatesSettle ==
    ASSUME OverlapInv, InvoicedHasInvoice, Watch, CreateQuotation \/ CreateOrder
    PROVE  InvoicedHasInvoice'
  <1>1. PICK h : heads' = With(heads, nextDoc, h) /\ h.status = "DRAFT"
    <2>1. \A c, ls, n : NewHeader(c, ls, 0, n).status = "DRAFT"
      BY DEF NewHeader
    <2>2. QED
      BY <2>1 DEF CreateQuotation, CreateOrder
  <1>2. nextDoc \notin DOMAIN heads /\ invoices' = invoices
    BY DEF CreateQuotation, CreateOrder, OverlapInv, SalesInv, ShapeInv
  <1>3. /\ DOMAIN heads' = DOMAIN heads \cup {nextDoc} /\ heads'[nextDoc] = h
        /\ \A d \in DOMAIN heads \ {Quote} : heads'[d] = heads[d]
    BY <1>1, <1>2 DEF With
  <1>4. QED
    BY <1>1, <1>2, <1>3, NewOrderSettles

LEMMA ConvertSettles ==
    ASSUME OverlapInv, InvoicedHasInvoice, NEW t \in Tx, MarkConverted(t), Watch
    PROVE  InvoicedHasInvoice'
  <1>1. PICK h, m : heads' = With([heads EXCEPT ![Quote] = m], nextDoc, h)
                    /\ h.status = "DRAFT"
    <2> DEFINE h == NewHeader(local[t].customer, local[t].lines, Quote, job[t].number)
               m == Marked(nextDoc)
    <2>1. heads' = With([heads EXCEPT ![Quote] = m], nextDoc, h)
      BY DEF MarkConverted
    <2>2. h.status = "DRAFT"
      BY DEF NewHeader
    <2> HIDE DEF h, m
    <2>3. QED
      BY <2>1, <2>2
  <1>2. nextDoc \notin DOMAIN heads /\ invoices' = invoices
    BY DEF MarkConverted, OverlapInv, SalesInv, ShapeInv
  <1>3. /\ DOMAIN heads' = DOMAIN heads \cup {nextDoc} /\ heads'[nextDoc] = h
        /\ \A d \in DOMAIN heads \ {Quote} : heads'[d] = heads[d]
    BY <1>1, <1>2 DEF With
  <1>4. QED
    BY <1>1, <1>2, <1>3, NewOrderSettles

\* A transition on a fresh read finds an order without an invoice and leaves
\* it so.
LEMMA SetStatusSettles ==
    ASSUME StatusInv, NEW t \in Tx, SetStatus(t), Watch
    PROVE  InvoicedHasInvoice'
  <1> DEFINE d == job[t].doc
             k == job[t].kind
  <1>0. PICK h : h = [heads[d] EXCEPT !.status = To[k]]
    OBVIOUS
  <1>1. /\ pc[t] = "status" /\ pc'[t] = "idle"
        /\ d \in DOMAIN heads
        /\ heads' = [heads EXCEPT ![d] = h]
        /\ invoices' = invoices
    BY <1>0 DEF SetStatus, End, Goto, StatusInv, OverlapInv, SalesInv, ShapeInv
  <1>2. job[t] \in Job /\ k \in Transition
    BY <1>1, JobFacts DEF StatusInv, OverlapInv, SalesInv, PlaceInv, Places, Kind, OfQuote,
                          OfOrder, Transition
  <1>3. d # Quote => k \in {"CONFIRM", "CANCEL"}
    BY <1>2, JobAssumption DEF OfQuote, Transition
  <1>4. h.status = To[k]
    BY <1>0, <1>1 DEF StatusInv, OverlapInv, SalesInv, ShapeInv, Fields
  <1>5. DOMAIN heads' = DOMAIN heads /\ heads'[d] = h
        /\ \A x \in DOMAIN heads \ {d} : heads'[x] = heads[x]
    BY <1>1
  <1>6. ASSUME NEW o \in Orders' PROVE Settled(o)'
    <2>1. InvoicesOf(o)' = InvoicesOf(o) /\ o \in Orders /\ Settled(o)
      BY <1>1, <1>5 DEF InvoicesOf, Orders, StatusInv, InvoicedHasInvoice, Settled
    <2>2. CASE o # d \/ heads' = heads
      BY <1>5, <2>1, <2>2, SettledKeeps DEF Orders
    <2>3. CASE o = d /\ heads' # heads /\ t \in stale
      <3>1. <<d, k>> \in raced'
        BY <1>1, <2>3, LateWrite DEF Commits
      <3>2. QED
        BY <1>3, <2>1, <2>3, <3>1 DEF Raced, Settled, Orders
    <2>4. CASE o = d /\ t \notin stale
      <3>1. k \in {"CONFIRM", "CANCEL"} /\ HasRead(t)
        BY <1>1, <1>3, <2>1, <2>4 DEF Orders, HasRead
      <3>2. heads[o].status \in {"DRAFT", "CONFIRMED"}
        BY <2>4, <3>1 DEF StatusInv, OverlapInv, FreshInv, CancelInv, Finds
      <3>3. heads'[o].status # "INVOICED"
        BY <1>4, <1>5, <2>4, <3>1 DEF To
      <3>4. QED
        BY <2>1, <3>2, <3>3, RacedGrows DEF Settled
    <2>5. QED
      BY <2>2, <2>3, <2>4
  <1>7. QED
    BY <1>6 DEF InvoicedHasInvoice, Settled

\* An invoice, late or not, sets the status and takes a number nobody has.
LEMMA CloseSettles ==
    ASSUME StatusInv, NEW t \in Tx, Close(t), Watch
    PROVE  InvoicedHasInvoice'
  <1> DEFINE d == job[t].doc
             f == job[t].number
  <1>0. PICK h : h = [heads[d] EXCEPT !.status = "INVOICED"]
    OBVIOUS
  <1>1. /\ pc[t] = "close"
        /\ heads' = IF d = 0 THEN heads ELSE [heads EXCEPT ![d] = h]
    BY <1>0 DEF Close, CloseWith
  <1>2. PICK v : invoices' = With(invoices, f, v) /\ v.order = d
    BY DEF Close, CloseWith
  <1>3. f \notin DOMAIN invoices
    BY <1>1 DEF StatusInv, NumberInv
  <1>4. d \in DOMAIN heads \cup {0} /\ 0 \notin DOMAIN heads
    BY <1>1 DEF StatusInv, OverlapInv, SalesInv, HoldInv, ShapeInv
  <1>5. d \in DOMAIN heads => h.status = "INVOICED"
    BY <1>0 DEF StatusInv, OverlapInv, SalesInv, ShapeInv, Fields
  <1>6. /\ DOMAIN heads' = DOMAIN heads
        /\ d # 0 => heads'[d] = h
        /\ \A x \in DOMAIN heads \ {d} : heads'[x] = heads[x]
    BY <1>1, <1>4
  <1>7. /\ DOMAIN invoices' = DOMAIN invoices \cup {f} /\ invoices'[f].order = d
        /\ \A n \in DOMAIN invoices : invoices'[n] = invoices[n]
    BY <1>2, <1>3 DEF With
  <1>8. ASSUME NEW o \in Orders' PROVE Settled(o)'
    <2>1. o \in Orders /\ o # 0 /\ Settled(o)
      BY <1>4, <1>6 DEF Orders, StatusInv, InvoicedHasInvoice, Settled
    <2>2. CASE o = d
      <3>1. heads'[o].status = "INVOICED"
        BY <1>5, <1>6, <2>1, <2>2 DEF Orders
      <3>2. f \in InvoicesOf(o)'
        BY <1>7, <2>2 DEF InvoicesOf
      <3>3. QED
        BY <3>1, <3>2 DEF Settled
    <2>3. CASE o # d
      <3>1. InvoicesOf(o)' = InvoicesOf(o)
        BY <1>3, <1>7, <2>3 DEF InvoicesOf
      <3>2. heads'[o].status = heads[o].status
        BY <1>6, <2>1, <2>3 DEF Orders
      <3>3. QED
        BY <2>1, <3>1, <3>2, SettledKeeps
    <2>4. QED
      BY <2>2, <2>3
  <1>9. QED
    BY <1>8 DEF InvoicedHasInvoice, Settled

LEMMA StatusInit == HInit => StatusInv
  <1>1. HInit => NumberInv /\ CancelInv /\ InvoicedHasInvoice
    BY DEF HInit, Init, NumberInv, CancelInv, Finds, HasRead, InvoicedHasInvoice,
           Orders, NoRows
  <1>2. QED
    BY <1>1, OverlapInit DEF StatusInv

LEMMA StatusStep == StatusInv /\ [HNext]_hvars => StatusInv'
  <1> SUFFICES ASSUME StatusInv, [HNext]_hvars PROVE StatusInv'
    OBVIOUS
  <1>0. OverlapInv'
    BY OverlapStep DEF StatusInv
  <1>1. CASE UNCHANGED hvars
    <2>1. UNCHANGED <<heads, invoices, pc, job, stale, raced>>
      BY <1>1 DEF hvars, vars, txVars
    <2>2. QED
      BY <1>0, <2>1 DEF StatusInv, NumberInv, CancelInv, Finds, HasRead, InvoicedHasInvoice,
                        Orders, Raced, InvoicesOf
  <1>2. CASE HCreate
    <2>1. (CreateQuotation \/ CreateOrder) /\ Watch
      BY <1>2 DEF HCreate
    <2>2. UNCHANGED <<pc, job, invoices>>
      BY <2>1 DEF CreateQuotation, CreateOrder, txVars
    <2>3. NumberInv'
      BY <2>2 DEF StatusInv, NumberInv
    <2>5. CancelInv'
      BY <2>1, FindsWhenCreated DEF StatusInv, CancelInv
    <2>6. QED
      BY <1>0, <2>1, <2>3, <2>5, CreatesSettle DEF StatusInv
  <1>3. ASSUME NEW t \in Tx, Acts(t), Watch PROVE StatusInv'
    <2>1. NumberInv' /\ CancelInv'
      BY <1>3, NumberKeeps, CancelKeeps DEF StatusInv
    <2>2. CASE UNCHANGED <<heads, invoices>>
      BY <1>0, <1>3, <2>1, <2>2, CalmSettles DEF StatusInv, Calm, Orders
    <2>3. CASE Save(t) \/ Delete(t) \/ Void(t)
      BY <1>0, <1>3, <2>1, <2>3, SaveIsCalm, DeleteIsCalm, VoidIsCalm, CalmSettles
         DEF StatusInv
    <2>4. CASE SetStatus(t) \/ MarkConverted(t) \/ Close(t)
      BY <1>0, <1>3, <2>1, <2>4, SetStatusSettles, ConvertSettles, CloseSettles
         DEF StatusInv
    <2>5. \/ UNCHANGED <<heads, invoices>>
          \/ Save(t) \/ Delete(t) \/ Void(t)
          \/ SetStatus(t) \/ MarkConverted(t) \/ Close(t)
      BY <1>3 DEF Acts, Step, Begin, Interrupt, Rollback, ReadHeader,
             ReadLinesToUpdate, ReadLinesToConvert, Refuse, StartClear,
             ClearLines, InsertOrder, Issue, Abort
    <2>6. QED
      BY <2>2, <2>3, <2>4, <2>5
  <1>4. QED
    BY <1>1, <1>2, <1>3 DEF HNext, HBegin, HStep, Acts

\* An order is INVOICED and has no invoice, or has one and is not, only if a
\* confirmation or a cancellation of it wrote on a stale read.
THEOREM InvoicedMeansBilled == HSpec => []InvoicedHasInvoice
  <1>1. StatusInv => InvoicedHasInvoice
    BY DEF StatusInv
  <1>2. QED
    BY <1>1, StatusInit, StatusStep, PTL DEF HSpec

-----------------------------------------------------------------------------
(* Documents are frozen once they are no longer DRAFT or SENT *)

\* An edit or a deletion on a fresh read finds an editable document.
EditInv == Finds({"UPDATE", "REMOVE"}, {"DRAFT", "SENT"})

LocalFields == {"customer", "total", "lines", "targets", "cleared"}
Marks(t) == local[t].targets \cup local[t].cleared

\* Batches are numbered by the sequence; those an edit saw or deleted are of
\* its document as long as they are there.
BatchInv ==
    /\ nextBatch \in Nat \ {0}
    /\ \A b \in DOMAIN batches : b \in Nat /\ b < nextBatch
    /\ DOMAIN local = Tx
    /\ \A t \in Tx :
          /\ DOMAIN local[t] = LocalFields
          /\ pc[t] = "idle" => Marks(t) = {}
          /\ \A b \in Marks(t) :
                /\ b \in Nat /\ b < nextBatch
                /\ b \in DOMAIN batches => batches[b].doc = job[t].doc

FrozenInv == OverlapInv /\ EditInv /\ BatchInv

LEMMA EditKeeps ==
    ASSUME OverlapInv, EditInv, NEW t \in Tx, Acts(t), Watch PROVE EditInv'
  <1>1. ASSUME ReadHeader(t), job[t].kind \in {"UPDATE", "REMOVE"}
        PROVE  /\ job[t].doc \in DOMAIN heads
               /\ heads[job[t].doc].status \in {"DRAFT", "SENT"}
    BY <1>1 DEF ReadHeader, Admissible, Editable
  <1>2. QED
    BY <1>1, FindsKeeps DEF EditInv

\* Rows stay as they are or go; at most one comes, under the next id.
Adds ==
    /\ nextBatch' \in {nextBatch, nextBatch + 1}
    /\ \A b \in DOMAIN batches' :
          \/ b \in DOMAIN batches /\ batches'[b] = batches[b]
          \/ b = nextBatch /\ nextBatch' = nextBatch + 1

LEMMA ActAdds == ASSUME NEW t \in Tx, Acts(t) PROVE Adds
  <1>1. CASE UNCHANGED <<batches, nextBatch>>
    BY <1>1 DEF Adds
  <1>2. CASE Save(t)
    BY <1>2 DEF Save, SaveAs, With, Without, Adds
  <1>3. CASE Delete(t)
    BY <1>3 DEF Delete, DeleteIf, Without, Adds
  <1>4. CASE MarkConverted(t)
    BY <1>4 DEF MarkConverted, With, Adds
  <1>5. QED
    BY <1>1, <1>2, <1>3, <1>4 DEF Acts, Step, Begin, Interrupt, Rollback, ReadHeader,
           ReadLinesToUpdate, ReadLinesToConvert, Refuse, StartClear, ClearLines, SetStatus,
           InsertOrder, Issue, Close, CloseWith, Void, VoidAs, Abort

\* What a step does to the batches its request has marked.
LEMMA ActMarks ==
    ASSUME SalesInv, BatchInv, NEW t \in Tx, Acts(t)
    PROVE  /\ \A u \in Tx \ {t} : local'[u] = local[u]
           /\ DOMAIN local' = Tx /\ DOMAIN local'[t] = LocalFields
           /\ \/ Marks(t)' = {}
              \/ /\ job'[t] = job[t] /\ pc'[t] # "idle"
                 /\ Marks(t)' \subseteq Marks(t) \cup BatchesOf(job[t].doc)
  <1>1. /\ DOMAIN local = Tx /\ DOMAIN local[t] = LocalFields
        /\ pc \in [Tx -> Active \cup {"idle"}] /\ DOMAIN job = Tx
    BY DEF BatchInv, SalesInv, ShapeInv
  <1>2. CASE End(t)
    <2>1. local' = [local EXCEPT ![t] = NoLocal]
      BY <1>2 DEF End
    <2>2. QED
      BY <1>1, <2>1 DEF Marks, NoLocal, LocalFields
  <1>3. CASE Begin(t)
    BY <1>1, <1>3 DEF Begin, Marks, BatchInv
  <1>4. ASSUME ~End(t), ~Begin(t)
        PROVE  /\ job' = job /\ pc'[t] # "idle"
               /\ \/ ReadHeader(t) \/ ReadLinesToUpdate(t) \/ ReadLinesToConvert(t)
                  \/ StartClear(t) \/ ClearLines(t) \/ InsertOrder(t) \/ Issue(t)
    <2>1. \/ ReadHeader(t) \/ ReadLinesToUpdate(t) \/ ReadLinesToConvert(t)
          \/ StartClear(t) \/ ClearLines(t) \/ InsertOrder(t) \/ Issue(t)
      BY <1>4 DEF Acts, Step, Refuse, Save, SaveAs, SetStatus, Delete, DeleteIf,
             MarkConverted, Close, CloseWith, Void, VoidAs, Abort, Interrupt, Rollback
    <2>2. job' = job
      BY <2>1 DEF ReadHeader, ReadLinesToUpdate, ReadLinesToConvert, StartClear,
             ClearLines, InsertOrder, Issue
    <2>3. pc'[t] # "idle"
      <3>1. CASE ReadHeader(t)
        <4>1. pc[t] = "read" /\ job[t].kind \in Kind
          BY <3>1, JobFacts DEF ReadHeader, SalesInv, PlaceInv
        <4>2. \/ job[t].kind \in {"UPDATE", "CONVERT", "REMOVE", "INVOICE", "VOID"}
              \/ job[t].kind \in DOMAIN To
          BY <4>1, TransitionsLeaveDraft DEF Kind, OfQuote, OfOrder, Transition
        <4>3. QED
          BY <1>1, <3>1, <4>2 DEF ReadHeader, Goto
      <3>2. CASE \/ ReadLinesToUpdate(t) \/ ReadLinesToConvert(t)
                 \/ StartClear(t) \/ ClearLines(t) \/ InsertOrder(t) \/ Issue(t)
        BY <1>1, <3>2 DEF ReadLinesToUpdate, ReadLinesToConvert, StartClear, ClearLines,
               InsertOrder, Issue, Goto
      <3>3. QED
        BY <2>1, <3>1, <3>2
    <2>4. QED
      BY <2>1, <2>2, <2>3
  <1>5. CASE ~End(t) /\ ~Begin(t) /\ (ReadHeader(t) \/ InsertOrder(t) \/ Issue(t))
    <2>1. local' = local \/ local' = [local EXCEPT ![t].customer = heads[job[t].doc].customer]
      BY <1>5 DEF ReadHeader, InsertOrder, Issue
    <2>2. QED
      BY <1>1, <1>4, <1>5, <2>1 DEF Marks, LocalFields
  <1>6. CASE ~End(t) /\ ~Begin(t) /\ ReadLinesToUpdate(t)
    BY <1>1, <1>4, <1>6 DEF ReadLinesToUpdate, Marks, LocalFields
  <1>7. CASE ~End(t) /\ ~Begin(t) /\ ReadLinesToConvert(t)
    BY <1>1, <1>4, <1>7 DEF ReadLinesToConvert, Marks, LocalFields
  <1>8. CASE ~End(t) /\ ~Begin(t) /\ StartClear(t)
    BY <1>1, <1>4, <1>8 DEF StartClear, Marks, LocalFields
  <1>9. CASE ~End(t) /\ ~Begin(t) /\ ClearLines(t)
    BY <1>1, <1>4, <1>9 DEF ClearLines, Marks, LocalFields
  <1>10. QED
    BY <1>2, <1>3, <1>4, <1>5, <1>6, <1>7, <1>8, <1>9

LEMMA BatchKeeps ==
    ASSUME SalesInv, BatchInv, NEW t \in Tx, Acts(t) PROVE BatchInv'
  <1>1. PICK w : /\ pc' = [pc EXCEPT ![t] = w]
                 /\ \/ job' = job
                    \/ w = "idle" /\ job' = [job EXCEPT ![t] = None]
                    \/ pc[t] = "idle"
                       /\ \E j \in Job : job' = [job EXCEPT ![t] = j]
    BY ActFrame
  <1>2. /\ pc \in [Tx -> Active \cup {"idle"}] /\ DOMAIN job = Tx
        /\ nextBatch \in Nat \ {0} /\ \A b \in DOMAIN batches : b \in Nat /\ b < nextBatch
    BY DEF SalesInv, ShapeInv, BatchInv
  <1>3. Adds /\ nextBatch' \in Nat \ {0} /\ nextBatch' >= nextBatch
    BY <1>2, ActAdds DEF Adds
  <1>4. \A b \in DOMAIN batches' : b \in Nat /\ b < nextBatch'
    BY <1>2, <1>3 DEF Adds
  <1>5. ASSUME NEW b, b \in Nat, b < nextBatch, NEW d,
               b \in DOMAIN batches => batches[b].doc = d
        PROVE  /\ b < nextBatch'
               /\ b \in DOMAIN batches' => batches'[b].doc = d
    BY <1>2, <1>3, <1>5 DEF Adds
  <1>6. ASSUME NEW u \in Tx \ {t}
        PROVE  /\ DOMAIN local'[u] = LocalFields /\ (pc'[u] = "idle" => Marks(u)' = {})
               /\ \A b \in Marks(u)' :
                     /\ b \in Nat /\ b < nextBatch'
                     /\ b \in DOMAIN batches' => batches'[b].doc = job'[u].doc
    <2>1. pc'[u] = pc[u] /\ job'[u] = job[u] /\ local'[u] = local[u]
      BY <1>1, <1>2, ActMarks
    <2>2. Marks(u)' = Marks(u)
      BY <2>1 DEF Marks
    <2>3. QED
      BY <1>5, <2>1, <2>2 DEF BatchInv
  <1>7. /\ DOMAIN local'[t] = LocalFields /\ (pc'[t] = "idle" => Marks(t)' = {})
        /\ \A b \in Marks(t)' :
              /\ b \in Nat /\ b < nextBatch'
              /\ b \in DOMAIN batches' => batches'[b].doc = job'[t].doc
    <2>1. CASE Marks(t)' = {}
      BY <2>1, ActMarks
    <2>2. CASE /\ job'[t] = job[t] /\ pc'[t] # "idle"
               /\ Marks(t)' \subseteq Marks(t) \cup BatchesOf(job[t].doc)
      <3>1. ASSUME NEW b \in Marks(t)'
            PROVE  /\ b \in Nat /\ b < nextBatch
                   /\ b \in DOMAIN batches => batches[b].doc = job[t].doc
        BY <1>2, <2>2, <3>1 DEF BatchInv, BatchesOf
      <3>2. QED
        BY <1>5, <2>2, <3>1, ActMarks
    <2>3. QED
      BY <2>1, <2>2, ActMarks
  <1>8. DOMAIN local' = Tx
    BY ActMarks
  <1>9. QED
    BY <1>3, <1>4, <1>6, <1>7, <1>8 DEF BatchInv

LEMMA BatchWhenCreated ==
    ASSUME BatchInv, CreateQuotation \/ CreateOrder PROVE BatchInv'
  <1>1. /\ nextBatch' = nextBatch + 1 /\ UNCHANGED <<pc, job, local>>
        /\ \E v : batches' = With(batches, nextBatch, v)
    BY DEF CreateQuotation, CreateOrder, txVars
  <1>2. /\ DOMAIN batches' = DOMAIN batches \cup {nextBatch}
        /\ \A b \in DOMAIN batches \ {nextBatch} : batches'[b] = batches[b]
    BY <1>1 DEF With
  <1>3. \A t \in Tx : Marks(t)' = Marks(t)
    BY <1>1 DEF Marks
  <1>4. nextBatch \in Nat \ {0} /\ \A b \in DOMAIN batches : b \in Nat /\ b < nextBatch
    BY DEF BatchInv
  <1>5. \A b \in DOMAIN batches' : b \in Nat /\ b < nextBatch'
    BY <1>1, <1>2, <1>4
  <1>6. ASSUME NEW t \in Tx, NEW b \in Marks(t)'
        PROVE  /\ b \in Nat /\ b < nextBatch'
               /\ b \in DOMAIN batches' => batches'[b].doc = job'[t].doc
    <2>1. /\ b \in Nat /\ b < nextBatch
          /\ b \in DOMAIN batches => batches[b].doc = job[t].doc
      BY <1>3, <1>6 DEF BatchInv
    <2>2. b # nextBatch /\ b < nextBatch'
      BY <1>1, <1>4, <2>1
    <2>3. QED
      BY <1>1, <1>2, <2>1, <2>2
  <1>7. QED
    BY <1>1, <1>3, <1>4, <1>5, <1>6 DEF BatchInv

\* What FrozenAfterDraft says of one document.
FrozenIn(d) ==
    \/ Raced(d, {"UPDATE", "REMOVE"})'
    \/ heads[d].status \in {"DRAFT", "SENT"}
    \/ /\ d \in DOMAIN heads'
       /\ heads'[d].total = heads[d].total
       /\ BatchesOf(d)' = BatchesOf(d)

\* A batch that comes is of another document than d, one that goes too.
LEMMA BatchesStay ==
    ASSUME BatchInv, NEW d, NEW S, NEW v, v.doc # d,
           \A b \in S \cap DOMAIN batches : batches[b].doc # d,
           \/ batches' = Without(batches, S)
           \/ batches' = With(Without(batches, S), nextBatch, v)
    PROVE  BatchesOf(d)' = BatchesOf(d)
  <1>1. nextBatch \notin DOMAIN batches
    BY DEF BatchInv
  <1>2. \A b \in DOMAIN batches' :
            \/ b \in DOMAIN batches \ S /\ batches'[b] = batches[b]
            \/ b = nextBatch /\ batches'[b] = v
    BY <1>1 DEF With, Without
  <1>3. \A b \in DOMAIN batches \ S : b \in DOMAIN batches' /\ batches'[b] = batches[b]
    BY <1>1 DEF With, Without
  <1>4. QED
    BY <1>2, <1>3 DEF BatchesOf

LEMMA NewDocumentFreezes ==
    ASSUME OverlapInv, BatchInv, NEW v, v.doc = nextDoc,
           batches' = With(batches, nextBatch, v),
           NEW d \in DOMAIN heads, d \in DOMAIN heads', heads'[d].total = heads[d].total
    PROVE  FrozenIn(d)
  <1>1. d # nextDoc
    BY DEF OverlapInv, SalesInv, ShapeInv
  <1>2. nextBatch \notin DOMAIN batches
    BY DEF BatchInv
  <1>3. BatchesOf(d)' = BatchesOf(d)
    BY <1>1, <1>2 DEF BatchesOf, With
  <1>4. QED
    BY <1>3 DEF FrozenIn

\* An edit or a deletion that reaches a document past SENT read it earlier.
LEMMA LateEdit ==
    ASSUME OverlapInv, EditInv, NEW t \in Tx, Save(t) \/ Delete(t), Watch,
           NEW d, d = job[t].doc
    PROVE  \/ heads[d].status \in {"DRAFT", "SENT"}
           \/ Raced(d, {"UPDATE", "REMOVE"})'
           \/ <<heads, batches, invoices>>' = <<heads, batches, invoices>>
  <1>1. pc[t] \in {"save", "delete"} /\ pc'[t] = "idle"
    BY DEF Save, SaveAs, Delete, DeleteIf, End, Goto, OverlapInv, SalesInv, ShapeInv
  <1>2. job[t].kind \in {"UPDATE", "REMOVE"}
    BY <1>1, JobFacts DEF OverlapInv, SalesInv, PlaceInv, Places, Kind, OfQuote,
                          OfOrder, Transition
  <1>3. CASE t \in stale /\ <<heads, batches, invoices>>' # <<heads, batches, invoices>>
    <2>1. <<d, job[t].kind>> \in raced'
      BY <1>1, <1>3, LateWrite DEF Commits
    <2>2. QED
      BY <1>2, <2>1 DEF Raced
  <1>4. CASE t \notin stale
    BY <1>1, <1>2, <1>4 DEF EditInv, Finds, HasRead
  <1>5. QED
    BY <1>3, <1>4

LEMMA SaveFreezes ==
    ASSUME FrozenInv, NEW t \in Tx, Save(t), Watch, NEW d \in DOMAIN heads
    PROVE  FrozenIn(d)
  <1>1. CASE d = job[t].doc
    <2>1. CASE <<heads, batches, invoices>>' = <<heads, batches, invoices>>
      BY <1>1, <2>1 DEF FrozenIn, BatchesOf
    <2>2. \/ heads[d].status \in {"DRAFT", "SENT"}
          \/ Raced(d, {"UPDATE", "REMOVE"})'
          \/ <<heads, batches, invoices>>' = <<heads, batches, invoices>>
      BY <1>1, LateEdit DEF FrozenInv
    <2>3. QED
      BY <2>1, <2>2 DEF FrozenIn
  <1>2. CASE d # job[t].doc
    <2>1. PICK h : heads' = [heads EXCEPT ![job[t].doc] = h]
      BY DEF Save, SaveAs
    <2>2. PICK v : /\ v.doc = job[t].doc
                   /\ \/ batches' = Without(batches, local[t].cleared)
                      \/ batches' = With(Without(batches, local[t].cleared), nextBatch, v)
      BY DEF Save, SaveAs
    <2>3. \A b \in local[t].cleared \cap DOMAIN batches : batches[b].doc # d
      BY <1>2 DEF FrozenInv, BatchInv, Marks
    <2>4. BatchesOf(d)' = BatchesOf(d)
      BY <1>2, <2>2, <2>3, BatchesStay DEF FrozenInv
    <2>5. d \in DOMAIN heads' /\ heads'[d] = heads[d]
      BY <1>2, <2>1
    <2>6. QED
      BY <2>4, <2>5 DEF FrozenIn
  <1>3. QED
    BY <1>1, <1>2

LEMMA DeleteFreezes ==
    ASSUME FrozenInv, NEW t \in Tx, Delete(t), Watch, NEW d \in DOMAIN heads
    PROVE  FrozenIn(d)
  <1>1. CASE d = job[t].doc
    <2>1. CASE <<heads, batches, invoices>>' = <<heads, batches, invoices>>
      BY <1>1, <2>1 DEF FrozenIn, BatchesOf
    <2>2. \/ heads[d].status \in {"DRAFT", "SENT"}
          \/ Raced(d, {"UPDATE", "REMOVE"})'
          \/ <<heads, batches, invoices>>' = <<heads, batches, invoices>>
      BY <1>1, LateEdit DEF FrozenInv
    <2>3. QED
      BY <2>1, <2>2 DEF FrozenIn
  <1>2. CASE d # job[t].doc
    <2>1. /\ heads' = Without(heads, {job[t].doc})
          /\ batches' = Without(batches, BatchesOf(job[t].doc))
      BY DEF Delete, DeleteIf
    <2>2. BatchesOf(d)' = BatchesOf(d)
      BY <1>2, <2>1 DEF BatchesOf, Without
    <2>3. d \in DOMAIN heads' /\ heads'[d] = heads[d]
      BY <1>2, <2>1 DEF Without
    <2>4. QED
      BY <2>2, <2>3 DEF FrozenIn
  <1>3. QED
    BY <1>1, <1>2

\* Status and reference change, the totals and the lines do not.
LEMMA StatusFreezes ==
    ASSUME FrozenInv, NEW t \in Tx, SetStatus(t) \/ Close(t), NEW d \in DOMAIN heads
    PROVE  FrozenIn(d)
  <1> DEFINE c == job[t].doc
  <1>1. PICK s : \/ heads' = heads
                 \/ c \in DOMAIN heads /\ heads' = [heads EXCEPT ![c] = [heads[c] EXCEPT !.status = s]]
    <2>1. CASE SetStatus(t)
      BY <2>1 DEF SetStatus
    <2>2. CASE Close(t)
      <3>1. c = 0 \/ c \in DOMAIN heads
        BY <2>2 DEF Close, CloseWith, FrozenInv, OverlapInv, SalesInv, HoldInv
      <3>2. QED
        BY <2>2, <3>1 DEF Close, CloseWith
    <2>3. QED
      BY <2>1, <2>2
  <1>2. batches' = batches
    BY DEF SetStatus, Close, CloseWith
  <1>3. DOMAIN heads[d] = Fields
    BY DEF FrozenInv, OverlapInv, SalesInv, ShapeInv
  <1>4. d \in DOMAIN heads' /\ heads'[d].total = heads[d].total
    BY <1>1, <1>3 DEF Fields
  <1>5. QED
    BY <1>2, <1>4 DEF FrozenIn, BatchesOf

LEMMA ConvertFreezes ==
    ASSUME FrozenInv, NEW t \in Tx, MarkConverted(t), NEW d \in DOMAIN heads
    PROVE  FrozenIn(d)
  <1>1. PICK h, v : /\ v.doc = nextDoc /\ batches' = With(batches, nextBatch, v)
                    /\ heads' = With([heads EXCEPT ![Quote] = Marked(nextDoc)], nextDoc, h)
    BY DEF MarkConverted
  <1>2. nextDoc \notin DOMAIN heads /\ DOMAIN heads[d] = Fields
    BY DEF FrozenInv, OverlapInv, SalesInv, ShapeInv
  <1>3. d = Quote => Marked(nextDoc).total = heads[d].total
    BY <1>2 DEF Marked, Fields
  <1>4. d \in DOMAIN heads' /\ heads'[d].total = heads[d].total
    BY <1>1, <1>2, <1>3 DEF With
  <1>5. QED
    BY <1>1, <1>4, NewDocumentFreezes DEF FrozenInv

LEMMA CreatesFreeze ==
    ASSUME FrozenInv, CreateQuotation \/ CreateOrder, NEW d \in DOMAIN heads
    PROVE  FrozenIn(d)
  <1>1. PICK h, v : /\ v.doc = nextDoc /\ batches' = With(batches, nextBatch, v)
                    /\ heads' = With(heads, nextDoc, h)
    BY DEF CreateQuotation, CreateOrder
  <1>2. nextDoc \notin DOMAIN heads
    BY DEF FrozenInv, OverlapInv, SalesInv, ShapeInv
  <1>3. d \in DOMAIN heads' /\ heads'[d].total = heads[d].total
    BY <1>1, <1>2 DEF With
  <1>4. QED
    BY <1>1, <1>3, NewDocumentFreezes DEF FrozenInv

LEMMA FrozenInit == HInit => FrozenInv
  <1>1. HInit => EditInv
    BY DEF HInit, Init, EditInv, Finds, HasRead
  <1>2. HInit => BatchInv
    BY DEF HInit, Init, BatchInv, NoRows, Marks, NoLocal, LocalFields
  <1>3. QED
    BY <1>1, <1>2, OverlapInit DEF FrozenInv

LEMMA FrozenStep ==
    FrozenInv /\ [HNext]_hvars => FrozenInv' /\ \A d \in DOMAIN heads : FrozenIn(d)
  <1> SUFFICES ASSUME FrozenInv, [HNext]_hvars
               PROVE  FrozenInv' /\ \A d \in DOMAIN heads : FrozenIn(d)
    OBVIOUS
  <1>0. OverlapInv'
    BY OverlapStep DEF FrozenInv
  <1>1. CASE UNCHANGED hvars
    <2>1. UNCHANGED <<heads, batches, nextBatch, pc, job, local, stale>>
      BY <1>1 DEF hvars, vars, txVars
    <2>2. EditInv' /\ BatchInv'
      BY <2>1 DEF FrozenInv, EditInv, Finds, HasRead, BatchInv, Marks
    <2>3. QED
      BY <1>0, <2>1, <2>2 DEF FrozenInv, FrozenIn, BatchesOf
  <1>2. CASE HCreate
    <2>1. (CreateQuotation \/ CreateOrder) /\ Watch
      BY <1>2 DEF HCreate
    <2>2. EditInv' /\ BatchInv'
      BY <2>1, FindsWhenCreated, BatchWhenCreated DEF FrozenInv, EditInv
    <2>3. QED
      BY <1>0, <2>1, <2>2, CreatesFreeze DEF FrozenInv
  <1>3. ASSUME NEW t \in Tx, Acts(t), Watch
        PROVE  FrozenInv' /\ \A d \in DOMAIN heads : FrozenIn(d)
    <2>1. EditInv' /\ BatchInv'
      BY <1>3, EditKeeps, BatchKeeps DEF FrozenInv, OverlapInv
    <2>2. ASSUME NEW d \in DOMAIN heads PROVE FrozenIn(d)
      <3>1. CASE UNCHANGED <<heads, batches>>
        BY <3>1 DEF FrozenIn, BatchesOf
      <3>2. CASE Save(t)
        BY <1>3, <3>2, SaveFreezes
      <3>3. CASE Delete(t)
        BY <1>3, <3>3, DeleteFreezes
      <3>4. CASE SetStatus(t) \/ Close(t)
        BY <3>4, StatusFreezes
      <3>5. CASE MarkConverted(t)
        BY <3>5, ConvertFreezes
      <3>6. QED
        BY <1>3, <3>1, <3>2, <3>3, <3>4, <3>5 DEF Acts, Step, Begin, Interrupt, Rollback,
               ReadHeader, ReadLinesToUpdate, ReadLinesToConvert, Refuse, StartClear,
               ClearLines, InsertOrder, Issue, Abort, Void, VoidAs
    <2>3. QED
      BY <1>0, <2>1, <2>2 DEF FrozenInv
  <1>4. QED
    BY <1>1, <1>2, <1>3 DEF HNext, HBegin, HStep, Acts

\* Lines and total of a document that is past SENT change, or the document
\* goes, only by an edit or a deletion that wrote on a stale read.
THEOREM FrozenPastDraft == HSpec => FrozenAfterDraft
  <1>1. FrozenInv /\ [HNext]_hvars =>
            FrozenInv' /\ \A d \in DOMAIN heads :
               \/ Raced(d, {"UPDATE", "REMOVE"})'
               \/ heads[d].status \in {"DRAFT", "SENT"}
               \/ /\ d \in DOMAIN heads'
                  /\ heads'[d].total = heads[d].total
                  /\ BatchesOf(d)' = BatchesOf(d)
    BY FrozenStep DEF FrozenIn
  <1>2. QED
    BY <1>1, FrozenInit, PTL DEF HSpec, FrozenAfterDraft

-----------------------------------------------------------------------------
(* A conversion makes the order from the quotation as it stands *)

\* What a conversion on a fresh read has in its hands.
OfferInv ==
    \A t \in Tx : HasRead(t) /\ t \notin stale /\ job[t].kind = "CONVERT" =>
        /\ Quote \in DOMAIN heads /\ heads[Quote].status = "ACCEPTED"
        /\ local[t].customer = heads[Quote].customer
        /\ pc[t] \in {"insert", "mark"} => local[t].lines = LinesToConvert(Quote)

\* No request and no batch of lines is of a document still to come.
DocInv ==
    /\ \A b \in DOMAIN batches : batches[b].doc \in Nat /\ batches[b].doc < nextDoc
    /\ \A t \in Tx : pc[t] # "idle" => job[t].doc < nextDoc

MatchInv == FrozenInv /\ OfferInv /\ DocInv

\* A document with one batch has the lines of that batch.
LEMMA OneBatch == ASSUME NEW b \in Nat, NEW ls PROVE Joined([x \in {b} |-> ls]) = ls
  <1> DEFINE ids == Ascending({b})
             seqs == [i \in 1 .. 1 |-> ls]
  <1>1. Cardinality({b}) = 1
    BY FS_Singleton
  <1>2. ids \in [1 .. 1 -> {b}]
    <2>1. [i \in 1 .. 1 |-> b] \in [1 .. 1 -> {b}]
          /\ \A i, j \in 1 .. 1 : i < j => [k \in 1 .. 1 |-> b][i] < [k \in 1 .. 1 |-> b][j]
      OBVIOUS
    <2>2. QED
      BY <1>1, <2>1 DEF Ascending
  <1> HIDE DEF ids
  <1>3. [i \in DOMAIN ids |-> [x \in {b} |-> ls][ids[i]]] = seqs
    BY <1>2
  <1>4. Joined([x \in {b} |-> ls]) = FlattenSeq(seqs)
    BY <1>3 DEF Joined, ids
  <1>5. Len(seqs) = 1 /\ seqs[1] = ls
    OBVIOUS
  <1> DEFINE F(f) == f = [i \in 1 .. Len(seqs) |->
                             IF i = 1 THEN seqs[i] ELSE f[i - 1] \o seqs[i]]
  <1> HIDE DEF seqs
  <1>6. FlattenSeq(seqs) = (CHOOSE f : F(f))[Len(seqs)]
    BY <1>5 DEF FlattenSeq
  <1>7. F([i \in 1 .. 1 |-> ls])
    BY <1>5
  <1>8. F(CHOOSE f : F(f))
    <2> HIDE DEF F
    <2>1. QED
      BY <1>7
  <1>9. (CHOOSE f : F(f))[1] = ls
    <2> DEFINE g == CHOOSE f : F(f)
    <2>1. F(g)
      BY <1>8
    <2> HIDE DEF g
    <2>2. g[1] = ls
      BY <1>5, <2>1
    <2>3. QED
      BY <2>2 DEF g
  <1>10. QED
    BY <1>4, <1>5, <1>6, <1>9

LEMMA DocKeeps ==
    ASSUME SalesInv, DocInv, NEW t \in Tx, Acts(t) PROVE DocInv'
  <1>1. PICK w : /\ pc' = [pc EXCEPT ![t] = w]
                 /\ \/ job' = job
                    \/ w = "idle" /\ job' = [job EXCEPT ![t] = None]
                    \/ pc[t] = "idle"
                       /\ \E j \in Job : job' = [job EXCEPT ![t] = j]
    BY ActFrame
  <1>2. pc \in [Tx -> Active \cup {"idle"}] /\ DOMAIN job = Tx /\ nextDoc \in Nat \ {0}
    BY DEF SalesInv, ShapeInv
  <1>3. nextDoc' \in {nextDoc, nextDoc + 1}
    BY DEF Acts, Begin, Step, Interrupt, Rollback, ReadHeader, ReadLinesToUpdate,
       ReadLinesToConvert, Refuse, StartClear, ClearLines, Save, SaveAs, SetStatus, Delete,
       DeleteIf, InsertOrder, MarkConverted, Issue, Close, CloseWith, Void, VoidAs, Abort
  <1>4. ASSUME NEW u \in Tx, pc'[u] # "idle" PROVE job'[u].doc \in Nat /\ job'[u].doc < nextDoc'
    <2>1. CASE pc[u] = "idle"
      <3>1. u = t /\ ~End(t)
        BY <1>1, <1>2, <1>4, <2>1 DEF End, Goto
      <3>2. Begin(t)
        BY <2>1, <3>1 DEF Acts, Step, Interrupt, ReadHeader, ReadLinesToUpdate,
           ReadLinesToConvert, Refuse, Rollback, StartClear, ClearLines, Save, SaveAs,
           SetStatus, Delete, DeleteIf, InsertOrder, MarkConverted, Issue, Close,
           CloseWith, Void, VoidAs, Abort
      <3>3. PICK j \in Job : j.doc < nextDoc /\ job' = [job EXCEPT ![t] = j]
        BY <3>2 DEF Begin
      <3>4. QED
        BY <1>2, <1>3, <3>1, <3>3, JobFacts
    <2>2. CASE pc[u] # "idle"
      <3>1. job'[u] = job[u]
        BY <1>1, <1>2, <1>4, <2>2
      <3>2. job[u].doc \in Nat /\ job[u].doc < nextDoc
        BY <2>2, JobFacts DEF SalesInv, PlaceInv, DocInv
      <3>3. QED
        BY <1>2, <1>3, <3>1, <3>2
    <2>3. QED
      BY <2>1, <2>2
  <1>5. ASSUME NEW b \in DOMAIN batches'
        PROVE  batches'[b].doc \in Nat /\ batches'[b].doc < nextDoc'
    <2>1. CASE b \in DOMAIN batches /\ batches'[b] = batches[b]
      BY <1>2, <1>3, <2>1 DEF DocInv
    <2>2. CASE Save(t)
      <3>1. job[t].doc \in Nat /\ job[t].doc < nextDoc /\ nextDoc' = nextDoc
        BY <2>2, JobFacts DEF Save, SaveAs, SalesInv, PlaceInv, DocInv
      <3>2. \/ b \in DOMAIN batches /\ batches'[b] = batches[b]
            \/ batches'[b].doc = job[t].doc
        BY <2>2 DEF Save, SaveAs, With, Without
      <3>3. QED
        BY <2>1, <3>1, <3>2
    <2>3. CASE MarkConverted(t)
      <3>1. /\ nextDoc' = nextDoc + 1
            /\ \/ b \in DOMAIN batches /\ batches'[b] = batches[b]
               \/ batches'[b].doc = nextDoc
        BY <2>3 DEF MarkConverted, With
      <3>2. QED
        BY <1>2, <2>1, <3>1
    <2>4. CASE Delete(t)
      BY <2>1, <2>4 DEF Delete, DeleteIf, Without
    <2>5. CASE batches' = batches
      BY <2>1, <2>5
    <2>6. QED
      BY <2>2, <2>3, <2>4, <2>5 DEF Acts, Step, Begin, Interrupt, Rollback, ReadHeader,
         ReadLinesToUpdate, ReadLinesToConvert, Refuse, StartClear, ClearLines, SetStatus,
         InsertOrder, Issue, Close, CloseWith, Void, VoidAs, Abort
  <1>6. QED
    BY <1>4, <1>5 DEF DocInv

LEMMA DocWhenCreated ==
    ASSUME SalesInv, DocInv, CreateQuotation \/ CreateOrder PROVE DocInv'
  <1>1. /\ nextDoc' = nextDoc + 1 /\ UNCHANGED <<pc, job>>
        /\ \E v : v.doc = nextDoc /\ batches' = With(batches, nextBatch, v)
    BY DEF CreateQuotation, CreateOrder, txVars
  <1>2. nextDoc \in Nat \ {0}
    BY DEF SalesInv, ShapeInv
  <1>3. \A t \in Tx : pc[t] # "idle" => job[t].doc \in Nat
    BY JobFacts DEF SalesInv, PlaceInv
  <1>4. \A b \in DOMAIN batches' :
            \/ b \in DOMAIN batches /\ batches'[b] = batches[b]
            \/ batches'[b].doc = nextDoc
    BY <1>1 DEF With
  <1>5. QED
    BY <1>1, <1>2, <1>3, <1>4 DEF DocInv

\* A step that does not touch the quotation leaves its lines.
LEMMA LinesStay ==
    ASSUME BatchInv, Adds, NEW d, ~Touches(d) PROVE LinesOf(d)' = LinesOf(d)
  <1>1. BatchesOf(d)' = BatchesOf(d)
    BY DEF Touches, BatchesOf
  <1>2. \A b \in BatchesOf(d) : batches'[b] = batches[b]
    BY <1>1 DEF BatchInv, BatchesOf, Adds
  <1>3. [b \in BatchesOf(d) |-> batches[b].lines]' = [b \in BatchesOf(d) |-> batches[b].lines]
    BY <1>1, <1>2
  <1>4. QED
    BY <1>3 DEF LinesOf

LEMMA OfferStays ==
    ASSUME MatchInv, Adds, Watch, NEW u \in Tx, HasRead(u), u \notin stale',
           pc'[u] # "idle", job[u].kind = "CONVERT"
    PROVE  /\ u \notin stale
           /\ Quote \in DOMAIN heads' /\ heads'[Quote] = heads[Quote]
           /\ heads[Quote].status = "ACCEPTED"
           /\ LinesToConvert(Quote)' = LinesToConvert(Quote)
  <1>1. job[u].doc = Quote
    BY JobFacts DEF HasRead, MatchInv, FrozenInv, OverlapInv, SalesInv, PlaceInv
  <1>2. u \notin stale /\ ~Touches(Quote)
    BY <1>1 DEF Watch
  <1>3. Quote \in DOMAIN heads /\ heads[Quote].status = "ACCEPTED"
    BY <1>2 DEF MatchInv, OfferInv
  <1>4. LinesOf(Quote)' = LinesOf(Quote)
    BY <1>2, LinesStay DEF MatchInv, FrozenInv
  <1>5. LinesToConvert(Quote)' = LinesToConvert(Quote)
    BY <1>4 DEF LinesToConvert
  <1>6. QED
    BY <1>1, <1>2, <1>3, <1>5, StillFresh

LEMMA OfferKeeps ==
    ASSUME MatchInv, NEW t \in Tx, Acts(t), Watch PROVE OfferInv'
  <1>1. PICK w : /\ pc' = [pc EXCEPT ![t] = w]
                 /\ \/ job' = job
                    \/ w = "idle" /\ job' = [job EXCEPT ![t] = None]
                    \/ pc[t] = "idle"
                       /\ \E j \in Job : job' = [job EXCEPT ![t] = j]
    BY ActFrame
  <1>2. /\ pc \in [Tx -> Active \cup {"idle"}] /\ DOMAIN job = Tx
        /\ DOMAIN local = Tx /\ DOMAIN local[t] = LocalFields /\ SalesInv /\ BatchInv
    BY DEF MatchInv, FrozenInv, OverlapInv, SalesInv, ShapeInv, BatchInv
  <1>3. Adds
    BY ActAdds
  <1>4. ASSUME NEW u \in Tx, HasRead(u)', u \notin stale', job'[u].kind = "CONVERT"
        PROVE  /\ Quote \in DOMAIN heads' /\ heads'[Quote].status = "ACCEPTED"
               /\ local'[u].customer = heads'[Quote].customer
               /\ pc'[u] \in {"insert", "mark"} => local'[u].lines = LinesToConvert(Quote)'
    <2>0. pc'[u] # "idle"
      BY <1>4 DEF HasRead
    <2>1. CASE HasRead(u) /\ u # t
      <3>1. job'[u] = job[u] /\ pc'[u] = pc[u] /\ local'[u] = local[u]
        BY <1>1, <1>2, <2>1, ActMarks
      <3>2. QED
        BY <1>3, <1>4, <2>0, <2>1, <3>1, OfferStays DEF MatchInv, OfferInv
    <2>2. CASE HasRead(u) /\ u = t
      <3>1. job'[t] = job[t] /\ pc[t] # "idle" /\ ~End(t)
        BY <1>1, <1>2, <1>4, <2>0, <2>2 DEF HasRead, End, Goto
      <3>2. job[t] \in Job /\ pc[t] \in Places("CONVERT") /\ pc[t] # "read"
        BY <1>2, <1>4, <2>2, <3>1 DEF SalesInv, PlaceInv, HasRead
      <3>3. pc[t] \in {"lines", "insert", "mark"}
        BY <3>2 DEF Places, Transition
      <3>4. ReadLinesToConvert(t) \/ InsertOrder(t)
        BY <1>4, <2>2, <3>1, <3>3 DEF Acts, Begin, Step, ReadHeader, ReadLinesToUpdate, Refuse,
           StartClear, ClearLines, Save, SaveAs, SetStatus, Delete, DeleteIf,
           MarkConverted, Issue, Close, CloseWith, Void, VoidAs, Abort, Interrupt, Rollback
      <3>5. CASE ReadLinesToConvert(t)
        <4>1. /\ local' = [local EXCEPT ![t].lines = LinesToConvert(Quote)]
          BY <3>5 DEF ReadLinesToConvert
        <4>2. /\ local'[t].customer = local[t].customer
              /\ local'[t].lines = LinesToConvert(Quote)
          BY <1>2, <4>1 DEF LocalFields
        <4>3. QED
          BY <1>3, <1>4, <2>0, <2>2, <3>1, <4>2, OfferStays DEF MatchInv, OfferInv
      <3>6. CASE InsertOrder(t)
        <4>1. local' = local /\ pc[t] = "insert"
          BY <3>6 DEF InsertOrder
        <4>2. QED
          BY <1>3, <1>4, <2>0, <2>2, <3>1, <4>1, OfferStays DEF MatchInv, OfferInv
      <3>7. QED
        BY <3>4, <3>5, <3>6
    <2>3. CASE ~HasRead(u)
      <3>1. u = t /\ pc[t] \in {"idle", "read"} /\ pc'[t] \notin {"idle", "read"}
        BY <1>1, <1>2, <1>4, <2>3 DEF HasRead
      <3>2. ~End(t)
        BY <1>2, <3>1 DEF End, Goto
      <3>3. ~Begin(t)
        <4>1. ASSUME Begin(t) PROVE job'[t].kind = "INVOICE"
          BY <1>2, <3>1, <4>1 DEF Begin, Goto
        <4>2. QED
          BY <1>4, <3>1, <4>1
      <3>4. ReadHeader(t)
        BY <3>1, <3>2, <3>3 DEF Acts, Step, ReadLinesToUpdate, ReadLinesToConvert,
               Refuse, StartClear, ClearLines, Save, SaveAs, SetStatus, Delete,
               DeleteIf, InsertOrder, MarkConverted, Issue, Close, CloseWith,
               Void, VoidAs, Abort, Interrupt, Rollback
      <3>5. /\ job[t].kind = "CONVERT" /\ job' = job /\ heads' = heads
            /\ pc'[t] = "lines" /\ Admissible(t) /\ pc[t] = "read"
            /\ local' = [local EXCEPT ![t].customer = heads[job[t].doc].customer]
        <4>1. /\ job' = job /\ heads' = heads /\ Admissible(t) /\ pc[t] = "read"
          BY <3>4 DEF ReadHeader
        <4>2. job[t].kind = "CONVERT"
          BY <1>4, <3>1, <4>1
        <4>3. local' = [local EXCEPT ![t].customer = heads[job[t].doc].customer]
          BY <3>4, <4>2 DEF ReadHeader
        <4>4. pc'[t] = "lines"
          <5>1. job[t].kind \notin DOMAIN To
            BY <4>2, TransitionsLeaveDraft DEF Transition
          <5>2. pc' = [pc EXCEPT ![t] = "lines"]
            BY <3>4, <4>2, <5>1 DEF ReadHeader, Goto
          <5>3. QED
            BY <1>2, <5>2
        <4>5. QED
          BY <4>1, <4>2, <4>3, <4>4
      <3>6. job[t].doc = Quote
        BY <1>2, <3>5, JobFacts DEF SalesInv, PlaceInv
      <3>7. Quote \in DOMAIN heads /\ heads[Quote].status = "ACCEPTED"
        BY <3>5, <3>6 DEF Admissible, Convertible
      <3>8. local'[t].customer = heads[Quote].customer
        BY <1>2, <3>5, <3>6 DEF LocalFields
      <3>9. QED
        BY <3>1, <3>5, <3>7, <3>8
    <2>4. QED
      BY <2>1, <2>2, <2>3
  <1>5. QED
    BY <1>4 DEF OfferInv, HasRead

LEMMA OfferWhenCreated ==
    ASSUME MatchInv, CreateQuotation \/ CreateOrder, Watch PROVE OfferInv'
  <1>1. /\ UNCHANGED <<pc, job, local>> /\ nextBatch' = nextBatch + 1
        /\ \E v : batches' = With(batches, nextBatch, v)
    BY DEF CreateQuotation, CreateOrder, txVars
  <1>2. Adds
    BY <1>1 DEF Adds, With
  <1>3. ASSUME NEW u \in Tx, HasRead(u)', u \notin stale', job'[u].kind = "CONVERT"
        PROVE  /\ Quote \in DOMAIN heads' /\ heads'[Quote].status = "ACCEPTED"
               /\ local'[u].customer = heads'[Quote].customer
               /\ pc'[u] \in {"insert", "mark"} => local'[u].lines = LinesToConvert(Quote)'
    <2>1. HasRead(u) /\ pc'[u] # "idle" /\ job[u].kind = "CONVERT"
      BY <1>1, <1>3 DEF HasRead
    <2>2. QED
      BY <1>1, <1>2, <1>3, <2>1, OfferStays DEF MatchInv, OfferInv
  <1>4. QED
    BY <1>3 DEF OfferInv, HasRead

\* What OrderMatchesQuotation says of an order that comes.
Matches(o) ==
    heads'[o].ref = Quote =>
        \/ Raced(Quote, {"CONVERT"})'
        \/ /\ heads'[o].customer = heads[Quote].customer
           /\ LinesOf(o)' = SelectSeq(LinesOf(Quote), HasProduct)
           /\ heads[Quote].status = "ACCEPTED"
           /\ heads'[Quote].ref = o

LEMMA ConvertMatches ==
    ASSUME MatchInv, NEW t \in Tx, MarkConverted(t), Watch,
           NEW o \in Orders' \ Orders
    PROVE  Matches(o)
  <1>1. /\ pc[t] = "mark" /\ job[t] \in Job /\ pc[t] \in Places(job[t].kind)
        /\ nextDoc \in Nat \ {0} /\ nextDoc \notin DOMAIN heads
        /\ pc \in [Tx -> Active \cup {"idle"}]
        /\ nextBatch \in Nat /\ nextBatch \notin DOMAIN batches
        /\ \A b \in DOMAIN batches : batches[b].doc # nextDoc
    BY DEF MarkConverted, MatchInv, FrozenInv, OverlapInv, SalesInv, ShapeInv, PlaceInv,
           BatchInv, DocInv
  <1>2. job[t].kind = "CONVERT" /\ job[t].doc = Quote
    <2>1. job[t].kind = "CONVERT"
      BY <1>1, JobFacts DEF Places, Kind, OfQuote, OfOrder, Transition
    <2>2. QED
      BY <1>1, <2>1, JobFacts
  <1>3. /\ heads' = With([heads EXCEPT ![Quote] = Marked(nextDoc)], nextDoc,
                         NewHeader(local[t].customer, local[t].lines, Quote, job[t].number))
        /\ batches' = With(batches, nextBatch, [doc |-> nextDoc, lines |-> local[t].lines])
        /\ pc' = [pc EXCEPT ![t] = "idle"]
    BY DEF MarkConverted, End, Goto
  <1>4. o = nextDoc
    BY <1>3 DEF Orders, With
  <1>5. CASE t \in stale
    <2>1. heads' # heads
      BY <1>1, <1>3 DEF With
    <2>2. Commits(t)
      BY <1>1, <1>3, <2>1 DEF Commits
    <2>3. <<Quote, "CONVERT">> \in raced'
      BY <1>2, <1>5, <2>2, LateWrite
    <2>4. QED
      BY <2>3 DEF Matches, Raced
  <1>6. CASE t \notin stale
    <2>1. /\ Quote \in DOMAIN heads /\ heads[Quote].status = "ACCEPTED"
          /\ local[t].customer = heads[Quote].customer
          /\ local[t].lines = SelectSeq(LinesOf(Quote), HasProduct)
      BY <1>1, <1>2, <1>6 DEF MatchInv, OfferInv, HasRead, LinesToConvert
    <2>2. Quote # nextDoc /\ DOMAIN heads[Quote] = Fields
      BY <1>1, <2>1 DEF MatchInv, FrozenInv, OverlapInv, SalesInv, ShapeInv
    <2>3. heads'[o].customer = heads[Quote].customer
      BY <1>3, <1>4, <2>1 DEF With, NewHeader
    <2>4. heads'[Quote].ref = o
      BY <1>3, <1>4, <2>1, <2>2 DEF With, Marked, Fields
    <2>5. LinesOf(o)' = local[t].lines
      <3>1. BatchesOf(o)' = {nextBatch}
        BY <1>1, <1>3, <1>4 DEF BatchesOf, With
      <3>2. batches'[nextBatch].lines = local[t].lines
        BY <1>3 DEF With
      <3>3. [b \in BatchesOf(o) |-> batches[b].lines]' = [b \in {nextBatch} |-> local[t].lines]
        BY <3>1, <3>2
      <3>4. QED
        BY <1>1, <3>3, OneBatch DEF LinesOf
    <2>6. QED
      BY <2>1, <2>3, <2>4, <2>5 DEF Matches
  <1>7. QED
    BY <1>5, <1>6

LEMMA MatchInit == HInit => MatchInv
  <1>1. HInit => OfferInv /\ DocInv
    BY DEF HInit, Init, OfferInv, DocInv, HasRead, NoRows
  <1>2. QED
    BY <1>1, FrozenInit DEF MatchInv

LEMMA MatchStep ==
    MatchInv /\ [HNext]_hvars => MatchInv' /\ \A o \in Orders' \ Orders : Matches(o)
  <1> SUFFICES ASSUME MatchInv, [HNext]_hvars
               PROVE  MatchInv' /\ \A o \in Orders' \ Orders : Matches(o)
    OBVIOUS
  <1>0. FrozenInv' /\ SalesInv
    BY FrozenStep DEF MatchInv, FrozenInv, OverlapInv
  <1>1. CASE UNCHANGED hvars
    <2>1. UNCHANGED <<heads, batches, nextDoc, pc, job, local, stale>>
      BY <1>1 DEF hvars, vars, txVars
    <2>2. LinesToConvert(Quote)' = LinesToConvert(Quote)
      BY <2>1 DEF LinesToConvert, LinesOf, BatchesOf
    <2>3. OfferInv' /\ DocInv'
      BY <2>1, <2>2 DEF MatchInv, OfferInv, DocInv, HasRead
    <2>4. QED
      BY <1>0, <2>1, <2>3 DEF MatchInv, Orders
  <1>2. CASE HCreate
    <2>1. (CreateQuotation \/ CreateOrder) /\ Watch
      BY <1>2 DEF HCreate
    <2>2. OfferInv' /\ DocInv'
      BY <1>0, <2>1, OfferWhenCreated, DocWhenCreated DEF MatchInv
    <2>3. ASSUME NEW o \in Orders' \ Orders PROVE heads'[o].ref = 0
      BY <2>1, <2>3 DEF CreateQuotation, CreateOrder, Orders, With, NewHeader
    <2>4. QED
      BY <1>0, <2>2, <2>3 DEF MatchInv, Matches, Quote
  <1>3. ASSUME NEW t \in Tx, Acts(t), Watch
        PROVE  MatchInv' /\ \A o \in Orders' \ Orders : Matches(o)
    <2>1. OfferInv' /\ DocInv'
      BY <1>0, <1>3, OfferKeeps, DocKeeps DEF MatchInv
    <2>2. ASSUME NEW o \in Orders' \ Orders PROVE Matches(o)
      <3>1. CASE DOMAIN heads' \subseteq DOMAIN heads
        BY <2>2, <3>1 DEF Orders
      <3>2. CASE MarkConverted(t)
        BY <1>3, <2>2, <3>2, ConvertMatches
      <3>3. CASE Save(t)
        BY <3>1, <3>3 DEF Save, SaveAs
      <3>4. CASE Delete(t)
        BY <3>1, <3>4 DEF Delete, DeleteIf, Without
      <3>5. CASE SetStatus(t) \/ Close(t)
        BY <3>1, <3>5 DEF SetStatus, Close, CloseWith
      <3>6. QED
        BY <1>3, <3>1, <3>2, <3>3, <3>4, <3>5 DEF Acts, Step, Begin, Interrupt, Rollback,
               ReadHeader, ReadLinesToUpdate, ReadLinesToConvert, Refuse, StartClear,
               ClearLines, InsertOrder, Issue, Abort, Void, VoidAs
    <2>3. QED
      BY <1>0, <2>1, <2>2 DEF MatchInv
  <1>4. QED
    BY <1>1, <1>2, <1>3 DEF HNext, HBegin, HStep, Acts

\* The order a conversion creates has the customer of the quotation and its
\* lines with a product, the quotation was ACCEPTED and now names the order,
\* unless the quotation has changed since the conversion read it.
THEOREM OrdersMatchQuotation == HSpec => OrderMatchesQuotation
  <1>1. MatchInv /\ [HNext]_hvars =>
            MatchInv' /\ \A o \in Orders' \ Orders :
               heads'[o].ref = Quote =>
                   \/ Raced(Quote, {"CONVERT"})'
                   \/ /\ heads'[o].customer = heads[Quote].customer
                      /\ LinesOf(o)' = SelectSeq(LinesOf(Quote), HasProduct)
                      /\ heads[Quote].status = "ACCEPTED"
                      /\ heads'[Quote].ref = o
    BY MatchStep DEF Matches
  <1>2. QED
    BY <1>1, MatchInit, PTL DEF HSpec, OrderMatchesQuotation
=============================================================================
