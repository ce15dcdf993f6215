-------------------------------- MODULE Sales -------------------------------
(***************************************************************************)
(* A quotation, the sales orders made from it or on their own, and the     *)
(* invoices of those orders: quotations.service.ts, sales-orders.service.ts *)
(* and invoices.service.ts run by concurrent requests on PostgreSQL at     *)
(* READ COMMITTED.                                                         *)
(*                                                                         *)
(* A request reads committed rows, decides, and writes.  The last          *)
(* statement of a transaction and its COMMIT are one step: in between only *)
(* its row lock shows, which makes others wait and nothing else.  So is a  *)
(* transaction of one statement (the two creations).                       *)
(*                                                                         *)
(* A create or update inserts all its lines at once and deleteMany deletes *)
(* all it sees, so the lines inserted together are one batch.              *)
(*                                                                         *)
(* Left out: discounts, taxes, currency (an amount is what a line adds to  *)
(* the total), branch, salesperson, dates, notes, and renumbering.  The    *)
(* stock movements of an invoice are a DOCUMENT request of module Kardex;  *)
(* their failure is one of the causes of Interrupt, and so are the checks  *)
(* of catalogs that no sales request changes.                              *)
(***************************************************************************)
EXTENDS Integers, Sequences, SequencesExt, FiniteSetsExt

CONSTANTS Tx,          \* request slots; a slot serves one request after another
          Product,
          Customer,
          OrderNumber,
          InvoiceNumber,
          Content,     \* line lists of the documents users create
          Job,         \* requests: [kind, doc, number, customer, lines]
          MaxDoc,      \* bound: no order is begun beyond this id
          MaxBatch,    \* bound: no replacement of lines begins beyond this id
          None,        \* no customer, no product, no number
          Keep         \* a field the body of an update does not bring

Line == [product : Product \cup {None}, amount : Nat]

ASSUME ContentAssumption == \A c \in Content : c \in Seq(Line) /\ c # <<>>

HasProduct(line) == line.product # None

Quote == 1     \* id of the quotation; sales orders have the later ids

AllowedFromReopening ==                                  \* faulty
    [SEND |-> {"DRAFT"}, ACCEPT |-> {"SENT", "EXPIRED"},
     REJECT |-> {"SENT", "ACCEPTED"}, EXPIRE |-> {"DRAFT", "SENT"},
     CONFIRM |-> {"DRAFT", "CANCELLED"}, CANCEL |-> {"DRAFT", "CONFIRMED"}]
\* The transitions, from which statuses and to which.
AllowedFrom ==
    [SEND |-> {"DRAFT"}, ACCEPT |-> {"SENT"},
     REJECT |-> {"SENT", "ACCEPTED"}, EXPIRE |-> {"DRAFT", "SENT"},
     CONFIRM |-> {"DRAFT"}, CANCEL |-> {"DRAFT", "CONFIRMED"}]
To == [SEND |-> "SENT", ACCEPT |-> "ACCEPTED", REJECT |-> "REJECTED",
       EXPIRE |-> "EXPIRED", CONFIRM |-> "CONFIRMED", CANCEL |-> "CANCELLED"]

OfQuote == {"SEND", "ACCEPT", "REJECT", "EXPIRE", "CONVERT"}
OfOrder == {"CONFIRM", "CANCEL", "INVOICE"}
Kind == OfQuote \cup OfOrder \cup {"UPDATE", "REMOVE", "VOID"}

\* number is the one given to a new order or invoice, or the invoice to
\* void.  doc 0 stands for no document: an invoice without an order, VOID.
\* Only a quotation may lose its customer and have lines without a product.
ASSUME JobAssumption ==
    \A j \in Job :
        /\ DOMAIN j = {"kind", "doc", "number", "customer", "lines"}
        /\ j.kind \in Kind /\ j.doc \in Nat
        /\ j.kind \in OfQuote => j.doc = Quote
        /\ j.kind \in {"CONFIRM", "CANCEL"} => j.doc > Quote
        /\ j.kind \in {"UPDATE", "REMOVE"} => j.doc >= Quote
        /\ j.kind = "CONVERT" => j.number \in OrderNumber
        /\ j.kind = "INVOICE" => j.doc # Quote /\ j.customer \in Customer
        /\ j.kind \in {"INVOICE", "VOID"} => j.number \in InvoiceNumber
        /\ j.kind = "UPDATE" =>
               /\ j.lines \in Seq(Line)
               /\ j.customer \in Customer \cup {None, Keep}
               /\ j.customer = None => j.doc = Quote
               /\ j.doc = Quote \/ SelectSeq(j.lines, HasProduct) = j.lines

VARIABLES
    heads,     \* committed headers, a function from document ids
    batches,   \* committed line batches, a function from their ids
    invoices,  \* committed invoices, a function from their numbers
    nextDoc, nextBatch,     \* sequences: never reused
    pc,        \* where each request is
    job,       \* what it asks for, None in an idle slot
    local      \* the handler's locals and the batches it deleted

txVars == <<pc, job, local>>
vars == <<heads, batches, invoices, nextDoc, nextBatch, txVars>>

QuoteStatus == {"DRAFT", "SENT", "ACCEPTED", "REJECTED", "EXPIRED", "CONVERTED"}
SoStatus == {"DRAFT", "CONFIRMED", "INVOICED", "CANCELLED"}

\* ref: the order a quotation was converted into (convertedSalesOrderId), or
\* the quotation an order comes from (quotationId); 0 for null.
Header == [status : QuoteStatus \cup SoStatus, customer : Customer \cup {None},
           total : Nat, ref : Nat, number : OrderNumber \cup {None}]
Batch == [doc : Nat, lines : Seq(Line)]
Invoice == [status : {"ISSUED", "CANCELLED"}, order : Nat, customer : Customer]
Local == [customer : Customer \cup {None}, total : Nat, lines : Seq(Line),
          targets : SUBSET Nat, cleared : SUBSET Nat]
NoLocal == [customer |-> None, total |-> 0, lines |-> <<>>,
            targets |-> {}, cleared |-> {}]
Active == {"read", "lines", "clear", "clearing", "save", "status", "delete",
           "insert", "mark", "issue", "close", "void"}

TypeOK ==
    /\ nextDoc \in Nat \ {0} /\ nextBatch \in Nat \ {0}
    /\ DOMAIN heads \subseteq 1 .. nextDoc - 1
    /\ \A d \in DOMAIN heads :
           heads[d] \in Header /\ (d # Quote => heads[d].customer # None)
    /\ DOMAIN batches \subseteq 1 .. nextBatch - 1
    /\ \A b \in DOMAIN batches : batches[b] \in Batch
    /\ DOMAIN invoices \subseteq InvoiceNumber
    /\ \A n \in DOMAIN invoices : invoices[n] \in Invoice
    /\ pc \in [Tx -> Active \cup {"idle"}]
    /\ job \in [Tx -> Job \cup {None}]
    /\ \A t \in Tx : pc[t] # "idle" => job[t] \in Job
    /\ local \in [Tx -> Local]

-----------------------------------------------------------------------------
(* Helpers *)

NoRows == [x \in {} |-> None]

\* f with row v under key x, and f without the rows of S.
With(f, x, v) == [y \in DOMAIN f \cup {x} |-> IF y = x THEN v ELSE f[y]]
Without(f, S) == [y \in DOMAIN f \ S |-> f[y]]

\* computeTotals
TotalOf(lines) == FoldSeq(LAMBDA l, sum : l.amount + sum, 0, lines)

BatchesOf(d) == {b \in DOMAIN batches : batches[b].doc = d}

\* The ids of S as a sequence.  (SetToSortSeq rests on SortSeq of TLC, of
\* which the provers know nothing.)
Ascending(S) ==
    CHOOSE ids \in [1 .. Cardinality(S) -> S] :
        \A i, j \in 1 .. Cardinality(S) : i < j => ids[i] < ids[j]

\* Batches of lines, a function from their ids, one after the other.
Joined(f) ==
    LET ids == Ascending(DOMAIN f) IN FlattenSeq([i \in DOMAIN ids |-> f[ids[i]]])

\* The lines of document d, as a query returns them.
LinesOf(d) == Joined([b \in BatchesOf(d) |-> batches[b].lines])

EditableAll(d) == {"DRAFT", "SENT", "ACCEPTED", "CONFIRMED"}    \* faulty
\* EDITABLE_STATUSES
Editable(d) == IF d = Quote THEN {"DRAFT", "SENT"} ELSE {"DRAFT"}

\* t has inserted an order or an invoice and not committed it: the foreign
\* key holds the row it refers to (FOR KEY SHARE), the unique index the number.
Inserted(t, kind) ==
    pc[t] = (IF kind = "CONVERT" THEN "mark" ELSE "close") /\ job[t].kind = kind
KeyShare(t, d) ==
    (Inserted(t, "CONVERT") \/ Inserted(t, "INVOICE")) /\ job[t].doc = d
NumberFree(t, kind, n) ==
    \A u \in Tx \ {t} : ~(Inserted(u, kind) /\ job[u].number = n)

Orders == DOMAIN heads \ {Quote}
OrdersOfQuote == {o \in Orders : heads[o].ref = Quote}
InvoicesOf(o) == {n \in DOMAIN invoices : invoices[n].order = o}

OrderNumberTaken(n) == \E o \in Orders : heads[o].number = n
\* A committed row refers to d by a foreign key.
ReferredTo(d) == IF d = Quote THEN OrdersOfQuote # {} ELSE InvoicesOf(d) # {}

Goto(t, where) == pc' = [pc EXCEPT ![t] = where]

\* The transaction is over: its locks are gone, the slot is free.
End(t) ==
    /\ Goto(t, "idle")
    /\ job' = [job EXCEPT ![t] = None]
    /\ local' = [local EXCEPT ![t] = NoLocal]

Rollback(t) ==
    End(t) /\ UNCHANGED <<heads, batches, invoices, nextDoc, nextBatch>>

NewHeader(customer, lines, ref, number) ==
    [status |-> "DRAFT", customer |-> customer, total |-> TotalOf(lines),
     ref |-> ref, number |-> number]

-----------------------------------------------------------------------------
(* Creations, and the opening of the other requests *)

\* create of a quotation: the customer is optional.
CreateQuotation ==
    /\ nextDoc = Quote
    /\ \E c \in Customer \cup {None}, ls \in Content :
        /\ heads' = With(heads, Quote, NewHeader(c, ls, 0, None))
        /\ batches' = With(batches, nextBatch, [doc |-> Quote, lines |-> ls])
    /\ nextDoc' = nextDoc + 1 /\ nextBatch' = nextBatch + 1
    /\ UNCHANGED <<invoices, txVars>>

\* create of a sales order that comes from no quotation; its lines all have
\* products.
CreateOrder ==
    /\ Quote < nextDoc /\ nextDoc <= MaxDoc
    /\ \E c \in Customer, n \in OrderNumber,
          ls \in {s \in Content : SelectSeq(s, HasProduct) = s} :
        /\ ~OrderNumberTaken(n)
        /\ \A u \in Tx : ~(Inserted(u, "CONVERT") /\ job[u].number = n)
        /\ heads' = With(heads, nextDoc, NewHeader(c, ls, 0, n))
        /\ batches' = With(batches, nextBatch, [doc |-> nextDoc, lines |-> ls])
    /\ nextDoc' = nextDoc + 1 /\ nextBatch' = nextBatch + 1
    /\ UNCHANGED <<invoices, txVars>>

\* A handler opens its $transaction (the deletions have none: their two
\* statements commit on their own).
Begin(t) ==
    /\ pc[t] = "idle"
    /\ \E j \in Job :
        /\ j.doc < nextDoc
        /\ j.kind = "CONVERT" => nextDoc <= MaxDoc
        /\ j.kind = "UPDATE" /\ j.lines # <<>> => nextBatch <= MaxBatch
        /\ job' = [job EXCEPT ![t] = j]
        /\ Goto(t, IF j.kind = "INVOICE" /\ j.doc = 0 THEN "issue" ELSE "read")
    /\ UNCHANGED <<heads, batches, invoices, nextDoc, nextBatch, local>>

-----------------------------------------------------------------------------
(* What the handlers read and decide *)

ConvertibleAgain(head) ==                                \* faulty
    head.status = "ACCEPTED" /\ head.customer # None
ConvertibleProspect(head) ==                             \* faulty
    head.status = "ACCEPTED" /\ head.ref = 0
\* Only an accepted quotation with a customer, and only once.
Convertible(head) ==
    /\ head.status = "ACCEPTED"
    /\ head.ref = 0
    /\ head.customer # None

BillableToAnyone(head, customer) == head.status = "CONFIRMED"    \* faulty
\* Only a confirmed order, to its own customer.
Billable(head, customer) ==
    head.status = "CONFIRMED" /\ head.customer = customer

\* What the checks of each handler ask of the document it reads.
Admissible(t) ==
    LET j == job[t]
        head == heads[j.doc]
    IN  IF j.kind = "VOID"
        THEN j.number \in DOMAIN invoices /\ invoices[j.number].status = "ISSUED"
        ELSE /\ j.doc \in DOMAIN heads
             /\ j.kind = "UPDATE" => head.status \in Editable(j.doc)
             /\ j.kind = "REMOVE" => head.status = "DRAFT"
             /\ j.kind = "CONVERT" => Convertible(head)
             /\ j.kind = "INVOICE" => Billable(head, j.customer)
             /\ j.kind \in DOMAIN AllowedFrom => head.status \in AllowedFrom[j.kind]
             /\ j.kind \in {"SEND", "CONFIRM"} => BatchesOf(j.doc) # {}

\* The handler's first query: the header (the number of lines with it).
ReadHeader(t) ==
    /\ pc[t] = "read"
    /\ Admissible(t)
    /\ Goto(t, CASE job[t].kind \in {"UPDATE", "CONVERT"} -> "lines"
                 [] job[t].kind = "REMOVE" -> "delete"
                 [] job[t].kind = "INVOICE" -> "issue"
                 [] job[t].kind = "VOID" -> "void"
                 [] job[t].kind \in DOMAIN To -> "status")
    /\ local' = IF job[t].kind \in {"UPDATE", "CONVERT"}
                THEN [local EXCEPT ![t].customer = heads[job[t].doc].customer]
                ELSE local
    /\ UNCHANGED <<heads, batches, invoices, nextDoc, nextBatch, job>>

\* update: the second query of its findFirst, for the lines, and the totals,
\* of the lines given or of those it read.
ReadLinesToUpdate(t) ==
    /\ pc[t] = "lines" /\ job[t].kind = "UPDATE"
    /\ local' = [local EXCEPT
                    ![t].total = TotalOf(IF job[t].lines # <<>> THEN job[t].lines
                                         ELSE LinesOf(job[t].doc)),
                    ![t].customer = IF job[t].customer = Keep THEN @
                                    ELSE job[t].customer]
    /\ Goto(t, IF job[t].lines # <<>> THEN "clear" ELSE "save")
    /\ UNCHANGED <<heads, batches, invoices, nextDoc, nextBatch, job>>

AllLines(d) == LinesOf(d)                                \* faulty
\* convert leaves out the lines without a product.
LinesToConvert(d) == SelectSeq(LinesOf(d), HasProduct)

ReadLinesToConvert(t) ==
    /\ pc[t] = "lines" /\ job[t].kind = "CONVERT"
    /\ LinesToConvert(Quote) # <<>>
    /\ local' = [local EXCEPT ![t].lines = LinesToConvert(Quote)]
    /\ Goto(t, "insert")
    /\ UNCHANGED <<heads, batches, invoices, nextDoc, nextBatch, job>>

Refused(t) ==
    \/ pc[t] = "read" /\ ~Admissible(t)
    \/ pc[t] = "lines" /\ job[t].kind = "CONVERT" /\ LinesToConvert(Quote) = <<>>

RefuseRetries(t) ==                                      \* faulty
    /\ Refused(t)
    /\ Goto(t, "read")
    /\ UNCHANGED <<heads, batches, invoices, nextDoc, nextBatch, job, local>>
\* 400, 404 or 409: nothing was written yet.
Refuse(t) == Refused(t) /\ Rollback(t)

-----------------------------------------------------------------------------
(* update *)

\* deleteMany begins: the rows its snapshot sees are the ones it will delete.
StartClear(t) ==
    /\ pc[t] = "clear"
    /\ local' = [local EXCEPT ![t].targets = BatchesOf(job[t].doc)]
    /\ Goto(t, "clearing")
    /\ UNCHANGED <<heads, batches, invoices, nextDoc, nextBatch, job>>

\* It waits for whoever deleted any of them and deletes those still there.
ClearLines(t) ==
    /\ pc[t] = "clearing"
    /\ \A u \in Tx \ {t} : local[u].cleared \cap local[t].targets = {}
    /\ local' = [local EXCEPT ![t].cleared = local[t].targets \cap DOMAIN batches]
    /\ Goto(t, "save")
    /\ UNCHANGED <<heads, batches, invoices, nextDoc, nextBatch, job>>

SaveAs(t, head) ==
    /\ pc[t] = "save"
    /\ job[t].doc \in DOMAIN heads
    /\ heads' = [heads EXCEPT ![job[t].doc] = head]
    /\ LET kept == Without(batches, local[t].cleared)
       IN  batches' = IF job[t].lines = <<>> THEN kept
                      ELSE With(kept, nextBatch,
                                [doc |-> job[t].doc, lines |-> job[t].lines])
    /\ nextBatch' = IF job[t].lines = <<>> THEN nextBatch ELSE nextBatch + 1
    /\ End(t)
    /\ UNCHANGED <<invoices, nextDoc>>

\* faulty: forgets the totals
SaveOldTotal(t) ==
    SaveAs(t, [heads[job[t].doc] EXCEPT !.customer = local[t].customer])
\* UPDATE of the header by id (never of status and references), the new
\* lines, COMMIT.
Save(t) ==
    SaveAs(t, [heads[job[t].doc] EXCEPT !.customer = local[t].customer,
                                        !.total = local[t].total])

-----------------------------------------------------------------------------
(* Transitions, remove *)

\* UPDATE of the status by id, whatever it is by now, and COMMIT.
SetStatus(t) ==
    /\ pc[t] = "status"
    /\ job[t].doc \in DOMAIN heads
    /\ heads' = [heads EXCEPT ![job[t].doc].status = To[job[t].kind]]
    /\ End(t)
    /\ UNCHANGED <<batches, invoices, nextDoc, nextBatch>>

DeleteIf(t, allowed) ==
    LET d == job[t].doc
    IN  /\ pc[t] = "delete"
        /\ d \in DOMAIN heads
        /\ allowed
        /\ \A u \in Tx : local[u].cleared \cap BatchesOf(d) = {}
        /\ heads' = Without(heads, {d})
        /\ batches' = Without(batches, BatchesOf(d))
        /\ End(t)
        /\ UNCHANGED <<invoices, nextDoc, nextBatch>>

DeleteReferred(t) == DeleteIf(t, TRUE)                   \* faulty
\* DELETE by id, the lines with it by cascade.  It waits for uncommitted
\* references and deletions of lines; a committed reference forbids it.
Delete(t) ==
    DeleteIf(t, /\ \A u \in Tx : ~KeyShare(u, job[t].doc)
                /\ ~ReferredTo(job[t].doc))

-----------------------------------------------------------------------------
(* convert *)

\* createInTx: INSERT of the order; a number that another transaction has
\* inserted makes it wait for that one's end.
InsertOrder(t) ==
    /\ pc[t] = "insert"
    /\ Quote \in DOMAIN heads
    /\ NumberFree(t, "CONVERT", job[t].number)
    /\ ~OrderNumberTaken(job[t].number)
    /\ Goto(t, "mark")
    /\ UNCHANGED <<heads, batches, invoices, nextDoc, nextBatch, job, local>>

Marked(id) == [heads[Quote] EXCEPT !.status = "CONVERTED", !.ref = id]

\* UPDATE of the quotation by id and COMMIT of both documents.
MarkConverted(t) ==
    /\ pc[t] = "mark"
    /\ heads' = With([heads EXCEPT ![Quote] = Marked(nextDoc)], nextDoc,
                     NewHeader(local[t].customer, local[t].lines, Quote,
                              job[t].number))
    /\ batches' = With(batches, nextBatch,
                       [doc |-> nextDoc, lines |-> local[t].lines])
    /\ nextDoc' = nextDoc + 1 /\ nextBatch' = nextBatch + 1
    /\ End(t)
    /\ UNCHANGED invoices

-----------------------------------------------------------------------------
(* Invoices *)

\* INSERT of the invoice; the stock movements follow.
Issue(t) ==
    /\ pc[t] = "issue"
    /\ job[t].doc = 0 \/ job[t].doc \in DOMAIN heads
    /\ NumberFree(t, "INVOICE", job[t].number)
    /\ job[t].number \notin DOMAIN invoices
    /\ Goto(t, "close")
    /\ UNCHANGED <<heads, batches, invoices, nextDoc, nextBatch, job, local>>

CloseWith(t, head) ==
    /\ pc[t] = "close"
    /\ invoices' = With(invoices, job[t].number,
                        [status |-> "ISSUED", order |-> job[t].doc,
                         customer |-> job[t].customer])
    /\ heads' = IF job[t].doc = 0 THEN heads
                ELSE [heads EXCEPT ![job[t].doc] = head]
    /\ End(t)
    /\ UNCHANGED <<batches, nextDoc, nextBatch>>

CloseLeavingOrder(t) == CloseWith(t, heads[job[t].doc])   \* faulty
\* UPDATE of the order's status by id, whatever it is by now, and COMMIT.
Close(t) == CloseWith(t, [heads[job[t].doc] EXCEPT !.status = "INVOICED"])

VoidAs(t, row) ==
    /\ pc[t] = "void"
    /\ invoices' = row
    /\ End(t)
    /\ UNCHANGED <<heads, batches, nextDoc, nextBatch>>

VoidDetached(t) ==                                       \* faulty
    VoidAs(t, [invoices EXCEPT ![job[t].number].status = "CANCELLED",
                               ![job[t].number].order = 0])
\* cancel of an invoice: UPDATE of its status by id; neither the stock nor
\* the order goes back.
Void(t) ==
    VoidAs(t, [invoices EXCEPT ![job[t].number].status = "CANCELLED"])

-----------------------------------------------------------------------------
(* How transactions fail *)

\* The row a statement needs has been deleted (P2025, foreign key), the
\* number is taken (P2002), or a reference forbids the deletion (P2003).
Broken(t) ==
    \/ pc[t] \in {"save", "status", "delete"} /\ job[t].doc \notin DOMAIN heads
    \/ pc[t] = "delete" /\ ReferredTo(job[t].doc)
    \/ pc[t] = "insert" /\ (Quote \notin DOMAIN heads
                            \/ OrderNumberTaken(job[t].number))
    \/ pc[t] = "issue" /\ (job[t].doc \notin DOMAIN heads \cup {0}
                           \/ job[t].number \in DOMAIN invoices)

Abort(t) == Broken(t) /\ Rollback(t)

\* Timeout of the transaction, lost connection, deadlock victim, a 409 of
\* the stock movements, or a catalog row that is not there.
Interrupt(t) == pc[t] # "idle" /\ Rollback(t)

-----------------------------------------------------------------------------
Init ==
    /\ heads = NoRows /\ batches = NoRows /\ invoices = NoRows
    /\ nextDoc = Quote /\ nextBatch = 1
    /\ pc = [t \in Tx |-> "idle"]
    /\ job = [t \in Tx |-> None]
    /\ local = [t \in Tx |-> NoLocal]

\* What a handler does by itself once its request is in.
Step(t) ==
    \/ ReadHeader(t) \/ ReadLinesToUpdate(t) \/ ReadLinesToConvert(t)
    \/ Refuse(t) \/ StartClear(t) \/ ClearLines(t) \/ Save(t) \/ SetStatus(t)
    \/ Delete(t) \/ InsertOrder(t) \/ MarkConverted(t) \/ Issue(t) \/ Close(t)
    \/ Void(t) \/ Abort(t)

Next ==
    \/ CreateQuotation \/ CreateOrder
    \/ \E t \in Tx : Begin(t) \/ Step(t) \/ Interrupt(t)

Spec == Init /\ [][Next]_vars

-----------------------------------------------------------------------------
(* Properties: whatever the interleaving *)

\* A quotation from which an order was made still exists and remembers a
\* conversion, though a late edit, transition or deletion had read it before.
OrderKeepsQuotation ==
    OrdersOfQuote # {} => Quote \in DOMAIN heads /\ heads[Quote].ref # 0

\* An order with invoices exists and is no draft: late transitions may reset
\* its status but never to DRAFT, and the foreign key stops a late deletion.
InvoiceKeepsOrder ==
    \A n \in DOMAIN invoices :
        invoices[n].order # 0 =>
            /\ invoices[n].order \in DOMAIN heads
            /\ heads[invoices[n].order].status # "DRAFT"

(* Not kept: nothing stops the deletion of an order that is still a draft *)

\* The order a quotation was converted into can still be found.
ConvertedOrderExists ==
    \A d \in DOMAIN heads :
        d = Quote /\ heads[d].ref # 0 => heads[d].ref \in DOMAIN heads
=============================================================================
