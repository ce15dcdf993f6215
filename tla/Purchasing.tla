----------------------------- MODULE Purchasing -----------------------------
(***************************************************************************)
(* One purchase order and the receipts against it:                         *)
(* purchase-orders.service.ts and goods-receipts.service.ts run by         *)
(* concurrent requests on PostgreSQL at READ COMMITTED.                    *)
(*                                                                         *)
(* A request runs one transaction.  It reads the committed order, decides, *)
(* and writes rows one statement at a time.  A written row stays locked    *)
(* and unseen by the others until the transaction ends.  A receipt that    *)
(* refers to the order also keeps the order from being deleted (KEY SHARE  *)
(* of its foreign key).                                                    *)
(*                                                                         *)
(* Left out: taxes, currency and exchange rate (totals are quantity by     *)
(* cost), supplier, branch, dates and notes, and the stock movements of a  *)
(* receipt, which are a DOCUMENT request of module Kardex; their failure   *)
(* is one of the causes of Interrupt.                                      *)
(***************************************************************************)
EXTENDS ReceiptMatching

CONSTANTS Tx,          \* request slots; a slot serves one request after another
          Product,
          Number,      \* receipt numbers the users may give
          OrderLines,  \* line lists the users may give an order
          Job,         \* requests: [kind, number, lines]
          MaxLine,     \* bound: no replacement of lines begins beyond this id
          None         \* a deleted row, or a header not written

\* Zero units are among what the bodies may ask for: their parsers refuse the
\* texts "0" and "0.0", not "00".
OrderLine == [product : Product, qty : Nat, unitCost : Nat]
ReceiptLine == [product : Product, qty : Nat, unitCost : Nat \cup {NoCost}]
Status == {"DRAFT", "APPROVED", "RECEIVED", "CANCELLED"}
Kind == {"UPDATE", "REMOVE", "APPROVE", "CANCEL", "RECEIVE", "DIRECT"}

ASSUME OrderLinesAssumption ==
    \A ls \in OrderLines : ls \in Seq(OrderLine) /\ ls # <<>>

\* An UPDATE without lines changes the header only.  A DIRECT receipt names
\* no order and must say what its lines cost.
ASSUME JobAssumption ==
    /\ Job # {}
    /\ \A j \in Job :
        /\ DOMAIN j = {"kind", "number", "lines"}
        /\ j.kind \in Kind /\ j.number \in Number
        /\ j.kind = "UPDATE" => j.lines \in OrderLines \cup {<<>>}
        /\ j.kind \in {"RECEIVE", "DIRECT"} =>
               j.lines \in Seq(ReceiptLine) /\ j.lines # <<>>
        /\ j.kind = "DIRECT" =>
               \A i \in DOMAIN j.lines : j.lines[i].unitCost # NoCost

VARIABLES
    order,     \* committed header: [status, total]
    lines,     \* committed lines, a function from their ids
    receipts,  \* committed receipts, a function from their numbers
    nextLine,  \* purchase_order_line's sequence: never rolled back
    pc,        \* where each request is
    job,       \* what it asks for
    hdr,       \* header it wrote (and so locked), or None
    own,       \* order lines it wrote (and so locked); None for a deleted one
    local      \* the handler's locals

txVars == <<pc, job, hdr, own, local>>
vars == <<order, lines, receipts, nextLine, txVars>>

Row == [product : Product, qty : Nat, unitCost : Nat, received : Nat]
Header == [status : Status \cup {"NONE", "GONE"}, total : Nat]
Receipt == [against : BOOLEAN, lines : Seq(ReceiptLine)]
Local == [targets : SUBSET (Nat \ {0}), total : Nat, costed : Seq(ReceiptLine),
          updates : Seq([line : Nat \ {0}, received : Nat])]
NoLocal == [targets |-> {}, total |-> 0, costed |-> <<>>, updates |-> <<>>]
Active == {"read", "lines", "clear", "clearing", "header", "status", "delete",
           "receipt", "advance", "check", "close", "commit"}

ASSUME NoneAssumption == None \notin Row /\ None \notin Header

TypeOK ==
    /\ order \in Header
    /\ nextLine \in Nat \ {0}
    /\ DOMAIN lines \subseteq 1 .. nextLine - 1
    /\ \A l \in DOMAIN lines : lines[l] \in Row
    /\ DOMAIN receipts \subseteq Number
    /\ \A n \in DOMAIN receipts : receipts[n] \in Receipt
    /\ pc \in [Tx -> Active \cup {"idle"}]
    /\ job \in [Tx -> Job]
    /\ hdr \in [Tx -> Header \cup {None}]
    /\ DOMAIN own = Tx
    /\ \A t \in Tx : /\ DOMAIN own[t] \subseteq 1 .. nextLine - 1
                     /\ \A l \in DOMAIN own[t] : own[t][l] \in Row \cup {None}
    /\ local \in [Tx -> Local]

-----------------------------------------------------------------------------
(* Helpers *)

SomeJob == CHOOSE j \in Job : TRUE     \* what an idle slot holds
NoRows == [l \in {} |-> None]

\* New rows for a list of lines, with the next ids of the sequence.
Rows(ls) ==
    [l \in nextLine .. nextLine + Len(ls) - 1 |->
        [product |-> ls[l - nextLine + 1].product,
         qty |-> ls[l - nextLine + 1].qty,
         unitCost |-> ls[l - nextLine + 1].unitCost,
         received |-> 0]]

\* computeTotals: of lines given by the user, or read from the order.
TotalOf(ls) == SumOf([i \in DOMAIN ls |-> ls[i].qty * ls[i].unitCost])

\* Rows some of which have been written anew.
Over(new, old) ==
    [l \in DOMAIN new \cup DOMAIN old |->
        IF l \in DOMAIN new THEN new[l] ELSE old[l]]

\* faulty: shows the deleted rows
SeenWithDeleted(t) == Over(own[t], lines)
\* The lines as a statement of t sees them: its own writes over the
\* committed rows.
Seen(t) ==
    LET ids == {l \in DOMAIN lines \cup DOMAIN own[t] :
                    l \in DOMAIN own[t] => own[t][l] # None}
    IN  [l \in ids |-> IF l \in DOMAIN own[t] THEN own[t][l] ELSE lines[l]]

OrderExists == order.status \in Status
RemainsOf(rows) == \E l \in DOMAIN rows : rows[l].qty > rows[l].received
UnitsOf(rows) == \E l \in DOMAIN rows : rows[l].qty > 0

\* Locks of the other requests.
HeaderFree(t) == \A u \in Tx \ {t} : hdr[u] = None
LineFree(t, l) == \A u \in Tx \ {t} : l \notin DOMAIN own[u]

\* t has inserted its receipt and not committed it.
Inserted(t) ==
    /\ job[t].kind \in {"RECEIVE", "DIRECT"}
    /\ pc[t] \in {"advance", "check", "close", "commit"}
KeyShare(t) == Inserted(t) /\ job[t].kind = "RECEIVE"

Goto(t, where) == pc' = [pc EXCEPT ![t] = where]

\* The transaction is over: locks and locals are gone, the slot is free.
End(t) ==
    /\ Goto(t, "idle")
    /\ hdr' = [hdr EXCEPT ![t] = None]
    /\ own' = [own EXCEPT ![t] = NoRows]
    /\ local' = [local EXCEPT ![t] = NoLocal]
    /\ job' = [job EXCEPT ![t] = SomeJob]
    /\ UNCHANGED nextLine

Rollback(t) == End(t) /\ UNCHANGED <<order, lines, receipts>>

-----------------------------------------------------------------------------
(* Opening requests *)

\* create: the header in DRAFT with its lines, in one transaction that
\* touches no row of anybody else.
Create ==
    /\ order.status = "NONE"
    /\ \E ls \in OrderLines :
        /\ order' = [status |-> "DRAFT", total |-> TotalOf(ls)]
        /\ lines' = Rows(ls)
        /\ nextLine' = nextLine + Len(ls)
    /\ UNCHANGED <<receipts, txVars>>

\* A handler opens its $transaction (remove has none: its two statements
\* commit on their own).  A direct receipt reads no order.
Begin(t) ==
    /\ pc[t] = "idle"
    /\ order.status # "NONE"
    /\ \E j \in Job :
        /\ j.kind = "UPDATE" /\ j.lines # <<>> => nextLine <= MaxLine
        /\ job' = [job EXCEPT ![t] = j]
        /\ IF j.kind = "DIRECT"
           THEN /\ Goto(t, "receipt")
                /\ local' = [local EXCEPT ![t].costed = j.lines]
           ELSE Goto(t, "read") /\ UNCHANGED local
    /\ UNCHANGED <<order, lines, receipts, nextLine, hdr, own>>

-----------------------------------------------------------------------------
(* What the handlers read and decide *)

AdmissibleUpdateApproved(t) ==                           \* faulty
    CASE job[t].kind \in {"UPDATE", "REMOVE"} ->
             order.status \in {"DRAFT", "APPROVED"}
      [] job[t].kind = "APPROVE" ->
             order.status = "DRAFT" /\ lines # NoRows
      [] job[t].kind = "CANCEL" -> order.status \in {"DRAFT", "APPROVED"}
      [] job[t].kind = "RECEIVE" -> order.status = "APPROVED"
AdmissibleTwice(t) ==                                    \* faulty
    CASE job[t].kind \in {"UPDATE", "REMOVE"} -> order.status = "DRAFT"
      [] job[t].kind = "APPROVE" ->
             order.status \in {"DRAFT", "CANCELLED"} /\ lines # NoRows
      [] job[t].kind = "CANCEL" -> order.status \in {"DRAFT", "APPROVED"}
      [] job[t].kind = "RECEIVE" -> order.status = "APPROVED"
\* The order exists and is in a status the operation accepts; an order
\* without lines is not approved.
Admissible(t) ==
    CASE job[t].kind \in {"UPDATE", "REMOVE"} -> order.status = "DRAFT"
      [] job[t].kind = "APPROVE" ->
             order.status = "DRAFT" /\ lines # NoRows
      [] job[t].kind = "CANCEL" -> order.status \in {"DRAFT", "APPROVED"}
      [] job[t].kind = "RECEIVE" -> order.status = "APPROVED"

\* The handler's first query: the header, and for approve and cancel the
\* number of lines with it.
ReadHeader(t) ==
    /\ pc[t] = "read"
    /\ Admissible(t)
    /\ Goto(t, CASE job[t].kind \in {"UPDATE", "RECEIVE"} -> "lines"
                 [] job[t].kind \in {"APPROVE", "CANCEL"} -> "status"
                 [] job[t].kind = "REMOVE" -> "delete")
    /\ UNCHANGED <<order, lines, receipts, nextLine, job, hdr, own, local>>

Plan(t) == Resolve(lines, job[t].lines)

\* update, whose query for the lines comes after the one for the header,
\* computes the totals: of the lines given, or of those it read.
ReadLinesToUpdate(t) ==
    /\ pc[t] = "lines" /\ job[t].kind = "UPDATE"
    /\ local' = [local EXCEPT ![t].total =
                    TotalOf(IF job[t].lines # <<>> THEN job[t].lines ELSE lines)]
    /\ Goto(t, IF job[t].lines # <<>> THEN "clear" ELSE "header")
    /\ UNCHANGED <<order, lines, receipts, nextLine, job, hdr, own>>

\* create of a receipt: the second query, for the lines, and resolveLines.
ReadLinesToReceive(t) ==
    /\ pc[t] = "lines" /\ job[t].kind = "RECEIVE"
    /\ Plan(t).ok
    /\ local' = [local EXCEPT ![t].updates = Plan(t).updates,
                              ![t].costed = Plan(t).costed]
    /\ Goto(t, "receipt")
    /\ UNCHANGED <<order, lines, receipts, nextLine, job, hdr, own>>

Refused(t) ==
    \/ pc[t] = "read" /\ ~Admissible(t)
    \/ pc[t] = "lines" /\ job[t].kind = "RECEIVE" /\ ~Plan(t).ok

RefuseRetries(t) == Refused(t) /\ UNCHANGED vars         \* faulty
\* 400, 404 or 409: nothing was written yet.
Refuse(t) == Refused(t) /\ Rollback(t)

-----------------------------------------------------------------------------
(* update *)

\* deleteMany begins: the rows its snapshot sees are the ones it will delete.
StartClear(t) ==
    /\ pc[t] = "clear"
    /\ local' = [local EXCEPT ![t].targets = DOMAIN lines]
    /\ Goto(t, "clearing")
    /\ UNCHANGED <<order, lines, receipts, nextLine, job, hdr, own>>

\* It waits for whoever holds any of them and deletes those still there.
ClearLines(t) ==
    /\ pc[t] = "clearing"
    /\ \A l \in local[t].targets : LineFree(t, l)
    /\ own' = [own EXCEPT ![t] =
                  [l \in local[t].targets \cap DOMAIN lines |-> None]]
    /\ Goto(t, "header")
    /\ UNCHANGED <<order, lines, receipts, nextLine, job, hdr, local>>

WriteHeaderAs(t, header) ==
    /\ pc[t] = "header"
    /\ HeaderFree(t) /\ OrderExists
    /\ hdr' = [hdr EXCEPT ![t] = header]
    /\ own' = [own EXCEPT ![t] = Over(Rows(job[t].lines), @)]
    /\ nextLine' = nextLine + Len(job[t].lines)
    /\ Goto(t, "commit")
    /\ UNCHANGED <<order, lines, receipts, job, local>>

\* faulty: writes back the status it checked
WriteHeaderDraft(t) ==
    WriteHeaderAs(t, [status |-> "DRAFT", total |-> local[t].total])
\* faulty: forgets the totals
WriteHeaderOldTotal(t) == WriteHeaderAs(t, order)
\* UPDATE of the header by id, all but the status, and the new lines.
WriteHeader(t) == WriteHeaderAs(t, [order EXCEPT !.total = local[t].total])

-----------------------------------------------------------------------------
(* approve, cancel, remove *)

\* transition: UPDATE of the status by id, whatever it is by now.
SetStatus(t) ==
    /\ pc[t] = "status"
    /\ HeaderFree(t) /\ OrderExists
    /\ hdr' = [hdr EXCEPT ![t] =
                  [order EXCEPT !.status =
                      IF job[t].kind = "APPROVE" THEN "APPROVED"
                                                 ELSE "CANCELLED"]]
    /\ Goto(t, "commit")
    /\ UNCHANGED <<order, lines, receipts, nextLine, job, own, local>>

\* DELETE of the header by id, its lines with it by cascade; it waits for
\* every lock on them.
DeleteOrder(t) ==
    /\ pc[t] = "delete"
    /\ HeaderFree(t) /\ OrderExists
    /\ \A u \in Tx : ~KeyShare(u)
    /\ \A l \in DOMAIN lines : LineFree(t, l)
    /\ \A n \in DOMAIN receipts : ~receipts[n].against
    /\ order' = [status |-> "GONE", total |-> 0]
    /\ lines' = NoRows
    /\ End(t)
    /\ UNCHANGED receipts

-----------------------------------------------------------------------------
(* Receipts *)

NumberFree(t) ==
    \A u \in Tx \ {t} : Inserted(u) => job[u].number # job[t].number

\* INSERT of the receipt and its lines; a number that another transaction
\* has inserted makes it wait for that one's end.  A receipt of zero units
\* has no line to advance.
InsertReceipt(t) ==
    /\ pc[t] = "receipt"
    /\ NumberFree(t) /\ job[t].number \notin DOMAIN receipts
    /\ job[t].kind = "RECEIVE" => OrderExists
    /\ Goto(t, IF job[t].kind = "DIRECT" THEN "commit"
               ELSE IF local[t].updates = <<>> THEN "check" ELSE "advance")
    /\ UNCHANGED <<order, lines, receipts, nextLine, job, hdr, own, local>>

NextUpdate(t) == Head(local[t].updates)
Advanced(t) == [lines[NextUpdate(t).line] EXCEPT !.received = NextUpdate(t).received]

AdvanceWith(t, row) ==
    /\ pc[t] = "advance" /\ local[t].updates # <<>>
    /\ LineFree(t, NextUpdate(t).line) /\ NextUpdate(t).line \in DOMAIN lines
    /\ own' = [own EXCEPT ![t] = Over([l \in {NextUpdate(t).line} |-> row], @)]
    /\ local' = [local EXCEPT ![t].updates = Tail(@)]
    /\ Goto(t, IF Len(local[t].updates) = 1 THEN "check" ELSE "advance")
    /\ UNCHANGED <<order, lines, receipts, nextLine, job, hdr>>

\* faulty: through the plain client, outside the transaction
AdvanceOutside(t) ==
    /\ pc[t] = "advance" /\ local[t].updates # <<>>
    /\ LineFree(t, NextUpdate(t).line) /\ NextUpdate(t).line \in DOMAIN lines
    /\ lines' = [lines EXCEPT ![NextUpdate(t).line] = Advanced(t)]
    /\ local' = [local EXCEPT ![t].updates = Tail(@)]
    /\ Goto(t, IF Len(local[t].updates) = 1 THEN "check" ELSE "advance")
    /\ UNCHANGED <<order, receipts, nextLine, job, hdr, own>>
\* faulty: adds what it computed to what the line has by now
AdvanceAdding(t) ==
    AdvanceWith(t, [lines[NextUpdate(t).line] EXCEPT
                       !.received = @ + NextUpdate(t).received])
\* UPDATE of one order line by id: received_qty gets the absolute value that
\* resolveLines computed from the lines it read.
AdvanceLine(t) == AdvanceWith(t, Advanced(t))

CheckWith(t, rows) ==
    /\ pc[t] = "check"
    /\ Goto(t, IF RemainsOf(rows) THEN "commit" ELSE "close")
    /\ UNCHANGED <<order, lines, receipts, nextLine, job, hdr, own, local>>

CheckCompleteCommitted(t) == CheckWith(t, lines)          \* faulty
\* findFirst of a line with quantity > received_qty: its own updates count.
CheckComplete(t) == CheckWith(t, Seen(t))

\* None is left: UPDATE of the order's status.
CloseOrder(t) ==
    /\ pc[t] = "close"
    /\ HeaderFree(t) /\ OrderExists
    /\ hdr' = [hdr EXCEPT ![t] = [order EXCEPT !.status = "RECEIVED"]]
    /\ Goto(t, "commit")
    /\ UNCHANGED <<order, lines, receipts, nextLine, job, own, local>>

-----------------------------------------------------------------------------
(* How transactions end *)

WithReceipt(t) ==
    [n \in DOMAIN receipts \cup {job[t].number} |->
        IF n = job[t].number
        THEN [against |-> job[t].kind = "RECEIVE", lines |-> local[t].costed]
        ELSE receipts[n]]

Commit(t) ==
    /\ pc[t] = "commit"
    /\ order' = IF hdr[t] = None THEN order ELSE hdr[t]
    /\ lines' = Seen(t)
    /\ receipts' = IF Inserted(t) THEN WithReceipt(t) ELSE receipts
    /\ End(t)

\* The row a statement needs has been deleted (P2025, foreign key), the
\* receipt number is taken (P2002), or receipts forbid the deletion.
Broken(t) ==
    \/ pc[t] \in {"header", "status", "delete"} /\ ~OrderExists
    \/ pc[t] = "delete" /\ \E n \in DOMAIN receipts : receipts[n].against
    \/ pc[t] = "receipt" /\ \/ job[t].number \in DOMAIN receipts
                            \/ job[t].kind = "RECEIVE" /\ ~OrderExists
    \/ /\ pc[t] = "advance"
       /\ LineFree(t, NextUpdate(t).line)
       /\ NextUpdate(t).line \notin DOMAIN lines

Abort(t) == Broken(t) /\ Rollback(t)

\* Timeout of the transaction, lost connection, stopped process, or an error
\* of the stock movements of the receipt.
Interrupt(t) == pc[t] # "idle" /\ Rollback(t)

\* t waits for the lock of an order line another receipt holds.
WaitsFor(t, u) ==
    /\ pc[t] = "advance" /\ u # t
    /\ NextUpdate(t).line \in DOMAIN own[u]

InDeadlock(t) ==
    \E S \in SUBSET Tx :
        /\ t \in S
        /\ \A s \in S : \E u \in S : WaitsFor(s, u)
        /\ \A s \in S : \E u \in S : WaitsFor(u, s)

\* Postgres' deadlock detector kills one of the transactions of a cycle.
DeadlockVictim(t) == InDeadlock(t) /\ Rollback(t)

-----------------------------------------------------------------------------
Init ==
    /\ order = [status |-> "NONE", total |-> 0]
    /\ lines = NoRows
    /\ receipts = [n \in {} |-> None]
    /\ nextLine = 1
    /\ pc = [t \in Tx |-> "idle"]
    /\ job = [t \in Tx |-> SomeJob]
    /\ hdr = [t \in Tx |-> None]
    /\ own = [t \in Tx |-> NoRows]
    /\ local = [t \in Tx |-> NoLocal]

\* What a handler does by itself once its request is in.
Step(t) ==
    \/ ReadHeader(t) \/ ReadLinesToUpdate(t) \/ ReadLinesToReceive(t)
    \/ Refuse(t) \/ StartClear(t) \/ ClearLines(t) \/ WriteHeader(t)
    \/ SetStatus(t) \/ DeleteOrder(t) \/ InsertReceipt(t) \/ AdvanceLine(t)
    \/ CheckComplete(t) \/ CloseOrder(t) \/ Commit(t) \/ Abort(t)

Next ==
    \/ Create
    \/ \E t \in Tx : Begin(t) \/ Step(t) \/ Interrupt(t) \/ DeadlockVictim(t)

Spec == Init /\ [][Next]_vars

-----------------------------------------------------------------------------
(* Properties: whatever the interleaving *)

UnitsIn(ls, p) ==
    SumOf([i \in {k \in DOMAIN ls : ls[k].product = p} |-> ls[i].qty])
OrderedOf(p) == UnitsIn(lines, p)
ReceivedOf(p) ==
    SumOf([l \in {k \in DOMAIN lines : lines[k].product = p} |->
              lines[l].received])
\* Units of p that committed receipts say came in for the order.
ReceiptsOf(p) ==
    SumOf([n \in {k \in DOMAIN receipts : receipts[k].against} |->
              UnitsIn(receipts[n].lines, p)])

\* No order line, committed or not, has received more than was ordered: the
\* 409 of resolveLines holds line by line even for stale reads.
LineWithinOrdered ==
    /\ \A l \in DOMAIN lines : lines[l].received <= lines[l].qty
    /\ \A t \in Tx : \A l \in DOMAIN own[t] :
           own[t][l] # None => own[t][l].received <= own[t][l].qty

\* received_qty never counts a unit that no committed receipt brought in:
\* the advance of the lines and the receipt commit together, and a stale
\* absolute value only loses units.
ReceivedNeverInvented == \A p \in Product : ReceivedOf(p) <= ReceiptsOf(p)

\* An order with receipts exists and left DRAFT for good, whatever update,
\* remove and transition had read before (they write only what they own).
ReceiptsKeepTheirOrder ==
    (\E n \in DOMAIN receipts : receipts[n].against) =>
        order.status \in {"APPROVED", "RECEIVED", "CANCELLED"}

-----------------------------------------------------------------------------
(* Properties of requests that do not overlap *)

\* Units ordered are the most that receipts bring in (409 of resolveLines).
NoOverReceipt ==
    OrderExists => \A p \in Product : ReceiptsOf(p) <= OrderedOf(p)

\* An approved order of some units whose lines are all complete has become
\* RECEIVED, and only an order whose lines are complete is RECEIVED.  (One of
\* zero units is complete when it is approved, and waits for a receipt.)
CompleteIsReceived ==
    /\ order.status = "APPROVED" /\ UnitsOf(lines) => RemainsOf(lines)
    /\ order.status = "RECEIVED" => ~RemainsOf(lines)

\* The units on the receipts are the units received on the lines.
LinesCountReceipts ==
    OrderExists => \A p \in Product : ReceivedOf(p) = ReceiptsOf(p)

\* The oldest line of a product is filled first.
OldestLineFirst ==
    \A k, l \in DOMAIN lines :
        k < l /\ lines[k].product = lines[l].product /\ lines[l].received > 0
            => lines[k].received = lines[k].qty

\* The totals of the header are those of its lines.
TotalsMatchLines ==
    OrderExists =>
        order.total = SumOf([l \in DOMAIN lines |->
                                lines[l].qty * lines[l].unitCost])

\* A receipt whose lines bring units of products on the order is refused
\* exactly when it brings more of one than the order still waits for.
RefusedOnlyIfExcess ==
    \A t \in Tx :
        pc[t] = "lines" /\ job[t].kind = "RECEIVE"
            /\ (\A i \in DOMAIN job[t].lines : job[t].lines[i].qty > 0) =>
            (Plan(t).ok <=>
                \A p \in Product :
                    UnitsIn(job[t].lines, p) <= OrderedOf(p) - ReceivedOf(p))

\* Costs of the units of p the order still waits for, oldest line first: the
\* reference for the costs a receipt inherits.
ByAge(p) == SetToSortSeq({l \in DOMAIN lines : lines[l].product = p}, <)
PendingCosts(p) ==
    FlattenSeq([i \in DOMAIN ByAge(p) |->
        LET row == lines[ByAge(p)[i]]
        IN  [k \in 1 .. row.qty - row.received |-> row.unitCost]])

\* Units of the same product in earlier lines of the receipt.
Before(ls, i) == UnitsIn(SubSeq(ls, 1, i - 1), ls[i].product)

\* A receipt line without a cost of its own enters the stock at the mean cost
\* of precisely the units it brings, taken from the pending ones in order.
InheritsOrderCost ==
    \A t \in Tx :
        pc[t] = "receipt" /\ job[t].kind = "RECEIVE" =>
            \A i \in DOMAIN job[t].lines :
                LET r == job[t].lines[i]
                    from == Before(job[t].lines, i)
                    units == SubSeq(PendingCosts(r.product),
                                    from + 1, from + r.qty)
                IN  local[t].costed[i].unitCost =
                        IF r.unitCost # NoCost THEN r.unitCost
                        ELSE RoundedDiv(SumOf(units), r.qty)
=============================================================================
