---------------------------- MODULE SalesOverlap ----------------------------
(***************************************************************************)
(* Sales with the history of stale writes, which no action reads: it tells *)
(* apart what the services promise whatever the interleaving from what     *)
(* only holds while nobody writes on a document read before it changed.    *)
(***************************************************************************)
EXTENDS Sales

CONSTANT Budget     \* bound: requests begun

VARIABLES budget,   \* requests still to begin
          stale,    \* requests whose document changed since they read it
          raced     \* <<document, kind>>: a stale request of this kind wrote

hvars == <<vars, budget, stale, raced>>

\* The step changes the committed document d.
Touches(d) ==
    \/ d \in DOMAIN heads /\ d \notin DOMAIN heads'
    \/ d \in DOMAIN heads \cap DOMAIN heads' /\ heads'[d] # heads[d]
    \/ batches' # batches /\ BatchesOf(d)' # BatchesOf(d)

HasRead(t) == pc[t] \notin {"idle", "read"}

\* The step is the one by which t commits a change.
Commits(t) ==
    /\ pc[t] # "idle" /\ pc'[t] = "idle"
    /\ <<heads, batches, invoices>>' # <<heads, batches, invoices>>

Watch ==
    /\ stale' = {t \in Tx : /\ HasRead(t) /\ pc'[t] # "idle"
                            /\ t \in stale \/ Touches(job[t].doc)}
    /\ raced' = raced \cup
           {<<job[t].doc, job[t].kind>> : t \in {u \in stale : Commits(u)}}

HInit == Init /\ budget = Budget /\ stale = {} /\ raced = {}

HCreate == (CreateQuotation \/ CreateOrder) /\ Watch /\ UNCHANGED budget

HBegin(t) ==
    budget > 0 /\ Begin(t) /\ Watch /\ budget' = budget - 1

HStep(t) == Step(t) /\ Watch /\ UNCHANGED budget

HNext ==
    \/ HCreate
    \/ \E t \in Tx : \/ HBegin(t) \/ HStep(t)
                     \/ Interrupt(t) /\ Watch /\ UNCHANGED budget

HSpec == HInit /\ [][HNext]_hvars

\* A handler that can run its next statement does.
LiveSpec == HSpec /\ \A t \in Tx : WF_hvars(HStep(t))

-----------------------------------------------------------------------------
Raced(d, kinds) == \E k \in kinds : <<d, k>> \in raced

-----------------------------------------------------------------------------
(* Properties: unless a request wrote on a stale read *)

\* Two orders come from one quotation only if two conversions overlapped: no
\* other late write opens the way to a second one.
OneOrderPerQuotation ==
    Raced(Quote, {"CONVERT"}) \/ \A a, b \in OrdersOfQuote : a = b

\* An order is invoiced once, unless two invoices overlapped or a late
\* confirmation reopened it.
BilledOnce ==
    \A o \in Orders :
        Raced(o, {"INVOICE", "CONFIRM"}) \/ \A m, n \in InvoicesOf(o) : m = n

\* An order is INVOICED exactly when it has an invoice, cancelled or not,
\* unless a late transition overwrote its status.
InvoicedHasInvoice ==
    \A o \in Orders :
        \/ Raced(o, {"CONFIRM", "CANCEL"})
        \/ heads[o].status = "INVOICED" <=> InvoicesOf(o) # {}

\* An invoice bills the customer of its order, unless an edit that had read
\* the order as a DRAFT came late.
SameCustomer ==
    \A n \in DOMAIN invoices :
        LET o == invoices[n].order
        IN  o = 0 \/ Raced(o, {"UPDATE"})
               \/ heads[o].customer = invoices[n].customer

\* The header's total is that of the lines, unless two edits overlapped.
TotalMatchesLines ==
    \A d \in DOMAIN heads :
        Raced(d, {"UPDATE"}) \/ heads[d].total = TotalOf(LinesOf(d))

\* The order a conversion creates has the quotation's customer and its lines
\* with product, and nothing else, unless the quotation changed meanwhile.
OrderMatchesQuotation ==
    [][\A o \in Orders' \ Orders :
          heads'[o].ref = Quote =>
              \/ Raced(Quote, {"CONVERT"})'
              \/ /\ heads'[o].customer = heads[Quote].customer
                 /\ LinesOf(o)' = SelectSeq(LinesOf(Quote), HasProduct)
                 /\ heads[Quote].status = "ACCEPTED"
                 /\ heads'[Quote].ref = o]_hvars

\* Lines and totals change only while the document is DRAFT or SENT, and it
\* disappears only then, unless an edit or a deletion came late.
FrozenAfterDraft ==
    [][\A d \in DOMAIN heads :
          \/ Raced(d, {"UPDATE", "REMOVE"})'
          \/ heads[d].status \in {"DRAFT", "SENT"}
          \/ /\ d \in DOMAIN heads'
             /\ heads'[d].total = heads[d].total
             /\ BatchesOf(d)' = BatchesOf(d)]_hvars

\* REJECTED, EXPIRED, CONVERTED, INVOICED and CANCELLED are final, unless a
\* request that had read an earlier status came late.
FinalStatus ==
    [][\A d \in DOMAIN heads :
          heads[d].status \in {"REJECTED", "EXPIRED", "CONVERTED",
                               "INVOICED", "CANCELLED"} =>
              \/ \E k \in Kind : <<d, k>> \in raced'
              \/ d \in DOMAIN heads' /\ heads'[d].status = heads[d].status]_hvars

\* Every request comes to an end.
FinishesOnceBegun == \A t \in Tx : pc[t] # "idle" ~> pc[t] = "idle"
=============================================================================
