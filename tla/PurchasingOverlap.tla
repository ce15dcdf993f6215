-------------------------- MODULE PurchasingOverlap -------------------------
(***************************************************************************)
(* Purchasing with the history of which kinds of request overlapped, which *)
(* no action reads: it tells which overlaps each promise of the services   *)
(* survives.  Requests are finitely many: with endless ones a request      *)
(* could wait for ever on a row that others keep taking, and whether it    *)
(* does is PostgreSQL's business (it queues waiters), not this code's.     *)
(***************************************************************************)
EXTENDS Purchasing

CONSTANT Budget     \* bound: requests begun

VARIABLES budget,   \* requests still to begin
          overlap   \* sets {k1, k2} of kinds whose transactions overlapped

ovars == <<vars, budget, overlap>>

OInit == Init /\ budget = Budget /\ overlap = {}

OBegin(t) ==
    /\ budget > 0
    /\ Begin(t)
    /\ budget' = budget - 1
    /\ overlap' = overlap \cup
           {{job'[t].kind, job[u].kind} : u \in {v \in Tx : pc[v] # "idle"}}

OStep(t) == Step(t) /\ UNCHANGED <<budget, overlap>>
OVictim(t) == DeadlockVictim(t) /\ UNCHANGED <<budget, overlap>>

ONext ==
    \/ Create /\ UNCHANGED <<budget, overlap>>
    \/ \E t \in Tx : \/ OBegin(t) \/ OStep(t) \/ OVictim(t)
                     \/ Interrupt(t) /\ UNCHANGED <<budget, overlap>>

OSpec == OInit /\ [][ONext]_ovars

\* A handler that can run its next statement does, and Postgres looks for
\* deadlocks.  Nothing obliges an interruption or a new request.
Fairness == \A t \in Tx : WF_ovars(OStep(t)) /\ WF_ovars(OVictim(t))

LiveSpec == OSpec /\ Fairness

-----------------------------------------------------------------------------
(* Properties *)

\* Some request of a kind in K overlapped another one of a kind in L.
Met(K, L) == \E k \in K, l \in L : {k, l} \in overlap

\* Header and lines agree unless two edits overlapped: neither approvals nor
\* cancellations nor deletions in between disturb the totals of update.
TotalsUnlessEdits == Met({"UPDATE"}, {"UPDATE"}) \/ TotalsMatchLines

\* Lines come and go only while the order is a DRAFT ("Solo DRAFT es
\* editable"), unless an edit or a deletion overlapped a transition.
OnlyDraftChanges ==
    [][Met({"UPDATE", "REMOVE"}, {"APPROVE", "CANCEL"})
         \/ DOMAIN lines' = DOMAIN lines
         \/ order.status \in {"NONE", "DRAFT"}]_vars

\* A cancelled order stays cancelled, unless its cancellation overlapped one
\* of the requests that write the status too.
CancelledIsFinal ==
    [][Met({"CANCEL"}, {"APPROVE", "REMOVE", "RECEIVE"})
         \/ order.status # "CANCELLED"
         \/ order'.status = "CANCELLED"]_vars

\* No more is received than was ordered, unless two receipts overlapped or an
\* edit reached an order that was already approved.
ReceiptsFitUnlessRace ==
    \/ Met({"RECEIVE"}, {"RECEIVE"}) \/ Met({"UPDATE"}, {"APPROVE"})
    \/ NoOverReceipt

\* The order is RECEIVED exactly when its lines are complete, but for
\* overlapping receipts, an approval written late, or an edit of an approved
\* order.
ClosedUnlessRace ==
    \/ Met({"RECEIVE"}, {"RECEIVE", "APPROVE"}) \/ Met({"UPDATE"}, {"APPROVE"})
    \/ CompleteIsReceived

\* Every request comes to an end, also two receipts whose lines name the
\* same products in opposite orders.
FinishesOnceBegun == \A t \in Tx : pc[t] # "idle" ~> pc[t] = "idle"
=============================================================================
