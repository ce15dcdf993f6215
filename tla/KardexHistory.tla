---------------------------- MODULE KardexHistory ---------------------------
(***************************************************************************)
(* Kardex with history variables, which no action reads: they tell which   *)
(* rows were overwritten from a snapshot that was no longer current.       *)
(***************************************************************************)
EXTENDS Kardex

VARIABLES
    net,       \* [Cell -> Int]: sum of the committed movements
    delta,     \* [Tx -> [Cell -> Int]]: what t has written and not committed
    overtaken, \* [Tx -> SUBSET Cell]: rows committed by another request
               \* after t read them
    lost,      \* rows in which some request overwrote another one's update
    repriced   \* transfers whose origin was committed by another request
               \* after they read its average cost

hvars == <<net, delta, overtaken, lost, repriced>>
NoDelta == [c \in Cell |-> 0]

\* t has read the row of c and not yet written it.
Holds(t, c) == pc[t] \in {"insert", "upsert"} /\ CellOf(t) = c

\* t, a transfer, has read the average cost of c and not yet its row.
Priced(t, c) ==
    /\ req[t].kind = "TRANSFER" /\ idx[t] = 1
    /\ pc[t] = "read" /\ CellOf(t) = c

HInit ==
    /\ Init
    /\ net = NoDelta
    /\ delta = [t \in Tx |-> NoDelta]
    /\ overtaken = [t \in Tx |-> {}]
    /\ lost = {}
    /\ repriced = {}

HReadSnapshot(t) ==
    /\ ReadSnapshot(t)
    /\ overtaken' = IF lock[CellOf(t)] = t THEN overtaken
                    ELSE [overtaken EXCEPT ![t] = @ \ {CellOf(t)}]
    /\ UNCHANGED <<net, delta, lost, repriced>>

HUpsertStock(t) ==
    /\ UpsertStock(t)
    /\ delta' = [delta EXCEPT ![t][CellOf(t)] = @ + LineOf(t).qty]
    /\ UNCHANGED <<net, overtaken, lost, repriced>>

HCommit(t) ==
    /\ Commit(t)
    /\ net' = [c \in Cell |-> net[c] + delta[t][c]]
    /\ delta' = [delta EXCEPT ![t] = NoDelta]
    /\ overtaken' = [u \in Tx |->
           IF u = t THEN {}
           ELSE overtaken[u] \cup {c \in Cell : lock[c] = t /\ Holds(u, c)}]
    /\ lost' = lost \cup {c \in overtaken[t] : lock[c] = t}
    /\ repriced' = (repriced \ {t}) \cup
           {u \in Tx \ {t} : \E c \in Cell : lock[c] = t /\ Priced(u, c)}

HRollback(t) ==
    /\ Reject(t) \/ Interrupt(t) \/ DeadlockVictim(t)
    /\ delta' = [delta EXCEPT ![t] = NoDelta]
    /\ overtaken' = [overtaken EXCEPT ![t] = {}]
    /\ repriced' = repriced \ {t}
    /\ UNCHANGED <<net, lost>>

HOther(t) ==
    /\ Begin(t) \/ ReadCost(t) \/ InsertMovement(t) \/ LinkTransfer(t)
    /\ UNCHANGED hvars

HNext ==
    \/ \E t \in Tx : HReadSnapshot(t) \/ HUpsertStock(t) \/ HCommit(t)
                     \/ HRollback(t) \/ HOther(t)
    \/ \E p \in Product : RemoveProduct(p) /\ UNCHANGED hvars

HSpec == HInit /\ [][HNext]_<<vars, hvars>>

HLiveSpec == HSpec /\ Fairness

-----------------------------------------------------------------------------
HTypeOK ==
    /\ net \in [Cell -> Int]
    /\ delta \in [Tx -> [Cell -> Int]]
    /\ overtaken \in [Tx -> SUBSET Cell]
    /\ lost \subseteq Cell
    /\ repriced \subseteq Tx

\* A row of stock drifts from the sum of its movements only if some request
\* committed a quantity computed from a row that another request had changed
\* in between.  Requests that wait for each other on other rows, roll back,
\* deadlock or are interrupted never cause it.
DriftOnlyByOverlap == \A c \in Cell \ lost : stock[c].qty = net[c]

\* A transfer moves its units at the average cost of the row it takes them
\* from ("el avg_cost actual del almacén origen"), unless another request
\* committed that row between its two reads.
TransferAtOriginCost ==
    \A t \in Tx \ repriced :
        pc[t] \in {"insert", "upsert"} /\ req[t].kind = "TRANSFER" /\ idx[t] = 1
            => cost[t] = snap[t].avgCost

\* What the history tells of request t and the row of c: its pending
\* movements explain its version of the row, unless it read too early.
RowInv(t, c) ==
    /\ lock[c] # t => delta[t][c] = 0
    /\ lock[c] = t /\ c \notin overtaken[t] =>
           draft[c].qty = stock[c].qty + delta[t][c]
    /\ Holds(t, c) /\ c \notin overtaken[t] => snap[t].qty = View(t, c).qty
    /\ pc[t] \notin Active => lock[c] # t

\* The induction behind DriftOnlyByOverlap.
OverlapInv ==
    /\ DriftOnlyByOverlap
    /\ \A t \in Tx : \A c \in Cell : RowInv(t, c)
=============================================================================
