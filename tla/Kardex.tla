------------------------------- MODULE Kardex -------------------------------
(***************************************************************************)
(* The stock engine of the ERP: stock-movements.service.ts run by          *)
(* concurrent requests on PostgreSQL at its default isolation level, READ  *)
(* COMMITTED.  Nothing in the code asks for another level or for           *)
(* SELECT ... FOR UPDATE.                                                  *)
(*                                                                         *)
(* One request runs one interactive $transaction: a manual movement, a     *)
(* transfer, or the stock part of a document (goods receipt, invoice),     *)
(* which calls applyMovementInTx once per line.  Each call reads the       *)
(* product and the stock row, inserts the movement, then upserts the row   *)
(* with the values it computed from the row it READ.  The upsert takes the *)
(* row lock, kept until the transaction ends, so two transactions can read *)
(* the same row and the second one to write waits and then overwrites.     *)
(*                                                                         *)
(* A unit of quantity or of cost stands for one unit of the fourth decimal *)
(* (toFixed(4)).  A missing stock row reads as zero quantity, zero cost.   *)
(***************************************************************************)
EXTENDS Integers, Sequences

CONSTANTS Tx,         \* requests, each served by one transaction
          Product,
          Warehouse,
          Request,    \* what a request may ask for: [kind, lines]
          NoTx        \* no transaction holds the row

Cell == Product \X Warehouse                       \* key of a stock row
\* Zero units are among what a body may ask for (as "00", see Bodies).
Line == [cell : Cell, qty : Int, unitCost : Nat]
Kind == {"MOVEMENT", "TRANSFER", "DOCUMENT"}

\* A transfer is an OUT in the origin and an IN of as much in another
\* warehouse (400 when both are the same).
IsTransfer(lines) ==
    /\ Len(lines) = 2
    /\ lines[1].cell[1] = lines[2].cell[1]
    /\ lines[1].cell # lines[2].cell
    /\ lines[1].qty <= 0
    /\ lines[2].qty = -lines[1].qty

ASSUME RequestAssumption ==
    /\ Request # {}
    /\ \A r \in Request :
        /\ r \in [kind : Kind, lines : Seq(Line)]
        /\ Len(r.lines) > 0
        /\ r.kind = "TRANSFER" => IsTransfer(r.lines)
        /\ r.kind = "MOVEMENT" => Len(r.lines) = 1

ASSUME NoTxAssumption == NoTx \notin Tx

VARIABLES
    live,      \* products not soft-deleted
    stock,     \* [Cell -> StockRow], the committed rows
    draft,     \* newest version of each row: the lock holder's, uncommitted
    lock,      \* transaction that holds each row lock, or NoTx
    kardex,    \* committed stock_movement rows, in commit order
    nextId,    \* stock_movement_id_seq: never rolled back
    pc,        \* where each request is
    req,       \* what it asked for
    idx,       \* line it works on
    cost,      \* average cost a transfer read in its origin
    snap,      \* stock row it read for the current line
    rows       \* movements it inserted and has not committed

txVars == <<pc, req, idx, cost, snap, rows>>
vars == <<live, stock, draft, lock, kardex, nextId, txVars>>

StockRow == [qty : Int, avgCost : Int]
Empty == [qty |-> 0, avgCost |-> 0]
Movement == [id : Nat, tx : Tx, cell : Cell, qty : Int, unitCost : Int,
             balance : Int, kind : Kind, sourceId : Nat]
Active == {"cost", "read", "insert", "upsert", "link", "commit"}

TypeOK ==
    /\ live \subseteq Product
    /\ stock \in [Cell -> StockRow]
    /\ draft \in [Cell -> StockRow]
    /\ lock \in [Cell -> Tx \cup {NoTx}]
    /\ kardex \in Seq(Movement)
    /\ nextId \in Nat \ {0}
    /\ pc \in [Tx -> Active \cup {"idle", "committed", "aborted"}]
    /\ req \in [Tx -> Request]
    /\ idx \in [Tx -> Nat \ {0}]
    /\ \A t \in Tx : idx[t] <= Len(req[t].lines)
    /\ cost \in [Tx -> Int]
    /\ snap \in [Tx -> StockRow]
    /\ rows \in [Tx -> Seq(Movement)]

-----------------------------------------------------------------------------
(* Helpers *)

LineOf(t) == req[t].lines[idx[t]]
CellOf(t) == LineOf(t).cell
CostOf(t) == IF req[t].kind = "TRANSFER" THEN cost[t] ELSE LineOf(t).unitCost
IsLastTooLate(t) == idx[t] > Len(req[t].lines)           \* faulty
IsLast(t) == idx[t] = Len(req[t].lines)

\* What a statement of t sees in a stock row: its own write, or the row as
\* last committed.
View(t, c) == IF lock[c] = t THEN draft[c] ELSE stock[c]

\* Prisma's Decimal rounds half up when toFixed(4) cuts the quotient.
RoundedDiv(n, d) == (2 * n + d) \div (2 * d)

AvgCostUnweighted(old, q, k) ==                         \* faulty
    IF old.qty + q = 0 THEN 0
    ELSE IF q > 0 THEN RoundedDiv(old.qty * old.avgCost + k, old.qty + q)
    ELSE old.avgCost
\* Weighted average cost after a movement of q units at cost k.
AvgCost(old, q, k) ==
    IF old.qty + q = 0 THEN 0
    ELSE IF q > 0
         THEN RoundedDiv(old.qty * old.avgCost + q * k, old.qty + q)
         ELSE old.avgCost

Applied(old, q, k) ==
    [qty |-> old.qty + q, avgCost |-> AvgCost(old, q, k)]

\* t waits for the row lock of another transaction, which its upsert needs.
WaitsFor(t, u) == pc[t] = "upsert" /\ lock[CellOf(t)] = u /\ u \in Tx \ {t}

InDeadlock(t) ==
    \E S \in SUBSET Tx :
        /\ t \in S
        /\ \A s \in S : \E u \in S : WaitsFor(s, u)
        /\ \A s \in S : \E u \in S : WaitsFor(u, s)

\* The transaction ends: its row locks and the handler's locals are gone.
End(t, outcome) ==
    /\ lock' = [c \in Cell |-> IF lock[c] = t THEN NoTx ELSE lock[c]]
    /\ pc' = [pc EXCEPT ![t] = outcome]
    /\ idx' = [idx EXCEPT ![t] = 1]
    /\ cost' = [cost EXCEPT ![t] = 0]
    /\ snap' = [snap EXCEPT ![t] = Empty]
    /\ rows' = [rows EXCEPT ![t] = <<>>]
    /\ UNCHANGED <<live, nextId, req>>

\* The rows once Postgres discards what t wrote.
Undone(t) == [c \in Cell |-> IF lock[c] = t THEN stock[c] ELSE draft[c]]

\* The transaction leaves no trace but the ids it took.
Rollback(t) ==
    /\ draft' = Undone(t)
    /\ End(t, "aborted")
    /\ UNCHANGED <<stock, kardex>>

-----------------------------------------------------------------------------
(* The transaction, one action per statement that touches shared rows *)

\* create, transfer, or a document's handler opens its $transaction.
Begin(t) ==
    /\ pc[t] = "idle"
    /\ \E r \in Request :
        /\ req' = [req EXCEPT ![t] = r]
        /\ pc' = [pc EXCEPT ![t] = IF r.kind = "TRANSFER" THEN "cost"
                                                          ELSE "read"]
    /\ idx' = [idx EXCEPT ![t] = 1]
    /\ UNCHANGED <<live, stock, draft, lock, kardex, nextId, cost, snap, rows>>

ReadCostOf(t, c) ==
    /\ pc[t] = "cost"
    /\ cost' = [cost EXCEPT ![t] = View(t, c).avgCost]
    /\ pc' = [pc EXCEPT ![t] = "read"]
    /\ UNCHANGED <<live, stock, draft, lock, kardex, nextId, req, idx, snap,
                   rows>>

ReadDestinationCost(t) == ReadCostOf(t, req[t].lines[2].cell)   \* faulty
\* transfer reads the origin's average cost, the unit cost of both lines.
ReadCost(t) == ReadCostOf(t, CellOf(t))

AcceptableAnyBalance(t) == CellOf(t)[1] \in live         \* faulty
AcceptableDeleted(t) ==                                 \* faulty
    View(t, CellOf(t)).qty + LineOf(t).qty >= 0
\* The product is not deleted and the balance does not turn negative.
Acceptable(t) ==
    /\ CellOf(t)[1] \in live
    /\ View(t, CellOf(t)).qty + LineOf(t).qty >= 0

ReadRow(t, row) ==
    /\ pc[t] = "read"
    /\ Acceptable(t)
    /\ snap' = [snap EXCEPT ![t] = row]
    /\ pc' = [pc EXCEPT ![t] = "insert"]
    /\ UNCHANGED <<live, stock, draft, lock, kardex, nextId, req, idx, cost,
                   rows>>

\* faulty: reads through the plain client, outside the transaction
ReadCommittedRow(t) == ReadRow(t, stock[CellOf(t)])
\* applyMovementInTx finds the product and reads the stock row.
ReadSnapshot(t) == ReadRow(t, View(t, CellOf(t)))

\* faulty: keeps what it has written so far
RejectCommitsRest(t) ==
    /\ pc[t] = "read"
    /\ ~Acceptable(t)
    /\ pc' = [pc EXCEPT ![t] = "commit"]
    /\ UNCHANGED <<live, stock, draft, lock, kardex, nextId, req, idx, cost,
                   snap, rows>>
\* faulty: tries again for ever
RejectRetries(t) ==
    /\ pc[t] = "read"
    /\ ~Acceptable(t)
    /\ UNCHANGED vars
\* It throws instead: product gone (404) or negative balance (409), and the
\* whole transaction rolls back.
Reject(t) ==
    /\ pc[t] = "read"
    /\ ~Acceptable(t)
    /\ Rollback(t)

InsertWith(t, qty, balance) ==
    /\ pc[t] = "insert"
    /\ rows' = [rows EXCEPT ![t] = Append(@,
           [id |-> nextId, tx |-> t, cell |-> CellOf(t), qty |-> qty,
            unitCost |-> CostOf(t), balance |-> balance, kind |-> req[t].kind,
            sourceId |-> IF req[t].kind = "TRANSFER" /\ idx[t] = 2
                         THEN rows[t][1].id ELSE 0])]
    /\ nextId' = nextId + 1
    /\ pc' = [pc EXCEPT ![t] = "upsert"]
    /\ UNCHANGED <<live, stock, draft, lock, kardex, req, idx, cost, snap>>

\* faulty: prints the balance before the movement
InsertOldBalance(t) == InsertWith(t, LineOf(t).qty, snap[t].qty)
\* faulty: records the balance as the quantity
InsertBalanceAsQty(t) ==
    InsertWith(t, snap[t].qty + LineOf(t).qty, snap[t].qty + LineOf(t).qty)
\* The movement goes in with the balance it leaves; the IN of a transfer
\* points at its OUT.
InsertMovement(t) ==
    InsertWith(t, LineOf(t).qty, snap[t].qty + LineOf(t).qty)

UpsertWith(t, row) ==
    /\ pc[t] = "upsert"
    /\ lock[CellOf(t)] \in {NoTx, t}
    /\ lock' = [lock EXCEPT ![CellOf(t)] = t]
    /\ draft' = [draft EXCEPT ![CellOf(t)] = row]
    /\ pc' = [pc EXCEPT ![t] = IF ~IsLast(t) THEN "read"
                               ELSE IF req[t].kind = "TRANSFER" THEN "link"
                               ELSE "commit"]
    /\ idx' = [idx EXCEPT ![t] = IF IsLast(t) THEN @ ELSE @ + 1]
    /\ snap' = [snap EXCEPT ![t] = Empty]
    /\ UNCHANGED <<live, stock, kardex, nextId, req, cost, rows>>

\* faulty: adds to the row as it is by then, not to the one that was read
UpsertIncrement(t) ==
    UpsertWith(t, Applied(View(t, CellOf(t)), LineOf(t).qty, CostOf(t)))
\* faulty: the IN of a transfer enters at no cost
UpsertFreeTransfer(t) ==
    UpsertWith(t, Applied(snap[t], LineOf(t).qty, LineOf(t).unitCost))
\* INSERT ... ON CONFLICT DO UPDATE of the stock row, with absolute values:
\* waits for the row lock, then writes what was computed from the snapshot.
\* Then the handler goes on to its next line.
UpsertStock(t) ==
    UpsertWith(t, Applied(snap[t], LineOf(t).qty, CostOf(t)))

LinkTo(t, id) ==
    /\ pc[t] = "link"
    /\ rows' = [rows EXCEPT ![t][1].sourceId = id]
    /\ pc' = [pc EXCEPT ![t] = "commit"]
    /\ UNCHANGED <<live, stock, draft, lock, kardex, nextId, req, idx, cost,
                   snap>>

LinkToItself(t) == LinkTo(t, rows[t][1].id)             \* faulty
\* transfer closes the pair: OUT.source_id = IN.id.
LinkTransfer(t) == LinkTo(t, rows[t][2].id)

Commit(t) ==
    /\ pc[t] = "commit"
    /\ stock' = [c \in Cell |-> IF lock[c] = t THEN draft[c] ELSE stock[c]]
    /\ kardex' = kardex \o rows[t]
    /\ End(t, "committed")
    /\ UNCHANGED draft

\* The transaction ends early: Prisma's transaction timeout, a lost
\* connection, a stopped process, or an error the document's handler throws.
Interrupt(t) ==
    /\ pc[t] \in Active
    /\ Rollback(t)

\* Postgres' deadlock detector kills one of the transactions of a cycle.
DeadlockVictim(t) ==
    /\ InDeadlock(t)
    /\ Rollback(t)

\* ProductsService.remove: a soft delete, whatever the stock.
RemoveProduct(p) ==
    /\ p \in live
    /\ live' = live \ {p}
    /\ UNCHANGED <<stock, draft, lock, kardex, nextId, txVars>>

-----------------------------------------------------------------------------
Init ==
    /\ live = Product
    /\ stock = [c \in Cell |-> Empty]
    /\ draft = stock
    /\ lock = [c \in Cell |-> NoTx]
    /\ kardex = <<>>
    /\ nextId = 1
    /\ pc = [t \in Tx |-> "idle"]
    /\ req = [t \in Tx |-> CHOOSE r \in Request : TRUE]
    /\ idx = [t \in Tx |-> 1]
    /\ cost = [t \in Tx |-> 0]
    /\ snap = [t \in Tx |-> Empty]
    /\ rows = [t \in Tx |-> <<>>]

\* What the handler does by itself once its transaction is open.
Step(t) ==
    \/ ReadCost(t) \/ ReadSnapshot(t) \/ Reject(t) \/ InsertMovement(t)
    \/ UpsertStock(t) \/ LinkTransfer(t) \/ Commit(t)

Next ==
    \/ \E t \in Tx : Begin(t) \/ Step(t) \/ Interrupt(t) \/ DeadlockVictim(t)
    \/ \E p \in Product : RemoveProduct(p)

Spec == Init /\ [][Next]_vars

\* A handler that can run its next statement does, and Postgres looks for
\* deadlocks.  Nothing obliges an interruption.
Fairness == \A t \in Tx : WF_vars(Step(t)) /\ WF_vars(DeadlockVictim(t))

LiveSpec == Spec /\ Fairness

-----------------------------------------------------------------------------
(* Properties *)

\* No stock row is ever negative, committed or not: the 409 of
\* applyMovementInTx, whatever the interleaving.
StockNonNegative ==
    \A c \in Cell : stock[c].qty >= 0 /\ draft[c].qty >= 0

\* A row without units carries no cost (applyMovementInTx resets it), so the
\* next entry starts a fresh average.
NoUnitsNoCost ==
    \A c \in Cell : /\ stock[c].qty = 0 => stock[c].avgCost = 0
                    /\ draft[c].qty = 0 => draft[c].avgCost = 0

\* A request leaves in the kardex all the movements of its lines, in order,
\* or none: a rejected second line takes the first one with it.
AllOrNothing ==
    \A t \in Tx :
        LET mine == SelectSeq(kardex, LAMBDA m : m.tx = t)
        IN  IF pc[t] = "committed"
            THEN [i \in DOMAIN mine |-> <<mine[i].cell, mine[i].qty>>] =
                 [i \in DOMAIN req[t].lines |->
                      <<req[t].lines[i].cell, req[t].lines[i].qty>>]
            ELSE mine = <<>>

\* Both movements of a transfer are committed, point at each other, cancel
\* out and carry the same cost.
TransferPaired ==
    \A i \in DOMAIN kardex :
        kardex[i].kind = "TRANSFER" =>
            \E j \in DOMAIN kardex :
                /\ kardex[j].id = kardex[i].sourceId
                /\ kardex[i].id = kardex[j].sourceId
                /\ kardex[j].tx = kardex[i].tx
                /\ kardex[j].qty = -kardex[i].qty
                /\ kardex[j].unitCost = kardex[i].unitCost
                /\ kardex[j].cell # kardex[i].cell

\* The stock row always shows the balance printed on the last committed
\* movement of that product and warehouse ("saldo tras el movimiento").
StockIsLastBalance ==
    \A i \in DOMAIN kardex :
        (\A j \in i + 1 .. Len(kardex) : kardex[j].cell # kardex[i].cell) =>
            stock[kardex[i].cell].qty = kardex[i].balance

\* How many movements a request has inserted, by where it is.
Inserted(t) ==
    IF pc[t] \in {"cost", "read", "insert"} THEN idx[t] - 1
    ELSE IF pc[t] \in {"upsert", "link", "commit"} THEN idx[t] ELSE 0

\* The handler's locals agree with each other: a request has inserted one
\* movement per line it went through, a transfer links after its second.
PositionInv ==
    \A t \in Tx :
        /\ Len(rows[t]) = Inserted(t)
        /\ pc[t] \in {"cost", "link"} => req[t].kind = "TRANSFER"
        /\ pc[t] \in {"link", "commit"} => IsLast(t)
        /\ pc[t] \in {"insert", "upsert"} =>
               snap[t].qty >= 0 /\ snap[t].qty + LineOf(t).qty >= 0

\* The inductive invariant behind the safety theorems.
KardexInv == TypeOK /\ PositionInv /\ StockNonNegative /\ NoUnitsNoCost

\* Some request is about to change, or has changed, the row of c.
InFlight(c) ==
    \E t \in Tx : \/ lock[c] = t
                  \/ pc[t] \in {"insert", "upsert"} /\ CellOf(t) = c

\* Once a product is deleted and the requests that had already found it are
\* over, no request touches its stock again (404 of applyMovementInTx).
QuietAfterDelete ==
    [][\A c \in Cell : c[1] \notin live /\ ~InFlight(c) => ~InFlight(c)']_vars

\* Every request that opened its transaction ends, even when transfers in
\* opposite directions wait for each other.
FinishesOnceBegun ==
    \A t \in Tx : pc[t] \in Active ~> pc[t] \in {"committed", "aborted"}
=============================================================================
