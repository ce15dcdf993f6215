---------------------------- MODULE KardexSerial ----------------------------
(***************************************************************************)
(* The stock engine when requests do not overlap: a request opens its      *)
(* transaction only when no other is open, the way the integration tests   *)
(* drive it.  Everything else is Kardex's.  Under this discipline the      *)
(* engine keeps the promise of StockLedger.                                *)
(***************************************************************************)
EXTENDS Kardex

SerialBegin(t) ==
    /\ \A u \in Tx : pc[u] \notin Active
    /\ Begin(t)

SerialNext ==
    \/ \E t \in Tx : SerialBegin(t) \/ Step(t) \/ Interrupt(t)
    \/ \E p \in Product : RemoveProduct(p)

SerialSpec == Init /\ [][SerialNext]_vars

\* The ledger is the kardex, its balances the quantities of stock.
Ledger == INSTANCE StockLedger WITH
    ledger <- [i \in DOMAIN kardex |-> [cell |-> kardex[i].cell,
                                        qty |-> kardex[i].qty,
                                        balance |-> kardex[i].balance]],
    balance <- [c \in Cell |-> stock[c].qty]

\* Requests that do not overlap post to the ledger atomically: committed
\* balances chain, stock is the last one, nothing goes negative.
ImplementsLedger == Ledger!Spec

\* Costs at which units entered the company, in a list of movements.
CostsIn(l) ==
    {l[i].unitCost : i \in {j \in DOMAIN l :
        l[j].qty > 0 /\ l[j].kind # "TRANSFER"}}
EntryCosts == CostsIn(kardex)

Within(k, S) == (\E a \in S : a <= k) /\ (\E b \in S : k <= b)

\* The average cost of a row with units stays between the lowest and the
\* highest cost at which units were bought, whatever moves they made since.
CostWithinEntries ==
    \A c \in Cell : stock[c].qty > 0 => Within(stock[c].avgCost, EntryCosts)

-----------------------------------------------------------------------------
(* The inductive invariants behind the two *)

\* The kardex with the movements t has inserted, and the balances it prints.
Pending(t) == kardex \o rows[t]
LastBalance(l, c) == Ledger!BalanceAfter(l, Len(l), c)

\* Of the one request that is open: its movements continue the chain of
\* balances; it sees in every row the last one, but for the row whose movement
\* it has inserted and whose balance it is about to write.
OpenInv(t) ==
    /\ \A i \in DOMAIN rows[t] :
        /\ rows[t][i].balance =
               Ledger!BalanceAfter(Pending(t), Len(kardex) + i - 1,
                                   rows[t][i].cell) + rows[t][i].qty
        /\ rows[t][i].balance >= 0
    /\ \A c \in Cell : \/ pc[t] = "upsert" /\ c = CellOf(t)
                       \/ View(t, c).qty = LastBalance(Pending(t), c)
    /\ pc[t] \in {"insert", "upsert"} => snap[t] = View(t, CellOf(t))
    /\ pc[t] = "upsert" =>
        LET m == rows[t][Len(rows[t])]
        IN  /\ m.cell = CellOf(t) /\ m.kind = req[t].kind
            /\ m.qty = LineOf(t).qty /\ m.unitCost = CostOf(t)
            /\ m.balance = snap[t].qty + LineOf(t).qty

SerialInv ==
    /\ KardexInv
    /\ \A t, u \in Tx : pc[t] \in Active /\ pc[u] \in Active => t = u
    /\ \A c \in Cell : lock[c] # NoTx => pc[lock[c]] \in Active
    /\ \A c \in Cell : stock[c].qty = LastBalance(kardex, c)
    /\ \A t \in Tx : pc[t] \in Active => OpenInv(t)

\* What the open request sees is priced within what was bought; the cost a
\* transfer of some units carries is that of a row it found units in.
OpenCostInv(t) ==
    /\ \A c \in Cell : View(t, c).qty > 0 =>
                          Within(View(t, c).avgCost, CostsIn(Pending(t)))
    /\ pc[t] = "cost" => idx[t] = 1
    /\ req[t].kind = "TRANSFER" =>
        /\ pc[t] \in {"read", "insert"} /\ idx[t] = 1 =>
               cost[t] = View(t, CellOf(t)).avgCost
        /\ (pc[t] = "upsert" \/ idx[t] = 2) /\ req[t].lines[1].qty # 0 =>
               Within(cost[t], CostsIn(Pending(t)))

SerialCostInv ==
    /\ SerialInv
    /\ CostWithinEntries
    /\ \A t \in Tx : pc[t] \in Active => OpenCostInv(t)
=============================================================================
