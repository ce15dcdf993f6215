---------------------------- MODULE Kardex_proofs ---------------------------
(***************************************************************************)
(* Safety of the stock engine for any number of requests, rows and lines:  *)
(* of concurrent requests (Kardex), of what they may lose (KardexHistory), *)
(* and, when they do not overlap (KardexSerial), the ledger they implement *)
(* and the costs of what they move.                                        *)
(***************************************************************************)
EXTENDS KardexHistory, KardexSerial, SequenceTheorems, WellFoundedInduction,
        TLAPS

\* The line a request works on is one of its lines.
LEMMA LineTyped ==
    ASSUME TypeOK, NEW t \in Tx
    PROVE  /\ LineOf(t) \in Line
           /\ CellOf(t) \in Cell
           /\ LineOf(t).qty \in Int
           /\ CostOf(t) \in Int
           /\ req[t].kind \in Kind
           /\ Len(req[t].lines) \in Nat \ {0}
  <1>1. req[t] \in Request
    BY DEF TypeOK
  <1>2. /\ req[t] \in [kind : Kind, lines : Seq(Line)]
        /\ Len(req[t].lines) > 0
    BY <1>1, RequestAssumption
  <1>3. idx[t] \in 1 .. Len(req[t].lines)
    BY <1>2 DEF TypeOK
  <1>4. LineOf(t) \in Line
    BY <1>2, <1>3 DEF LineOf
  <1>5. QED
    BY <1>2, <1>4 DEF CellOf, CostOf, Line, TypeOK

\* The rounded quotient of a weighted average is an integer.
LEMMA AvgCostTyped ==
    ASSUME NEW old \in StockRow, NEW q \in Int, NEW k \in Int,
           old.qty >= 0, old.qty + q >= 0
    PROVE  /\ Applied(old, q, k) \in StockRow
           /\ Applied(old, q, k).qty >= 0
           /\ Applied(old, q, k).qty = 0 => Applied(old, q, k).avgCost = 0
  <1>1. ASSUME NEW n \in Int, NEW d \in Nat \ {0}
        PROVE  RoundedDiv(n, d) \in Int
    <2>1. 2 * n + d \in Int /\ 2 * d \in Nat \ {0}
      OBVIOUS
    <2>2. \A a \in Int, b \in Nat \ {0} : a \div b \in Int
      OBVIOUS
    <2>3. QED
      BY <2>1, <2>2 DEF RoundedDiv
  <1>2. old.qty \in Int /\ old.avgCost \in Int
    BY DEF StockRow
  <1>3. AvgCost(old, q, k) \in Int
    <2>1. CASE old.qty + q = 0
      BY <2>1 DEF AvgCost
    <2>2. CASE old.qty + q # 0 /\ q > 0
      <3>1. old.qty + q \in Nat \ {0}
        BY <1>2, <2>2
      <3>2. old.qty * old.avgCost + q * k \in Int
        BY <1>2
      <3>3. RoundedDiv(old.qty * old.avgCost + q * k, old.qty + q) \in Int
        BY <1>1, <3>1, <3>2
      <3>4. QED
        BY <2>2, <3>3 DEF AvgCost
    <2>3. CASE old.qty + q # 0 /\ ~(q > 0)
      BY <1>2, <2>3 DEF AvgCost
    <2>4. QED
      BY <2>1, <2>2, <2>3
  <1>4. QED
    BY <1>2, <1>3 DEF Applied, StockRow, AvgCost

LEMMA InitInv == Init => KardexInv
  <1> SUFFICES ASSUME Init PROVE KardexInv
    OBVIOUS
  <1> DEFINE first == CHOOSE r \in Request : TRUE
  <1>1. first \in Request /\ Len(first.lines) > 0 /\ first.lines \in Seq(Line)
    BY RequestAssumption
  <1>a. req = [t \in Tx |-> first]
    BY DEF Init
  <1> HIDE DEF first
  <1>2. TypeOK
    <2>1. /\ live \subseteq Product
          /\ stock \in [Cell -> StockRow]
          /\ draft \in [Cell -> StockRow]
          /\ lock \in [Cell -> Tx \cup {NoTx}]
      BY DEF Init, StockRow, Empty
    <2>2. kardex \in Seq(Movement) /\ rows \in [Tx -> Seq(Movement)]
      BY DEF Init
    <2>3. /\ nextId \in Nat \ {0}
          /\ pc \in [Tx -> Active \cup {"idle", "committed", "aborted"}]
          /\ cost \in [Tx -> Int]
          /\ snap \in [Tx -> StockRow]
      BY DEF Init, StockRow, Empty
    <2>4. /\ req \in [Tx -> Request]
          /\ \A t \in Tx : 1 <= Len(req[t].lines)
      <3>1. 1 <= Len(first.lines)
        BY <1>1, LenProperties
      <3>2. QED
        BY <1>1, <1>a, <3>1
    <2>6. /\ idx \in [Tx -> Nat \ {0}]
          /\ \A t \in Tx : idx[t] = 1
      BY DEF Init
    <2>7. QED
      BY <2>1, <2>2, <2>3, <2>4, <2>6 DEF TypeOK
  <1>3. PositionInv
    BY <1>1, <1>a DEF Init, PositionInv, Inserted, IsLast
  <1>4. StockNonNegative /\ NoUnitsNoCost
    BY DEF Init, StockNonNegative, NoUnitsNoCost, Empty
  <1>5. QED
    BY <1>2, <1>3, <1>4 DEF KardexInv

-----------------------------------------------------------------------------
(* One lemma per statement of the transaction *)

\* Where a statement leaves the other requests' locals alone, what is known
\* of them stays known.
LEMMA OthersKeep ==
    ASSUME KardexInv, NEW t \in Tx, NEW u \in Tx \ {t},
           pc'[u] = pc[u], req'[u] = req[u], idx'[u] = idx[u],
           snap'[u] = snap[u], rows'[u] = rows[u]
    PROVE  /\ Len(rows'[u]) = Inserted(u)'
           /\ pc'[u] \in {"cost", "link"} => req'[u].kind = "TRANSFER"
           /\ pc'[u] \in {"link", "commit"} => IsLast(u)'
           /\ pc'[u] \in {"insert", "upsert"} =>
                  snap'[u].qty >= 0 /\ snap'[u].qty + LineOf(u)'.qty >= 0
  BY DEF KardexInv, PositionInv, Inserted, IsLast, LineOf

LEMMA BeginInv ==
    ASSUME KardexInv, NEW t \in Tx, Begin(t) PROVE KardexInv'
  <1>1. PICK r \in Request :
            /\ req' = [req EXCEPT ![t] = r]
            /\ pc' = [pc EXCEPT ![t] = IF r.kind = "TRANSFER" THEN "cost"
                                                              ELSE "read"]
    BY DEF Begin
  <1>2. r.lines \in Seq(Line) /\ Len(r.lines) \in Nat /\ 1 <= Len(r.lines)
    BY RequestAssumption, LenProperties
  <1>3. /\ idx' = [idx EXCEPT ![t] = 1]
        /\ UNCHANGED <<live, stock, draft, lock, kardex, nextId, cost, snap,
                       rows>>
        /\ pc[t] = "idle"
    BY DEF Begin
  <1>4. TypeOK'
    <2>1. \A u \in Tx : idx'[u] <= Len(req'[u].lines)
      BY <1>1, <1>2, <1>3 DEF KardexInv, TypeOK
    <2>2. req' \in [Tx -> Request]
      BY <1>1 DEF KardexInv, TypeOK
    <2>3. /\ pc' \in [Tx -> Active \cup {"idle", "committed", "aborted"}]
          /\ idx' \in [Tx -> Nat \ {0}]
      BY <1>1, <1>3 DEF KardexInv, TypeOK, Active
    <2>4. QED
      BY <1>3, <2>1, <2>2, <2>3 DEF KardexInv, TypeOK
  <1>5. PositionInv'
    <2>1. Len(rows[t]) = 0
      BY <1>3 DEF KardexInv, PositionInv, Inserted
    <2>2. /\ idx'[t] = 1 /\ req'[t] = r /\ rows'[t] = rows[t]
          /\ pc'[t] = IF r.kind = "TRANSFER" THEN "cost" ELSE "read"
      BY <1>1, <1>3 DEF KardexInv, TypeOK
    <2>3. Len(rows'[t]) = Inserted(t)'
      BY <2>1, <2>2 DEF Inserted
    <2>4. ASSUME NEW u \in Tx \ {t}
          PROVE  /\ pc'[u] = pc[u] /\ req'[u] = req[u] /\ idx'[u] = idx[u]
                 /\ snap'[u] = snap[u] /\ rows'[u] = rows[u]
      BY <1>1, <1>3 DEF KardexInv, TypeOK
    <2>5. QED
      BY <2>2, <2>3, <2>4, OthersKeep DEF PositionInv
  <1>6. QED
    BY <1>3, <1>4, <1>5 DEF KardexInv, StockNonNegative, NoUnitsNoCost

LEMMA ReadCostInv ==
    ASSUME KardexInv, NEW t \in Tx, ReadCost(t) PROVE KardexInv'
  <1>1. View(t, CellOf(t)).avgCost \in Int
    BY LineTyped DEF KardexInv, TypeOK, View, StockRow
  <1>2. TypeOK'
    BY <1>1 DEF ReadCost, ReadCostOf, KardexInv, TypeOK, Active
  <1>3. PositionInv'
    BY DEF ReadCost, ReadCostOf, KardexInv, TypeOK, PositionInv, Inserted, IsLast, LineOf
  <1>4. QED
    BY <1>2, <1>3 DEF ReadCost, ReadCostOf, KardexInv, StockNonNegative, NoUnitsNoCost

LEMMA ReadSnapshotInv ==
    ASSUME KardexInv, NEW t \in Tx, ReadSnapshot(t) PROVE KardexInv'
  <1>1. /\ View(t, CellOf(t)) \in StockRow
        /\ View(t, CellOf(t)).qty >= 0
        /\ View(t, CellOf(t)).qty + LineOf(t).qty >= 0
    BY LineTyped DEF KardexInv, TypeOK, View, StockNonNegative, ReadSnapshot,
                     ReadRow, Acceptable
  <1>2. TypeOK'
    BY <1>1 DEF ReadSnapshot, ReadRow, KardexInv, TypeOK, Active
  <1>3. PositionInv'
    <2>1. \A u \in Tx : LineOf(u)' = LineOf(u)
      BY DEF ReadSnapshot, ReadRow, LineOf
    <2>2. QED
      BY <1>1, <2>1 DEF ReadSnapshot, ReadRow, KardexInv, TypeOK, PositionInv, Inserted,
                        IsLast
  <1>4. QED
    BY <1>2, <1>3 DEF ReadSnapshot, ReadRow, KardexInv, StockNonNegative, NoUnitsNoCost

LEMMA InsertMovementInv ==
    ASSUME KardexInv, NEW t \in Tx, InsertMovement(t) PROVE KardexInv'
  <1> DEFINE linked == req[t].kind = "TRANSFER" /\ idx[t] = 2
             m == [id |-> nextId, tx |-> t, cell |-> CellOf(t),
                   qty |-> LineOf(t).qty, unitCost |-> CostOf(t),
                   balance |-> snap[t].qty + LineOf(t).qty,
                   kind |-> req[t].kind,
                   sourceId |-> IF linked THEN rows[t][1].id ELSE 0]
  <1>1. /\ rows' = [rows EXCEPT ![t] = Append(@, m)]
        /\ nextId' = nextId + 1
        /\ pc' = [pc EXCEPT ![t] = "upsert"]
        /\ pc[t] = "insert"
        /\ UNCHANGED <<live, stock, draft, lock, kardex, req, idx, cost, snap>>
    BY DEF InsertMovement, InsertWith
  <1>2. rows[t] \in Seq(Movement) /\ Len(rows[t]) = idx[t] - 1
    BY <1>1 DEF KardexInv, TypeOK, PositionInv, Inserted
  <1>3. m \in Movement
    <2>1. linked => rows[t][1] \in Movement
      BY <1>2
    <2>2. m.sourceId \in Nat
      BY <2>1 DEF Movement
    <2>3. /\ CellOf(t) \in Cell /\ LineOf(t).qty \in Int /\ req[t].kind \in Kind
          /\ CostOf(t) \in Int
      BY LineTyped DEF KardexInv
    <2>4. snap[t].qty \in Int /\ nextId \in Nat
      BY DEF KardexInv, TypeOK, StockRow
    <2>5. QED
      BY <2>2, <2>3, <2>4 DEF Movement
  <1> HIDE DEF m
  <1>4. /\ Append(rows[t], m) \in Seq(Movement)
        /\ Len(Append(rows[t], m)) = idx[t]
    BY <1>2, <1>3 DEF KardexInv, TypeOK
  <1>5. TypeOK'
    BY <1>1, <1>4 DEF KardexInv, TypeOK, Active
  <1>6. PositionInv'
    <2>1. \A u \in Tx : LineOf(u)' = LineOf(u)
      BY <1>1 DEF LineOf
    <2>2. Len(rows'[t]) = Inserted(t)'
      BY <1>1, <1>4 DEF KardexInv, TypeOK, Inserted
    <2>3. ASSUME NEW u \in Tx \ {t}
          PROVE  /\ pc'[u] = pc[u] /\ req'[u] = req[u] /\ idx'[u] = idx[u]
                 /\ snap'[u] = snap[u] /\ rows'[u] = rows[u]
      BY <1>1 DEF KardexInv, TypeOK
    <2>4. pc'[t] = "upsert" /\ snap'[t] = snap[t] /\ pc[t] = "insert"
      BY <1>1 DEF KardexInv, TypeOK
    <2>5. snap'[t].qty >= 0 /\ snap'[t].qty + LineOf(t)'.qty >= 0
      BY <2>1, <2>4 DEF KardexInv, PositionInv
    <2>6. QED
      BY <2>2, <2>3, <2>4, <2>5, OthersKeep DEF PositionInv
  <1>7. QED
    BY <1>1, <1>5, <1>6 DEF KardexInv, StockNonNegative, NoUnitsNoCost

LEMMA UpsertStockInv ==
    ASSUME KardexInv, NEW t \in Tx, UpsertStock(t) PROVE KardexInv'
  <1> DEFINE c == CellOf(t)
             row == Applied(snap[t], LineOf(t).qty, CostOf(t))
  <1>1. /\ pc[t] = "upsert"
        /\ lock' = [lock EXCEPT ![c] = t]
        /\ draft' = [draft EXCEPT ![c] = row]
        /\ snap' = [snap EXCEPT ![t] = Empty]
        /\ UNCHANGED <<live, stock, kardex, nextId, req, cost, rows>>
    BY DEF UpsertStock, UpsertWith
  <1>2. /\ c \in Cell /\ LineOf(t).qty \in Int /\ CostOf(t) \in Int
        /\ Len(req[t].lines) \in Nat
    BY LineTyped DEF KardexInv
  <1>3. /\ row \in StockRow /\ row.qty >= 0
        /\ row.qty = 0 => row.avgCost = 0
    BY <1>1, <1>2, AvgCostTyped DEF KardexInv, TypeOK, PositionInv
  <1> HIDE DEF c, row
  <1>4. Len(rows[t]) = idx[t] /\ idx[t] \in Nat \ {0} /\ idx[t] <= Len(req[t].lines)
    BY <1>1 DEF KardexInv, TypeOK, PositionInv, Inserted
  <1>a. /\ draft' \in [Cell -> StockRow]
        /\ lock' \in [Cell -> Tx \cup {NoTx}]
        /\ stock' \in [Cell -> StockRow]
    BY <1>1, <1>2, <1>3 DEF KardexInv, TypeOK
  <1>b. snap' \in [Tx -> StockRow]
    <2>1. Empty \in StockRow
      BY DEF Empty, StockRow
    <2>2. QED
      BY <1>1, <2>1 DEF KardexInv, TypeOK
  <1>5. CASE IsLast(t)
    <2>1. /\ pc' = [pc EXCEPT ![t] = IF req[t].kind = "TRANSFER"
                                     THEN "link" ELSE "commit"]
          /\ UNCHANGED idx
      BY <1>5 DEF UpsertStock, UpsertWith, KardexInv, TypeOK
    <2>2. TypeOK'
      BY <1>1, <1>a, <1>b, <2>1 DEF KardexInv, TypeOK, Active
    <2>3. PositionInv'
      <3>1. Len(rows'[t]) = Inserted(t)'
        BY <1>1, <1>4, <2>1 DEF KardexInv, TypeOK, Inserted
      <3>2. /\ pc'[t] = IF req[t].kind = "TRANSFER" THEN "link" ELSE "commit"
            /\ req'[t] = req[t] /\ IsLast(t)'
        BY <1>1, <1>5, <2>1 DEF KardexInv, TypeOK, IsLast
      <3>3. ASSUME NEW u \in Tx \ {t}
            PROVE  /\ pc'[u] = pc[u] /\ req'[u] = req[u] /\ idx'[u] = idx[u]
                   /\ snap'[u] = snap[u] /\ rows'[u] = rows[u]
        BY <1>1, <2>1 DEF KardexInv, TypeOK
      <3>4. QED
        BY <3>1, <3>2, <3>3, OthersKeep DEF PositionInv
    <2>4. QED
      BY <1>1, <1>2, <1>3, <2>2, <2>3
         DEF KardexInv, TypeOK, StockNonNegative, NoUnitsNoCost
  <1>6. CASE ~IsLast(t)
    <2>1. /\ pc' = [pc EXCEPT ![t] = "read"]
          /\ idx' = [idx EXCEPT ![t] = @ + 1]
      BY <1>6 DEF UpsertStock, UpsertWith
    <2>2. idx[t] + 1 \in 1 .. Len(req[t].lines)
      BY <1>2, <1>4, <1>6 DEF IsLast
    <2>3. TypeOK'
      <3>1. pc' \in [Tx -> Active \cup {"idle", "committed", "aborted"}]
        BY <1>1, <2>1 DEF KardexInv, TypeOK, Active
      <3>2. /\ idx' \in [Tx -> Nat \ {0}]
            /\ \A u \in Tx : idx'[u] <= Len(req'[u].lines)
        BY <1>1, <2>1, <2>2 DEF KardexInv, TypeOK
      <3>3. QED
        BY <1>1, <1>a, <1>b, <3>1, <3>2 DEF KardexInv, TypeOK
    <2>4. PositionInv'
      <3>1. Len(rows'[t]) = Inserted(t)' /\ pc'[t] = "read"
        BY <1>1, <1>4, <2>1 DEF KardexInv, TypeOK, Inserted
      <3>2. ASSUME NEW u \in Tx \ {t}
            PROVE  /\ pc'[u] = pc[u] /\ req'[u] = req[u] /\ idx'[u] = idx[u]
                   /\ snap'[u] = snap[u] /\ rows'[u] = rows[u]
        BY <1>1, <2>1 DEF KardexInv, TypeOK
      <3>3. QED
        BY <3>1, <3>2, OthersKeep DEF PositionInv
    <2>5. QED
      BY <1>1, <1>2, <1>3, <2>3, <2>4
         DEF KardexInv, TypeOK, StockNonNegative, NoUnitsNoCost
  <1>7. QED
    BY <1>5, <1>6

LEMMA LinkTransferInv ==
    ASSUME KardexInv, NEW t \in Tx, LinkTransfer(t) PROVE KardexInv'
  <1> DEFINE out == [rows[t][1] EXCEPT !.sourceId = rows[t][2].id]
             pair == [rows[t] EXCEPT ![1] = out]
  <1>1. /\ pc[t] = "link"
        /\ rows' = [rows EXCEPT ![t] = pair]
        /\ pc' = [pc EXCEPT ![t] = "commit"]
        /\ UNCHANGED <<live, stock, draft, lock, kardex, nextId, req, idx, cost,
                       snap>>
    BY DEF LinkTransfer, LinkTo
  <1>2. /\ req[t].kind = "TRANSFER" /\ Len(req[t].lines) = 2 /\ IsLast(t)
        /\ idx[t] = 2 /\ rows[t] \in Seq(Movement) /\ Len(rows[t]) = 2
    BY <1>1, RequestAssumption
       DEF KardexInv, TypeOK, PositionInv, Inserted, IsLast, IsTransfer
  <1>3. out \in Movement
    <2>1. rows[t][1] \in Movement /\ rows[t][2] \in Movement
      BY <1>2
    <2>2. QED
      BY <2>1 DEF Movement
  <1>4. pair \in Seq(Movement) /\ Len(pair) = 2
    BY <1>2, <1>3, ExceptSeq
  <1> HIDE DEF pair
  <1>5. TypeOK'
    BY <1>1, <1>4 DEF KardexInv, TypeOK, Active
  <1>6. PositionInv'
    <2>1. Len(rows'[t]) = Inserted(t)' /\ pc'[t] = "commit" /\ IsLast(t)'
      BY <1>1, <1>2, <1>4 DEF KardexInv, TypeOK, Inserted, IsLast
    <2>2. ASSUME NEW u \in Tx \ {t}
          PROVE  /\ pc'[u] = pc[u] /\ req'[u] = req[u] /\ idx'[u] = idx[u]
                 /\ snap'[u] = snap[u] /\ rows'[u] = rows[u]
      BY <1>1 DEF KardexInv, TypeOK
    <2>3. QED
      BY <2>1, <2>2, OthersKeep DEF PositionInv
  <1>7. QED
    BY <1>1, <1>5, <1>6 DEF KardexInv, StockNonNegative, NoUnitsNoCost

\* The end of a transaction, whichever way, forgets the handler's locals.
LEMMA EndKeeps ==
    ASSUME KardexInv, NEW t \in Tx, NEW outcome \in {"committed", "aborted"},
           End(t, outcome),
           stock' \in [Cell -> StockRow], draft' \in [Cell -> StockRow],
           kardex' \in Seq(Movement)
    PROVE  TypeOK' /\ PositionInv'
  <1>1. /\ lock' = [c \in Cell |-> IF lock[c] = t THEN NoTx ELSE lock[c]]
        /\ pc' = [pc EXCEPT ![t] = outcome]
        /\ idx' = [idx EXCEPT ![t] = 1]
        /\ cost' = [cost EXCEPT ![t] = 0]
        /\ snap' = [snap EXCEPT ![t] = Empty]
        /\ rows' = [rows EXCEPT ![t] = <<>>]
        /\ UNCHANGED <<live, nextId, req>>
    BY DEF End
  <1>2. TypeOK'
    <2>1. \A u \in Tx : idx'[u] <= Len(req'[u].lines)
      BY <1>1, RequestAssumption, LenProperties DEF KardexInv, TypeOK
    <2>2. /\ lock' \in [Cell -> Tx \cup {NoTx}]
          /\ snap' \in [Tx -> StockRow] /\ cost' \in [Tx -> Int]
          /\ pc' \in [Tx -> Active \cup {"idle", "committed", "aborted"}]
          /\ idx' \in [Tx -> Nat \ {0}] /\ req' \in [Tx -> Request]
      BY <1>1 DEF KardexInv, TypeOK, Active, StockRow, Empty
    <2>3. rows' \in [Tx -> Seq(Movement)]
      BY <1>1 DEF KardexInv, TypeOK
    <2>4. QED
      BY <1>1, <2>1, <2>2, <2>3 DEF KardexInv, TypeOK
  <1>3. PositionInv'
    <2>1. Len(rows'[t]) = Inserted(t)' /\ pc'[t] = outcome
      BY <1>1 DEF KardexInv, TypeOK, Inserted
    <2>2. ASSUME NEW u \in Tx \ {t}
          PROVE  /\ pc'[u] = pc[u] /\ req'[u] = req[u] /\ idx'[u] = idx[u]
                 /\ snap'[u] = snap[u] /\ rows'[u] = rows[u]
      BY <1>1 DEF KardexInv, TypeOK
    <2>3. QED
      BY <2>1, <2>2, OthersKeep DEF PositionInv
  <1>4. QED
    BY <1>2, <1>3

LEMMA RollbackInv ==
    ASSUME KardexInv, NEW t \in Tx, Rollback(t) PROVE KardexInv'
  <1>1. /\ draft' = [c \in Cell |-> IF lock[c] = t THEN stock[c] ELSE draft[c]]
        /\ End(t, "aborted")
        /\ UNCHANGED <<stock, kardex>>
    BY DEF Rollback, Undone
  <1>2. draft' \in [Cell -> StockRow] /\ stock' \in [Cell -> StockRow]
        /\ kardex' \in Seq(Movement)
    BY <1>1 DEF KardexInv, TypeOK
  <1>3. TypeOK' /\ PositionInv'
    BY <1>1, <1>2, EndKeeps
  <1>4. QED
    BY <1>1, <1>3 DEF KardexInv, StockNonNegative, NoUnitsNoCost

LEMMA CommitInv ==
    ASSUME KardexInv, NEW t \in Tx, Commit(t) PROVE KardexInv'
  <1>1. /\ stock' = [c \in Cell |-> IF lock[c] = t THEN draft[c] ELSE stock[c]]
        /\ kardex' = kardex \o rows[t]
        /\ End(t, "committed")
        /\ UNCHANGED draft
    BY DEF Commit
  <1>2. draft' \in [Cell -> StockRow] /\ stock' \in [Cell -> StockRow]
        /\ kardex' \in Seq(Movement)
    BY <1>1, ConcatProperties DEF KardexInv, TypeOK
  <1>3. TypeOK' /\ PositionInv'
    BY <1>1, <1>2, EndKeeps
  <1>4. QED
    BY <1>1, <1>3 DEF KardexInv, StockNonNegative, NoUnitsNoCost

LEMMA RemoveProductInv ==
    ASSUME KardexInv, NEW p \in Product, RemoveProduct(p) PROVE KardexInv'
  <1>1. PositionInv'
    BY DEF RemoveProduct, txVars, KardexInv, PositionInv, Inserted, IsLast,
           LineOf
  <1>2. QED
    BY <1>1 DEF RemoveProduct, txVars, KardexInv, TypeOK, StockNonNegative,
                NoUnitsNoCost

\* Every step of the system keeps the invariant.
LEMMA StepInv == KardexInv /\ [Next]_vars => KardexInv'
  <1> SUFFICES ASSUME KardexInv, [Next]_vars PROVE KardexInv'
    OBVIOUS
  <1>1. ASSUME NEW t \in Tx, Begin(t) PROVE KardexInv'
    BY <1>1, BeginInv
  <1>2. ASSUME NEW t \in Tx, ReadCost(t) PROVE KardexInv'
    BY <1>2, ReadCostInv
  <1>3. ASSUME NEW t \in Tx, ReadSnapshot(t) PROVE KardexInv'
    BY <1>3, ReadSnapshotInv
  <1>4. ASSUME NEW t \in Tx, Reject(t) \/ Interrupt(t) \/ DeadlockVictim(t)
        PROVE  KardexInv'
    BY <1>4, RollbackInv DEF Reject, Interrupt, DeadlockVictim
  <1>5. ASSUME NEW t \in Tx, InsertMovement(t) PROVE KardexInv'
    BY <1>5, InsertMovementInv
  <1>6. ASSUME NEW t \in Tx, UpsertStock(t) PROVE KardexInv'
    BY <1>6, UpsertStockInv
  <1>7. ASSUME NEW t \in Tx, LinkTransfer(t) PROVE KardexInv'
    BY <1>7, LinkTransferInv
  <1>8. ASSUME NEW t \in Tx, Commit(t) PROVE KardexInv'
    BY <1>8, CommitInv
  <1>9. ASSUME NEW p \in Product, RemoveProduct(p) PROVE KardexInv'
    BY <1>9, RemoveProductInv
  <1>10. CASE UNCHANGED vars
    <2>1. PositionInv'
      BY <1>10 DEF vars, txVars, KardexInv, PositionInv, Inserted, IsLast,
                   LineOf
    <2>2. QED
      BY <1>10, <2>1 DEF vars, txVars, KardexInv, TypeOK, StockNonNegative,
                         NoUnitsNoCost
  <1>11. QED
    BY <1>1, <1>2, <1>3, <1>4, <1>5, <1>6, <1>7, <1>8, <1>9, <1>10
       DEF Next, Step

\* The inductive invariant holds in every state of every behaviour.
THEOREM KardexInvariant == Spec => []KardexInv
  <1>1. QED
    BY InitInv, StepInv, PTL DEF Spec

\* The variables keep their types: in particular a handler never works past
\* its last line.
THEOREM TypeCorrect == Spec => []TypeOK
  <1>1. KardexInv => TypeOK
    BY DEF KardexInv
  <1>2. QED
    BY <1>1, KardexInvariant, PTL

\* No interleaving of requests, with whatever rollbacks, leaves a stock row
\* negative.
THEOREM StockNeverNegative == Spec => []StockNonNegative
  <1>1. KardexInv => StockNonNegative
    BY DEF KardexInv
  <1>2. QED
    BY <1>1, KardexInvariant, PTL

\* A row without units has no cost left over for the next average.
THEOREM EmptyRowsCarryNoCost == Spec => []NoUnitsNoCost
  <1>1. KardexInv => NoUnitsNoCost
    BY DEF KardexInv
  <1>2. QED
    BY <1>1, KardexInvariant, PTL

-----------------------------------------------------------------------------
(* Drift and prices: KardexHistory *)

HistoryInv == HTypeOK /\ OverlapInv

LEMMA HistoryInit == HInit => HistoryInv
  <1> SUFFICES ASSUME HInit PROVE HistoryInv
    OBVIOUS
  <1>1. HTypeOK
    BY DEF HInit, HTypeOK, NoDelta
  <1>2. DriftOnlyByOverlap
    BY DEF HInit, Init, DriftOnlyByOverlap, NoDelta, Empty
  <1>3. ASSUME NEW c \in Cell, NEW t \in Tx PROVE RowInv(t, c)
    BY NoTxAssumption
       DEF HInit, Init, RowInv, NoDelta, Holds, Empty, View, Active
  <1>4. QED
    BY <1>1, <1>2, <1>3 DEF HistoryInv, OverlapInv

\* Steps that only move a request's own locals, away from a read row.
LEMMA HOtherInv ==
    ASSUME KardexInv, HistoryInv, NEW t \in Tx, HOther(t)
    PROVE  HistoryInv'
  <1>1. /\ UNCHANGED <<stock, draft, lock, hvars, snap>>
        /\ \A u \in Tx : u # t =>
              pc'[u] = pc[u] /\ req'[u] = req[u] /\ idx'[u] = idx[u]
        /\ pc[t] \in Active \cup {"idle"} /\ pc'[t] \in Active
        /\ pc'[t] # "idle" /\ (pc[t] = "idle" \/ pc[t] \in Active)
        /\ pc'[t] = "upsert" => /\ pc[t] = "insert"
                                /\ req'[t] = req[t] /\ idx'[t] = idx[t]
        /\ pc'[t] # "insert"
    BY DEF HOther, Begin, ReadCost, ReadCostOf, InsertMovement, InsertWith,
           LinkTransfer, LinkTo, KardexInv,
           TypeOK, Active
  <1>2. HTypeOK' /\ DriftOnlyByOverlap'
    BY <1>1 DEF HistoryInv, HTypeOK, OverlapInv, DriftOnlyByOverlap, hvars
  <1>3. ASSUME NEW c \in Cell, NEW u \in Tx PROVE RowInv(u, c)'
    <2>1. RowInv(u, c)
      BY DEF HistoryInv, OverlapInv
    <2>2. Holds(u, c)' => Holds(u, c)
      BY <1>1 DEF Holds, CellOf, LineOf
    <2>3. lock'[c] = u => pc'[u] \in Active
      BY <1>1, <2>1 DEF RowInv
    <2>4. QED
      BY <1>1, <2>1, <2>2, <2>3 DEF RowInv, View, hvars
  <1>4. QED
    BY <1>2, <1>3 DEF HistoryInv, OverlapInv

LEMMA HReadSnapshotInv ==
    ASSUME KardexInv, HistoryInv, NEW t \in Tx, HReadSnapshot(t)
    PROVE  HistoryInv'
  <1> DEFINE c0 == CellOf(t)
  <1>1. /\ UNCHANGED <<stock, draft, lock, req, idx, net, delta, lost,
                       repriced>>
        /\ pc[t] = "read" /\ pc' = [pc EXCEPT ![t] = "insert"]
        /\ snap' = [snap EXCEPT ![t] = View(t, c0)]
        /\ overtaken' = IF lock[c0] = t THEN overtaken
                        ELSE [overtaken EXCEPT ![t] = @ \ {c0}]
    BY DEF HReadSnapshot, ReadSnapshot, ReadRow
  <1>2. c0 \in Cell
    BY LineTyped DEF KardexInv
  <1>3. HTypeOK' /\ DriftOnlyByOverlap'
    BY <1>1 DEF HistoryInv, HTypeOK, OverlapInv, DriftOnlyByOverlap
  <1>4. ASSUME NEW c \in Cell, NEW u \in Tx PROVE RowInv(u, c)'
    <2>1. RowInv(u, c)
      BY DEF HistoryInv, OverlapInv
    <2>2. /\ CellOf(u)' = CellOf(u) /\ View(u, c)' = View(u, c)
      BY <1>1 DEF CellOf, LineOf, View
    <2>3. CASE u = t
      <3>1. /\ pc'[t] = "insert" /\ snap'[t] = View(t, c0)
            /\ pc'[t] \in Active
        BY <1>1, <1>2 DEF KardexInv, TypeOK, Active
      <3>2. Holds(t, c)' => c = c0
        BY <2>2, <2>3 DEF Holds
      <3>3. lock[c] = t => (c \in overtaken'[t] <=> c \in overtaken[t])
        BY <1>1 DEF HistoryInv, HTypeOK
      <3>4. QED
        BY <1>1, <2>1, <2>2, <2>3, <3>1, <3>2, <3>3 DEF RowInv
    <2>4. CASE u # t
      <3>1. /\ pc'[u] = pc[u] /\ snap'[u] = snap[u]
            /\ overtaken'[u] = overtaken[u]
        BY <1>1, <2>4 DEF KardexInv, TypeOK, HistoryInv, HTypeOK
      <3>2. Holds(u, c)' <=> Holds(u, c)
        BY <2>2, <3>1 DEF Holds
      <3>3. QED
        BY <1>1, <2>1, <2>2, <3>1, <3>2 DEF RowInv
    <2>5. QED
      BY <2>3, <2>4
  <1>5. QED
    BY <1>3, <1>4 DEF HistoryInv, OverlapInv

LEMMA HUpsertStockInv ==
    ASSUME KardexInv, HistoryInv, NEW t \in Tx, HUpsertStock(t)
    PROVE  HistoryInv'
  <1> DEFINE c0 == CellOf(t)
             q == LineOf(t).qty
             row == Applied(snap[t], q, CostOf(t))
  <1>1. /\ pc[t] = "upsert" /\ lock[c0] \in {NoTx, t}
        /\ lock' = [lock EXCEPT ![c0] = t]
        /\ draft' = [draft EXCEPT ![c0] = row]
        /\ delta' = [delta EXCEPT ![t][c0] = @ + q]
        /\ snap' = [snap EXCEPT ![t] = Empty]
        /\ UNCHANGED <<stock, req, net, overtaken, lost, repriced>>
        /\ pc'[t] \in {"link", "commit", "read"}
        /\ \A u \in Tx : u # t => pc'[u] = pc[u] /\ idx'[u] = idx[u]
    BY DEF HUpsertStock, UpsertStock, UpsertWith, KardexInv, TypeOK
  <1>2. c0 \in Cell /\ q \in Int
    BY LineTyped DEF KardexInv
  <1>3. row.qty = snap[t].qty + q
    BY DEF Applied
  <1> HIDE DEF row, c0, q
  <1>4. HTypeOK'
    BY <1>1, <1>2 DEF HistoryInv, HTypeOK
  <1>5. DriftOnlyByOverlap'
    BY <1>1 DEF HistoryInv, OverlapInv, DriftOnlyByOverlap
  <1>6. ASSUME NEW c \in Cell, NEW u \in Tx PROVE RowInv(u, c)'
    <2>1. RowInv(u, c) /\ RowInv(t, c0)
      BY <1>2 DEF HistoryInv, OverlapInv
    <2>2. CASE u = t
      <3>1. ~Holds(u, c)' /\ pc'[t] \in Active
        BY <1>1, <2>2 DEF Holds, Active
      <3>2. CASE c # c0
        <4>1. /\ lock'[c] = lock[c] /\ draft'[c] = draft[c]
              /\ delta'[t][c] = delta[t][c]
          BY <1>1, <1>2, <3>2 DEF KardexInv, TypeOK, HistoryInv, HTypeOK
        <4>2. QED
          BY <1>1, <2>1, <2>2, <3>1, <4>1 DEF RowInv
      <3>3. CASE c = c0
        <4>1. /\ lock'[c] = t /\ draft'[c].qty = snap[t].qty + q
              /\ delta'[t][c] = delta[t][c] + q
          BY <1>1, <1>2, <1>3, <3>3 DEF KardexInv, TypeOK, HistoryInv, HTypeOK
        <4>2. Holds(t, c)
          BY <1>1, <3>3 DEF Holds, c0
        <4>3. c \notin overtaken[t] =>
                  snap[t].qty = stock[c].qty + delta[t][c]
          <5>1. c \notin overtaken[t] => snap[t].qty = View(t, c).qty
            BY <2>1, <2>2, <4>2 DEF RowInv
          <5>2. CASE lock[c] = t
            BY <2>1, <2>2, <5>1, <5>2 DEF RowInv, View
          <5>3. CASE lock[c] # t
            <6>1. delta[t][c] = 0 /\ View(t, c) = stock[c]
              BY <2>1, <2>2, <5>3 DEF RowInv, View
            <6>2. stock[c].qty \in Int
              BY DEF KardexInv, TypeOK, StockRow
            <6>3. QED
              BY <5>1, <6>1, <6>2
          <5>4. QED
            BY <5>2, <5>3
        <4>4. /\ stock[c].qty \in Int /\ delta[t][c] \in Int
              /\ snap[t].qty \in Int
          BY DEF KardexInv, TypeOK, StockRow, HistoryInv, HTypeOK
        <4>5. c \notin overtaken'[t] =>
                  draft'[c].qty = stock'[c].qty + delta'[t][c]
          BY <1>1, <1>2, <4>1, <4>3, <4>4
        <4>6. QED
          BY <2>2, <3>1, <4>1, <4>5 DEF RowInv
      <3>4. QED
        BY <3>2, <3>3
    <2>3. CASE u # t
      <3>1. /\ pc'[u] = pc[u] /\ idx'[u] = idx[u] /\ snap'[u] = snap[u]
            /\ delta'[u] = delta[u] /\ overtaken'[u] = overtaken[u]
        BY <1>1, <2>3 DEF KardexInv, TypeOK, HistoryInv, HTypeOK
      <3>2. /\ lock'[c] = u <=> lock[c] = u
            /\ lock[c] = u => draft'[c] = draft[c]
        BY <1>1, <1>2, <2>3, NoTxAssumption DEF KardexInv, TypeOK
      <3>3. Holds(u, c)' <=> Holds(u, c)
        BY <1>1, <3>1 DEF Holds, CellOf, LineOf
      <3>4. View(u, c)' = View(u, c)
        BY <1>1, <3>2 DEF View
      <3>5. QED
        BY <1>1, <2>1, <3>1, <3>2, <3>3, <3>4 DEF RowInv
    <2>4. QED
      BY <2>2, <2>3
  <1>7. QED
    BY <1>4, <1>5, <1>6 DEF HistoryInv, OverlapInv

\* A commit installs the request's rows and turns its pending movements into
\* part of the net; rows it overwrote from an old snapshot are lost.
LEMMA HCommitInv ==
    ASSUME KardexInv, HistoryInv, NEW t \in Tx, HCommit(t)
    PROVE  HistoryInv'
  <1>1. /\ pc[t] = "commit"
        /\ stock' = [c \in Cell |-> IF lock[c] = t THEN draft[c] ELSE stock[c]]
        /\ lock' = [c \in Cell |-> IF lock[c] = t THEN NoTx ELSE lock[c]]
        /\ pc' = [pc EXCEPT ![t] = "committed"]
        /\ idx' = [idx EXCEPT ![t] = 1]
        /\ snap' = [snap EXCEPT ![t] = Empty]
        /\ UNCHANGED <<draft, req>>
    BY DEF HCommit, Commit, End
  <1>2. /\ net' = [c \in Cell |-> net[c] + delta[t][c]]
        /\ delta' = [delta EXCEPT ![t] = NoDelta]
        /\ overtaken' = [u \in Tx |->
               IF u = t THEN {}
               ELSE overtaken[u] \cup {c \in Cell : lock[c] = t /\ Holds(u, c)}]
        /\ lost' = lost \cup {c \in overtaken[t] : lock[c] = t}
    BY DEF HCommit
  <1>3. HTypeOK'
    <2>1. HTypeOK
      BY DEF HistoryInv
    <2>2. repriced' \subseteq Tx
      BY <2>1 DEF HCommit, HTypeOK
    <2>3. QED
      BY <1>2, <2>1, <2>2 DEF HTypeOK, NoDelta
  <1>4. ASSUME NEW c \in Cell, c \notin lost' PROVE stock'[c].qty = net'[c]
    <2>1. c \notin lost /\ (lock[c] = t => c \notin overtaken[t])
      BY <1>2, <1>4
    <2>2. stock[c].qty = net[c] /\ RowInv(t, c)
      BY <2>1 DEF HistoryInv, OverlapInv, DriftOnlyByOverlap
    <2>3. net[c] \in Int /\ delta[t][c] \in Int
      BY DEF HistoryInv, HTypeOK
    <2>4. QED
      BY <1>1, <1>2, <2>1, <2>2, <2>3 DEF RowInv
  <1>5. ASSUME NEW u \in Tx, NEW c \in Cell PROVE RowInv(u, c)'
    <2>1. RowInv(u, c)
      BY DEF HistoryInv, OverlapInv
    <2>2. CASE u = t
      <3>1. lock'[c] # t /\ ~Holds(t, c)' /\ delta'[t][c] = 0
        BY <1>1, <1>2, NoTxAssumption
           DEF KardexInv, TypeOK, HistoryInv, HTypeOK, Holds, NoDelta
      <3>2. QED
        BY <2>2, <3>1 DEF RowInv
    <2>3. CASE u # t
      <3>1. /\ pc'[u] = pc[u] /\ idx'[u] = idx[u] /\ snap'[u] = snap[u]
            /\ delta'[u] = delta[u]
        BY <1>1, <1>2, <2>3 DEF KardexInv, TypeOK, HistoryInv, HTypeOK
      <3>2. lock'[c] = u <=> lock[c] = u
        BY <1>1, <2>3, NoTxAssumption DEF KardexInv, TypeOK
      <3>3. Holds(u, c)' <=> Holds(u, c)
        BY <1>1, <3>1 DEF Holds, CellOf, LineOf
      <3>4. lock[c] = u => stock'[c] = stock[c]
        BY <1>1, <2>3
      <3>5. /\ c \notin overtaken'[u] => c \notin overtaken[u]
            /\ Holds(u, c) /\ c \notin overtaken'[u] => lock[c] # t
        BY <1>2, <2>3
      <3>6. lock[c] # t => View(u, c)' = View(u, c)
        BY <1>1, <3>2 DEF View
      <3>7. QED
        BY <1>1, <2>1, <3>1, <3>2, <3>3, <3>4, <3>5, <3>6 DEF RowInv
    <2>4. QED
      BY <2>2, <2>3
  <1>6. QED
    BY <1>3, <1>4, <1>5 DEF HistoryInv, OverlapInv, DriftOnlyByOverlap

LEMMA HRollbackInv ==
    ASSUME KardexInv, HistoryInv, NEW t \in Tx, HRollback(t)
    PROVE  HistoryInv'
  <1>1. /\ draft' = [c \in Cell |-> IF lock[c] = t THEN stock[c] ELSE draft[c]]
        /\ lock' = [c \in Cell |-> IF lock[c] = t THEN NoTx ELSE lock[c]]
        /\ pc' = [pc EXCEPT ![t] = "aborted"]
        /\ idx' = [idx EXCEPT ![t] = 1]
        /\ snap' = [snap EXCEPT ![t] = Empty]
        /\ UNCHANGED <<stock, req>>
    BY DEF HRollback, Reject, Interrupt, DeadlockVictim, Rollback, Undone, End
  <1>2. /\ delta' = [delta EXCEPT ![t] = NoDelta]
        /\ overtaken' = [overtaken EXCEPT ![t] = {}]
        /\ repriced' = repriced \ {t}
        /\ UNCHANGED <<net, lost>>
    BY DEF HRollback
  <1>3. HTypeOK'
    BY <1>2 DEF HistoryInv, HTypeOK, NoDelta
  <1>4. DriftOnlyByOverlap'
    BY <1>1, <1>2 DEF HistoryInv, OverlapInv, DriftOnlyByOverlap
  <1>5. ASSUME NEW u \in Tx, NEW c \in Cell PROVE RowInv(u, c)'
    <2>1. RowInv(u, c)
      BY DEF HistoryInv, OverlapInv
    <2>2. CASE u = t
      <3>1. lock'[c] # t /\ ~Holds(t, c)' /\ delta'[t][c] = 0
        BY <1>1, <1>2, NoTxAssumption
           DEF KardexInv, TypeOK, HistoryInv, HTypeOK, Holds, NoDelta
      <3>2. QED
        BY <2>2, <3>1 DEF RowInv
    <2>3. CASE u # t
      <3>1. /\ pc'[u] = pc[u] /\ idx'[u] = idx[u] /\ snap'[u] = snap[u]
            /\ delta'[u] = delta[u] /\ overtaken'[u] = overtaken[u]
        BY <1>1, <1>2, <2>3 DEF KardexInv, TypeOK, HistoryInv, HTypeOK
      <3>2. /\ lock'[c] = u <=> lock[c] = u
            /\ lock[c] = u => draft'[c] = draft[c]
        BY <1>1, <2>3, NoTxAssumption DEF KardexInv, TypeOK
      <3>3. Holds(u, c)' <=> Holds(u, c)
        BY <1>1, <3>1 DEF Holds, CellOf, LineOf
      <3>4. View(u, c)' = View(u, c)
        BY <1>1, <3>2 DEF View
      <3>5. QED
        BY <1>1, <2>1, <3>1, <3>2, <3>3, <3>4 DEF RowInv
    <2>4. QED
      BY <2>2, <2>3
  <1>6. QED
    BY <1>3, <1>4, <1>5 DEF HistoryInv, OverlapInv

\* The history variables only watch: each step is one of Kardex.
LEMMA HistoryStep == [HNext]_<<vars, hvars>> => [Next]_vars
  <1>1. \A t \in Tx : HReadSnapshot(t) \/ HUpsertStock(t) \/ HCommit(t)
                        \/ HRollback(t) \/ HOther(t)
            => Begin(t) \/ Step(t) \/ Interrupt(t) \/ DeadlockVictim(t)
    BY DEF HReadSnapshot, HUpsertStock, HCommit, HRollback, HOther, Step
  <1>2. QED
    BY <1>1 DEF HNext, Next

LEMMA HistoryInvStep ==
    KardexInv /\ HistoryInv /\ [HNext]_<<vars, hvars>> => HistoryInv'
  <1> SUFFICES ASSUME KardexInv, HistoryInv, [HNext]_<<vars, hvars>>
               PROVE  HistoryInv'
    OBVIOUS
  <1>1. ASSUME NEW t \in Tx, HReadSnapshot(t) PROVE HistoryInv'
    BY <1>1, HReadSnapshotInv
  <1>2. ASSUME NEW t \in Tx, HUpsertStock(t) PROVE HistoryInv'
    BY <1>2, HUpsertStockInv
  <1>3. ASSUME NEW t \in Tx, HCommit(t) PROVE HistoryInv'
    BY <1>3, HCommitInv
  <1>4. ASSUME NEW t \in Tx, HRollback(t) PROVE HistoryInv'
    BY <1>4, HRollbackInv
  <1>5. ASSUME NEW t \in Tx, HOther(t) PROVE HistoryInv'
    BY <1>5, HOtherInv
  <1>6. ASSUME UNCHANGED <<stock, draft, lock, pc, req, idx, snap, hvars>>
        PROVE  HistoryInv'
    BY <1>6 DEF HistoryInv, HTypeOK, OverlapInv, DriftOnlyByOverlap, RowInv,
                Holds, CellOf, LineOf, View, hvars
  <1>7. ASSUME NEW p \in Product, RemoveProduct(p) /\ UNCHANGED hvars
        PROVE  HistoryInv'
    BY <1>6, <1>7 DEF RemoveProduct, txVars
  <1>8. CASE UNCHANGED <<vars, hvars>>
    BY <1>6, <1>8 DEF vars, txVars
  <1>9. QED
    BY <1>1, <1>2, <1>3, <1>4, <1>5, <1>7, <1>8 DEF HNext

\* Whatever the requests and their interleaving, a stock row differs from the
\* sum of its committed movements only if some request committed a quantity
\* computed from a row that another had changed since it was read.
THEOREM NoOtherDrift == HSpec => []DriftOnlyByOverlap
  <1>1. HInit => Init
    BY DEF HInit
  <1>2. HSpec => []KardexInv
    BY <1>1, HistoryStep, InitInv, StepInv, PTL DEF HSpec
  <1>3. HistoryInv => DriftOnlyByOverlap
    BY DEF HistoryInv, OverlapInv
  <1>4. QED
    BY <1>2, <1>3, HistoryInit, HistoryInvStep, PTL DEF HSpec

-----------------------------------------------------------------------------
(* The cost of a transfer *)

\* A request holds no row before it has written its first one; a transfer that
\* is not repriced has the committed cost of its origin until it reads the row,
\* and the cost of what it read from then on.
PriceInv(t) ==
    idx[t] = 1 =>
        /\ pc[t] \in {"cost", "read", "insert", "upsert"} => \A c \in Cell : lock[c] # t
        /\ req[t].kind = "TRANSFER" /\ t \notin repriced =>
              /\ pc[t] = "read" => cost[t] = stock[CellOf(t)].avgCost
              /\ pc[t] \in {"insert", "upsert"} => cost[t] = snap[t].avgCost

LEMMA PriceInit == HInit => \A t \in Tx : PriceInv(t)
  BY NoTxAssumption DEF HInit, Init, PriceInv

\* A statement of another request moves neither the row nor the locals of u,
\* unless it commits the row.
LEMMA PriceKept ==
    ASSUME NEW u \in Tx, PriceInv(u), KardexInv,
           UNCHANGED <<pc[u], req[u], idx[u], cost[u], snap[u]>>,
           \A c \in Cell : lock'[c] = u => lock[c] = u,
           u \notin repriced' => u \notin repriced,
           u \notin repriced' /\ Priced(u, CellOf(u)) =>
               stock'[CellOf(u)] = stock[CellOf(u)]
    PROVE  PriceInv(u)'
  <1>1. CellOf(u)' = CellOf(u)
    BY DEF CellOf, LineOf
  <1> QED
    BY <1>1 DEF PriceInv, Priced

LEMMA PriceStep ==
    ASSUME KardexInv, HistoryInv, \A t \in Tx : PriceInv(t), NEW t \in Tx,
           HReadSnapshot(t) \/ HUpsertStock(t) \/ HCommit(t) \/ HRollback(t) \/ HOther(t)
    PROVE  \A u \in Tx : PriceInv(u)'
  <1> USE DEF KardexInv, TypeOK
  <1>1. CellOf(t) \in Cell /\ PriceInv(t)
    BY LineTyped
  <1>2. CASE HReadSnapshot(t)
    <2>1. /\ pc[t] = "read" /\ pc' = [pc EXCEPT ![t] = "insert"]
          /\ snap' = [snap EXCEPT ![t] = View(t, CellOf(t))]
          /\ UNCHANGED <<stock, lock, req, idx, cost, repriced>>
      BY <1>2 DEF HReadSnapshot, ReadSnapshot, ReadRow
    <2>2. idx[t] = 1 => View(t, CellOf(t)) = stock[CellOf(t)]
      BY <1>1, <2>1 DEF PriceInv, View
    <2>3. PriceInv(t)'
      <3>1. /\ pc'[t] = "insert" /\ snap'[t] = View(t, CellOf(t)) /\ idx'[t] = idx[t]
            /\ cost'[t] = cost[t] /\ req'[t] = req[t]
        BY <2>1
      <3> QED
        BY <1>1, <2>1, <2>2, <3>1 DEF PriceInv
    <2>4. ASSUME NEW u \in Tx \ {t} PROVE PriceInv(u)'
      BY <2>1, PriceKept
    <2> QED
      BY <2>3, <2>4
  <1>3. CASE HUpsertStock(t)
    <2>1. /\ lock' = [lock EXCEPT ![CellOf(t)] = t]
          /\ pc' = [pc EXCEPT ![t] = IF ~IsLast(t) THEN "read"
                                     ELSE IF req[t].kind = "TRANSFER" THEN "link"
                                     ELSE "commit"]
          /\ idx' = [idx EXCEPT ![t] = IF IsLast(t) THEN @ ELSE @ + 1]
          /\ snap' = [snap EXCEPT ![t] = Empty]
          /\ UNCHANGED <<stock, req, cost, repriced>>
      BY <1>3 DEF HUpsertStock, UpsertStock, UpsertWith
    <2>2. PriceInv(t)'
      <3>1. CASE IsLast(t)
        <4>1. pc'[t] \in {"link", "commit"}
          BY <2>1, <3>1
        <4> QED
          BY <4>1 DEF PriceInv
      <3>2. CASE ~IsLast(t)
        <4>1. idx'[t] = idx[t] + 1 /\ idx[t] \in Nat \ {0}
          BY <2>1, <3>2
        <4> QED
          BY <4>1 DEF PriceInv
      <3> QED
        BY <3>1, <3>2
    <2>3. ASSUME NEW u \in Tx \ {t} PROVE PriceInv(u)'
      <3>1. \A c \in Cell : lock'[c] = u => lock[c] = u
        BY <1>1, <2>1
      <3> QED
        BY <2>1, <3>1, PriceKept
    <2> QED
      BY <2>2, <2>3
  <1>4. CASE HCommit(t)
    <2>1. /\ stock' = [c \in Cell |-> IF lock[c] = t THEN draft[c] ELSE stock[c]]
          /\ lock' = [c \in Cell |-> IF lock[c] = t THEN NoTx ELSE lock[c]]
          /\ pc' = [pc EXCEPT ![t] = "committed"]
          /\ idx' = [idx EXCEPT ![t] = 1] /\ cost' = [cost EXCEPT ![t] = 0]
          /\ snap' = [snap EXCEPT ![t] = Empty] /\ req' = req
          /\ repriced' = (repriced \ {t}) \cup
                 {u \in Tx \ {t} : \E c \in Cell : lock[c] = t /\ Priced(u, c)}
      BY <1>4 DEF HCommit, Commit, End
    <2>2. PriceInv(t)'
      <3>1. pc'[t] = "committed"
        BY <2>1
      <3> QED
        BY <3>1 DEF PriceInv
    <2>3. ASSUME NEW u \in Tx \ {t} PROVE PriceInv(u)'
      <3>1. UNCHANGED <<pc[u], req[u], idx[u], cost[u], snap[u]>>
        BY <2>1
      <3>2. \A c \in Cell : lock'[c] = u => lock[c] = u
        BY <2>1, NoTxAssumption
      <3>3. CellOf(u) \in Cell
        BY LineTyped
      <3>4. u \notin repriced' /\ Priced(u, CellOf(u)) =>
                stock'[CellOf(u)] = stock[CellOf(u)]
        BY <2>1, <3>3
      <3> QED
        BY <2>1, <3>1, <3>2, <3>4, PriceKept
    <2> QED
      BY <2>2, <2>3
  <1>5. CASE HRollback(t)
    <2>1. /\ lock' = [c \in Cell |-> IF lock[c] = t THEN NoTx ELSE lock[c]]
          /\ pc' = [pc EXCEPT ![t] = "aborted"]
          /\ idx' = [idx EXCEPT ![t] = 1] /\ cost' = [cost EXCEPT ![t] = 0]
          /\ snap' = [snap EXCEPT ![t] = Empty]
          /\ UNCHANGED <<stock, req>> /\ repriced' = repriced \ {t}
      BY <1>5 DEF HRollback, Reject, Interrupt, DeadlockVictim, Rollback, End
    <2>2. PriceInv(t)'
      <3>1. pc'[t] = "aborted"
        BY <2>1
      <3> QED
        BY <3>1 DEF PriceInv
    <2>3. ASSUME NEW u \in Tx \ {t} PROVE PriceInv(u)'
      <3>1. UNCHANGED <<pc[u], req[u], idx[u], cost[u], snap[u]>>
        BY <2>1
      <3>2. \A c \in Cell : lock'[c] = u => lock[c] = u
        BY <2>1, NoTxAssumption
      <3> QED
        BY <2>1, <3>1, <3>2, PriceKept
    <2> QED
      BY <2>2, <2>3
  <1>6. CASE HOther(t)
    <2>1. /\ UNCHANGED <<stock, lock, repriced, snap>>
          /\ \A u \in Tx \ {t} : UNCHANGED <<pc[u], req[u], idx[u], cost[u], snap[u]>>
      BY <1>6 DEF HOther, Begin, ReadCost, ReadCostOf, InsertMovement, InsertWith,
                  LinkTransfer, LinkTo, hvars
    <2>2. PriceInv(t)'
      <3>1. CASE Begin(t)
        <4>1. /\ \A c \in Cell : lock[c] # t
              /\ req'[t].kind = "TRANSFER" => pc'[t] = "cost"
          BY <3>1 DEF Begin, HistoryInv, OverlapInv, RowInv, Active
        <4> QED
          BY <2>1, <4>1 DEF PriceInv
      <3>2. CASE ReadCost(t)
        <4>1. /\ pc[t] = "cost" /\ pc'[t] = "read" /\ req' = req /\ idx' = idx
              /\ cost'[t] = View(t, CellOf(t)).avgCost
          BY <3>2 DEF ReadCost, ReadCostOf
        <4>2. idx[t] = 1 => View(t, CellOf(t)) = stock[CellOf(t)]
          BY <1>1, <4>1 DEF PriceInv, View
        <4>3. CellOf(t)' = CellOf(t)
          BY <4>1 DEF CellOf, LineOf
        <4> QED
          BY <1>1, <2>1, <4>1, <4>2, <4>3 DEF PriceInv
      <3>3. CASE InsertMovement(t)
        <4>1. /\ pc[t] = "insert" /\ pc'[t] = "upsert" /\ req' = req /\ idx' = idx
              /\ cost' = cost
          BY <3>3 DEF InsertMovement, InsertWith
        <4> QED
          BY <1>1, <2>1, <4>1 DEF PriceInv
      <3>4. CASE LinkTransfer(t)
        <4>1. pc'[t] = "commit"
          BY <3>4 DEF LinkTransfer, LinkTo
        <4> QED
          BY <4>1 DEF PriceInv
      <3> QED
        BY <1>6, <3>1, <3>2, <3>3, <3>4 DEF HOther
    <2>3. ASSUME NEW u \in Tx \ {t} PROVE PriceInv(u)'
      BY <2>1, PriceKept
    <2> QED
      BY <2>2, <2>3
  <1> QED
    BY <1>2, <1>3, <1>4, <1>5, <1>6

LEMMA PriceInvStep ==
    /\ KardexInv /\ HistoryInv /\ (\A t \in Tx : PriceInv(t))
    /\ [HNext]_<<vars, hvars>>
    => (\A t \in Tx : PriceInv(t))'
  <1> SUFFICES ASSUME KardexInv, HistoryInv, \A t \in Tx : PriceInv(t),
                      [HNext]_<<vars, hvars>>
               PROVE  \A t \in Tx : PriceInv(t)'
    OBVIOUS
  <1>1. ASSUME UNCHANGED <<stock, lock, pc, req, idx, cost, snap, hvars>>
        PROVE  \A t \in Tx : PriceInv(t)'
    BY <1>1 DEF PriceInv, CellOf, LineOf, hvars
  <1>2. ASSUME NEW p \in Product, RemoveProduct(p) /\ UNCHANGED hvars
        PROVE  \A t \in Tx : PriceInv(t)'
    BY <1>1, <1>2 DEF RemoveProduct, txVars
  <1>3. CASE UNCHANGED <<vars, hvars>>
    BY <1>1, <1>3 DEF vars, txVars
  <1> QED
    BY <1>2, <1>3, PriceStep DEF HNext

\* Whatever the requests and their interleaving, a transfer moves its units at
\* the average cost of the row it takes them from, unless another request
\* committed that row between its two reads.
THEOREM TransfersKeepCost == HSpec => []TransferAtOriginCost
  <1>1. HInit => Init
    BY DEF HInit
  <1>2. HSpec => []KardexInv
    BY <1>1, HistoryStep, InitInv, StepInv, PTL DEF HSpec
  <1>3. HSpec => []HistoryInv
    BY <1>2, HistoryInit, HistoryInvStep, PTL DEF HSpec
  <1>4. (\A t \in Tx : PriceInv(t)) => TransferAtOriginCost
    BY DEF PriceInv, TransferAtOriginCost
  <1> QED
    BY <1>2, <1>3, <1>4, PriceInit, PriceInvStep, PTL DEF HSpec

-----------------------------------------------------------------------------
(* The movements of a transfer *)

\* The movements a transfer has inserted are those of its lines, at the cost it
\* read, the IN points at the OUT and, when it is to commit, the OUT at the IN.
\* The movements of any other request are not those of a transfer.
PairInv(t) ==
    IF req[t].kind # "TRANSFER"
    THEN \A i \in DOMAIN rows[t] : rows[t][i].kind # "TRANSFER"
    ELSE /\ \A i \in DOMAIN rows[t] :
                /\ rows[t][i].tx = t
                /\ rows[t][i].cell = req[t].lines[i].cell
                /\ rows[t][i].qty = req[t].lines[i].qty
                /\ rows[t][i].unitCost = cost[t]
         /\ Len(rows[t]) = 2 => rows[t][2].sourceId = rows[t][1].id
         /\ pc[t] = "commit" => rows[t][1].sourceId = rows[t][2].id
         /\ pc[t] = "cost" => rows[t] = <<>>

TransferInv == KardexInv /\ (\A t \in Tx : PairInv(t)) /\ TransferPaired

LEMMA TransferInit == Init => TransferInv
  <1> SUFFICES ASSUME Init PROVE TransferInv
    OBVIOUS
  <1>1. \A t \in Tx : rows[t] = <<>> /\ pc[t] = "idle"
    BY DEF Init
  <1>2. ASSUME NEW t \in Tx PROVE PairInv(t)
    <2>1. pc[t] = "idle" /\ DOMAIN rows[t] = {} /\ Len(rows[t]) = 0
      BY <1>1
    <2>2. rows[t] = <<>>
      BY <1>1
    <2>3. QED
      BY <2>1, <2>2 DEF PairInv
  <1>3. kardex = <<>>
    BY DEF Init
  <1>4. TransferPaired
    BY <1>3 DEF TransferPaired
  <1>5. QED
    BY <1>2, <1>4, InitInv DEF TransferInv

\* Whoever has inserted nothing, or is left alone by a step.
LEMMA PairAfresh ==
    ASSUME NEW t \in Tx, rows'[t] = <<>>, pc'[t] # "commit"
    PROVE  PairInv(t)'
  BY DEF PairInv

LEMMA PairStays ==
    ASSUME NEW t \in Tx, PairInv(t), UNCHANGED <<rows[t], req[t], cost[t]>>,
           pc'[t] = "commit" => pc[t] = "commit" \/ req[t].kind # "TRANSFER",
           pc'[t] = "cost" => pc[t] = "cost"
    PROVE  PairInv(t)'
  BY DEF PairInv

\* A transfer about to insert is at its first or its second line.
LEMMA TransferLines ==
    ASSUME KardexInv, NEW t \in Tx, req[t].kind = "TRANSFER"
    PROVE  /\ IsTransfer(req[t].lines) /\ idx[t] \in {1, 2}
           /\ pc[t] \in {"link", "commit"} => Len(rows[t]) = 2
           /\ DOMAIN rows[t] = 1 .. Len(rows[t]) /\ Len(rows[t]) \in Nat
  <1>1. IsTransfer(req[t].lines) /\ idx[t] \in {1, 2}
    <2>1. req[t] \in Request /\ idx[t] \in Nat \ {0} /\ idx[t] <= Len(req[t].lines)
      BY DEF KardexInv, TypeOK
    <2>2. IsTransfer(req[t].lines)
      BY <2>1, RequestAssumption
    <2>3. Len(req[t].lines) = 2
      BY <2>2 DEF IsTransfer
    <2>4. QED
      BY <2>1, <2>2, <2>3
  <1>2. pc[t] \in {"link", "commit"} => Len(rows[t]) = 2
    BY <1>1 DEF KardexInv, PositionInv, Inserted, IsLast, IsTransfer
  <1>3. rows[t] \in Seq(Movement)
    BY DEF KardexInv, TypeOK
  <1>4. QED
    BY <1>1, <1>2, <1>3

LEMMA PairInserted ==
    ASSUME KardexInv, NEW t \in Tx, PairInv(t), InsertMovement(t)
    PROVE  PairInv(t)'
  <1> DEFINE linked == req[t].kind = "TRANSFER" /\ idx[t] = 2
             m == [id |-> nextId, tx |-> t, cell |-> CellOf(t),
                   qty |-> LineOf(t).qty, unitCost |-> CostOf(t),
                   balance |-> snap[t].qty + LineOf(t).qty,
                   kind |-> req[t].kind,
                   sourceId |-> IF linked THEN rows[t][1].id ELSE 0]
             n == Len(rows[t])
  <1>1. /\ rows'[t] = Append(rows[t], m) /\ pc'[t] = "upsert" /\ pc[t] = "insert"
        /\ UNCHANGED <<req, idx, cost>>
    BY DEF InsertMovement, InsertWith, KardexInv, TypeOK
  <1>2. rows[t] \in Seq(Movement)
    BY DEF KardexInv, TypeOK
  <1>n. n = idx[t] - 1 /\ idx[t] \in Nat /\ n \in Nat
    BY <1>1, <1>2 DEF KardexInv, TypeOK, PositionInv, Inserted
  <1>3. /\ m.tx = t /\ m.cell = req[t].lines[n + 1].cell
        /\ m.qty = req[t].lines[n + 1].qty /\ m.kind = req[t].kind
        /\ req[t].kind = "TRANSFER" => m.unitCost = cost[t]
        /\ linked => m.sourceId = rows[t][1].id
    BY <1>n DEF LineOf, CellOf, CostOf
  <1> HIDE DEF m
  <1>4. /\ DOMAIN rows'[t] = 1 .. n + 1 /\ rows'[t][n + 1] = m
        /\ Len(rows'[t]) = n + 1
        /\ \A i \in 1 .. n : i \in DOMAIN rows[t] /\ rows'[t][i] = rows[t][i]
    BY <1>1, <1>2
  <1> HIDE DEF n
  <1>6. CASE req[t].kind # "TRANSFER"
    <2>1. \A i \in DOMAIN rows'[t] : rows'[t][i].kind # "TRANSFER"
      <3>1. \A i \in 1 .. n : rows'[t][i].kind # "TRANSFER"
        BY <1>4, <1>6 DEF PairInv
      <3>2. rows'[t][n + 1].kind # "TRANSFER"
        BY <1>3, <1>4, <1>6
      <3>3. QED
        BY <1>n, <1>4, <3>1, <3>2
    <2>2. QED
      BY <1>1, <1>6, <2>1 DEF PairInv
  <1>7. CASE req[t].kind = "TRANSFER"
    <2>1. \A i \in DOMAIN rows'[t] :
              /\ rows'[t][i].tx = t
              /\ rows'[t][i].cell = req[t].lines[i].cell
              /\ rows'[t][i].qty = req[t].lines[i].qty
              /\ rows'[t][i].unitCost = cost[t]
      <3>1. \A i \in 1 .. n :
                /\ rows'[t][i].tx = t
                /\ rows'[t][i].cell = req[t].lines[i].cell
                /\ rows'[t][i].qty = req[t].lines[i].qty
                /\ rows'[t][i].unitCost = cost[t]
        BY <1>4, <1>7 DEF PairInv
      <3>2. /\ rows'[t][n + 1].tx = t
            /\ rows'[t][n + 1].cell = req[t].lines[n + 1].cell
            /\ rows'[t][n + 1].qty = req[t].lines[n + 1].qty
            /\ rows'[t][n + 1].unitCost = cost[t]
        BY <1>3, <1>4, <1>7
      <3>3. \A i \in DOMAIN rows'[t] : i \in 1 .. n \/ i = n + 1
        BY <1>n, <1>4
      <3>4. QED
        BY <3>1, <3>2, <3>3, Zenon
    <2>2. Len(rows'[t]) = 2 => rows'[t][2].sourceId = rows'[t][1].id
      <3>1. Len(rows'[t]) = 2 => n = 1 /\ n + 1 = 2 /\ 1 \in 1 .. n /\ idx[t] = 2
        <4>1. Len(rows'[t]) = 2 => n + 1 = 2
          BY <1>4, Zenon
        <4>2. QED
          BY <1>n, <4>1
      <3>2. n + 1 = 2 => rows'[t][2] = m
        BY <1>4
      <3>3. QED
        BY <1>3, <1>4, <1>7, <3>1, <3>2, Zenon
    <2>3. QED
      BY <1>1, <1>7, <2>1, <2>2 DEF PairInv
  <1>8. QED
    BY <1>6, <1>7

LEMMA PairLinked ==
    ASSUME KardexInv, NEW t \in Tx, PairInv(t), LinkTransfer(t)
    PROVE  PairInv(t)'
  <1> DEFINE out == [rows[t][1] EXCEPT !.sourceId = rows[t][2].id]
             pair == [rows[t] EXCEPT ![1] = out]
  <1>1. /\ pc[t] = "link" /\ pc' = [pc EXCEPT ![t] = "commit"]
        /\ rows' = [rows EXCEPT ![t] = pair] /\ UNCHANGED <<req, cost>>
    BY DEF LinkTransfer, LinkTo
  <1>2. req[t].kind = "TRANSFER" /\ Len(rows[t]) = 2 /\ rows[t] \in Seq(Movement)
    BY <1>1, TransferLines DEF KardexInv, PositionInv, TypeOK
  <1>3. rows[t][1] \in Movement
    BY <1>2
  <1>4. /\ out.sourceId = rows[t][2].id /\ out.id = rows[t][1].id
        /\ out.tx = rows[t][1].tx /\ out.cell = rows[t][1].cell
        /\ out.qty = rows[t][1].qty /\ out.unitCost = rows[t][1].unitCost
    BY <1>3 DEF Movement
  <1> HIDE DEF out
  <1>5. /\ DOMAIN pair = {1, 2} /\ pair[2] = rows[t][2] /\ pair[1] = out
        /\ DOMAIN rows[t] = {1, 2}
    BY <1>2
  <1> HIDE DEF pair
  <1>6. rows'[t] = pair /\ pc'[t] = "commit"
    BY <1>1 DEF KardexInv, TypeOK
  <1>7. \A i \in DOMAIN pair :
            /\ pair[i].tx = t
            /\ pair[i].cell = req[t].lines[i].cell
            /\ pair[i].qty = req[t].lines[i].qty
            /\ pair[i].unitCost = cost[t]
    BY <1>2, <1>4, <1>5 DEF PairInv
  <1>8. pair[2].sourceId = pair[1].id /\ pair[1].sourceId = pair[2].id
    BY <1>2, <1>4, <1>5 DEF PairInv
  <1>9. QED
    BY <1>1, <1>2, <1>6, <1>7, <1>8 DEF PairInv

\* What a commit adds to the kardex is paired, what was there stays.
LEMMA CommitPairs ==
    ASSUME KardexInv, NEW t \in Tx, PairInv(t), TransferPaired, Commit(t)
    PROVE  TransferPaired'
  <1> DEFINE k == Len(kardex)
             n == Len(rows[t])
  <1>1. kardex' = kardex \o rows[t] /\ pc[t] = "commit"
    BY DEF Commit
  <1>2. /\ kardex \in Seq(Movement) /\ rows[t] \in Seq(Movement)
        /\ k \in Nat /\ n \in Nat
    BY DEF KardexInv, TypeOK
  <1>3. /\ DOMAIN kardex' = 1 .. k + n
        /\ \A i \in 1 .. k : i \in DOMAIN kardex /\ kardex'[i] = kardex[i]
        /\ \A i \in 1 .. n : k + i \in DOMAIN kardex' /\ kardex'[k + i] = rows[t][i]
    BY <1>1, <1>2
  <1>4. SUFFICES ASSUME NEW i \in DOMAIN kardex', kardex'[i].kind = "TRANSFER"
                 PROVE  \E j \in DOMAIN kardex' :
                            /\ kardex'[j].id = kardex'[i].sourceId
                            /\ kardex'[i].id = kardex'[j].sourceId
                            /\ kardex'[j].tx = kardex'[i].tx
                            /\ kardex'[j].qty = -kardex'[i].qty
                            /\ kardex'[j].unitCost = kardex'[i].unitCost
                            /\ kardex'[j].cell # kardex'[i].cell
    BY DEF TransferPaired
  <1>5. CASE i \in 1 .. k
    <2>1. PICK j \in DOMAIN kardex :
              /\ kardex[j].id = kardex[i].sourceId
              /\ kardex[i].id = kardex[j].sourceId
              /\ kardex[j].tx = kardex[i].tx
              /\ kardex[j].qty = -kardex[i].qty
              /\ kardex[j].unitCost = kardex[i].unitCost
              /\ kardex[j].cell # kardex[i].cell
      BY <1>3, <1>4, <1>5 DEF TransferPaired
    <2>2. j \in 1 .. k /\ j \in DOMAIN kardex'
      BY <1>2, <1>3
    <2>3. QED
      BY <1>3, <1>5, <2>1, <2>2
  <1>6. CASE i \notin 1 .. k
    <2>1. i - k \in 1 .. n /\ kardex'[i] = rows[t][i - k]
      BY <1>2, <1>3, <1>6
    <2>2. i - k \in DOMAIN rows[t]
      BY <1>2, <2>1
    <2>3. req[t].kind = "TRANSFER"
      BY <1>4, <2>1, <2>2 DEF PairInv
    <2>4. n = 2 /\ DOMAIN rows[t] = {1, 2} /\ IsTransfer(req[t].lines)
      BY <1>1, <2>3, TransferLines
    <2>5. /\ rows[t][1].tx = t /\ rows[t][2].tx = t
          /\ rows[t][1].cell # rows[t][2].cell
          /\ rows[t][2].qty = -rows[t][1].qty
          /\ rows[t][1].unitCost = rows[t][2].unitCost
          /\ rows[t][2].sourceId = rows[t][1].id
          /\ rows[t][1].sourceId = rows[t][2].id
      BY <1>1, <2>3, <2>4 DEF PairInv, IsTransfer
    <2>6. rows[t][1].qty \in Int
      <3>1. rows[t][1] \in Movement
        BY <1>2, <2>4
      <3>2. QED
        BY <3>1 DEF Movement
    <2>7. kardex'[k + 1] = rows[t][1] /\ kardex'[k + 2] = rows[t][2]
          /\ k + 1 \in DOMAIN kardex' /\ k + 2 \in DOMAIN kardex'
      BY <1>3, <2>4
    <2>8. CASE i = k + 1
      BY <2>5, <2>6, <2>7, <2>8
    <2>9. CASE i = k + 2
      BY <2>5, <2>6, <2>7, <2>9
    <2>10. QED
      BY <1>2, <2>1, <2>4, <2>8, <2>9
  <1>7. QED
    BY <1>5, <1>6

LEMMA TransferStep == TransferInv /\ [Next]_vars => TransferInv'
  <1> SUFFICES ASSUME TransferInv, [Next]_vars PROVE TransferInv'
    OBVIOUS
  <1>1. KardexInv /\ KardexInv' /\ TransferPaired /\ \A t \in Tx : PairInv(t)
    BY StepInv DEF TransferInv
  <1>2. CASE UNCHANGED vars
    BY <1>1, <1>2 DEF TransferInv, TransferPaired, PairInv, vars, txVars
  <1>3. ASSUME NEW p \in Product, RemoveProduct(p) PROVE TransferInv'
    BY <1>1, <1>3 DEF TransferInv, TransferPaired, PairInv, RemoveProduct, txVars
  <1>4. ASSUME NEW t \in Tx, Begin(t) \/ Step(t) \/ Interrupt(t) \/ DeadlockVictim(t)
        PROVE  TransferInv'
    <2>1. ASSUME NEW u \in Tx \ {t}
          PROVE  UNCHANGED <<pc[u], rows[u], req[u], cost[u]>>
      BY <1>1, <1>4 DEF Begin, Step, ReadCost, ReadCostOf, ReadSnapshot, ReadRow, Reject,
         InsertMovement, InsertWith, UpsertStock, UpsertWith, LinkTransfer, LinkTo, Commit,
         Interrupt, DeadlockVictim, Rollback, End, KardexInv, TypeOK
    <2>2. \A u \in Tx \ {t} : PairInv(u)'
      BY <1>1, <2>1, PairStays
    <2>3. TransferPaired'
      <3>1. CASE Commit(t)
        BY <1>1, <3>1, CommitPairs
      <3>2. CASE UNCHANGED kardex
        BY <1>1, <3>2 DEF TransferPaired
      <3>3. QED
        BY <1>4, <3>1, <3>2 DEF Begin, Step, ReadCost, ReadCostOf, ReadSnapshot, ReadRow,
           Reject, InsertMovement, InsertWith, UpsertStock, UpsertWith, LinkTransfer,
           LinkTo, Interrupt, DeadlockVictim, Rollback, End
    <2>4. PairInv(t)'
      <3>1. CASE Begin(t)
        <4>1. rows'[t] = <<>> /\ pc'[t] # "commit"
          BY <1>1, <3>1 DEF Begin, KardexInv, PositionInv, Inserted, TypeOK
        <4>2. QED
          BY <4>1, PairAfresh
      <3>2. CASE ReadCost(t)
        <4>1. /\ pc[t] = "cost" /\ pc'[t] = "read" /\ rows'[t] = rows[t]
              /\ req[t].kind = "TRANSFER"
          BY <1>1, <3>2 DEF ReadCost, ReadCostOf, KardexInv, PositionInv, TypeOK
        <4>2. rows'[t] = <<>>
          BY <1>1, <4>1 DEF PairInv
        <4>3. QED
          BY <4>1, <4>2, PairAfresh
      <3>3. CASE ReadSnapshot(t) \/ UpsertStock(t)
        BY <1>1, <3>3, PairStays DEF ReadSnapshot, ReadRow, UpsertStock, UpsertWith,
                                     KardexInv, TypeOK
      <3>4. CASE InsertMovement(t)
        BY <1>1, <3>4, PairInserted
      <3>5. CASE LinkTransfer(t)
        BY <1>1, <3>5, PairLinked
      <3>6. CASE Commit(t) \/ Reject(t) \/ Interrupt(t) \/ DeadlockVictim(t)
        <4>1. rows'[t] = <<>> /\ pc'[t] # "commit"
          BY <1>1, <3>6 DEF Commit, Reject, Interrupt, DeadlockVictim, Rollback, End,
                            KardexInv, TypeOK
        <4>2. QED
          BY <4>1, PairAfresh
      <3>7. QED
        BY <1>4, <3>1, <3>2, <3>3, <3>4, <3>5, <3>6 DEF Step
    <2>5. QED
      BY <1>1, <2>2, <2>3, <2>4 DEF TransferInv
  <1>5. QED
    BY <1>2, <1>3, <1>4 DEF Next

\* Both movements of a committed transfer are in the kardex, point at each
\* other, cancel out and carry one cost.
THEOREM TransfersPaired == Spec => []TransferPaired
  <1>1. TransferInv => TransferPaired
    BY DEF TransferInv
  <1>2. QED
    BY <1>1, TransferInit, TransferStep, PTL DEF Spec

-----------------------------------------------------------------------------
(* Requests that do not overlap: the ledger *)

After(l, n, c) == Ledger!BalanceAfter(l, n, c)

\* A set of positions has a last one.
LEMMA LastOne ==
    ASSUME NEW n \in Nat, NEW S \in SUBSET (1 .. n), S # {}
    PROVE  \E i \in S : \A j \in S : j <= i
  <1> DEFINE T == {x \in Nat : n - x \in S}
  <1>1. T \subseteq Nat /\ T # {}
    <2>1. PICK i \in S : TRUE
      OBVIOUS
    <2>2. n - i \in Nat /\ n - (n - i) = i
      OBVIOUS
    <2>3. QED
      BY <2>1, <2>2
  <1>2. PICK x \in T : \A y \in T : ~(<<y, x>> \in OpToRel(<, Nat))
    BY <1>1, NatLessThanWellFounded, WFMin
  <1>3. \A y \in T : ~(y < x)
    BY <1>1, <1>2 DEF OpToRel
  <1>4. \A j \in S : j <= n - x
    <2>1. SUFFICES ASSUME NEW j \in S PROVE j <= n - x
      OBVIOUS
    <2>2. n - j \in Nat /\ n - (n - j) = j /\ j \in Nat /\ x \in Nat
      OBVIOUS
    <2>3. ~(n - j < x)
      BY <1>3, <2>2
    <2>4. QED
      BY <2>2, <2>3
  <1>5. QED
    BY <1>2, <1>4

\* The balance after n entries is that of the last one of the row, or nothing.
IsLastOf(l, n, c, i) ==
    i \in 1 .. n /\ l[i].cell = c /\ \A j \in 1 .. n : j > i => l[j].cell # c

LEMMA AfterNone ==
    ASSUME NEW l, NEW n \in Nat, NEW c, \A j \in 1 .. n : l[j].cell # c
    PROVE  After(l, n, c) = 0
  BY DEF After, Ledger!BalanceAfter

LEMMA AfterLast ==
    ASSUME NEW l, NEW n \in Nat, NEW c, NEW i, IsLastOf(l, n, c, i)
    PROVE  After(l, n, c) = l[i].balance
  <1> DEFINE of == {x \in 1 .. n : l[x].cell = c}
             last == CHOOSE x \in of : \A j \in of : j <= x
  <1>1. i \in of /\ \A j \in of : j <= i
    BY DEF IsLastOf
  <1>2. last \in of /\ \A j \in of : j <= last
    BY <1>1
  <1>3. last = i
    <2>1. last <= i /\ i <= last /\ last \in Nat /\ i \in Nat
      BY <1>1, <1>2
    <2> HIDE DEF last
    <2>2. QED
      BY <2>1
  <1>4. of # {} /\ After(l, n, c) = IF of = {} THEN 0 ELSE l[last].balance
    BY <1>1 DEF After, Ledger!BalanceAfter
  <1>5. QED
    BY <1>3, <1>4

LEMMA AfterCases ==
    ASSUME NEW l, NEW n \in Nat, NEW c
    PROVE  (\A j \in 1 .. n : l[j].cell # c) \/ \E i : IsLastOf(l, n, c, i)
  <1> DEFINE of == {x \in 1 .. n : l[x].cell = c}
  <1>1. CASE of = {}
    BY <1>1
  <1>2. CASE of # {}
    <2>1. PICK i \in of : \A j \in of : j <= i
      BY <1>2, LastOne
    <2>2. IsLastOf(l, n, c, i)
      BY <2>1 DEF IsLastOf
    <2>3. QED
      BY <2>2
  <1>3. QED
    BY <1>1, <1>2

\* Only rows and balances matter, and only of the entries so far.
LEMMA AfterSame ==
    ASSUME NEW l, NEW r, NEW n \in Nat, NEW c,
           \A i \in 1 .. n : l[i].cell = r[i].cell /\ l[i].balance = r[i].balance
    PROVE  After(l, n, c) = After(r, n, c)
  <1>1. CASE \A j \in 1 .. n : l[j].cell # c
    <2>1. \A j \in 1 .. n : r[j].cell # c
      BY <1>1
    <2>2. QED
      BY <1>1, <2>1, AfterNone
  <1>2. ASSUME NEW i, IsLastOf(l, n, c, i) PROVE After(l, n, c) = After(r, n, c)
    <2>1. IsLastOf(r, n, c, i) /\ l[i].balance = r[i].balance
      BY <1>2 DEF IsLastOf
    <2>2. QED
      BY <1>2, <2>1, AfterLast
  <1>3. QED
    BY <1>1, <1>2, AfterCases

\* One entry more decides its own row and leaves the others alone.
LEMMA AfterNext ==
    ASSUME NEW l, NEW n \in Nat, NEW c
    PROVE  After(l, n + 1, c) =
               IF l[n + 1].cell = c THEN l[n + 1].balance ELSE After(l, n, c)
  <1>1. CASE l[n + 1].cell = c
    <2>1. IsLastOf(l, n + 1, c, n + 1)
      BY <1>1 DEF IsLastOf
    <2>2. QED
      BY <1>1, <2>1, AfterLast
  <1>2. CASE l[n + 1].cell # c
    <2>1. \A j \in 1 .. n + 1 : j \in 1 .. n \/ j = n + 1
      OBVIOUS
    <2>2. CASE \A j \in 1 .. n : l[j].cell # c
      <3>1. \A j \in 1 .. n + 1 : l[j].cell # c
        BY <1>2, <2>1, <2>2
      <3>2. n + 1 \in Nat
        OBVIOUS
      <3>3. After(l, n + 1, c) = 0 /\ After(l, n, c) = 0
        BY <2>2, <3>1, <3>2, AfterNone
      <3>4. QED
        BY <1>2, <3>3
    <2>3. ASSUME NEW i, IsLastOf(l, n, c, i)
          PROVE  After(l, n + 1, c) = After(l, n, c)
      <3>1. IsLastOf(l, n + 1, c, i)
        BY <1>2, <2>1, <2>3 DEF IsLastOf
      <3>2. n + 1 \in Nat
        OBVIOUS
      <3>3. After(l, n + 1, c) = l[i].balance
        BY <3>1, <3>2, AfterLast
      <3>4. After(l, n, c) = l[i].balance
        BY <2>3, AfterLast
      <3>5. QED
        BY <3>3, <3>4
    <2>4. QED
      BY <1>2, <2>2, <2>3, AfterCases
  <1>3. QED
    BY <1>1, <1>2

\* The movements pending on top of the kardex, one by one.
LEMMA PendingSeq ==
    ASSUME KardexInv, NEW t \in Tx
    PROVE  /\ kardex \in Seq(Movement) /\ rows[t] \in Seq(Movement)
           /\ Len(kardex) \in Nat /\ Len(rows[t]) \in Nat
           /\ Pending(t) \in Seq(Movement)
           /\ Len(Pending(t)) = Len(kardex) + Len(rows[t])
           /\ \A i \in 1 .. Len(kardex) : Pending(t)[i] = kardex[i]
           /\ \A i \in 1 .. Len(rows[t]) : Pending(t)[Len(kardex) + i] = rows[t][i]
           /\ DOMAIN kardex = 1 .. Len(kardex) /\ DOMAIN rows[t] = 1 .. Len(rows[t])
  <1>1. kardex \in Seq(Movement) /\ rows[t] \in Seq(Movement)
    BY DEF KardexInv, TypeOK
  <1>2. QED
    BY <1>1 DEF Pending

\* Who is not in a transaction has inserted nothing.
LEMMA NothingPending ==
    ASSUME KardexInv, NEW t \in Tx, pc[t] \notin Active
    PROVE  rows[t] = <<>> /\ Pending(t) = kardex
  <1>1. rows[t] \in Seq(Movement) /\ kardex \in Seq(Movement)
    BY DEF KardexInv, TypeOK
  <1>2. Len(rows[t]) = 0
    BY DEF KardexInv, PositionInv, Inserted, Active
  <1>3. rows[t] = <<>>
    BY <1>1, <1>2
  <1>4. QED
    BY <1>1, <1>3 DEF Pending

\* What there is to show of a step of the only open request.
LEMMA SerialByOpen ==
    ASSUME SerialInv, KardexInv', NEW t \in Tx,
           \A u \in Tx \ {t} : pc[u] \notin Active /\ pc'[u] = pc[u],
           \A c \in Cell : lock'[c] # NoTx => lock'[c] = t /\ pc'[t] \in Active,
           \A c \in Cell : stock'[c].qty = LastBalance(kardex, c)',
           pc'[t] \in Active => OpenInv(t)'
    PROVE  SerialInv'
  BY Zenon DEF SerialInv

\* The open request is alone, and holds every lock that is held.
LEMMA Alone ==
    ASSUME SerialInv, NEW t \in Tx, pc[t] \in Active
    PROVE  /\ \A u \in Tx \ {t} : pc[u] \notin Active
           /\ \A c \in Cell : lock[c] # NoTx => lock[c] = t
  <1>1. \A c \in Cell : lock[c] \in Tx \cup {NoTx}
    BY DEF SerialInv, KardexInv, TypeOK
  <1>2. QED
    BY <1>1 DEF SerialInv

LEMMA OpenBegin ==
    ASSUME SerialInv, NEW t \in Tx, Begin(t) PROVE OpenInv(t)'
  <1>1. /\ pc[t] = "idle" /\ pc'[t] \in {"cost", "read"}
        /\ UNCHANGED <<rows, kardex, lock, stock, draft>>
    BY DEF Begin, SerialInv, KardexInv, TypeOK
  <1>2. rows[t] = <<>> /\ Pending(t) = kardex
    BY <1>1, NothingPending DEF SerialInv, Active
  <1>3. rows'[t] = <<>> /\ Pending(t)' = kardex
    BY <1>1, <1>2 DEF Pending
  <1>4. DOMAIN rows'[t] = {}
    BY <1>3
  <1>5. \A c \in Cell : View(t, c)' = stock[c]
    BY <1>1, NoTxAssumption DEF SerialInv, View, Active
  <1>6. \A c \in Cell : View(t, c)'.qty = LastBalance(Pending(t), c)'
    BY <1>1, <1>3, <1>5 DEF SerialInv, LastBalance
  <1>7. QED
    BY <1>1, <1>4, <1>6 DEF OpenInv

LEMMA OpenReads ==
    ASSUME SerialInv, NEW t \in Tx, OpenInv(t), ReadCost(t) \/ ReadSnapshot(t)
    PROVE  OpenInv(t)'
  <1>1. /\ pc[t] \in {"cost", "read"} /\ pc'[t] \in {"read", "insert"}
        /\ UNCHANGED <<rows, kardex, lock, stock, draft, idx, req>>
        /\ pc'[t] = "insert" => snap'[t] = View(t, CellOf(t))
    BY DEF ReadCost, ReadCostOf, ReadSnapshot, ReadRow, SerialInv, KardexInv, TypeOK
  <1>2. Pending(t)' = Pending(t) /\ \A c : View(t, c)' = View(t, c)
    BY <1>1 DEF Pending, View
  <1>3. \A c : LastBalance(Pending(t), c)' = LastBalance(Pending(t), c)
    BY <1>2 DEF LastBalance
  <1>4. CellOf(t)' = CellOf(t)
    BY <1>1 DEF CellOf, LineOf
  <1>5. \A c \in Cell : View(t, c)'.qty = LastBalance(Pending(t), c)'
    BY <1>1, <1>2, <1>3 DEF OpenInv
  <1>6. \A i \in DOMAIN rows'[t] :
            /\ rows'[t][i].balance =
                   Ledger!BalanceAfter(Pending(t)', Len(kardex') + i - 1,
                                       rows'[t][i].cell) + rows'[t][i].qty
            /\ rows'[t][i].balance >= 0
    BY <1>1, <1>2 DEF OpenInv
  <1>7. QED
    BY <1>1, <1>2, <1>4, <1>5, <1>6 DEF OpenInv

LEMMA OpenInsert ==
    ASSUME SerialInv, KardexInv', NEW t \in Tx, OpenInv(t), InsertMovement(t)
    PROVE  OpenInv(t)'
  <1> DEFINE m == [id |-> nextId, tx |-> t, cell |-> CellOf(t),
                   qty |-> LineOf(t).qty, unitCost |-> CostOf(t),
                   balance |-> snap[t].qty + LineOf(t).qty,
                   kind |-> req[t].kind,
                   sourceId |-> IF req[t].kind = "TRANSFER" /\ idx[t] = 2
                                THEN rows[t][1].id ELSE 0]
             k == Len(kardex)
             n == Len(rows[t])
             old == Pending(t)
             new == Pending(t)'
  <1>1. /\ rows'[t] = Append(rows[t], m) /\ pc'[t] = "upsert" /\ pc[t] = "insert"
        /\ UNCHANGED <<kardex, lock, stock, draft, req, idx, snap, cost>>
    BY DEF InsertMovement, InsertWith, SerialInv, KardexInv, TypeOK
  <1>2. /\ k \in Nat /\ n \in Nat /\ kardex \in Seq(Movement) /\ rows[t] \in Seq(Movement)
        /\ Len(old) = k + n
        /\ \A i \in 1 .. k : old[i] = kardex[i]
        /\ \A i \in 1 .. n : old[k + i] = rows[t][i]
    BY PendingSeq DEF SerialInv
  <1>3. m.cell = CellOf(t) /\ m.qty = LineOf(t).qty /\ m.unitCost = CostOf(t)
        /\ m.kind = req[t].kind /\ m.balance = snap[t].qty + LineOf(t).qty
    OBVIOUS
  <1> HIDE DEF m
  <1>4. /\ DOMAIN rows'[t] = 1 .. n + 1 /\ Len(rows'[t]) = n + 1
        /\ \A i \in 1 .. n : rows'[t][i] = rows[t][i]
        /\ rows'[t][n + 1] = m
    BY <1>1, <1>2
  <1>5. /\ Len(new) = k + n + 1
        /\ \A i \in 1 .. k : new[i] = kardex[i]
        /\ \A i \in 1 .. n + 1 : new[k + i] = rows'[t][i]
    <2>1. rows'[t] \in Seq(Movement)
      BY DEF KardexInv, TypeOK
    <2>2. new = kardex \o rows'[t]
      BY <1>1 DEF Pending
    <2> HIDE DEF new
    <2>3. Len(new) = k + n + 1
      <3>1. Len(new) = Len(kardex) + Len(rows'[t])
        BY <1>2, <2>1, <2>2
      <3>2. QED
        BY <1>2, <1>4, <3>1
    <2>6. ASSUME NEW i \in 1 .. k PROVE new[i] = kardex[i]
      BY <1>2, <2>1, <2>2
    <2>4. ASSUME NEW i \in 1 .. n + 1 PROVE new[k + i] = rows'[t][i]
      BY <1>2, <1>4, <2>1, <2>2
    <2>5. QED
      BY <2>3, <2>4, <2>6
  <1>6. ASSUME NEW i \in 1 .. k + n PROVE new[i] = old[i]
    <2>1. CASE i \in 1 .. k
      BY <1>2, <1>5, <2>1
    <2>2. CASE i \notin 1 .. k
      <3>1. i - k \in 1 .. n /\ k + (i - k) = i
        BY <1>2, <2>2
      <3>2. i - k \in 1 .. n + 1
        BY <1>2, <3>1
      <3>3. new[k + (i - k)] = rows'[t][i - k] /\ old[k + (i - k)] = rows[t][i - k]
            /\ rows'[t][i - k] = rows[t][i - k]
        BY <1>2, <1>4, <1>5, <3>1, <3>2
      <3>4. QED
        BY <3>1, <3>3
    <2>3. QED
      BY <2>1, <2>2
  <1> HIDE DEF k, n, old, new
  <1>7. \A j \in 0 .. k + n : \A c : After(new, j, c) = After(old, j, c)
    <2>1. SUFFICES ASSUME NEW j \in 0 .. k + n, NEW c
                   PROVE  After(new, j, c) = After(old, j, c)
      OBVIOUS
    <2>2. j \in Nat /\ \A i \in 1 .. j : new[i] = old[i]
      BY <1>2, <1>6
    <2>3. QED
      BY <2>2, AfterSame
  <1>8. /\ snap[t] = View(t, CellOf(t)) /\ m.balance >= 0
        /\ snap[t].qty = After(old, k + n, CellOf(t))
    <2>1. snap[t] = View(t, CellOf(t)) /\ CellOf(t) \in Cell
      BY <1>1, LineTyped DEF OpenInv, SerialInv, KardexInv
    <2>2. m.balance >= 0
      BY <1>1, <1>3 DEF SerialInv, KardexInv, PositionInv
    <2>3. View(t, CellOf(t)).qty = After(old, k + n, CellOf(t))
      BY <1>1, <1>2, <2>1 DEF OpenInv, LastBalance, After, old
    <2>4. QED
      BY <2>1, <2>2, <2>3
  <1>9. UNCHANGED <<View(t, CellOf(t)), CellOf(t), LineOf(t), CostOf(t)>>
        /\ \A c : View(t, c)' = View(t, c)
    BY <1>1 DEF View, CellOf, LineOf, CostOf
  <1>10. ASSUME NEW i \in 1 .. n + 1
         PROVE  /\ rows'[t][i].balance =
                       After(new, k + i - 1, rows'[t][i].cell) + rows'[t][i].qty
                /\ rows'[t][i].balance >= 0
    <2>1. CASE i \in 1 .. n
      <3>1. /\ rows[t][i].balance =
                   After(old, k + i - 1, rows[t][i].cell) + rows[t][i].qty
            /\ rows[t][i].balance >= 0
        BY <1>2, <2>1 DEF OpenInv, After, old, k, n
      <3>2. k + i - 1 \in 0 .. k + n /\ rows'[t][i] = rows[t][i]
        <4>1. k \in Nat /\ n \in Nat
          BY <1>2
        <4>2. k + i - 1 \in 0 .. k + n
          BY <2>1, <4>1
        <4>3. QED
          BY <1>4, <2>1, <4>2
      <3>3. After(new, k + i - 1, rows[t][i].cell) = After(old, k + i - 1, rows[t][i].cell)
        BY <1>7, <3>2
      <3>4. QED
        BY <3>1, <3>2, <3>3
    <2>2. CASE i = n + 1
      <3>1. k + i - 1 = k + n /\ k + n \in 0 .. k + n /\ rows'[t][i] = m
        BY <1>2, <1>4, <2>2
      <3>2. After(new, k + n, CellOf(t)) = After(old, k + n, CellOf(t))
        BY <1>7, <3>1
      <3>3. QED
        BY <1>3, <1>8, <3>1, <3>2
    <2>3. QED
      BY <1>2, <2>1, <2>2
  <1>11. ASSUME NEW c \in Cell, c # CellOf(t)
         PROVE  View(t, c)'.qty = LastBalance(Pending(t), c)'
    <2>1. View(t, c).qty = After(old, k + n, c)
      BY <1>1, <1>2 DEF OpenInv, LastBalance, After, old
    <2>2. After(new, k + n + 1, c) = After(new, k + n, c)
      <3>1. k + n \in Nat /\ new[k + n + 1] = m
        <4>1. n + 1 \in 1 .. n + 1 /\ k + n \in Nat /\ k + (n + 1) = k + n + 1
          BY <1>2
        <4>2. new[k + (n + 1)] = rows'[t][n + 1]
          BY <1>5, <4>1
        <4>3. QED
          BY <1>4, <4>1, <4>2
      <3>2. QED
        BY <1>3, <1>11, <3>1, AfterNext
    <2>3. After(new, k + n, c) = After(old, k + n, c)
      <3>1. k + n \in 0 .. k + n
        BY <1>2
      <3>2. QED
        BY <1>7, <3>1
    <2>4. LastBalance(Pending(t), c)' = After(new, Len(new), c)
      BY DEF LastBalance, After, new
    <2>5. QED
      BY <1>5, <1>9, <2>1, <2>2, <2>3, <2>4
  <1>12. QED
    <2>1. \A i \in DOMAIN rows'[t] :
              /\ rows'[t][i].balance =
                     Ledger!BalanceAfter(Pending(t)', Len(kardex') + i - 1,
                                         rows'[t][i].cell) + rows'[t][i].qty
              /\ rows'[t][i].balance >= 0
      <3>1. Len(kardex') = k
        BY <1>1 DEF k
      <3>2. QED
        BY <1>4, <1>10, <3>1 DEF After, new
    <2>2. \A c \in Cell : \/ pc'[t] = "upsert" /\ c = CellOf(t)'
                         \/ View(t, c)'.qty = LastBalance(Pending(t), c)'
      BY <1>1, <1>9, <1>11
    <2>3. snap'[t] = View(t, CellOf(t))'
      <3>1. View(t, CellOf(t))' = View(t, CellOf(t))
        BY <1>9
      <3>2. QED
        BY <1>1, <1>8, <3>1
    <2>4. rows'[t][Len(rows'[t])] = m /\ req'[t] = req[t]
      BY <1>1, <1>4
    <2>5. QED
      BY <1>1, <1>3, <1>9, <2>1, <2>2, <2>3, <2>4 DEF OpenInv

LEMMA OpenUpsert ==
    ASSUME SerialInv, NEW t \in Tx, OpenInv(t), UpsertStock(t)
    PROVE  OpenInv(t)'
  <1> DEFINE k == Len(kardex)
             n == Len(rows[t])
  <1>0. PICK cell : cell = CellOf(t)
    OBVIOUS
  <1>1. /\ pc[t] = "upsert" /\ pc'[t] \in {"read", "link", "commit"}
        /\ UNCHANGED <<rows, kardex, stock, req>>
        /\ lock' = [lock EXCEPT ![cell] = t]
        /\ draft' = [draft EXCEPT ![cell] = Applied(snap[t], LineOf(t).qty, CostOf(t))]
    BY <1>0 DEF UpsertStock, UpsertWith, SerialInv, KardexInv, TypeOK
  <1>2. cell \in Cell
    BY <1>0, LineTyped DEF SerialInv, KardexInv
  <1>3. /\ rows[t][n].cell = cell
        /\ rows[t][n].balance = snap[t].qty + LineOf(t).qty
    BY <1>0, <1>1 DEF OpenInv
  <1>4. View(t, cell)'.qty = rows[t][n].balance
    <2>1. lock'[cell] = t /\ draft'[cell] = Applied(snap[t], LineOf(t).qty, CostOf(t))
      BY <1>1, <1>2 DEF SerialInv, KardexInv, TypeOK
    <2>2. draft'[cell].qty = snap[t].qty + LineOf(t).qty
      BY <2>1 DEF Applied
    <2>3. View(t, cell)' = draft'[cell]
      BY <2>1 DEF View
    <2>4. QED
      BY <1>3, <2>2, <2>3
  <1>5. ASSUME NEW c \in Cell, c # cell PROVE View(t, c)' = View(t, c)
    BY <1>1, <1>5 DEF View, SerialInv, KardexInv, TypeOK
  <1>6. Pending(t)' = Pending(t)
    BY <1>1 DEF Pending
  <1>7. After(Pending(t), Len(Pending(t)), cell) = rows[t][n].balance
    <2>1. /\ n >= 1 /\ n \in Nat /\ k \in Nat
          /\ Len(Pending(t)) = k + n /\ Pending(t)[k + n] = rows[t][n]
      <3>1. n = idx[t] /\ idx[t] \in Nat \ {0}
        BY <1>1 DEF SerialInv, KardexInv, PositionInv, Inserted, TypeOK
      <3>2. n \in Nat /\ k \in Nat /\ n \in 1 .. n
        BY <3>1, PendingSeq DEF SerialInv
      <3>3. QED
        BY <3>1, <3>2, PendingSeq DEF SerialInv
    <2>2. k + n - 1 \in Nat /\ (k + n - 1) + 1 = k + n
      BY <2>1
    <2>3. After(Pending(t), (k + n - 1) + 1, cell) = rows[t][n].balance
      <3>1. Pending(t)[(k + n - 1) + 1] = rows[t][n]
        BY <2>1, <2>2
      <3> HIDE DEF k, n
      <3>2. QED
        BY <1>3, <2>2, <3>1, AfterNext
    <2>4. QED
      BY <2>1, <2>2, <2>3
  <1>8. ASSUME NEW c \in Cell PROVE View(t, c)'.qty = LastBalance(Pending(t), c)'
    <2>1. LastBalance(Pending(t), c)' = After(Pending(t), Len(Pending(t)), c)
      BY <1>6 DEF LastBalance, After
    <2>2. CASE c = cell
      BY <1>4, <1>7, <2>1, <2>2
    <2>3. CASE c # cell
      <3>1. View(t, c).qty = After(Pending(t), Len(Pending(t)), c)
        BY <1>0, <2>3 DEF OpenInv, LastBalance, After
      <3>2. QED
        BY <1>5, <2>1, <2>3, <3>1
    <2>4. QED
      BY <2>2, <2>3
  <1>9. QED
    <2>1. \A i \in DOMAIN rows'[t] :
              /\ rows'[t][i].balance =
                     Ledger!BalanceAfter(Pending(t)', Len(kardex') + i - 1,
                                         rows'[t][i].cell) + rows'[t][i].qty
              /\ rows'[t][i].balance >= 0
      BY <1>1, <1>6 DEF OpenInv
    <2>2. QED
      BY <1>1, <1>8, <2>1 DEF OpenInv

LEMMA OpenLink ==
    ASSUME SerialInv, NEW t \in Tx, OpenInv(t), LinkTransfer(t)
    PROVE  OpenInv(t)'
  <1> DEFINE out == [rows[t][1] EXCEPT !.sourceId = rows[t][2].id]
             pair == [rows[t] EXCEPT ![1] = out]
             k == Len(kardex)
             old == Pending(t)
             new == kardex \o pair
  <1>1. /\ pc[t] = "link" /\ pc' = [pc EXCEPT ![t] = "commit"]
        /\ rows' = [rows EXCEPT ![t] = pair]
        /\ UNCHANGED <<kardex, stock, draft, lock>>
    BY DEF LinkTransfer, LinkTo
  <1>2. /\ Len(rows[t]) = 2 /\ rows[t] \in Seq(Movement) /\ kardex \in Seq(Movement)
        /\ k \in Nat /\ rows[t][1] \in Movement
    <2>1. req[t].kind = "TRANSFER" /\ KardexInv
      BY <1>1 DEF SerialInv, KardexInv, PositionInv
    <2>2. Len(rows[t]) = 2
      BY <1>1, <2>1, TransferLines
    <2>3. QED
      BY <2>1, <2>2, PendingSeq
  <1>3. /\ out.cell = rows[t][1].cell /\ out.qty = rows[t][1].qty
        /\ out.balance = rows[t][1].balance /\ out \in Movement
    <2>1. rows[t][2] \in Movement
      BY <1>2
    <2>2. QED
      BY <1>2, <2>1 DEF Movement
  <1> HIDE DEF out
  <1>4. /\ DOMAIN pair = {1, 2} /\ pair[2] = rows[t][2] /\ pair[1] = out
        /\ DOMAIN rows[t] = {1, 2}
    BY <1>2
  <1>5. pair \in Seq(Movement) /\ Len(pair) = 2
    BY <1>2, <1>3, ExceptSeq
  <1> HIDE DEF pair
  <1>6. \A i \in {1, 2} : /\ pair[i].cell = rows[t][i].cell
                          /\ pair[i].qty = rows[t][i].qty
                          /\ pair[i].balance = rows[t][i].balance
    BY <1>3, <1>4
  <1>7. rows'[t] = pair /\ pc'[t] = "commit" /\ Pending(t)' = new
    BY <1>1 DEF KardexInv, SerialInv, TypeOK, Pending
  <1>8. /\ Len(new) = k + 2 /\ Len(old) = k + 2
        /\ \A i \in 1 .. k + 2 : new[i].cell = old[i].cell /\ new[i].balance = old[i].balance
    <2>1. Len(new) = k + 2 /\ Len(old) = k + 2
      <3>1. Len(new) = Len(kardex) + Len(pair)
        BY <1>2, <1>5, ConcatProperties
      <3>2. Len(old) = Len(kardex) + Len(rows[t])
        BY <1>2, ConcatProperties DEF Pending
      <3>3. QED
        BY <1>2, <1>5, <3>1, <3>2
    <2>2. ASSUME NEW i \in 1 .. k PROVE new[i] = old[i]
      BY <1>2, <1>5 DEF Pending
    <2>3. ASSUME NEW i \in {1, 2} PROVE new[k + i] = pair[i] /\ old[k + i] = rows[t][i]
      BY <1>2, <1>5 DEF Pending
    <2>4. \A i \in 1 .. k + 2 : i \in 1 .. k \/ i = k + 1 \/ i = k + 2
      BY <1>2
    <2>5. QED
      BY <1>6, <2>1, <2>2, <2>3, <2>4
  <1> HIDE DEF new, old, k
  <1>9. \A j \in 0 .. k + 2 : \A c : After(new, j, c) = After(old, j, c)
    <2>1. SUFFICES ASSUME NEW j \in 0 .. k + 2, NEW c
                   PROVE  After(new, j, c) = After(old, j, c)
      OBVIOUS
    <2>2. j \in Nat /\ \A i \in 1 .. j : i \in 1 .. k + 2
      BY <1>2
    <2>3. QED
      BY <1>8, <2>2, AfterSame
  <1>10. ASSUME NEW i \in {1, 2}
         PROVE  /\ pair[i].balance = After(new, k + i - 1, pair[i].cell) + pair[i].qty
                /\ pair[i].balance >= 0
    <2>1. /\ rows[t][i].balance = After(old, k + i - 1, rows[t][i].cell) + rows[t][i].qty
          /\ rows[t][i].balance >= 0
      BY <1>4 DEF OpenInv, After, old, k
    <2>2. k + i - 1 \in 0 .. k + 2
      BY <1>2
    <2>3. After(new, k + i - 1, rows[t][i].cell) = After(old, k + i - 1, rows[t][i].cell)
      BY <1>9, <2>2
    <2>4. QED
      BY <1>6, <2>1, <2>3
  <1>11. ASSUME NEW c \in Cell PROVE View(t, c)'.qty = LastBalance(Pending(t), c)'
    <2>1. View(t, c).qty = After(old, k + 2, c)
      BY <1>1, <1>8 DEF OpenInv, LastBalance, After, old
    <2>2. View(t, c)' = View(t, c)
      BY <1>1 DEF View
    <2>3. LastBalance(Pending(t), c)' = After(new, k + 2, c)
      BY <1>7, <1>8 DEF LastBalance, After
    <2>4. k + 2 \in 0 .. k + 2
      BY <1>2
    <2>5. QED
      BY <1>9, <2>1, <2>2, <2>3, <2>4
  <1>12. \A i \in DOMAIN rows'[t] :
             /\ rows'[t][i].balance =
                    Ledger!BalanceAfter(Pending(t)', Len(kardex') + i - 1,
                                        rows'[t][i].cell) + rows'[t][i].qty
             /\ rows'[t][i].balance >= 0
    <2>1. Len(kardex') = k
      BY <1>1 DEF k
    <2>2. QED
      BY <1>4, <1>7, <1>10, <2>1 DEF After
  <1>13. QED
    BY <1>7, <1>11, <1>12 DEF OpenInv

LEMMA SerialInit == Init => SerialInv
  <1> SUFFICES ASSUME Init PROVE SerialInv
    OBVIOUS
  <1>1. KardexInv
    BY InitInv
  <1>2. /\ kardex = <<>> /\ \A c \in Cell : stock[c].qty = 0 /\ lock[c] = NoTx
        /\ \A t \in Tx : pc[t] \notin Active
    BY DEF Init, Active, Empty
  <1>3. \A c \in Cell : stock[c].qty = LastBalance(kardex, c)
    <2>1. Len(kardex) = 0 /\ \A c : \A j \in 1 .. 0 : kardex[j].cell # c
      BY <1>2
    <2>2. \A c : LastBalance(kardex, c) = 0
      BY <2>1, AfterNone DEF LastBalance, After
    <2>3. QED
      BY <1>2, <2>2
  <1>4. QED
    BY <1>1, <1>2, <1>3 DEF SerialInv

\* A serial step is a step of Kardex.
LEMMA SerialIsNext == [SerialNext]_vars => [Next]_vars
  BY DEF SerialNext, SerialBegin, Next

LEMMA SerialStep == SerialInv /\ [SerialNext]_vars => SerialInv'
  <1> SUFFICES ASSUME SerialInv, [SerialNext]_vars PROVE SerialInv'
    OBVIOUS
  <1>1. KardexInv /\ KardexInv'
    BY SerialIsNext, StepInv DEF SerialInv
  <1>2. CASE UNCHANGED vars
    <2>1. /\ UNCHANGED <<pc, lock, stock, draft, kardex, rows, snap, req, idx, cost>>
          /\ \A t, c : View(t, c)' = View(t, c)
      BY <1>2 DEF vars, txVars, View
    <2>2. \A t : OpenInv(t)' = OpenInv(t)
      BY <2>1 DEF OpenInv, Pending, LastBalance, CellOf, LineOf, CostOf
    <2>3. QED
      BY <1>1, <2>1, <2>2 DEF SerialInv, LastBalance
  <1>3. ASSUME NEW p \in Product, RemoveProduct(p) PROVE SerialInv'
    <2>1. /\ UNCHANGED <<pc, lock, stock, draft, kardex, rows, snap, req, idx, cost>>
          /\ \A t, c : View(t, c)' = View(t, c)
      BY <1>3 DEF RemoveProduct, txVars, View
    <2>2. \A t : OpenInv(t)' = OpenInv(t)
      BY <2>1 DEF OpenInv, Pending, LastBalance, CellOf, LineOf, CostOf
    <2>3. QED
      BY <1>1, <2>1, <2>2 DEF SerialInv, LastBalance
  <1>4. ASSUME NEW t \in Tx, SerialBegin(t) PROVE SerialInv'
    <2>1. /\ \A u \in Tx : pc[u] \notin Active
          /\ \A u \in Tx \ {t} : pc'[u] = pc[u]
          /\ UNCHANGED <<lock, stock, kardex>>
      BY <1>1, <1>4 DEF SerialBegin, Begin, KardexInv, TypeOK
    <2>2. \A c \in Cell : lock[c] = NoTx
      <3>1. \A c \in Cell : lock[c] \in Tx \cup {NoTx}
        BY <1>1 DEF KardexInv, TypeOK
      <3>2. QED
        BY <2>1, <3>1 DEF SerialInv
    <2>3. OpenInv(t)'
      BY <1>4, OpenBegin DEF SerialBegin
    <2>4. \A c \in Cell : stock'[c].qty = LastBalance(kardex, c)'
      BY <2>1 DEF SerialInv, LastBalance
    <2>5. QED
      BY <1>1, <2>1, <2>2, <2>3, <2>4, SerialByOpen
  <1>5. ASSUME NEW t \in Tx, Step(t) \/ Interrupt(t) PROVE SerialInv'
    <2>1. pc[t] \in Active
      BY <1>5 DEF Step, ReadCost, ReadCostOf, ReadSnapshot, ReadRow, Reject, InsertMovement,
         InsertWith, UpsertStock, UpsertWith, LinkTransfer, LinkTo, Commit, Interrupt, Active
    <2>2. /\ \A u \in Tx \ {t} : pc[u] \notin Active
          /\ \A c \in Cell : lock[c] # NoTx => lock[c] = t
          /\ OpenInv(t)
      BY <2>1, Alone DEF SerialInv
    <2>3. CASE ReadCost(t) \/ ReadSnapshot(t) \/ InsertMovement(t) \/ LinkTransfer(t)
      <3>1. /\ UNCHANGED <<lock, stock, kardex>> /\ pc'[t] \in Active
            /\ \A u \in Tx \ {t} : pc'[u] = pc[u]
        BY <1>1, <2>3 DEF ReadCost, ReadCostOf, ReadSnapshot, ReadRow, InsertMovement,
           InsertWith, LinkTransfer, LinkTo, KardexInv, TypeOK, Active
      <3>2. OpenInv(t)'
        BY <1>1, <2>2, <2>3, OpenReads, OpenInsert, OpenLink
      <3>3. \A c \in Cell : stock'[c].qty = LastBalance(kardex, c)'
        BY <3>1 DEF SerialInv, LastBalance
      <3>4. \A c \in Cell : lock'[c] # NoTx => lock'[c] = t /\ pc'[t] \in Active
        BY <2>2, <3>1
      <3>5. QED
        BY <1>1, <2>2, <3>1, <3>2, <3>3, <3>4, SerialByOpen
    <2>4. CASE UpsertStock(t)
      <3>1. /\ UNCHANGED <<stock, kardex>> /\ pc'[t] \in Active
            /\ \A u \in Tx \ {t} : pc'[u] = pc[u]
            /\ lock' = [lock EXCEPT ![CellOf(t)] = t]
        BY <1>1, <2>4 DEF UpsertStock, UpsertWith, KardexInv, TypeOK, Active
      <3>2. OpenInv(t)'
        BY <2>2, <2>4, OpenUpsert
      <3>3. \A c \in Cell : stock'[c].qty = LastBalance(kardex, c)'
        BY <3>1 DEF SerialInv, LastBalance
      <3>4. \A c \in Cell : lock'[c] # NoTx => lock'[c] = t /\ pc'[t] \in Active
        BY <1>1, <2>2, <3>1 DEF KardexInv, TypeOK
      <3>5. QED
        BY <1>1, <2>2, <3>1, <3>2, <3>3, <3>4, SerialByOpen
    <2>5. CASE Commit(t) \/ Reject(t) \/ Interrupt(t)
      <3>1. /\ pc'[t] \notin Active /\ \A u \in Tx \ {t} : pc'[u] = pc[u]
            /\ lock' = [c \in Cell |-> IF lock[c] = t THEN NoTx ELSE lock[c]]
        BY <1>1, <2>5 DEF Commit, Reject, Interrupt, Rollback, End, KardexInv, TypeOK, Active
      <3>2. \A c \in Cell : lock'[c] = NoTx
        BY <2>2, <3>1
      <3>3. \A c \in Cell : stock'[c].qty = LastBalance(kardex, c)'
        <4>1. CASE Commit(t)
          <5>1. /\ stock' = [c \in Cell |-> View(t, c)] /\ kardex' = Pending(t)
                /\ pc[t] = "commit"
            BY <4>1 DEF Commit, View, Pending
          <5>2. QED
            BY <2>2, <5>1 DEF OpenInv, LastBalance
        <4>2. CASE Reject(t) \/ Interrupt(t)
          BY <4>2 DEF Reject, Interrupt, Rollback, SerialInv, LastBalance
        <4>3. QED
          BY <2>5, <4>1, <4>2
      <3>4. QED
        BY <1>1, <2>2, <3>1, <3>2, <3>3, SerialByOpen
    <2>6. QED
      BY <1>5, <2>3, <2>4, <2>5 DEF Step
  <1>6. QED
    BY <1>2, <1>3, <1>4, <1>5 DEF SerialNext

\* The kardex as the ledger of StockLedger.
LedgerOf(l) == [i \in DOMAIN l |-> [cell |-> l[i].cell, qty |-> l[i].qty,
                                    balance |-> l[i].balance]]

Entry == [cell : Cell, qty : Int, balance : Int]

LEMMA LedgerSeq ==
    ASSUME NEW l \in Seq(Movement)
    PROVE  /\ Len(LedgerOf(l)) = Len(l) /\ Len(l) \in Nat
           /\ \A i \in 1 .. Len(l) : LedgerOf(l)[i] = [cell |-> l[i].cell,
                                     qty |-> l[i].qty, balance |-> l[i].balance]
           /\ LedgerOf(l) \in Seq(Entry)
           /\ \A n \in 0 .. Len(l) : \A c : After(LedgerOf(l), n, c) = After(l, n, c)
  <1>1. \A i \in DOMAIN l : l[i] \in Movement
    OBVIOUS
  <1>2. DOMAIN l = 1 .. Len(l) /\ Len(l) \in Nat
    OBVIOUS
  <1>3. \A i \in DOMAIN l : LedgerOf(l)[i] = [cell |-> l[i].cell, qty |-> l[i].qty,
                                              balance |-> l[i].balance]
    BY DEF LedgerOf
  <1>4. ASSUME NEW i \in DOMAIN l PROVE LedgerOf(l)[i] \in Entry
    <2>1. l[i].cell \in Cell /\ l[i].qty \in Int /\ l[i].balance \in Int
      BY <1>1 DEF Movement
    <2>2. LedgerOf(l)[i] = [cell |-> l[i].cell, qty |-> l[i].qty, balance |-> l[i].balance]
      BY <1>3
    <2>3. QED
      BY <2>1, <2>2 DEF Entry
  <1>5. LedgerOf(l) \in [1 .. Len(l) -> Entry]
    BY <1>2, <1>4 DEF LedgerOf
  <1>6. LedgerOf(l) \in Seq(Entry) /\ Len(LedgerOf(l)) = Len(l)
    <2>1. LedgerOf(l) \in Seq(Entry)
      BY <1>2, <1>5, SeqDef
    <2>2. DOMAIN LedgerOf(l) = 1 .. Len(l) /\ DOMAIN LedgerOf(l) = 1 .. Len(LedgerOf(l))
          /\ Len(LedgerOf(l)) \in Nat
      BY <1>5, <2>1, LenProperties
    <2>3. \A a, b \in Nat : 1 .. a = 1 .. b => a = b
      <3>1. SUFFICES ASSUME NEW a \in Nat, NEW b \in Nat, 1 .. a = 1 .. b, a < b
                     PROVE  FALSE
        OBVIOUS
      <3>2. b \in 1 .. b /\ b \notin 1 .. a
        BY <3>1
      <3>3. QED
        BY <3>1, <3>2
    <2>4. QED
      BY <1>2, <2>1, <2>2, <2>3
  <1>7. ASSUME NEW n \in 0 .. Len(l), NEW c
        PROVE  After(LedgerOf(l), n, c) = After(l, n, c)
    <2>1. n \in Nat /\ \A i \in 1 .. n : i \in DOMAIN l
      BY <1>2
    <2>2. \A i \in 1 .. n : /\ LedgerOf(l)[i].cell = l[i].cell
                            /\ LedgerOf(l)[i].balance = l[i].balance
      <3>1. SUFFICES ASSUME NEW i \in 1 .. n
                     PROVE  /\ LedgerOf(l)[i].cell = l[i].cell
                            /\ LedgerOf(l)[i].balance = l[i].balance
        OBVIOUS
      <3>2. LedgerOf(l)[i] = [cell |-> l[i].cell, qty |-> l[i].qty, balance |-> l[i].balance]
        BY <1>3, <2>1
      <3>3. QED
        BY <3>2
    <2>3. QED
      BY <2>1, <2>2, AfterSame
  <1>8. QED
    BY <1>2, <1>3, <1>6, <1>7

\* A commit posts its movements to the ledger, all at once.
LEMMA CommitPosts ==
    ASSUME SerialInv, KardexInv', SerialInv', NEW t \in Tx, Commit(t)
    PROVE  Ledger!Post
  <1> DEFINE old == LedgerOf(kardex)
             new == LedgerOf(kardex')
             k == Len(kardex)
             n == Len(rows[t])
             pending == kardex'
  <1>1. pc[t] = "commit" /\ kardex' = Pending(t) /\ OpenInv(t)
    BY DEF Commit, Pending, SerialInv, Active
  <1>2. /\ k \in Nat /\ n \in Nat \ {0} /\ Len(pending) = k + n
        /\ kardex \in Seq(Movement) /\ pending \in Seq(Movement)
        /\ \A i \in 1 .. k : pending[i] = kardex[i]
        /\ \A i \in 1 .. n : pending[k + i] = rows[t][i] /\ i \in DOMAIN rows[t]
    <2>1. n = idx[t] /\ idx[t] \in Nat \ {0}
      BY <1>1 DEF SerialInv, KardexInv, PositionInv, Inserted, TypeOK
    <2>2. QED
      BY <1>1, <2>1, PendingSeq DEF SerialInv
  <1>3. /\ Len(old) = k /\ Len(new) = k + n
        /\ old \in Seq(Entry) /\ new \in Seq(Entry)
    BY <1>2, LedgerSeq
  <1>a. /\ \A i \in 1 .. Len(kardex') : new[i] = [cell |-> kardex'[i].cell,
                      qty |-> kardex'[i].qty, balance |-> kardex'[i].balance]
        /\ \A j \in 0 .. Len(kardex') : \A c : After(new, j, c) = After(kardex', j, c)
    BY <1>2, LedgerSeq
  <1>4. \A i \in 1 .. k : new[i] = old[i]
    <2>1. SUFFICES ASSUME NEW i \in 1 .. k PROVE new[i] = old[i]
      OBVIOUS
    <2>2. i \in 1 .. Len(kardex) /\ i \in 1 .. Len(kardex')
      BY <1>2
    <2>3. /\ old[i] = [cell |-> kardex[i].cell, qty |-> kardex[i].qty,
                       balance |-> kardex[i].balance]
          /\ new[i] = [cell |-> kardex'[i].cell, qty |-> kardex'[i].qty,
                       balance |-> kardex'[i].balance]
      BY <1>2, <2>2, LedgerSeq
    <2>4. QED
      BY <1>2, <2>3
  <1>5. \A i \in k + 1 .. k + n :
            /\ new[i].balance = After(new, i - 1, new[i].cell) + new[i].qty
            /\ new[i].balance >= 0
    <2>1. SUFFICES ASSUME NEW i \in k + 1 .. k + n
                   PROVE  /\ new[i].balance = After(new, i - 1, new[i].cell) + new[i].qty
                          /\ new[i].balance >= 0
      OBVIOUS
    <2>2. /\ i - k \in 1 .. n /\ k + (i - k) = i /\ k + (i - k) - 1 = i - 1
          /\ i - 1 \in 0 .. Len(kardex') /\ i \in 1 .. Len(kardex')
      BY <1>2
    <2>3. kardex'[i] = rows[t][i - k] /\ i - k \in DOMAIN rows[t]
      BY <1>2, <2>2
    <2>4. /\ rows[t][i - k].balance =
                 After(kardex', i - 1, rows[t][i - k].cell) + rows[t][i - k].qty
          /\ rows[t][i - k].balance >= 0
      BY <1>1, <2>2, <2>3 DEF OpenInv, After
    <2>5. /\ new[i] = [cell |-> kardex'[i].cell, qty |-> kardex'[i].qty,
                       balance |-> kardex'[i].balance]
          /\ After(new, i - 1, kardex'[i].cell) = After(kardex', i - 1, kardex'[i].cell)
      BY <1>a, <2>2
    <2>6. QED
      BY <2>3, <2>4, <2>5
  <1>6. SubSeq(new, 1, k) = old
    <2>1. /\ SubSeq(new, 1, k) \in Seq(Entry) /\ Len(SubSeq(new, 1, k)) = k
          /\ \A i \in 1 .. k : SubSeq(new, 1, k)[i] = new[i]
      BY <1>2, <1>3
    <2>2. QED
      BY <1>3, <1>4, <2>1, SeqEqual
  <1>7. [c \in Cell |-> stock'[c].qty] = [c \in Cell |-> After(new, Len(new), c)]
    <2>1. SUFFICES ASSUME NEW c \in Cell PROVE stock'[c].qty = After(new, Len(new), c)
      OBVIOUS
    <2>2. stock'[c].qty = After(kardex', Len(kardex'), c)
      BY DEF SerialInv, LastBalance, After
    <2>3. After(new, Len(kardex'), c) = After(kardex', Len(kardex'), c)
      <3>1. Len(kardex') \in 0 .. Len(kardex')
        BY <1>2
      <3>2. QED
        BY <1>a, <3>1
    <2>4. QED
      BY <1>2, <1>3, <2>2, <2>3
  <1>8. k + n > k
    BY <1>2
  <1>9. QED
    BY <1>3, <1>5, <1>6, <1>7, <1>8 DEF Ledger!Post, LedgerOf, After

LEMMA LedgerInit == Init => Ledger!Init
  <1> SUFFICES ASSUME Init PROVE Ledger!Init
    OBVIOUS
  <1>1. kardex = <<>> /\ \A c \in Cell : stock[c].qty = 0
    BY DEF Init, Empty
  <1>2. DOMAIN kardex = {}
    BY <1>1
  <1>3. LedgerOf(kardex) = <<>>
    <2>1. <<>> \in Seq(Movement) /\ Len(<<>>) = 0
      OBVIOUS
    <2>2. Len(LedgerOf(kardex)) = 0 /\ LedgerOf(kardex) \in Seq(Entry)
      BY <1>1, <2>1, LedgerSeq
    <2>3. QED
      BY <2>2, EmptySeq
  <1>4. QED
    BY <1>1, <1>3 DEF Ledger!Init, LedgerOf

LEMMA LedgerStep ==
    SerialInv /\ SerialInv' /\ [SerialNext]_vars =>
        [Ledger!Post]_<<LedgerOf(kardex), [c \in Cell |-> stock[c].qty]>>
  <1> SUFFICES ASSUME SerialInv, SerialInv', [SerialNext]_vars
               PROVE  [Ledger!Post]_<<LedgerOf(kardex), [c \in Cell |-> stock[c].qty]>>
    OBVIOUS
  <1>1. CASE UNCHANGED <<kardex, stock>>
    BY <1>1 DEF LedgerOf
  <1>2. CASE \E t \in Tx : Commit(t)
    <2>1. KardexInv'
      BY DEF SerialInv
    <2>2. QED
      BY <1>2, <2>1, CommitPosts
  <1>3. QED
    BY <1>1, <1>2 DEF SerialNext, SerialBegin, Begin, Step, ReadCost, ReadCostOf,
       ReadSnapshot, ReadRow, Reject, InsertMovement, InsertWith, UpsertStock, UpsertWith,
       LinkTransfer, LinkTo, Interrupt, Rollback, RemoveProduct, vars

\* Requests that do not overlap post their movements to the ledger all at once:
\* balances chain from one movement of a row to the next, none is negative, and
\* the stock is the last one.
THEOREM SerialImplementsLedger == SerialSpec => ImplementsLedger
  <1>1. SerialInv /\ SerialInv' /\ [SerialNext]_vars =>
        [Ledger!Post]_<<[i \in DOMAIN kardex |-> [cell |-> kardex[i].cell,
                            qty |-> kardex[i].qty, balance |-> kardex[i].balance]],
                        [c \in Cell |-> stock[c].qty]>>
    BY LedgerStep DEF LedgerOf
  <1>2. SerialSpec => []SerialInv
    BY SerialInit, SerialStep, PTL DEF SerialSpec
  <1>3. QED
    BY <1>1, <1>2, LedgerInit, PTL DEF SerialSpec, ImplementsLedger, Ledger!Spec

-----------------------------------------------------------------------------
(* Requests that do not overlap: the average cost *)

\* The rounded quotient stays between whole bounds.
LEMMA RoundedBounds ==
    ASSUME NEW n \in Int, NEW d \in Nat \ {0}, NEW b \in Int
    PROVE  /\ b * d <= n => b <= RoundedDiv(n, d)
           /\ n <= b * d => RoundedDiv(n, d) <= b
           /\ RoundedDiv(n, d) \in Int
  <1> DEFINE x == 2 * n + d
             y == 2 * d
             q == x \div y
  <1>1. /\ x \in Int /\ y \in Nat \ {0} /\ q \in Int
        /\ y * q <= x /\ x < y * (q + 1)
    <2>1. x \in Int /\ y \in Nat \ {0}
      OBVIOUS
    <2>2. \A u \in Int, v \in Nat \ {0} :
              u \div v \in Int /\ v * (u \div v) <= u /\ u < v * ((u \div v) + 1)
      OBVIOUS
    <2>3. QED
      BY <2>1, <2>2
  <1>2. RoundedDiv(n, d) = q
    BY DEF RoundedDiv
  <1>3. ASSUME b * d <= n PROVE b <= q
    <2>1. SUFFICES ASSUME q + 1 <= b PROVE FALSE
      BY <1>1
    <2>2. y * (q + 1) <= y * b
      BY <1>1, <2>1
    <2>3. y * b <= x
      BY <1>3
    <2>4. QED
      BY <1>1, <2>2, <2>3
  <1>4. ASSUME n <= b * d PROVE q <= b
    <2>1. SUFFICES ASSUME b + 1 <= q PROVE FALSE
      BY <1>1
    <2>2. y * (b + 1) <= y * q
      BY <1>1, <2>1
    <2>3. x < y * (b + 1)
      BY <1>4
    <2>4. QED
      BY <1>1, <2>2, <2>3
  <1>5. QED
    BY <1>1, <1>2, <1>3, <1>4

\* The average after an entry lies between the old average, when there were
\* units, and the cost of the entry.
LEMMA AvgBetween ==
    ASSUME NEW old \in StockRow, NEW q \in Nat \ {0}, NEW k \in Int, NEW b \in Int,
           old.qty >= 0
    PROVE  /\ (old.qty > 0 => b <= old.avgCost) /\ b <= k => b <= AvgCost(old, q, k)
           /\ (old.qty > 0 => old.avgCost <= b) /\ k <= b => AvgCost(old, q, k) <= b
  <1>1. /\ old.qty \in Nat /\ old.avgCost \in Int
        /\ old.qty + q \in Nat \ {0} /\ q > 0
    BY DEF StockRow
  <1> DEFINE n == old.qty * old.avgCost + q * k
  <1>2. AvgCost(old, q, k) = RoundedDiv(n, old.qty + q)
    BY <1>1 DEF AvgCost
  <1>3. n \in Int
    BY <1>1
  <1>4. ASSUME old.qty > 0 => b <= old.avgCost, b <= k
        PROVE  b * (old.qty + q) <= n
    <2>1. b * old.qty <= old.qty * old.avgCost
      BY <1>1, <1>4
    <2>2. b * q <= q * k
      BY <1>1, <1>4
    <2>3. QED
      BY <1>1, <2>1, <2>2
  <1>5. ASSUME old.qty > 0 => old.avgCost <= b, k <= b
        PROVE  n <= b * (old.qty + q)
    <2>1. old.qty * old.avgCost <= b * old.qty
      BY <1>1, <1>5
    <2>2. q * k <= b * q
      BY <1>1, <1>5
    <2>3. b * (old.qty + q) = b * old.qty + b * q
      BY <1>1
    <2>4. old.qty * old.avgCost \in Int /\ b * old.qty \in Int /\ q * k \in Int /\ b * q \in Int
      BY <1>1
    <2>5. QED
      BY <2>1, <2>2, <2>3, <2>4
  <1> HIDE DEF n
  <1>6. QED
    BY <1>1, <1>2, <1>3, <1>4, <1>5, RoundedBounds

\* So it stays within the costs of a set that holds both.
LEMMA AppliedWithin ==
    ASSUME NEW old \in StockRow, NEW q \in Int, NEW k \in Int, NEW S \in SUBSET Int,
           old.qty >= 0, old.qty + q > 0,
           old.qty > 0 => Within(old.avgCost, S),
           q > 0 => Within(k, S)
    PROVE  Within(Applied(old, q, k).avgCost, S)
  <1>1. Applied(old, q, k).avgCost = AvgCost(old, q, k) /\ old.qty \in Int
        /\ old.avgCost \in Int
    BY DEF Applied, StockRow
  <1>2. CASE q <= 0
    <2>1. AvgCost(old, q, k) = old.avgCost /\ old.qty > 0
      BY <1>1, <1>2 DEF AvgCost
    <2>2. QED
      BY <1>1, <2>1
  <1>3. CASE q > 0
    <2>0. q \in Nat \ {0}
      BY <1>3
    <2>1. \E a \in S : a <= AvgCost(old, q, k)
      <3>1. PICK a \in S : a <= k
        BY <1>3 DEF Within
      <3>2. CASE old.qty > 0
        <4>1. PICK b \in S : b <= old.avgCost
          BY <3>2 DEF Within
        <4>2. CASE a <= b
          <5>1. a <= old.avgCost
            BY <1>1, <4>1, <4>2
          <5>2. QED
            BY <2>0, <3>1, <5>1, AvgBetween
        <4>3. CASE b <= a
          <5>1. b <= k
            BY <3>1, <4>3
          <5>2. QED
            BY <2>0, <4>1, <5>1, AvgBetween
        <4>4. QED
          BY <4>2, <4>3
      <3>3. CASE ~(old.qty > 0)
        BY <2>0, <3>1, <3>3, AvgBetween
      <3>4. QED
        BY <3>2, <3>3
    <2>2. \E a \in S : AvgCost(old, q, k) <= a
      <3>1. PICK a \in S : k <= a
        BY <1>3 DEF Within
      <3>2. CASE old.qty > 0
        <4>1. PICK b \in S : old.avgCost <= b
          BY <3>2 DEF Within
        <4>2. CASE b <= a
          <5>1. old.avgCost <= a
            BY <1>1, <4>1, <4>2
          <5>2. QED
            BY <2>0, <3>1, <5>1, AvgBetween
        <4>3. CASE a <= b
          <5>1. k <= b
            BY <3>1, <4>3
          <5>2. QED
            BY <2>0, <4>1, <5>1, AvgBetween
        <4>4. QED
          BY <4>2, <4>3
      <3>3. CASE ~(old.qty > 0)
        BY <2>0, <3>1, <3>3, AvgBetween
      <3>4. QED
        BY <3>2, <3>3
    <2>3. QED
      BY <1>1, <2>1, <2>2 DEF Within
  <1>4. QED
    BY <1>2, <1>3

LEMMA WithinGrows ==
    ASSUME NEW k, NEW S, NEW T, S \subseteq T, Within(k, S) PROVE Within(k, T)
  BY DEF Within

LEMMA CostsTyped ==
    ASSUME NEW l \in Seq(Movement) PROVE CostsIn(l) \in SUBSET Int
  <1>1. \A i \in DOMAIN l : l[i].unitCost \in Int
    <2>1. \A i \in DOMAIN l : l[i] \in Movement
      OBVIOUS
    <2>2. \A m \in Movement : m.unitCost \in Int
      BY DEF Movement
    <2>3. QED
      BY <2>1, <2>2
  <1>2. QED
    BY <1>1 DEF CostsIn

\* Movements that continue a list add to its costs.
LEMMA CostsGrow ==
    ASSUME NEW l, NEW r, DOMAIN l \subseteq DOMAIN r,
           \A i \in DOMAIN l : /\ r[i].unitCost = l[i].unitCost
                               /\ r[i].qty = l[i].qty
                               /\ r[i].kind = l[i].kind
    PROVE  CostsIn(l) \subseteq CostsIn(r)
  BY DEF CostsIn

\* What a step does to what is pending: it keeps it or adds to it.
LEMMA PendingGrows ==
    ASSUME KardexInv, KardexInv', NEW t \in Tx,
           ReadCost(t) \/ ReadSnapshot(t) \/ InsertMovement(t) \/ UpsertStock(t)
             \/ LinkTransfer(t)
    PROVE  CostsIn(Pending(t)) \subseteq CostsIn(Pending(t)')
  <1> DEFINE old == Pending(t)
             new == Pending(t)'
  <1>1. CASE UNCHANGED <<kardex, rows>>
    BY <1>1 DEF Pending
  <1>2. CASE InsertMovement(t)
    <2> DEFINE m == [id |-> nextId, tx |-> t, cell |-> CellOf(t),
                     qty |-> LineOf(t).qty, unitCost |-> CostOf(t),
                     balance |-> snap[t].qty + LineOf(t).qty,
                     kind |-> req[t].kind,
                     sourceId |-> IF req[t].kind = "TRANSFER" /\ idx[t] = 2
                                  THEN rows[t][1].id ELSE 0]
    <2>1. rows'[t] = Append(rows[t], m) /\ kardex' = kardex
      BY <1>2 DEF InsertMovement, InsertWith, KardexInv, TypeOK
    <2> HIDE DEF m
    <2>2. /\ kardex \in Seq(Movement) /\ rows[t] \in Seq(Movement)
          /\ rows'[t] \in Seq(Movement)
      BY DEF KardexInv, TypeOK
    <2>3. Len(rows'[t]) = Len(rows[t]) + 1 /\ Len(rows[t]) \in Nat /\ Len(kardex) \in Nat
          /\ \A i \in 1 .. Len(rows[t]) : rows'[t][i] = rows[t][i]
      BY <2>1, <2>2
    <2>4. /\ Len(old) = Len(kardex) + Len(rows[t])
          /\ Len(new) = Len(kardex) + Len(rows[t]) + 1
      <3>1. Len(old) = Len(kardex) + Len(rows[t])
        BY <2>2, ConcatProperties DEF Pending
      <3>2. Len(new) = Len(kardex) + Len(rows'[t])
        BY <2>1, <2>2, ConcatProperties DEF Pending
      <3>3. QED
        BY <2>3, <3>1, <3>2
    <2>5. old \in Seq(Movement) /\ new \in Seq(Movement)
      BY <2>1, <2>2, ConcatProperties DEF Pending
    <2>6. \A i \in 1 .. Len(kardex) + Len(rows[t]) : new[i] = old[i]
      <3>1. SUFFICES ASSUME NEW i \in 1 .. Len(kardex) + Len(rows[t])
                     PROVE  new[i] = old[i]
        OBVIOUS
      <3>2. i \in 1 .. Len(kardex) + Len(rows'[t])
        BY <2>3
      <3>3. new[i] = IF i <= Len(kardex) THEN kardex[i] ELSE rows'[t][i - Len(kardex)]
        BY <2>1, <2>2, <3>2, ConcatProperties DEF Pending
      <3>4. old[i] = IF i <= Len(kardex) THEN kardex[i] ELSE rows[t][i - Len(kardex)]
        BY <2>2, ConcatProperties DEF Pending
      <3>5. i <= Len(kardex) \/ i - Len(kardex) \in 1 .. Len(rows[t])
        BY <2>3
      <3>6. QED
        BY <2>3, <3>3, <3>4, <3>5
    <2> HIDE DEF old, new
    <2>7. DOMAIN old \subseteq DOMAIN new /\ DOMAIN old = 1 .. Len(kardex) + Len(rows[t])
      BY <2>3, <2>4, <2>5
    <2>8. QED
      BY <2>6, <2>7, CostsGrow DEF old, new
  <1>3. CASE LinkTransfer(t)
    <2> DEFINE out == [rows[t][1] EXCEPT !.sourceId = rows[t][2].id]
               pair == [rows[t] EXCEPT ![1] = out]
    <2>1. kardex' = kardex /\ pc[t] = "link" /\ rows' = [rows EXCEPT ![t] = pair]
      BY <1>3 DEF LinkTransfer, LinkTo
    <2>2. /\ kardex \in Seq(Movement) /\ rows[t] \in Seq(Movement)
          /\ rows'[t] \in Seq(Movement) /\ rows'[t] = pair
      BY <2>1 DEF KardexInv, TypeOK
    <2>3. Len(rows[t]) = 2
      BY <2>1, TransferLines DEF KardexInv, PositionInv
    <2>4. rows[t][1] \in Movement /\ 1 \in 1 .. Len(rows[t])
      BY <2>2, <2>3
    <2>5. /\ out.qty = rows[t][1].qty /\ out.unitCost = rows[t][1].unitCost
          /\ out.kind = rows[t][1].kind /\ out \in Movement
      <3>1. rows[t][2] \in Movement
        BY <2>2, <2>3
      <3>2. QED
        BY <2>4, <3>1 DEF Movement
    <2> HIDE DEF out
    <2>6. /\ Len(pair) = Len(rows[t])
          /\ \A i \in 1 .. Len(rows[t]) : pair[i] = IF i = 1 THEN out ELSE rows[t][i]
      BY <2>2, <2>4, <2>5, ExceptSeq
    <2> HIDE DEF pair
    <2>7. \A i \in 1 .. Len(rows[t]) :
              /\ rows'[t][i].unitCost = rows[t][i].unitCost
              /\ rows'[t][i].qty = rows[t][i].qty
              /\ rows'[t][i].kind = rows[t][i].kind
      BY <2>2, <2>5, <2>6
    <2>8. /\ Len(old) = Len(kardex) + Len(rows[t]) /\ Len(new) = Len(kardex) + Len(rows[t])
          /\ old \in Seq(Movement) /\ new \in Seq(Movement) /\ Len(kardex) \in Nat
          /\ Len(rows[t]) \in Nat
      <3>1. Len(old) = Len(kardex) + Len(rows[t]) /\ old \in Seq(Movement)
        BY <2>2, ConcatProperties DEF Pending
      <3>2. Len(new) = Len(kardex) + Len(rows'[t]) /\ new \in Seq(Movement)
        BY <2>1, <2>2, ConcatProperties DEF Pending
      <3>3. Len(kardex) \in Nat /\ Len(rows[t]) \in Nat
        BY <2>2, LenProperties
      <3>4. QED
        BY <2>2, <2>6, <3>1, <3>2, <3>3
    <2>9. \A i \in 1 .. Len(kardex) + Len(rows[t]) :
              /\ new[i].unitCost = old[i].unitCost
              /\ new[i].qty = old[i].qty
              /\ new[i].kind = old[i].kind
      <3>1. SUFFICES ASSUME NEW i \in 1 .. Len(kardex) + Len(rows[t])
                     PROVE  /\ new[i].unitCost = old[i].unitCost
                            /\ new[i].qty = old[i].qty
                            /\ new[i].kind = old[i].kind
        OBVIOUS
      <3>2. i \in 1 .. Len(kardex) + Len(rows'[t])
        BY <2>2, <2>6
      <3>3. new[i] = IF i <= Len(kardex) THEN kardex[i] ELSE rows'[t][i - Len(kardex)]
        BY <2>1, <2>2, <3>2, ConcatProperties DEF Pending
      <3>4. old[i] = IF i <= Len(kardex) THEN kardex[i] ELSE rows[t][i - Len(kardex)]
        BY <2>2, ConcatProperties DEF Pending
      <3>5. i <= Len(kardex) \/ i - Len(kardex) \in 1 .. Len(rows[t])
        BY <2>8
      <3>6. QED
        BY <2>7, <3>3, <3>4, <3>5
    <2> HIDE DEF old, new
    <2>10. DOMAIN old \subseteq DOMAIN new /\ DOMAIN old = 1 .. Len(kardex) + Len(rows[t])
      BY <2>8
    <2>11. QED
      BY <2>9, <2>10, CostsGrow DEF old, new
  <1>4. QED
    BY <1>1, <1>2, <1>3 DEF ReadCost, ReadCostOf, ReadSnapshot, ReadRow, UpsertStock,
                            UpsertWith

\* The movement just inserted, whose row is about to be written, counts.
LEMMA EntryCounts ==
    ASSUME KardexInv, NEW t \in Tx, OpenInv(t), pc[t] = "upsert",
           req[t].kind # "TRANSFER", LineOf(t).qty > 0
    PROVE  CostOf(t) \in CostsIn(Pending(t))
  <1> DEFINE n == Len(rows[t])
             l == Pending(t)
             i == Len(kardex) + n
  <1>1. n = idx[t] /\ idx[t] \in Nat \ {0}
    BY DEF KardexInv, PositionInv, Inserted, TypeOK
  <1>2. /\ Len(kardex) \in Nat /\ n \in 1 .. n /\ l \in Seq(Movement)
        /\ Len(l) = i /\ l[i] = rows[t][n]
    <2>1. Len(kardex) \in Nat /\ n \in 1 .. n
      BY <1>1, PendingSeq
    <2>2. \A j \in 1 .. n : l[Len(kardex) + j] = rows[t][j]
      BY PendingSeq
    <2>3. l[i] = rows[t][n]
      BY <2>1, <2>2
    <2>4. QED
      BY <2>1, <2>3, PendingSeq
  <1>3. i \in DOMAIN l
    BY <1>1, <1>2
  <1>4. /\ rows[t][n].kind = req[t].kind /\ rows[t][n].qty = LineOf(t).qty
        /\ rows[t][n].unitCost = CostOf(t)
    BY DEF OpenInv
  <1> HIDE DEF i, l, n
  <1>5. QED
    BY <1>2, <1>3, <1>4 DEF CostsIn, l

LEMMA CostInsert ==
    ASSUME SerialCostInv, KardexInv', NEW t \in Tx, OpenInv(t), OpenCostInv(t),
           InsertMovement(t)
    PROVE  OpenCostInv(t)'
  <1>1. /\ pc[t] = "insert" /\ pc'[t] = "upsert"
        /\ UNCHANGED <<req, idx, cost, stock, draft, lock>>
    BY DEF InsertMovement, InsertWith, SerialCostInv, SerialInv, KardexInv, TypeOK
  <1>2. CostsIn(Pending(t)) \subseteq CostsIn(Pending(t)')
    BY PendingGrows DEF SerialCostInv, SerialInv
  <1>3. \A c : View(t, c)' = View(t, c)
    BY <1>1 DEF View
  <1>4. \A c \in Cell : View(t, c)'.qty > 0 =>
                            Within(View(t, c)'.avgCost, CostsIn(Pending(t)'))
    BY <1>2, <1>3, WithinGrows DEF OpenCostInv
  <1>5. ASSUME req[t].kind = "TRANSFER", req[t].lines[1].qty # 0
        PROVE  Within(cost[t], CostsIn(Pending(t)))
    <2>1. IsTransfer(req[t].lines) /\ idx[t] \in {1, 2}
      BY <1>5, TransferLines DEF SerialCostInv, SerialInv
    <2>2. CASE idx[t] = 1
      <3>1. /\ cost[t] = View(t, CellOf(t)).avgCost /\ snap[t] = View(t, CellOf(t))
            /\ CellOf(t) \in Cell
        BY <1>1, <1>5, <2>2, LineTyped
           DEF OpenCostInv, OpenInv, SerialCostInv, SerialInv, KardexInv
      <3>2. LineOf(t).qty < 0 /\ LineOf(t).qty \in Int
        BY <1>5, <2>1, <2>2, LineTyped
           DEF IsTransfer, LineOf, SerialCostInv, SerialInv, KardexInv
      <3>3. snap[t].qty + LineOf(t).qty >= 0 /\ snap[t].qty \in Int
        BY <1>1 DEF SerialCostInv, SerialInv, KardexInv, PositionInv, TypeOK, StockRow
      <3>4. snap[t].qty > 0
        BY <3>2, <3>3
      <3>5. QED
        BY <3>1, <3>4 DEF OpenCostInv
    <2>3. CASE idx[t] = 2
      BY <1>5, <2>3 DEF OpenCostInv
    <2>4. QED
      BY <2>1, <2>2, <2>3
  <1>6. req[t].kind = "TRANSFER" /\ req[t].lines[1].qty # 0
            => Within(cost[t], CostsIn(Pending(t)'))
    BY <1>2, <1>5, WithinGrows
  <1>7. QED
    BY <1>1, <1>4, <1>6 DEF OpenCostInv

LEMMA CostUpsert ==
    ASSUME SerialCostInv, KardexInv', NEW t \in Tx, OpenInv(t), OpenCostInv(t),
           UpsertStock(t)
    PROVE  OpenCostInv(t)'
  <1> DEFINE S == CostsIn(Pending(t))
  <1>0. PICK cell, new : cell = CellOf(t)
                         /\ new = Applied(snap[t], LineOf(t).qty, CostOf(t))
    OBVIOUS
  <1>1. /\ pc[t] = "upsert" /\ pc'[t] \in {"read", "link", "commit"}
        /\ UNCHANGED <<rows, kardex, stock, req, cost>>
        /\ lock' = [lock EXCEPT ![cell] = t]
        /\ draft' = [draft EXCEPT ![cell] = new]
        /\ idx'[t] = IF IsLast(t) THEN idx[t] ELSE idx[t] + 1
        /\ pc'[t] = "read" => ~IsLast(t)
    BY <1>0 DEF UpsertStock, UpsertWith, SerialCostInv, SerialInv, KardexInv, TypeOK
  <1>2. /\ cell \in Cell /\ LineOf(t).qty \in Int /\ CostOf(t) \in Int
    BY <1>0, LineTyped DEF SerialCostInv, SerialInv, KardexInv, Line
  <1>3. /\ snap[t] = View(t, cell) /\ snap[t] \in StockRow /\ snap[t].qty >= 0
        /\ snap[t].qty + LineOf(t).qty >= 0
    BY <1>0, <1>1 DEF OpenInv, SerialCostInv, SerialInv, KardexInv, PositionInv, TypeOK
  <1>4. S \in SUBSET Int
    BY PendingSeq, CostsTyped DEF SerialCostInv, SerialInv
  <1>5. Pending(t)' = Pending(t)
    BY <1>1 DEF Pending
  <1>6. LineOf(t).qty > 0 => Within(CostOf(t), S)
    <2>1. CASE req[t].kind = "TRANSFER"
      <3>1. LineOf(t).qty # 0 => req[t].lines[1].qty # 0
        BY <1>2, <2>1, TransferLines, LineTyped
           DEF IsTransfer, LineOf, SerialCostInv, SerialInv, KardexInv
      <3>2. QED
        BY <1>1, <1>2, <2>1, <3>1 DEF OpenCostInv, CostOf
    <2>2. CASE req[t].kind # "TRANSFER"
      <3>1. LineOf(t).qty > 0 => CostOf(t) \in S
        BY <1>1, <2>2, EntryCounts DEF SerialCostInv, SerialInv
      <3>2. QED
        BY <1>2, <3>1 DEF Within
    <2>3. QED
      BY <2>1, <2>2
  <1>7. new.qty > 0 => Within(new.avgCost, S)
    <2>1. new.qty = snap[t].qty + LineOf(t).qty
      BY <1>0 DEF Applied
    <2>2. snap[t].qty > 0 => Within(snap[t].avgCost, S)
      BY <1>2, <1>3 DEF OpenCostInv
    <2> HIDE DEF S
    <2>3. QED
      BY <1>0, <1>2, <1>3, <1>4, <1>6, <2>1, <2>2, AppliedWithin
  <1>8. ASSUME NEW c \in Cell, View(t, c)'.qty > 0
        PROVE  Within(View(t, c)'.avgCost, CostsIn(Pending(t)'))
    <2>1. CASE c = cell
      <3>1. lock'[cell] = t /\ draft'[cell] = new
        BY <1>1, <1>2 DEF SerialCostInv, SerialInv, KardexInv, TypeOK
      <3>2. View(t, c)' = new
        BY <2>1, <3>1 DEF View
      <3>3. QED
        BY <1>5, <1>7, <1>8, <3>2
    <2>2. CASE c # cell
      <3>1. View(t, c)' = View(t, c)
        BY <1>1, <2>2 DEF View, SerialCostInv, SerialInv, KardexInv, TypeOK
      <3>2. QED
        BY <1>5, <1>8, <3>1 DEF OpenCostInv
    <2>3. QED
      BY <2>1, <2>2
  <1>9. ASSUME req[t].kind = "TRANSFER"
        PROVE  /\ ~(pc'[t] \in {"read", "insert"} /\ idx'[t] = 1)
               /\ req[t].lines[1].qty # 0 => Within(cost'[t], CostsIn(Pending(t)'))
    <2>1. idx[t] \in Nat \ {0}
      BY DEF SerialCostInv, SerialInv, KardexInv, TypeOK
    <2>2. pc'[t] = "read" => idx'[t] # 1
      BY <1>1, <2>1
    <2>3. QED
      BY <1>1, <1>5, <1>9, <2>2 DEF OpenCostInv
  <1>10. QED
    BY <1>1, <1>8, <1>9 DEF OpenCostInv

LEMMA CostOthers ==
    ASSUME SerialCostInv, KardexInv', NEW t \in Tx, OpenCostInv(t),
           ReadCost(t) \/ ReadSnapshot(t) \/ LinkTransfer(t)
    PROVE  OpenCostInv(t)'
  <1>1. /\ UNCHANGED <<req, idx, stock, draft, lock>>
        /\ pc'[t] \in {"read", "insert", "commit"}
    BY DEF ReadCost, ReadCostOf, ReadSnapshot, ReadRow, LinkTransfer, LinkTo,
           SerialCostInv, SerialInv, KardexInv, TypeOK
  <1>2. CostsIn(Pending(t)) \subseteq CostsIn(Pending(t)')
    BY PendingGrows DEF SerialCostInv, SerialInv
  <1>3. \A c : View(t, c)' = View(t, c)
    BY <1>1 DEF View
  <1>4. \A c \in Cell : View(t, c)'.qty > 0 =>
                            Within(View(t, c)'.avgCost, CostsIn(Pending(t)'))
    BY <1>2, <1>3, WithinGrows DEF OpenCostInv
  <1>5. CASE ReadCost(t)
    <2>1. /\ pc[t] = "cost" /\ pc'[t] = "read" /\ idx[t] = 1
          /\ cost'[t] = View(t, CellOf(t)).avgCost
      BY <1>5 DEF ReadCost, ReadCostOf, OpenCostInv, SerialCostInv, SerialInv, KardexInv,
                  TypeOK
    <2>2. CellOf(t)' = CellOf(t)
      BY <1>1 DEF CellOf, LineOf
    <2>3. View(t, CellOf(t))' = View(t, CellOf(t))
      BY <1>3, <2>2
    <2>4. QED
      BY <1>1, <1>4, <2>1, <2>3 DEF OpenCostInv
  <1>6. CASE ReadSnapshot(t) \/ LinkTransfer(t)
    <2>1. /\ cost' = cost
          /\ pc'[t] \in {"read", "insert"} => pc[t] \in {"read", "insert"}
          /\ pc'[t] # "upsert" /\ pc'[t] # "cost"
      BY <1>6 DEF ReadSnapshot, ReadRow, LinkTransfer, LinkTo, SerialCostInv, SerialInv,
                  KardexInv, TypeOK
    <2>2. CellOf(t)' = CellOf(t)
      BY <1>1 DEF CellOf, LineOf
    <2>3. View(t, CellOf(t))' = View(t, CellOf(t))
      BY <1>3, <2>2
    <2>4. ASSUME req'[t].kind = "TRANSFER"
          PROVE  /\ pc'[t] \in {"read", "insert"} /\ idx'[t] = 1 =>
                        cost'[t] = View(t, CellOf(t))'.avgCost
                 /\ idx'[t] = 2 /\ req'[t].lines[1].qty # 0 =>
                        Within(cost'[t], CostsIn(Pending(t)'))
      <3>1. idx[t] = 2 /\ req[t].lines[1].qty # 0 => Within(cost[t], CostsIn(Pending(t)'))
        BY <1>1, <1>2, <2>4, WithinGrows DEF OpenCostInv
      <3>2. QED
        BY <1>1, <2>1, <2>3, <2>4, <3>1 DEF OpenCostInv
    <2>5. QED
      BY <1>4, <2>1, <2>4 DEF OpenCostInv
  <1>7. QED
    BY <1>5, <1>6

LEMMA SerialCostInit == Init => SerialCostInv
  <1> SUFFICES ASSUME Init PROVE SerialCostInv
    OBVIOUS
  <1>1. SerialInv
    BY SerialInit
  <1>2. (\A c \in Cell : stock[c].qty = 0) /\ \A t \in Tx : pc[t] \notin Active
    BY DEF Init, Empty, Active
  <1>3. QED
    BY <1>1, <1>2 DEF SerialCostInv, CostWithinEntries

LEMMA SerialCostStep == SerialCostInv /\ [SerialNext]_vars => SerialCostInv'
  <1> SUFFICES ASSUME SerialCostInv, [SerialNext]_vars PROVE SerialCostInv'
    OBVIOUS
  <1>1. SerialInv /\ SerialInv' /\ KardexInv /\ KardexInv'
    BY SerialStep DEF SerialCostInv, SerialInv
  <1>2. CASE UNCHANGED <<pc, lock, stock, draft, kardex, rows, req, idx, cost>>
    <2>1. \A t, c : View(t, c)' = View(t, c)
      BY <1>2 DEF View
    <2>2. \A t : OpenCostInv(t)' = OpenCostInv(t)
      BY <1>2, <2>1 DEF OpenCostInv, Pending, CellOf, LineOf
    <2>3. QED
      BY <1>1, <1>2, <2>2 DEF SerialCostInv, CostWithinEntries, EntryCosts
  <1>3. ASSUME NEW t \in Tx, SerialBegin(t) PROVE SerialCostInv'
    <2>1. /\ \A u \in Tx : pc[u] \notin Active
          /\ \A u \in Tx \ {t} : pc'[u] = pc[u]
          /\ UNCHANGED <<lock, stock, draft, kardex, rows>>
          /\ pc'[t] \in {"cost", "read"} /\ idx'[t] = 1
          /\ req'[t].kind = "TRANSFER" => pc'[t] = "cost"
      BY <1>1, <1>3 DEF SerialBegin, Begin, KardexInv, TypeOK
    <2>2. CostWithinEntries'
      BY <2>1 DEF SerialCostInv, CostWithinEntries, EntryCosts
    <2>3. \A c \in Cell : View(t, c)' = stock[c]
      BY <2>1, NoTxAssumption DEF SerialCostInv, SerialInv, View
    <2>4. Pending(t)' = kardex
      BY <1>1, <2>1, NothingPending DEF Pending
    <2>5. OpenCostInv(t)'
      BY <2>1, <2>3, <2>4 DEF OpenCostInv, SerialCostInv, CostWithinEntries, EntryCosts
    <2>6. QED
      BY <1>1, <2>1, <2>2, <2>5 DEF SerialCostInv
  <1>4. ASSUME NEW t \in Tx, Step(t) \/ Interrupt(t) PROVE SerialCostInv'
    <2>1. pc[t] \in Active
      BY <1>4 DEF Step, ReadCost, ReadCostOf, ReadSnapshot, ReadRow, Reject, InsertMovement,
         InsertWith, UpsertStock, UpsertWith, LinkTransfer, LinkTo, Commit, Interrupt, Active
    <2>2. /\ \A u \in Tx \ {t} : pc[u] \notin Active
          /\ OpenInv(t) /\ OpenCostInv(t)
      BY <1>1, <2>1, Alone DEF SerialCostInv, SerialInv
    <2>3. \A u \in Tx \ {t} : pc'[u] = pc[u]
      BY <1>1, <1>4 DEF Step, ReadCost, ReadCostOf, ReadSnapshot, ReadRow, Reject,
         InsertMovement, InsertWith, UpsertStock, UpsertWith, LinkTransfer, LinkTo, Commit,
         Interrupt, Rollback, End, KardexInv, TypeOK
    <2>4. CASE ReadCost(t) \/ ReadSnapshot(t) \/ InsertMovement(t) \/ UpsertStock(t)
                 \/ LinkTransfer(t)
      <3>1. OpenCostInv(t)'
        BY <1>1, <2>2, <2>4, CostOthers, CostInsert, CostUpsert
      <3>2. CostWithinEntries'
        BY <2>4 DEF ReadCost, ReadCostOf, ReadSnapshot, ReadRow, InsertMovement,
           InsertWith, UpsertStock, UpsertWith, LinkTransfer, LinkTo, SerialCostInv,
           CostWithinEntries, EntryCosts
      <3>3. QED
        BY <1>1, <2>2, <2>3, <3>1, <3>2 DEF SerialCostInv
    <2>5. CASE Commit(t) \/ Reject(t) \/ Interrupt(t)
      <3>1. pc'[t] \notin Active
        BY <1>1, <2>5 DEF Commit, Reject, Interrupt, Rollback, End, KardexInv, TypeOK, Active
      <3>2. CostWithinEntries'
        <4>1. CASE Commit(t)
          <5>1. stock' = [c \in Cell |-> View(t, c)] /\ kardex' = Pending(t)
            BY <4>1 DEF Commit, View, Pending
          <5>2. QED
            BY <2>2, <5>1 DEF OpenCostInv, CostWithinEntries, EntryCosts
        <4>2. CASE Reject(t) \/ Interrupt(t)
          BY <4>2 DEF Reject, Interrupt, Rollback, SerialCostInv, CostWithinEntries,
                      EntryCosts
        <4>3. QED
          BY <2>5, <4>1, <4>2
      <3>3. QED
        BY <1>1, <2>2, <2>3, <3>1, <3>2 DEF SerialCostInv
    <2>6. QED
      BY <1>4, <2>4, <2>5 DEF Step
  <1>5. QED
    BY <1>2, <1>3, <1>4 DEF SerialNext, RemoveProduct, vars, txVars

\* The average cost of a row with units lies between the costs at which units
\* entered, rounding included, and a transfer cannot take it out of them.
THEOREM CostsStayWithinEntries == SerialSpec => []CostWithinEntries
  <1>1. SerialCostInv => CostWithinEntries
    BY DEF SerialCostInv
  <1>2. QED
    BY <1>1, SerialCostInit, SerialCostStep, PTL DEF SerialSpec
=============================================================================
