--------------------------- MODULE ReceiptMatching --------------------------
(***************************************************************************)
(* resolveLines and coalesce of goods-receipts.service.ts: how the lines   *)
(* of a receipt are spread over the lines of its purchase order, oldest    *)
(* line of the product first, and what each unit is taken to cost.         *)
(*                                                                         *)
(* Order lines are a function from their id (a sequence number, so ids     *)
(* order them) to [product, qty, unitCost, received].  A receipt line is   *)
(* [product, qty, unitCost], unitCost NoCost when the body gives none.     *)
(***************************************************************************)
EXTENDS Integers, Sequences, SequencesExt, FiniteSetsExt

NoCost == -1

\* Prisma's Decimal rounds half up when toFixed(4) cuts the quotient.
RoundedDiv(n, d) == (2 * n + d) \div (2 * d)

SumOf(f) == FoldFunction(+, 0, f)

RemainingAsOrdered(lines) ==                             \* faulty
    [l \in DOMAIN lines |-> lines[l].qty]
\* What is left to receive of each line when the transaction reads them.
Remaining(lines) ==
    [l \in DOMAIN lines |-> lines[l].qty - lines[l].received]

\* Ids are positive.
LastLine(lines) == Max(DOMAIN lines \cup {0})

NewestFirst(lines, n) == LastLine(lines) + 1 - n         \* faulty
\* The id visited n-th, if a line has it: the query orders the lines by id.
OldestFirst(lines, n) == n

\* Map.set: a line keeps its place and has its last value.
Put(updates, u) ==
    IF \E i \in DOMAIN updates : updates[i].line = u.line
    THEN [i \in DOMAIN updates |-> IF updates[i].line = u.line THEN u ELSE updates[i]]
    ELSE Append(updates, u)

\* One turn of the loop over the order's lines: d is what is still to be
\* distributed, what remains of each line and what to write in the lines.
Take(lines, d, l) ==
    LET n == Min({d.left[l], d.qty})
        remaining == d.left[l] - n
    IN  IF d.qty = 0 \/ d.left[l] <= 0 THEN d
        ELSE [qty |-> d.qty - n, left |-> [d.left EXCEPT ![l] = remaining],
              updates |-> Put(d.updates, [line |-> l,
                                          received |-> lines[l].qty - remaining])]

\* The element of a singleton.  {F(x) : x \in {e}} makes TLC compute e once
\* where F(e) would compute it at each use; the loops below need it.
The(S) == CHOOSE x \in S : TRUE

\* The loop over the lines of the product, and what it leaves.
Distribute(lines, s, r) ==
    LET Visit(d, l) ==
            IF l \in DOMAIN lines /\ lines[l].product = r.product
            THEN Take(lines, d, l) ELSE d
        turn[n \in 0 .. LastLine(lines)] ==
            IF n = 0 THEN [qty |-> r.qty, left |-> s.left, updates |-> s.updates]
            ELSE The({Visit(d, OldestFirst(lines, n)) : d \in {turn[n - 1]}})
    IN  turn[LastLine(lines)]

InheritedByLine(lines, before, after) ==                 \* faulty
    LET taken == {l \in DOMAIN lines : before[l] # after[l]}
    IN  RoundedDiv(SumOf([l \in taken |-> lines[l].unitCost]), Cardinality(taken))
\* Mean of the costs of the order's lines, weighted by the units taken.
Inherited(lines, before, after) ==
    RoundedDiv(
        SumOf([l \in DOMAIN lines |-> (before[l] - after[l]) * lines[l].unitCost]),
        SumOf([l \in DOMAIN lines |-> before[l] - after[l]]))

\* A product the order lacks (400) and a quantity beyond what is pending (409)
\* fail the receipt, and so does a line of zero units without a cost: it
\* inherits 0 / 0, which the insert of the receipt does not take.
Accepts(lines, r, d) ==
    /\ d.qty = 0
    /\ \E l \in DOMAIN lines : lines[l].product = r.product
    /\ r.qty = 0 => r.unitCost # NoCost

\* One turn of the loop over the receipt's lines.
Resolved(lines, s, r) ==
    The({
        [ok |-> s.ok /\ Accepts(lines, r, d), left |-> d.left, updates |-> d.updates,
         costed |-> Append(s.costed,
             [r EXCEPT !.unitCost =
                 IF @ # NoCost \/ ~Accepts(lines, r, d) THEN @
                 ELSE Inherited(lines, s.left, d.left)])]
        : d \in {Distribute(lines, s, r)}})

\* ok, what to write in each order line, and the receipt's lines with costs.
Resolve(lines, recLines) ==
    LET turn[i \in 0 .. Len(recLines)] ==
            IF i = 0
            THEN [ok |-> TRUE, left |-> Remaining(lines), updates |-> <<>>,
                  costed |-> <<>>]
            ELSE The({Resolved(lines, s, recLines[i]) : s \in {turn[i - 1]}})
    IN  turn[Len(recLines)]
=============================================================================
