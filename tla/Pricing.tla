------------------------------- MODULE Pricing -------------------------------
(***************************************************************************)
(* The prices of one product (products/pricing): its cost and minimum      *)
(* margin, one price per level, the copy of the first level on the product *)
(* row, and the history of changes, under concurrent requests.             *)
(*                                                                         *)
(* updatePricing reads the product, then the levels, computes, and then    *)
(* writes every level, the product and the history, all in a transaction.  *)
(* The reads take no lock.  Two transactions meet at the first level both  *)
(* write, and one waits there for the other to end (or dies of a deadlock) *)
(* so what a transaction writes is one step here.                          *)
(*                                                                         *)
(* Left out: the creation of missing levels, which all exist from the      *)
(* creation of the product on; reasons, users and times of the history.    *)
(***************************************************************************)
EXTENDS PricingFormula, FiniteSets

CONSTANTS User,       \* who sends requests, one at a time
          Level,      \* the three price lists
          First,      \* "Precio 1", the one copied to the product
          Bodies,     \* what may be sent to updatePricing
          Patches,    \* what may be sent to update: [cost, sale]
          Created,    \* what may be sent to create: [cost, sale]
          Budget      \* requests in a behaviour

ASSUME LevelAssumption == First \in Level /\ IsFiniteSet(Level)

\* A field that is not sent.
Unsent == -1
Given(v, default) == IF v = Unsent THEN default ELSE v

\* What the parsers of the requests let through: no field is negative.
Field == Nat \cup {Unsent}
Body == [cost : Field, min : Field,
         level : [Level -> [price : Field, margin : Field]]]
ASSUME RequestAssumption ==
    /\ Bodies \subseteq Body
    /\ Patches \subseteq [cost : Field, sale : Field]
    /\ Created \subseteq [cost : Nat, sale : Nat]

\* A body of updatePricing: cost, min and, by level, price and margin.
Nothing == [price |-> Unsent, margin |-> Unsent]

VARIABLES product,  \* [cost, sale, margin, min, out, gone]
          level,    \* price_list_item: [price, margin, out] by level
          req,      \* by user: [pc, body, product, level], what it has read
          told,     \* newValue of the last row of the history: [cost, level]
          past,     \* history variable, read by no action
          left      \* requests left
pricingVars == <<product, level, req, told, past, left>>

\* past.patched: update wrote the cost or the price of the product row after
\* the last price update; past.blind, past.blindCost: the levels, and whether
\* the cost, where an update put back what it had read over a change it had
\* not; past.mixed: the levels kept beside a cost they were not read with.

Idle == [pc |-> "idle", body |-> Unsent, product |-> Unsent, level |-> Unsent]
Finish(u, pc) == req' = [req EXCEPT ![u] = [Idle EXCEPT !.pc = pc]]
Free(u) == req[u].pc \in {"idle", "saved", "refused"}

Fraction == 0..(Unit - 1)
Product == [cost : Nat, sale : Nat, margin : Fraction, min : Nat,
            out : BOOLEAN, gone : BOOLEAN]
PriceLevel == [price : Nat, margin : Fraction, out : BOOLEAN]
Reading(q) ==
    /\ DOMAIN q = {"pc", "body", "product", "level"}
    /\ q.pc \in {"idle", "saved", "refused", "product", "levels", "save"}
    /\ q.pc \in {"product", "levels", "save"} => q.body \in Body
    /\ q.pc \in {"levels", "save"} => q.product \in Product
    /\ q.pc = "save" => q.level \in [Level -> PriceLevel]
PricingTypeOK ==
    /\ product \in Product
    /\ level \in [Level -> PriceLevel]
    /\ DOMAIN req = User /\ \A u \in User : Reading(req[u])
    /\ told \in [cost : Nat, level : [Level -> Nat]]
    /\ past \in [patched : BOOLEAN, blindCost : BOOLEAN,
                 blind : SUBSET Level, mixed : SUBSET Level]

-----------------------------------------------------------------------------
(* updatePricing *)

Send(u, body) ==
    /\ Free(u) /\ left > 0
    /\ req' = [req EXCEPT ![u] = [Idle EXCEPT !.pc = "product", !.body = body]]
    /\ left' = left - 1
    /\ UNCHANGED <<product, level, told, past>>

ReadProduct(u) ==
    /\ req[u].pc = "product"
    /\ IF product.gone THEN Finish(u, "refused")
       ELSE req' = [req EXCEPT ![u].pc = "levels", ![u].product = product]
    /\ UNCHANGED <<product, level, told, past, left>>

ReadLevels(u) ==
    /\ req[u].pc = "levels"
    /\ req' = [req EXCEPT ![u].pc = "save", ![u].level = level]
    /\ UNCHANGED <<product, level, told, past, left>>

NewCost(u) == Given(req[u].body.cost, req[u].product.cost)
NewMin(u) == Given(req[u].body.min, req[u].product.min)
CostChanged(u) == NewCost(u) # req[u].product.cost
Asked(u, l) == req[u].body.level[l]
Old(u, l) == req[u].level[l]

\* The price of a level after the update: the one sent, or the one that gives
\* the margin that was sent or, when the cost has changed, the old margin.
ByMargin(u, l) == Asked(u, l).price = Unsent /\ Asked(u, l).margin # Unsent
Recosted(u, l) == Asked(u, l) = Nothing /\ CostChanged(u) /\ Old(u, l).margin > 0
Target(u, l) == IF ByMargin(u, l) THEN Asked(u, l).margin ELSE Old(u, l).margin
NewSale(u, l) ==
    IF Asked(u, l).price # Unsent THEN RoundPrice(Asked(u, l).price)
    ELSE IF ByMargin(u, l) \/ Recosted(u, l)
         THEN PriceFromMargin(NewCost(u), Target(u, l))
         ELSE Old(u, l).price
Kept(u, l) == Asked(u, l) = Nothing /\ ~Recosted(u, l)

NewMarginIntended(u, l) ==                                     \* faulty
    IF ByMargin(u, l) \/ Recosted(u, l) THEN Target(u, l)
    ELSE IF Kept(u, l) THEN Old(u, l).margin
         ELSE MarginFromPrice(NewCost(u), NewSale(u, l))
\* The margin stored is the one the rounded price has.
NewMargin(u, l) ==
    IF Kept(u, l) THEN Old(u, l).margin
    ELSE MarginFromPrice(NewCost(u), NewSale(u, l))

\* No level makes the update fail with 400.
Resolves(u, l) ==
    \/ Kept(u, l)
    \/ /\ (ByMargin(u, l) \/ Recosted(u, l)) =>
              PriceDerivable(NewCost(u), Target(u, l))
       /\ MarginDerivable(NewCost(u), NewSale(u, l))
       /\ Asked(u, l).price # Unsent /\ Asked(u, l).margin # Unsent =>
              IsConsistent(NewCost(u), Asked(u, l).price, Asked(u, l).margin)

Changed(u, l) ==
    NewSale(u, l) # Old(u, l).price \/ NewMargin(u, l) # Old(u, l).margin

Resolved(u) ==
    [l \in Level |-> [price |-> NewSale(u, l), margin |-> NewMargin(u, l),
                      out |-> IsOutOfMargin(NewMargin(u, l), NewMin(u))]]

WrittenChangedOnly(u) ==                                       \* faulty
    [l \in Level |-> IF Changed(u, l) THEN Resolved(u)[l] ELSE level[l]]
\* Every level is written, changed or not.
Written(u) == Resolved(u)

ToldUnlessByCost(u) ==                                         \* faulty
    [cost |-> IF CostChanged(u) THEN NewCost(u) ELSE told.cost,
     level |-> [l \in Level |-> IF Changed(u, l) /\ ~Recosted(u, l)
                                THEN NewSale(u, l) ELSE told.level[l]]]
\* The rows of product_price_history.
Told(u) ==
    [cost |-> IF CostChanged(u) THEN NewCost(u) ELSE told.cost,
     level |-> [l \in Level |-> IF Changed(u, l) THEN NewSale(u, l)
                                ELSE told.level[l]]]

Past(u) ==
    LET stale == product.cost # req[u].product.cost
    IN  [patched |-> FALSE,
         blindCost |-> IF CostChanged(u) THEN FALSE
                       ELSE past.blindCost \/ stale \/ past.patched,
         blind |-> {l \in Level : /\ ~Changed(u, l)
                                  /\ l \in past.blind \/ level[l] # Old(u, l)},
         mixed |-> {l \in Level : /\ Kept(u, l)
                                  /\ \/ l \in past.mixed
                                     \/ level[l] # Old(u, l)
                                     \/ stale
                                     \/ past.patched}]

Save(u) ==
    /\ req[u].pc = "save"
    /\ \A l \in Level : Resolves(u, l)
    /\ level' = Written(u)
    /\ product' = [product EXCEPT
                     !.cost = NewCost(u), !.min = NewMin(u),
                     !.sale = NewSale(u, First), !.margin = NewMargin(u, First),
                     !.out = \E l \in Level : Resolved(u)[l].out]
    /\ told' = Told(u)
    /\ past' = Past(u)
    /\ Finish(u, "saved")
    /\ UNCHANGED left

Refuse(u) ==
    /\ req[u].pc = "save"
    /\ \E l \in Level : ~Resolves(u, l)
    /\ Finish(u, "refused")
    /\ UNCHANGED <<product, level, told, past, left>>

\* The connection breaks, or the transaction is the victim of a deadlock.
Abort(u) ==
    /\ ~Free(u)
    /\ Finish(u, "refused")
    /\ UNCHANGED <<product, level, told, past, left>>

-----------------------------------------------------------------------------
(* What else writes the product row; each has one statement that counts *)

\* ProductsService.update: nothing of the levels or the history.
PatchProduct ==
    /\ left > 0 /\ ~product.gone
    /\ \E p \in Patches :
          product' = [product EXCEPT !.cost = Given(p.cost, @),
                                     !.sale = Given(p.sale, @)]
    /\ past' = [past EXCEPT !.patched = TRUE]
    /\ left' = left - 1
    /\ UNCHANGED <<level, req, told>>

RemoveProduct ==
    /\ left > 0 /\ ~product.gone
    /\ product' = [product EXCEPT !.gone = TRUE]
    /\ left' = left - 1
    /\ UNCHANGED <<level, req, told, past>>

-----------------------------------------------------------------------------
\* A product as create leaves it: no margins, every level at its price.
Init ==
    /\ \E c \in Created :
          /\ product = [cost |-> c.cost, sale |-> c.sale, margin |-> 0, min |-> 0,
                        out |-> FALSE, gone |-> FALSE]
          /\ level = [l \in Level |->
                         [price |-> c.sale, margin |-> 0, out |-> FALSE]]
          /\ told = [cost |-> c.cost, level |-> [l \in Level |-> c.sale]]
    /\ req = [u \in User |-> Idle]
    /\ past = [patched |-> FALSE, blindCost |-> FALSE, blind |-> {}, mixed |-> {}]
    /\ left = Budget

Server(u) ==
    ReadProduct(u) \/ ReadLevels(u) \/ Save(u) \/ Refuse(u) \/ Abort(u)

Next ==
    \/ \E u \in User : (\E b \in Bodies : Send(u, b)) \/ Server(u)
    \/ PatchProduct \/ RemoveProduct

Spec == Init /\ [][Next]_pricingVars

-----------------------------------------------------------------------------
(* Properties *)

\* The product row agrees with the levels whatever price updates overlap: it
\* is out of margin if a level is, and it has the price and the margin of the
\* first level unless update has since written its own.
ProductAgrees ==
    /\ product.out <=> \E l \in Level : level[l].out
    /\ ~past.patched =>
          product.sale = level[First].price /\ product.margin = level[First].margin

\* The last row of the history of a level tells its price, and that of the
\* cost tells the cost, unless an update put back what it had read over a
\* change made in between (which leaves no row), or update wrote the cost.
HistoryTells ==
    /\ \A l \in Level \ past.blind : told.level[l] = level[l].price
    /\ ~past.patched /\ ~past.blindCost => told.cost = product.cost

\* Cost, margin and price of a level agree, unless it has no margin, which a
\* new cost leaves alone, or was last kept by an update that was overlapped
\* or did not see a cost that update had written.
TrioSquares ==
    ~past.patched =>
        \A l \in Level \ past.mixed :
            \/ level[l].margin = 0
            \/ level[l].margin = MarginFromPrice(product.cost, level[l].price)

\* The inductive invariant behind the three.
PricingInv == PricingTypeOK /\ ProductAgrees /\ HistoryTells /\ TrioSquares
=============================================================================
