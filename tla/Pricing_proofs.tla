---------------------------- MODULE Pricing_proofs ----------------------------
(***************************************************************************)
(* Safety of the prices of a product and of the form that edits them, for  *)
(* any number of users, levels and requests, and any prices: the copy on   *)
(* the product, the history, the trio of cost, margin and price, and the   *)
(* levels nobody touched.                                                  *)
(***************************************************************************)
EXTENDS PricingForm, TLAPS

-----------------------------------------------------------------------------
(* The formulas *)

\* A quotient rounded half up is a natural number.
LEMMA RoundDivNat ==
    ASSUME NEW a \in Nat, NEW b \in Nat \ {0} PROVE RoundDiv(a, b) \in Nat
  <1>1. \A u \in Nat, v \in Nat \ {0} : u \div v \in Nat
    OBVIOUS
  <1>2. b \div 2 \in Nat
    BY <1>1
  <1>3. a + b \div 2 \in Nat
    BY <1>2
  <1>4. QED
    BY <1>1, <1>3 DEF RoundDiv

LEMMA RoundPriceNat == ASSUME NEW p \in Nat PROVE RoundPrice(p) \in Nat
  <1>1. Sub \in Nat \ {0} /\ RoundDiv(p, Sub) \in Nat
    BY ScaleAssumption, RoundDivNat
  <1>2. \A a \in Nat, b \in Nat : a * b \in Nat
    OBVIOUS
  <1>3. QED
    BY <1>1, <1>2 DEF RoundPrice

LEMMA PriceNat ==
    ASSUME NEW cost \in Nat, NEW margin \in Nat, PriceDerivable(cost, margin)
    PROVE  PriceFromMargin(cost, margin) \in Nat
  <1>1. Unit \in Nat /\ Sub \in Nat \ {0} /\ Unit - margin \in Nat \ {0}
    BY ScaleAssumption DEF PriceDerivable
  <1>2. \A a \in Nat, b \in Nat : a * b \in Nat /\ (a # 0 /\ b # 0 => a * b # 0)
    OBVIOUS
  <1>3. cost * Unit \in Nat /\ (Unit - margin) * Sub \in Nat \ {0}
    BY <1>1, <1>2
  <1>4. RoundDiv(cost * Unit, (Unit - margin) * Sub) \in Nat
    BY <1>3, RoundDivNat
  <1>5. QED
    BY <1>1, <1>2, <1>4 DEF PriceFromMargin

\* A margin that can be derived is a fraction below one.
LEMMA MarginFraction ==
    ASSUME NEW cost \in Nat, NEW price \in Nat, MarginDerivable(cost, price)
    PROVE  MarginFromPrice(cost, price) \in Fraction
  <1>1. Unit \in Nat \ {0, 1}
    BY ScaleAssumption
  <1>2. \A a \in Nat, b \in Nat : a * b \in Nat
    OBVIOUS
  <1>3. CASE price = 0
    BY <1>1, <1>3 DEF MarginFromPrice, Fraction
  <1>4. CASE price # 0
    <2> DEFINE raw == RoundDiv((price - cost) * Unit, price)
    <2>1. price \in Nat \ {0} /\ price - cost \in Nat
      BY <1>4 DEF MarginDerivable
    <2>2. (price - cost) * Unit \in Nat
      BY <1>1, <1>2, <2>1
    <2>3. raw \in Nat
      BY <2>1, <2>2, RoundDivNat
    <2>4. MarginFromPrice(cost, price) = IF raw >= Unit THEN Unit - 1 ELSE raw
      BY <1>4 DEF MarginFromPrice
    <2> HIDE DEF raw
    <2>5. QED
      BY <1>1, <2>3, <2>4 DEF Fraction
  <1>5. QED
    BY <1>3, <1>4

LEMMA Fractions == Fraction \subseteq Nat /\ 0 \in Fraction
  BY ScaleAssumption DEF Fraction

-----------------------------------------------------------------------------
(* What an update reads and computes *)

LEMMA ReadingSet ==
    ASSUME PricingTypeOK, NEW u \in User, NEW q, Reading(q),
           req' = [req EXCEPT ![u] = q]
    PROVE  DOMAIN req' = User /\ \A v \in User : Reading(req'[v])
  BY DEF PricingTypeOK

LEMMA Finished ==
    ASSUME PricingTypeOK, NEW u \in User, NEW pc \in {"idle", "saved", "refused"},
           Finish(u, pc)
    PROVE  DOMAIN req' = User /\ \A v \in User : Reading(req'[v])
  <1>1. PICK q : q = [Idle EXCEPT !.pc = pc]
    OBVIOUS
  <1>2. Reading(q)
    BY <1>1 DEF Idle, Reading
  <1>3. req' = [req EXCEPT ![u] = q]
    BY <1>1 DEF Finish
  <1>4. QED
    BY <1>2, <1>3, ReadingSet

\* A step that leaves the prices, the product and the history alone.
LEMMA ReqStep ==
    ASSUME PricingInv, UNCHANGED <<product, level, told, past>>,
           DOMAIN req' = User, \A v \in User : Reading(req'[v])
    PROVE  PricingInv'
  BY DEF PricingInv, PricingTypeOK, ProductAgrees, HistoryTells, TrioSquares

LEMMA SendInv ==
    ASSUME PricingInv, NEW u \in User, NEW body \in Body, Send(u, body)
    PROVE  PricingInv'
  <1>1. PICK q : q = [[Idle EXCEPT !.pc = "product"] EXCEPT !.body = body]
    OBVIOUS
  <1>2. Reading(q)
    BY <1>1 DEF Idle, Reading
  <1>3. req' = [req EXCEPT ![u] = q]
    BY <1>1 DEF Send
  <1>4. DOMAIN req' = User /\ \A v \in User : Reading(req'[v])
    BY <1>2, <1>3, ReadingSet DEF PricingInv
  <1>5. QED
    BY <1>4, ReqStep DEF Send

LEMMA ReadProductInv ==
    ASSUME PricingInv, NEW u \in User, ReadProduct(u) PROVE PricingInv'
  <1>1. Reading(req[u]) /\ u \in DOMAIN req /\ product \in Product
    BY DEF PricingInv, PricingTypeOK
  <1>2. CASE product.gone
    BY <1>2, Finished, ReqStep DEF ReadProduct, PricingInv
  <1>3. CASE ~product.gone
    <2>1. PICK q : q = [[req[u] EXCEPT !.pc = "levels"] EXCEPT !.product = product]
      OBVIOUS
    <2>2. Reading(q)
      BY <1>1, <2>1 DEF Reading, ReadProduct
    <2>3. req' = [req EXCEPT ![u] = q]
      BY <1>1, <1>3, <2>1 DEF ReadProduct
    <2>4. DOMAIN req' = User /\ \A v \in User : Reading(req'[v])
      BY <2>2, <2>3, ReadingSet DEF PricingInv
    <2>5. QED
      BY <2>4, ReqStep DEF ReadProduct
  <1>4. QED
    BY <1>2, <1>3

LEMMA ReadLevelsInv ==
    ASSUME PricingInv, NEW u \in User, ReadLevels(u) PROVE PricingInv'
  <1>1. Reading(req[u]) /\ u \in DOMAIN req /\ level \in [Level -> PriceLevel]
    BY DEF PricingInv, PricingTypeOK
  <1>2. PICK q : q = [[req[u] EXCEPT !.pc = "save"] EXCEPT !.level = level]
    OBVIOUS
  <1>3. Reading(q)
    BY <1>1, <1>2 DEF Reading, ReadLevels
  <1>4. req' = [req EXCEPT ![u] = q]
    BY <1>1, <1>2 DEF ReadLevels
  <1>5. DOMAIN req' = User /\ \A v \in User : Reading(req'[v])
    BY <1>3, <1>4, ReadingSet DEF PricingInv
  <1>6. QED
    BY <1>5, ReqStep DEF ReadLevels

LEMMA EndInv ==
    ASSUME PricingInv, NEW u \in User, Refuse(u) \/ Abort(u) PROVE PricingInv'
  BY Finished, ReqStep DEF Refuse, Abort, PricingInv

LEMMA PatchInv == ASSUME PricingInv, PatchProduct PROVE PricingInv'
  <1>1. product \in Product /\ past \in [patched : BOOLEAN, blindCost : BOOLEAN,
                                         blind : SUBSET Level, mixed : SUBSET Level]
    BY DEF PricingInv, PricingTypeOK
  <1>2. PICK c \in Nat, s \in Nat : product' = [product EXCEPT !.cost = c, !.sale = s]
    <2>1. PICK p \in Patches :
              product' = [product EXCEPT !.cost = Given(p.cost, @),
                                         !.sale = Given(p.sale, @)]
      BY DEF PatchProduct
    <2>2. p.cost \in Field /\ p.sale \in Field /\ product.cost \in Nat /\ product.sale \in Nat
      BY <1>1, RequestAssumption DEF Product
    <2>3. Given(p.cost, product.cost) \in Nat /\ Given(p.sale, product.sale) \in Nat
      BY <2>2 DEF Given, Field, Unsent
    <2>4. QED
      BY <2>1, <2>3
  <1>3. product' \in Product /\ product'.out = product.out
    BY <1>1, <1>2 DEF Product
  <1>4. /\ past' = [past EXCEPT !.patched = TRUE]
        /\ UNCHANGED <<level, req, told>>
    BY DEF PatchProduct
  <1>5. /\ past' \in [patched : BOOLEAN, blindCost : BOOLEAN,
                      blind : SUBSET Level, mixed : SUBSET Level]
        /\ past'.patched /\ past'.blind = past.blind
    BY <1>1, <1>4
  <1>6. PricingTypeOK'
    BY <1>3, <1>4, <1>5 DEF PricingInv, PricingTypeOK
  <1>7. ProductAgrees'
    BY <1>3, <1>4, <1>5 DEF PricingInv, ProductAgrees
  <1>8. HistoryTells' /\ TrioSquares'
    BY <1>4, <1>5 DEF PricingInv, HistoryTells, TrioSquares
  <1>9. QED
    BY <1>6, <1>7, <1>8 DEF PricingInv

LEMMA RemoveInv == ASSUME PricingInv, RemoveProduct PROVE PricingInv'
  <1>1. product' = [product EXCEPT !.gone = TRUE] /\ UNCHANGED <<level, req, told, past>>
    BY DEF RemoveProduct
  <1>2. product' \in Product /\ product'.out = product.out
        /\ product'.cost = product.cost /\ product'.sale = product.sale
        /\ product'.margin = product.margin
    BY <1>1 DEF PricingInv, PricingTypeOK, Product
  <1>3. PricingTypeOK'
    BY <1>1, <1>2 DEF PricingInv, PricingTypeOK
  <1>4. ProductAgrees' /\ HistoryTells' /\ TrioSquares'
    BY <1>1, <1>2 DEF PricingInv, ProductAgrees, HistoryTells, TrioSquares
  <1>5. QED
    BY <1>3, <1>4 DEF PricingInv

\* What has been read when the update is about to write.
LEMMA ReadSoFar ==
    ASSUME PricingInv, NEW u \in User, req[u].pc = "save", NEW l \in Level
    PROVE  /\ req[u].product \in Product /\ Old(u, l) \in PriceLevel
           /\ Asked(u, l) \in [price : Field, margin : Field]
           /\ NewCost(u) \in Nat /\ NewMin(u) \in Nat
  <1>1. Reading(req[u])
    BY DEF PricingInv, PricingTypeOK
  <1>2. req[u].body \in Body /\ req[u].product \in Product
        /\ req[u].level \in [Level -> PriceLevel]
    BY <1>1 DEF Reading
  <1>3. NewCost(u) \in Nat /\ NewMin(u) \in Nat
    BY <1>2 DEF NewCost, NewMin, Given, Body, Product, Field, Unsent
  <1>4. QED
    BY <1>2, <1>3 DEF Old, Asked, Body

\* What the update computes for a level it does not refuse.
LEMMA ResolvedTyped ==
    ASSUME PricingInv, NEW u \in User, req[u].pc = "save",
           NEW l \in Level, Resolves(u, l)
    PROVE  NewSale(u, l) \in Nat /\ NewMargin(u, l) \in Fraction
  <1>1. /\ Old(u, l) \in PriceLevel /\ NewCost(u) \in Nat
        /\ Asked(u, l) \in [price : Field, margin : Field]
    BY ReadSoFar
  <1>2. Old(u, l).price \in Nat /\ Old(u, l).margin \in Fraction
        /\ Asked(u, l).price \in Field /\ Asked(u, l).margin \in Field
    BY <1>1 DEF PriceLevel
  <1>3. NewSale(u, l) \in Nat
    <2>1. CASE Asked(u, l).price # Unsent
      BY <1>2, <2>1, RoundPriceNat DEF NewSale, Field
    <2>2. CASE Asked(u, l).price = Unsent /\ (ByMargin(u, l) \/ Recosted(u, l))
      <3>1. ~Kept(u, l)
        BY <2>2 DEF Kept, ByMargin, Nothing
      <3>2. PriceDerivable(NewCost(u), Target(u, l))
        BY <2>2, <3>1 DEF Resolves
      <3>3. Target(u, l) \in Nat
        BY <1>2, Fractions DEF Target, ByMargin, Field
      <3>4. QED
        BY <1>1, <2>2, <3>2, <3>3, PriceNat DEF NewSale
    <2>3. CASE Asked(u, l).price = Unsent /\ ~ByMargin(u, l) /\ ~Recosted(u, l)
      BY <1>2, <2>3 DEF NewSale
    <2>4. QED
      BY <2>1, <2>2, <2>3
  <1>4. NewMargin(u, l) \in Fraction
    <2>1. CASE Kept(u, l)
      BY <1>2, <2>1 DEF NewMargin
    <2>2. CASE ~Kept(u, l)
      BY <1>1, <1>3, <2>2, MarginFraction DEF NewMargin, Resolves
    <2>3. QED
      BY <2>1, <2>2
  <1>5. QED
    BY <1>3, <1>4

\* A level that is kept keeps its price.
LEMMA KeptSale ==
    ASSUME NEW u, NEW l, Kept(u, l)
    PROVE  NewSale(u, l) = Old(u, l).price /\ NewMargin(u, l) = Old(u, l).margin
  BY DEF Kept, NewSale, NewMargin, ByMargin, Nothing

\* What a save writes.
LEMMA Saved ==
    ASSUME PricingInv, NEW u \in User, Save(u)
    PROVE  /\ level' \in [Level -> PriceLevel]
           /\ \A l \in Level : /\ level'[l].price = NewSale(u, l)
                               /\ level'[l].margin = NewMargin(u, l)
           /\ product' \in Product
           /\ product'.cost = NewCost(u) /\ product'.sale = NewSale(u, First)
           /\ product'.margin = NewMargin(u, First)
           /\ product'.out = \E l \in Level : level'[l].out
  <1>1. /\ req[u].pc = "save" /\ \A l \in Level : Resolves(u, l)
        /\ level' = Resolved(u)
        /\ product' = [product EXCEPT
                         !.cost = NewCost(u), !.min = NewMin(u),
                         !.sale = NewSale(u, First), !.margin = NewMargin(u, First),
                         !.out = \E l \in Level : Resolved(u)[l].out]
    BY DEF Save, Written
  <1>2. \A l \in Level : /\ NewSale(u, l) \in Nat /\ NewMargin(u, l) \in Fraction
                         /\ IsOutOfMargin(NewMargin(u, l), NewMin(u)) \in BOOLEAN
    BY <1>1, ResolvedTyped DEF IsOutOfMargin
  <1>3. /\ Resolved(u) \in [Level -> PriceLevel]
        /\ \A l \in Level : /\ Resolved(u)[l].price = NewSale(u, l)
                            /\ Resolved(u)[l].margin = NewMargin(u, l)
    BY <1>2 DEF Resolved, PriceLevel
  <1>4. First \in Level
    BY LevelAssumption
  <1>5. NewCost(u) \in Nat /\ NewMin(u) \in Nat
    BY <1>1, <1>4, ReadSoFar
  <1>6. product \in Product
    BY DEF PricingInv, PricingTypeOK
  <1> DEFINE out == \E l \in Level : Resolved(u)[l].out
  <1>7. out \in BOOLEAN
    OBVIOUS
  <1>8. product' = [product EXCEPT
                         !.cost = NewCost(u), !.min = NewMin(u),
                         !.sale = NewSale(u, First), !.margin = NewMargin(u, First),
                         !.out = out]
    BY <1>1
  <1>9. out = \E l \in Level : level'[l].out
    BY <1>1
  <1> HIDE DEF out
  <1>10. /\ product' \in Product
         /\ product'.cost = NewCost(u) /\ product'.sale = NewSale(u, First)
         /\ product'.margin = NewMargin(u, First) /\ product'.out = out
    BY <1>2, <1>4, <1>5, <1>6, <1>7, <1>8 DEF Product
  <1>11. QED
    BY <1>1, <1>3, <1>9, <1>10

LEMMA SaveInv == ASSUME PricingInv, NEW u \in User, Save(u) PROVE PricingInv'
  <1>1. req[u].pc = "save" /\ told' = Told(u) /\ past' = Past(u) /\ Finish(u, "saved")
    BY DEF Save
  <1>2. \A l \in Level : NewSale(u, l) \in Nat
    BY <1>1, ResolvedTyped DEF Save
  <1>3. PricingTypeOK'
    <2>1. DOMAIN req' = User /\ \A v \in User : Reading(req'[v])
      BY <1>1, Finished DEF PricingInv
    <2>2. told' \in [cost : Nat, level : [Level -> Nat]]
      <3>1. told \in [cost : Nat, level : [Level -> Nat]] /\ NewCost(u) \in Nat
        BY <1>1, ReadSoFar, LevelAssumption DEF PricingInv, PricingTypeOK
      <3>2. QED
        BY <1>1, <1>2, <3>1 DEF Told
    <2>3. past' \in [patched : BOOLEAN, blindCost : BOOLEAN,
                     blind : SUBSET Level, mixed : SUBSET Level]
      <3>1. past.blindCost \in BOOLEAN /\ past.patched \in BOOLEAN
        BY DEF PricingInv, PricingTypeOK
      <3>2. QED
        BY <1>1, <3>1 DEF Past
    <2>4. QED
      BY <2>1, <2>2, <2>3, Saved DEF PricingTypeOK
  <1>4. ProductAgrees'
    <2>1. First \in Level
      BY LevelAssumption
    <2>2. QED
      BY <2>1, Saved DEF ProductAgrees
  <1>5. HistoryTells'
    <2>1. ASSUME NEW l \in Level, l \notin past'.blind
          PROVE  told'.level[l] = level'[l].price
      <3>1. told'.level[l] = IF Changed(u, l) THEN NewSale(u, l) ELSE told.level[l]
        BY <1>1 DEF Told
      <3>2. level'[l].price = NewSale(u, l)
        BY Saved
      <3>3. CASE ~Changed(u, l)
        <4>1. l \notin past.blind /\ level[l] = Old(u, l)
          BY <1>1, <2>1, <3>3 DEF Past
        <4>2. told.level[l] = level[l].price
          BY <4>1 DEF PricingInv, HistoryTells
        <4>3. NewSale(u, l) = Old(u, l).price
          BY <3>3 DEF Changed
        <4>4. QED
          BY <3>1, <3>2, <3>3, <4>1, <4>2, <4>3
      <3>4. QED
        BY <3>1, <3>2, <3>3
    <2>2. ASSUME ~past'.blindCost PROVE told'.cost = product'.cost
      <3>1. told'.cost = IF CostChanged(u) THEN NewCost(u) ELSE told.cost
        BY <1>1 DEF Told
      <3>2. product'.cost = NewCost(u)
        BY Saved
      <3>3. CASE ~CostChanged(u)
        <4>1. ~past.blindCost /\ ~past.patched /\ product.cost = req[u].product.cost
          BY <1>1, <2>2, <3>3 DEF Past
        <4>2. told.cost = product.cost
          BY <4>1 DEF PricingInv, HistoryTells
        <4>3. NewCost(u) = req[u].product.cost
          BY <3>3 DEF CostChanged
        <4>4. QED
          BY <3>1, <3>2, <3>3, <4>1, <4>2, <4>3
      <3>4. QED
        BY <3>1, <3>2, <3>3
    <2>3. QED
      BY <2>1, <2>2 DEF HistoryTells
  <1>6. TrioSquares'
    <2>1. SUFFICES ASSUME NEW l \in Level, l \notin past'.mixed
                   PROVE  \/ level'[l].margin = 0
                          \/ level'[l].margin
                             = MarginFromPrice(product'.cost, level'[l].price)
      BY DEF TrioSquares
    <2>2. /\ level'[l].price = NewSale(u, l) /\ level'[l].margin = NewMargin(u, l)
          /\ product'.cost = NewCost(u)
      BY Saved
    <2>3. CASE ~Kept(u, l)
      BY <2>2, <2>3 DEF NewMargin
    <2>4. CASE Kept(u, l)
      <3>1. /\ l \notin past.mixed /\ level[l] = Old(u, l)
            /\ product.cost = req[u].product.cost /\ ~past.patched
        BY <1>1, <2>1, <2>4 DEF Past
      <3>2. \/ Old(u, l).margin = 0
            \/ Old(u, l).margin = MarginFromPrice(product.cost, Old(u, l).price)
        BY <3>1 DEF PricingInv, TrioSquares
      <3>3. Old(u, l).margin \in Nat
        BY <1>1, ReadSoFar, Fractions DEF PriceLevel
      <3>4. Old(u, l).margin = 0 \/ NewCost(u) = req[u].product.cost
        BY <2>4, <3>3 DEF Kept, Recosted, CostChanged
      <3>5. QED
        BY <2>2, <2>4, <3>1, <3>2, <3>4, KeptSale
    <2>5. QED
      BY <2>3, <2>4
  <1>7. QED
    BY <1>3, <1>4, <1>5, <1>6 DEF PricingInv

LEMMA PricingStart == Init => PricingInv
  <1> SUFFICES ASSUME Init PROVE PricingInv
    OBVIOUS
  <1>1. PICK c \in [cost : Nat, sale : Nat] :
          /\ product = [cost |-> c.cost, sale |-> c.sale, margin |-> 0, min |-> 0,
                        out |-> FALSE, gone |-> FALSE]
          /\ level = [l \in Level |->
                         [price |-> c.sale, margin |-> 0, out |-> FALSE]]
          /\ told = [cost |-> c.cost, level |-> [l \in Level |-> c.sale]]
    BY RequestAssumption DEF Init
  <1>2. /\ req = [u \in User |-> Idle]
        /\ past = [patched |-> FALSE, blindCost |-> FALSE, blind |-> {}, mixed |-> {}]
    BY DEF Init
  <1>3. product \in Product /\ level \in [Level -> PriceLevel]
        /\ told \in [cost : Nat, level : [Level -> Nat]]
    BY <1>1, Fractions DEF Product, PriceLevel
  <1>4. Reading(Idle)
    BY DEF Reading, Idle
  <1>5. PricingTypeOK
    BY <1>2, <1>3, <1>4 DEF PricingTypeOK
  <1>6. ProductAgrees /\ HistoryTells /\ TrioSquares
    BY <1>1, <1>2, LevelAssumption DEF ProductAgrees, HistoryTells, TrioSquares
  <1>7. QED
    BY <1>5, <1>6 DEF PricingInv

-----------------------------------------------------------------------------
(* The form *)

LEMMA ClientTyped ==
    ASSUME NEW cost \in Nat, NEW n \in Nat
    PROVE  /\ ClientPriceFromMargin(cost, n) \in Nat
           /\ ClientMarginFromPrice(cost, n) \in Nat
  <1>1. ClientPriceFromMargin(cost, n) \in Nat
    BY PriceNat DEF ClientPriceFromMargin
  <1>2. ClientMarginFromPrice(cost, n) \in Nat
    BY MarginFraction, RoundPriceNat, Fractions DEF ClientMarginFromPrice
  <1>3. QED
    BY <1>1, <1>2

FormState == [open : BOOLEAN, fetch : BOOLEAN, touched : SUBSET Level,
              shown : Shown, kept : SUBSET Level]
CacheState == [view : Shown, old : BOOLEAN, stale : SUBSET Level]

\* ShowsAnswer, AnswerCurrent and SentCurrent of any form, cache and request.
Matches(f, c) ==
    Filled(f.shown) =>
        /\ Filled(c.view)
        /\ \A l \in Level \ f.touched : f.shown.level[l].price = c.view.level[l].price
Tells(c, lv) ==
    Filled(c.view) =>
        \A l \in Level \ c.stale : c.view.level[l].price = lv[l].price
Sent(f, q, lv) ==
    q.pc \notin {"idle", "saved", "refused"} =>
        \A l \in f.kept : q.body.level[l].price = lv[l].price

LEMMA FormKnown ==
    ASSUME FormInv
    PROVE  /\ PricingInv
           /\ form \in [FormUser -> FormState] /\ cache \in [FormUser -> CacheState]
           /\ \A u \in FormUser : /\ Matches(form[u], cache[u])
                                  /\ Tells(cache[u], level)
                                  /\ Sent(form[u], req[u], level)
  BY DEF FormInv, FormTypeOK, FormState, CacheState, AnswerCurrent, ShowsAnswer,
         SentCurrent, Matches, Tells, Sent, Free

LEMMA FormTogether ==
    ASSUME PricingInv',
           form' \in [FormUser -> FormState], cache' \in [FormUser -> CacheState],
           \A u \in FormUser : /\ Matches(form'[u], cache'[u])
                               /\ Tells(cache'[u], level')
                               /\ Sent(form'[u], req'[u], level')
    PROVE  FormInv'
  BY DEF FormInv, FormTypeOK, FormState, CacheState, AnswerCurrent, ShowsAnswer,
         SentCurrent, Matches, Tells, Sent, Free

LEMMA FilledShown ==
    ASSUME NEW s \in Shown
    PROVE  /\ Filled(s) => s.level \in FormLevels
           /\ s.level \in FormLevels => Filled(s)
  <1>1. Level # {} /\ DOMAIN <<>> = {}
    BY LevelAssumption
  <1>2. QED
    BY <1>1 DEF Shown, Filled, FormLevels

LEMMA EmptyShown == Empty \in Shown /\ ~Filled(Empty)
  <1>1. DOMAIN <<>> = {}
    OBVIOUS
  <1>2. QED
    BY <1>1 DEF Empty, Shown, Filled

LEMMA ViewTyped ==
    ASSUME PricingInv
    PROVE  View \in Shown /\ View.level \in FormLevels
           /\ \A l \in Level : View.level[l].price = level[l].price
  <1>1. product.cost \in Nat /\ product.min \in Nat
        /\ \A l \in Level : level[l].price \in Nat /\ level[l].margin \in Nat
    BY Fractions DEF PricingInv, PricingTypeOK, Product, PriceLevel
  <1>2. [l \in Level |-> [price |-> level[l].price, margin |-> level[l].margin]]
        \in FormLevels
    BY <1>1 DEF FormLevels
  <1>3. QED
    BY <1>1, <1>2 DEF View, Shown

\* A form that its user changes.
LEMMA EditForm ==
    ASSUME FormInv, NEW u \in FormUser, NEW f \in FormState,
           form' = [form EXCEPT ![u] = f], f.kept = form[u].kept,
           Matches(f, cache[u]), UNCHANGED <<pricingVars, cache>>
    PROVE  FormInv'
  <1>1. PricingInv'
    BY ReqStep, FormKnown DEF pricingVars, PricingInv, PricingTypeOK
  <1>2. form' \in [FormUser -> FormState] /\ cache' \in [FormUser -> CacheState]
    BY FormKnown
  <1>3. \A v \in FormUser : /\ Matches(form'[v], cache'[v])
                            /\ Tells(cache'[v], level')
                            /\ Sent(form'[v], req'[v], level')
    BY FormKnown DEF pricingVars, Sent
  <1>4. QED
    BY <1>1, <1>2, <1>3, FormTogether

\* A step of the api that changes no level.
LEMMA ServerForm ==
    ASSUME FormInv, PricingInv', UNCHANGED <<level, form, cache>>,
           \A v \in FormUser :
               \/ req'[v].pc \in {"idle", "saved", "refused"}
               \/ /\ req[v].pc \notin {"idle", "saved", "refused"}
                  /\ req'[v].body = req[v].body
    PROVE  FormInv'
  <1>1. \A v \in FormUser : /\ Matches(form'[v], cache'[v])
                            /\ Tells(cache'[v], level')
                            /\ Sent(form'[v], req'[v], level')
    BY FormKnown DEF Sent
  <1>2. QED
    BY <1>1, FormKnown, FormTogether

\* A save makes the levels it changes stale and no longer kept.
LEMMA SaveForm ==
    ASSUME FormInv, NEW u \in User, Save(u), Stale(u) PROVE FormInv'
  <1> DEFINE changed == {l \in Level : level'[l] # level[l]}
  <1>1. /\ cache' = [v \in FormUser |-> [cache[v] EXCEPT !.stale = @ \cup changed]]
        /\ form' = [v \in FormUser |->
                       IF v = u THEN form[v]
                       ELSE [form[v] EXCEPT !.kept = @ \ changed]]
    BY DEF Stale
  <1>2. PricingInv'
    BY SaveInv, FormKnown
  <1>3. \A l \in Level \ changed : level'[l] = level[l]
    OBVIOUS
  <1>4. changed \subseteq Level
    OBVIOUS
  <1> HIDE DEF changed
  <1>5. ASSUME NEW v \in FormUser
        PROVE  /\ cache'[v] \in CacheState /\ cache'[v].view = cache[v].view
               /\ cache'[v].stale = cache[v].stale \cup changed
               /\ form'[v] \in FormState /\ form'[v].shown = form[v].shown
               /\ form'[v].touched = form[v].touched
               /\ v # u => form'[v].kept = form[v].kept \ changed
    BY <1>1, <1>4, FormKnown DEF CacheState, FormState
  <1>6. form' \in [FormUser -> FormState] /\ cache' \in [FormUser -> CacheState]
    BY <1>1, <1>5
  <1>7. req'[u].pc = "saved" /\ \A v \in User \ {u} : req'[v] = req[v]
    BY FormKnown DEF Save, Finish, PricingInv, PricingTypeOK, Idle
  <1>8. \A v \in FormUser : Matches(form'[v], cache'[v])
    BY <1>5, FormKnown DEF Matches
  <1>9. \A v \in FormUser : Tells(cache'[v], level')
    BY <1>3, <1>5, FormKnown DEF Tells
  <1>10. ASSUME NEW v \in FormUser PROVE Sent(form'[v], req'[v], level')
    <2>1. CASE v = u
      BY <1>7, <2>1 DEF Sent
    <2>2. CASE v # u
      <3>1. req'[v] = req[v]
        BY <1>7, <2>2, FormAssumption
      <3>2. form[v].kept \subseteq Level
        BY FormKnown DEF FormState
      <3>3. QED
        BY <1>3, <1>5, <2>2, <3>1, <3>2, FormKnown DEF Sent
    <2>3. QED
      BY <2>1, <2>2
  <1>11. QED
    BY <1>2, <1>6, <1>8, <1>9, <1>10, FormTogether

LEMMA ServerInv ==
    ASSUME FormInv, NEW u \in User, ServerStep(u) PROVE FormInv'
  <1>1. DOMAIN req = User /\ Reading(req[u])
    BY FormKnown DEF PricingInv, PricingTypeOK
  <1>2. CASE u \notin FormUser /\ (\E b \in Bodies : Send(u, b))
             /\ UNCHANGED <<form, cache>>
    <2>1. PICK b \in Body : Send(u, b)
      BY <1>2, RequestAssumption
    <2>2. PricingInv'
      BY <2>1, SendInv, FormKnown
    <2>3. \A v \in FormUser : req'[v] = req[v]
      BY <1>1, <1>2, <2>1, FormAssumption DEF Send
    <2>4. UNCHANGED level
      BY <2>1 DEF Send
    <2>5. QED
      BY <1>2, <2>2, <2>3, <2>4, ServerForm
  <1>3. CASE ReadProduct(u) /\ UNCHANGED <<form, cache>>
    <2>1. PricingInv' /\ UNCHANGED level
      BY <1>3, ReadProductInv, FormKnown DEF ReadProduct
    <2>2. \A v \in User \ {u} : req'[v] = req[v]
      BY <1>1, <1>3 DEF ReadProduct, Finish
    <2>3. req[u].pc = "product" /\ \/ req'[u].pc = "refused"
                                   \/ req'[u].body = req[u].body
      BY <1>1, <1>3 DEF ReadProduct, Finish, Idle, Reading
    <2>4. QED
      BY <1>3, <2>1, <2>2, <2>3, ServerForm, FormAssumption
  <1>4. CASE ReadLevels(u) /\ UNCHANGED <<form, cache>>
    <2>1. PricingInv' /\ UNCHANGED level
      BY <1>4, ReadLevelsInv, FormKnown DEF ReadLevels
    <2>2. /\ \A v \in User \ {u} : req'[v] = req[v]
          /\ req[u].pc = "levels" /\ req'[u].body = req[u].body
      BY <1>1, <1>4 DEF ReadLevels, Reading
    <2>3. QED
      BY <1>4, <2>1, <2>2, ServerForm, FormAssumption
  <1>5. CASE (Refuse(u) \/ Abort(u)) /\ UNCHANGED <<form, cache>>
    <2>1. PricingInv' /\ UNCHANGED level /\ Finish(u, "refused")
      BY <1>5, EndInv, FormKnown DEF Refuse, Abort
    <2>2. (\A v \in User \ {u} : req'[v] = req[v]) /\ req'[u].pc = "refused"
      BY <1>1, <2>1 DEF Finish, Idle
    <2>3. QED
      BY <1>5, <2>1, <2>2, ServerForm, FormAssumption
  <1>6. CASE Save(u) /\ Stale(u)
    BY <1>6, SaveForm
  <1>7. QED
    BY <1>2, <1>3, <1>4, <1>5, <1>6 DEF ServerStep

LEMMA ProductInv == ASSUME FormInv, ProductStep PROVE FormInv'
  <1>1. PricingInv' /\ UNCHANGED <<level, req, form, cache>>
    BY PatchInv, RemoveInv, FormKnown DEF ProductStep, PatchProduct, RemoveProduct
  <1>2. QED
    BY <1>1, FormKnown, ServerForm, FormTogether

LEMMA OpenInv ==
    ASSUME FormInv, NEW u \in FormUser, Open(u) PROVE FormInv'
  <1>1. cache[u] \in CacheState /\ form[u] \in FormState
    BY FormKnown
  <1>2. PICK old \in BOOLEAN :
            form' = [form EXCEPT ![u] = [Closed EXCEPT !.open = TRUE,
                      !.fetch = old, !.shown = cache[u].view, !.kept = form[u].kept]]
    BY DEF Open
  <1>3. PICK f : f = [Closed EXCEPT !.open = TRUE, !.fetch = old,
                      !.shown = cache[u].view, !.kept = form[u].kept]
    OBVIOUS
  <1>4. /\ f \in FormState /\ f.kept = form[u].kept /\ f.shown = cache[u].view
        /\ f.touched = {}
    BY <1>1, <1>3 DEF Closed, FormState, CacheState
  <1>5. Matches(f, cache[u])
    BY <1>4 DEF Matches
  <1>6. QED
    BY <1>2, <1>3, <1>4, <1>5, EditForm DEF Open

LEMMA ReturnInv ==
    ASSUME FormInv, NEW u \in FormUser, Return(u) PROVE FormInv'
  <1>1. cache[u] \in CacheState /\ form[u] \in FormState
    BY FormKnown
  <1>2. PICK old \in BOOLEAN :
            form' = [form EXCEPT ![u].fetch = @ \/ old, ![u].touched = {},
                                 ![u].shown = cache[u].view]
    BY DEF Return
  <1>3. PICK f : f = [form[u] EXCEPT !.fetch = form[u].fetch \/ old,
                                     !.touched = {}, !.shown = cache[u].view]
    OBVIOUS
  <1>4. form' = [form EXCEPT ![u] = f]
    BY <1>1, <1>2, <1>3, FormKnown DEF FormState
  <1>5. /\ f \in FormState /\ f.kept = form[u].kept /\ f.shown = cache[u].view
        /\ f.touched = {}
    BY <1>1, <1>3 DEF FormState, CacheState
  <1>6. Matches(f, cache[u])
    BY <1>5 DEF Matches
  <1>7. QED
    BY <1>4, <1>5, <1>6, EditForm DEF Return

LEMMA CloseInv ==
    ASSUME FormInv, NEW u \in FormUser, Close(u) PROVE FormInv'
  <1>1. form[u] \in FormState
    BY FormKnown
  <1>2. PICK f : f = [Closed EXCEPT !.kept = form[u].kept]
    OBVIOUS
  <1>3. f \in FormState /\ f.kept = form[u].kept /\ f.shown = Empty
    BY <1>1, <1>2, EmptyShown DEF Closed, FormState
  <1>4. Matches(f, cache[u])
    BY <1>3, EmptyShown DEF Matches
  <1>5. QED
    BY <1>2, <1>3, <1>4, EditForm DEF Close

\* The answer that fills the form: what is not touched shows it, and one that
\* says the same as before leaves what is touched.
LEMMA HydrateInv ==
    ASSUME FormInv, NEW u \in FormUser, Hydrate(u) PROVE FormInv'
  <1>1. form[u] \in FormState /\ cache[u] \in CacheState
    BY FormKnown
  <1>2. UNCHANGED pricingVars
    BY DEF Hydrate
  <1>3. PricingInv'
    BY <1>2, ReqStep, FormKnown DEF pricingVars, PricingInv, PricingTypeOK
  <1>4. PICK f : f = IF product.gone \/ View = cache[u].view
                     THEN [form[u] EXCEPT !.fetch = FALSE]
                     ELSE [form[u] EXCEPT !.fetch = FALSE, !.touched = {}, !.shown = View]
    OBVIOUS
  <1>5. PICK c : c = IF product.gone THEN cache[u]
                     ELSE [view |-> View, old |-> FALSE, stale |-> {}]
    OBVIOUS
  <1>6. form' = [form EXCEPT ![u] = f] /\ cache' = [cache EXCEPT ![u] = c]
    BY <1>1, <1>4, <1>5, FormKnown DEF Hydrate
  <1>7. /\ View \in Shown /\ Filled(View)
        /\ \A l \in Level : View.level[l].price = level[l].price
    BY ViewTyped, FilledShown, FormKnown
  <1>8. f \in FormState /\ c \in CacheState /\ f.kept = form[u].kept
    BY <1>1, <1>4, <1>5, <1>7 DEF FormState, CacheState
  <1>9. Tells(c, level)
    BY <1>5, <1>7, FormKnown DEF Tells
  <1>10. Matches(f, c)
    <2>1. CASE product.gone
      <3>1. c = cache[u] /\ f.shown = form[u].shown /\ f.touched = form[u].touched
        BY <1>1, <1>4, <1>5, <2>1 DEF FormState
      <3>2. QED
        BY <3>1, FormKnown DEF Matches
    <2>2. CASE ~product.gone /\ View = cache[u].view
      <3>1. c.view = cache[u].view /\ f.shown = form[u].shown
            /\ f.touched = form[u].touched
        BY <1>1, <1>4, <1>5, <2>2 DEF FormState
      <3>2. QED
        BY <3>1, FormKnown DEF Matches
    <2>3. CASE ~product.gone /\ View # cache[u].view
      <3>1. c.view = View /\ f.shown = View
        BY <1>1, <1>4, <1>5, <2>3 DEF FormState
      <3>2. QED
        BY <1>7, <3>1 DEF Matches
    <2>4. QED
      BY <2>1, <2>2, <2>3
  <1>11. form' \in [FormUser -> FormState] /\ cache' \in [FormUser -> CacheState]
    BY <1>6, <1>8, FormKnown
  <1>12. \A v \in FormUser : /\ Matches(form'[v], cache'[v])
                             /\ Tells(cache'[v], level')
                             /\ Sent(form'[v], req'[v], level')
    BY <1>2, <1>6, <1>8, <1>9, <1>10, FormKnown DEF pricingVars, Sent
  <1>13. QED
    BY <1>3, <1>11, <1>12, FormTogether

\* A field that is typed: the levels it moves are touched.
LEMMA TypedInv ==
    ASSUME FormInv, NEW u \in FormUser, NEW s \in Shown, NEW t \in SUBSET Level,
           form[u].touched \subseteq t,
           \A l \in Level \ t : s.level[l] = form[u].shown.level[l],
           Filled(form[u].shown), UNCHANGED <<pricingVars, cache>>,
           form' = [form EXCEPT ![u] = [[@ EXCEPT !.touched = t] EXCEPT !.shown = s]]
    PROVE  FormInv'
  <1>1. form[u] \in FormState /\ Matches(form[u], cache[u])
    BY FormKnown
  <1>2. PICK f : f = [[form[u] EXCEPT !.touched = t] EXCEPT !.shown = s]
    OBVIOUS
  <1>3. form' = [form EXCEPT ![u] = f]
    BY <1>2
  <1>4. f \in FormState /\ f.kept = form[u].kept /\ f.shown = s /\ f.touched = t
    BY <1>1, <1>2 DEF FormState
  <1>5. Matches(f, cache[u])
    BY <1>1, <1>4 DEF Matches
  <1>6. QED
    BY <1>3, <1>4, <1>5, EditForm

LEMMA ShownTyped ==
    ASSUME FormInv, NEW u \in FormUser, Ready(u)
    PROVE  /\ Filled(form[u].shown) /\ form[u].shown \in Shown
           /\ form[u].shown.level \in FormLevels
           /\ form[u].shown.cost \in Nat /\ form[u].shown.min \in Nat
           /\ form[u].shown = [cost |-> form[u].shown.cost, min |-> form[u].shown.min,
                               level |-> form[u].shown.level]
  <1>1. form[u].shown \in Shown /\ Filled(form[u].shown)
    BY FormKnown DEF FormState, Ready, Filled
  <1>2. QED
    BY <1>1, FilledShown DEF Shown

LEMMA CostInv ==
    ASSUME FormInv, NEW u \in FormUser, OnChangeCost(u) PROVE FormInv'
  <1>1. Ready(u) /\ UNCHANGED <<pricingVars, cache>>
    BY DEF OnChangeCost, Typing
  <1> DEFINE shown == form[u].shown.level
             moved(c) == {l \in Level : c > 0 /\ shown[l].margin > 0}
             new(c) == [l \in Level |->
                          IF l \notin moved(c) THEN shown[l]
                          ELSE [shown[l] EXCEPT !.price =
                                  ClientPriceFromMargin(c, shown[l].margin)]]
  <1>2. PICK c \in Costs :
            form' = [form EXCEPT
                 ![u].touched = @ \cup moved(c), ![u].shown.cost = c,
                 ![u].shown.level = new(c)]
    BY DEF OnChangeCost
  <1>3. c \in Nat
    BY FormAssumption
  <1>4. form[u] \in FormState /\ form[u].shown.level \in FormLevels
    BY <1>1, ShownTyped, FormKnown
  <1>5. \A l \in Level : /\ shown[l] \in [price : Nat, margin : Nat]
                         /\ ClientPriceFromMargin(c, shown[l].margin) \in Nat
    BY <1>3, <1>4, ClientTyped DEF FormLevels
  <1>6. PICK lv : lv = new(c)
    OBVIOUS
  <1>7. lv \in FormLevels
    BY <1>5, <1>6 DEF FormLevels
  <1>8. \A l \in Level \ moved(c) : lv[l] = form[u].shown.level[l]
    BY <1>6
  <1>9. PICK t : t = form[u].touched \cup moved(c)
    OBVIOUS
  <1>10. t \in SUBSET Level
    BY <1>4, <1>9 DEF FormState
  <1>11. PICK s : s = [[form[u].shown EXCEPT !.cost = c] EXCEPT !.level = lv]
    OBVIOUS
  <1>12. s \in Shown /\ s.level = lv
    BY <1>1, <1>3, <1>7, <1>11, ShownTyped DEF Shown
  <1>13. form' = [form EXCEPT ![u].touched = t, ![u].shown.cost = c,
                              ![u].shown.level = lv]
    BY <1>2, <1>6, <1>9
  <1>14. form' = [form EXCEPT ![u] = [[@ EXCEPT !.touched = t] EXCEPT !.shown = s]]
    BY <1>4, <1>11, <1>13, FormKnown DEF FormState
  <1>15. form[u].touched \subseteq t /\ \A l \in Level \ t : s.level[l] = form[u].shown.level[l]
    BY <1>8, <1>9, <1>12
  <1>16. QED
    BY <1>1, <1>10, <1>12, <1>14, <1>15, ShownTyped, TypedInv

LEMMA MinInv ==
    ASSUME FormInv, NEW u \in FormUser, OnChangeMin(u) PROVE FormInv'
  <1>1. Ready(u) /\ UNCHANGED <<pricingVars, cache>>
    BY DEF OnChangeMin, Typing
  <1>2. PICK m \in Margins : form' = [form EXCEPT ![u].shown.min = m]
    BY DEF OnChangeMin
  <1>3. m \in Nat
    BY FormAssumption
  <1>4. form[u] \in FormState
    BY FormKnown
  <1>5. PICK s : s = [form[u].shown EXCEPT !.min = m]
    OBVIOUS
  <1>6. s \in Shown /\ s.level = form[u].shown.level
    BY <1>1, <1>3, <1>5, ShownTyped DEF Shown
  <1>7. PICK f : f = [form[u] EXCEPT !.shown = s]
    OBVIOUS
  <1>8. form' = [form EXCEPT ![u] = f]
    BY <1>2, <1>5, <1>7
  <1>9. f \in FormState /\ f.kept = form[u].kept /\ f.shown = s
        /\ f.touched = form[u].touched
    BY <1>4, <1>6, <1>7 DEF FormState
  <1>10. Matches(f, cache[u])
    BY <1>1, <1>6, <1>9, ShownTyped, FormKnown DEF Matches
  <1>11. QED
    BY <1>1, <1>8, <1>9, <1>10, EditForm

\* A price or a margin that is typed, with what the form computes from it.
LEMMA LevelInv ==
    ASSUME FormInv, NEW u \in FormUser, Ready(u), UNCHANGED <<pricingVars, cache>>,
           NEW l \in Level, NEW x \in [price : Nat, margin : Nat],
           form' = [form EXCEPT ![u].touched = @ \cup {l}, ![u].shown.level[l] = x]
    PROVE  FormInv'
  <1>1. form[u] \in FormState /\ form[u].shown.level \in FormLevels
    BY ShownTyped, FormKnown
  <1>2. PICK lv : lv = [form[u].shown.level EXCEPT ![l] = x]
    OBVIOUS
  <1>3. lv \in FormLevels /\ \A k \in Level \ {l} : lv[k] = form[u].shown.level[k]
    BY <1>1, <1>2 DEF FormLevels
  <1>4. PICK s : s = [form[u].shown EXCEPT !.level = lv]
    OBVIOUS
  <1>5. s \in Shown /\ s.level = lv
    BY <1>3, <1>4, ShownTyped DEF Shown
  <1>6. PICK t : t = form[u].touched \cup {l}
    OBVIOUS
  <1>7. t \in SUBSET Level
    BY <1>1, <1>6 DEF FormState
  <1>8. form' = [form EXCEPT ![u] = [[@ EXCEPT !.touched = t] EXCEPT !.shown = s]]
    BY <1>1, <1>2, <1>4, <1>6, FormKnown DEF FormState
  <1>9. form[u].touched \subseteq t /\ \A k \in Level \ t : s.level[k] = form[u].shown.level[k]
    BY <1>3, <1>5, <1>6
  <1>10. QED
    BY <1>5, <1>7, <1>8, <1>9, ShownTyped, TypedInv

LEMMA LevelPriceInv ==
    ASSUME FormInv, NEW u \in FormUser,
           OnChangeLevelPrice(u) \/ OnChangeLevelMargin(u)
    PROVE  FormInv'
  <1>1. Ready(u) /\ UNCHANGED <<pricingVars, cache>>
    BY DEF OnChangeLevelPrice, OnChangeLevelMargin, Typing
  <1>2. form[u].shown.cost \in Nat
    BY <1>1, ShownTyped
  <1>3. CASE OnChangeLevelPrice(u)
    <2>1. PICK l \in Level, p \in Prices :
              form' = [form EXCEPT
                 ![u].touched = @ \cup {l},
                 ![u].shown.level[l] =
                     [price |-> p,
                      margin |-> ClientMarginFromPrice(form[u].shown.cost, p)]]
      BY <1>3 DEF OnChangeLevelPrice
    <2>2. PICK x : x = [price |-> p,
                        margin |-> ClientMarginFromPrice(form[u].shown.cost, p)]
      OBVIOUS
    <2>3. x \in [price : Nat, margin : Nat]
      BY <1>2, <2>2, ClientTyped, FormAssumption
    <2>4. QED
      BY <1>1, <2>1, <2>2, <2>3, LevelInv
  <1>4. CASE OnChangeLevelMargin(u)
    <2>1. PICK l \in Level, m \in Margins :
              form' = [form EXCEPT
                 ![u].touched = @ \cup {l},
                 ![u].shown.level[l] =
                     [price |-> ClientPriceFromMargin(form[u].shown.cost, m),
                      margin |-> m]]
      BY <1>4 DEF OnChangeLevelMargin
    <2>2. PICK x : x = [price |-> ClientPriceFromMargin(form[u].shown.cost, m),
                        margin |-> m]
      OBVIOUS
    <2>3. m \in Nat
      BY FormAssumption
    <2>4. x \in [price : Nat, margin : Nat]
      BY <1>2, <2>2, <2>3, ClientTyped
    <2>5. QED
      BY <1>1, <2>1, <2>2, <2>4, LevelInv
  <1>5. QED
    BY <1>3, <1>4

\* What a form sends of an untouched level is its price, if the answer the form
\* shows is still current.
LEMMA SubmitInv ==
    ASSUME FormInv, NEW u \in FormUser, Submit(u) PROVE FormInv'
  <1>1. /\ Ready(u) /\ Send(u, form[u].shown) /\ UNCHANGED cache
        /\ form' = [form EXCEPT ![u].kept =
                       Level \ (form[u].touched \cup cache[u].stale)]
    BY DEF Submit, BuildPayload
  <1>2. PICK body : body = form[u].shown
    OBVIOUS
  <1>3. body \in Body
    BY <1>1, <1>2, ShownTyped DEF Body, Field, FormLevels, Shown
  <1>4. u \in User /\ Send(u, body)
    BY <1>1, <1>2, FormAssumption
  <1>5. PricingInv' /\ UNCHANGED level
    BY <1>3, <1>4, SendInv, FormKnown DEF Send
  <1>6. /\ req'[u].body = body
        /\ \A v \in User \ {u} : req'[v] = req[v]
    BY <1>4, FormKnown DEF Send, Idle, PricingInv, PricingTypeOK
  <1>7. /\ form' \in [FormUser -> FormState]
        /\ form'[u].kept = Level \ (form[u].touched \cup cache[u].stale)
        /\ form'[u].shown = form[u].shown /\ form'[u].touched = form[u].touched
        /\ \A v \in FormUser \ {u} : form'[v] = form[v]
    BY <1>1, FormKnown DEF FormState
  <1>8. Filled(form[u].shown)
    BY <1>1, ShownTyped
  <1>9. \A l \in form'[u].kept : body.level[l].price = level[l].price
    BY <1>2, <1>7, <1>8, FormKnown DEF Matches, Tells
  <1>10. \A v \in FormUser : Sent(form'[v], req'[v], level')
    <2>1. Sent(form'[u], req'[u], level')
      BY <1>5, <1>6, <1>9 DEF Sent
    <2>2. ASSUME NEW v \in FormUser \ {u} PROVE Sent(form'[v], req'[v], level')
      BY <1>5, <1>6, <1>7, FormKnown, FormAssumption
    <2>3. QED
      BY <2>1, <2>2
  <1>11. \A v \in FormUser : Matches(form'[v], cache'[v]) /\ Tells(cache'[v], level')
    BY <1>1, <1>5, <1>7, FormKnown DEF Matches
  <1>12. QED
    BY <1>1, <1>5, <1>7, <1>10, <1>11, FormKnown, FormTogether

LEMMA AnsweredInv ==
    ASSUME FormInv, NEW u \in FormUser, OnSuccess(u) \/ OnError(u) PROVE FormInv'
  <1>1. /\ req' = [req EXCEPT ![u].pc = "idle"] /\ UNCHANGED <<product, level, told, past>>
        /\ \/ UNCHANGED <<form, cache>>
           \/ /\ form' = [form EXCEPT ![u].fetch = form[u].open]
              /\ cache' = [cache EXCEPT ![u].old = TRUE]
    BY DEF OnSuccess, OnError
  <1>2. u \in User /\ DOMAIN req = User /\ Reading(req[u])
    BY FormAssumption, FormKnown DEF PricingInv, PricingTypeOK
  <1>3. PICK q : q = [req[u] EXCEPT !.pc = "idle"]
    OBVIOUS
  <1>4. Reading(q) /\ q.pc = "idle"
    BY <1>2, <1>3 DEF Reading
  <1>5. req' = [req EXCEPT ![u] = q]
    BY <1>1, <1>3
  <1>6. PricingInv'
    BY <1>1, <1>2, <1>4, <1>5, ReadingSet, ReqStep, FormKnown DEF PricingInv
  <1>7. req'[u].pc = "idle" /\ \A v \in User \ {u} : req'[v] = req[v]
    BY <1>2, <1>4, <1>5
  <1>8. /\ form' \in [FormUser -> FormState] /\ cache' \in [FormUser -> CacheState]
        /\ \A v \in FormUser :
              /\ form'[v].shown = form[v].shown /\ form'[v].touched = form[v].touched
              /\ form'[v].kept = form[v].kept
              /\ cache'[v].view = cache[v].view /\ cache'[v].stale = cache[v].stale
    <2>1. CASE UNCHANGED <<form, cache>>
      BY <2>1, FormKnown
    <2>2. CASE /\ form' = [form EXCEPT ![u].fetch = form[u].open]
               /\ cache' = [cache EXCEPT ![u].old = TRUE]
      BY <2>2, FormKnown DEF FormState, CacheState
    <2>3. QED
      BY <1>1, <2>1, <2>2
  <1>9. \A v \in FormUser : Matches(form'[v], cache'[v]) /\ Tells(cache'[v], level')
    BY <1>1, <1>8, FormKnown DEF Matches, Tells
  <1>10. \A v \in FormUser : Sent(form'[v], req'[v], level')
    BY <1>1, <1>7, <1>8, FormKnown, FormAssumption DEF Sent
  <1>11. QED
    BY <1>6, <1>8, <1>9, <1>10, FormTogether

LEMMA FormStart == FormInit => FormInv
  <1> SUFFICES ASSUME FormInit PROVE FormInv
    OBVIOUS
  <1>1. PricingInv
    BY PricingStart DEF FormInit
  <1>2. FormTypeOK
    BY EmptyShown DEF FormInit, FormTypeOK, Closed
  <1>3. \A u \in FormUser : AnswerCurrent(u) /\ ShowsAnswer(u) /\ SentCurrent(u)
    BY EmptyShown, FormAssumption DEF FormInit, Init, Closed, Idle, Free,
       AnswerCurrent, ShowsAnswer, SentCurrent
  <1>4. QED
    BY <1>1, <1>2, <1>3 DEF FormInv

LEMMA FormStepInv == FormInv /\ [FormNext]_vars => FormInv'
  <1> SUFFICES ASSUME FormInv, [FormNext]_vars PROVE FormInv'
    OBVIOUS
  <1>1. CASE ProductStep
    BY <1>1, ProductInv
  <1>2. CASE \E u \in User : ServerStep(u)
    BY <1>2, ServerInv
  <1>3. CASE \E u \in FormUser : FormStep(u)
    BY <1>3, OpenInv, HydrateInv, ReturnInv, CostInv, MinInv, LevelPriceInv, SubmitInv,
       AnsweredInv, CloseInv DEF FormStep
  <1>4. CASE UNCHANGED vars
    <2>1. UNCHANGED <<product, level, req, told, past, form, cache>>
      BY <1>4 DEF vars, pricingVars
    <2>2. PricingInv'
      BY <2>1, ReqStep, FormKnown DEF PricingInv, PricingTypeOK
    <2>3. QED
      BY <2>1, <2>2, FormKnown, FormTogether
  <1>5. QED
    BY <1>1, <1>2, <1>3, <1>4 DEF FormNext

LEMMA FormSafe == FormSpec => []FormInv
  BY FormStart, FormStepInv, PTL DEF FormSpec

\* Nothing but its own save turns a request that is about to save into a saved
\* one, and that writes what it was sent.
LEMMA OnlySave ==
    ASSUME FormInv, [FormNext]_vars, NEW u \in FormUser,
           req[u].pc = "save", req'[u].pc = "saved"
    PROVE  Save(u)
  <1>1. u \in User /\ DOMAIN req = User /\ \A v \in User : Reading(req[v])
    BY FormAssumption, FormKnown DEF PricingInv, PricingTypeOK
  <1>2. req'[u] # req[u]
    OBVIOUS
  <1>3. CASE \E v \in User : ServerStep(v)
    <2>1. PICK v \in User : ServerStep(v)
      BY <1>3
    <2>2. CASE v # u
      BY <1>1, <1>2, <2>1, <2>2 DEF ServerStep, Send, ReadProduct, ReadLevels, Save,
         Refuse, Abort, Finish
    <2>3. CASE v = u
      <3>1. CASE Send(u, Unsent) \/ \E b : Send(u, b)
        BY <3>1 DEF Send, Free
      <3>2. CASE ReadProduct(u) \/ ReadLevels(u)
        BY <3>2 DEF ReadProduct, ReadLevels
      <3>3. CASE Refuse(u) \/ Abort(u)
        BY <1>1, <3>3 DEF Refuse, Abort, Finish, Idle
      <3>4. QED
        BY <2>1, <2>3, <3>1, <3>2, <3>3 DEF ServerStep
    <2>4. QED
      BY <2>2, <2>3
  <1>4. CASE \E v \in FormUser : FormStep(v)
    <2>1. PICK v \in FormUser : FormStep(v)
      BY <1>4
    <2>2. \/ req' = req
          \/ \E b : Send(v, b)
          \/ req[v].pc \in {"saved", "refused"} /\ req' = [req EXCEPT ![v].pc = "idle"]
      BY <2>1 DEF FormStep, Open, Hydrate, Return, OnChangeCost, OnChangeMin, Typing,
         OnChangeLevelPrice, OnChangeLevelMargin, Submit, OnSuccess, OnError, Close,
         pricingVars
    <2>3. v \in User
      BY FormAssumption
    <2>4. QED
      BY <1>1, <1>2, <2>2, <2>3 DEF Send, Free
  <1>5. CASE ProductStep \/ UNCHANGED vars
    BY <1>2, <1>5 DEF ProductStep, PatchProduct, RemoveProduct, vars, pricingVars
  <1>6. QED
    BY <1>3, <1>4, <1>5 DEF FormNext

LEMMA KeptPrices ==
    ASSUME FormInv, NEW u \in FormUser, Save(u), NEW l \in form[u].kept
    PROVE  level'[l].price = RoundPrice(level[l].price)
  <1>1. u \in User /\ l \in Level /\ req[u].pc = "save"
    BY FormAssumption, FormKnown DEF FormState, Save
  <1>2. Asked(u, l).price = level[l].price
    BY <1>1, FormKnown DEF Sent, Asked
  <1>3. level[l].price \in Nat
    BY <1>1, FormKnown DEF PricingInv, PricingTypeOK, PriceLevel
  <1>4. NewSale(u, l) = RoundPrice(level[l].price)
    BY <1>2, <1>3 DEF NewSale, Unsent
  <1>5. QED
    BY <1>1, <1>4, Saved, FormKnown

-----------------------------------------------------------------------------
(* Theorems *)

\* Whatever price updates overlap, the product row agrees with its levels: it
\* is out of margin if a level is, and it has the price and the margin of the
\* first level unless ProductsService.update has written its own since.
THEOREM CopyAgrees == FormSpec => []ProductAgrees
  <1>1. FormInv => ProductAgrees
    BY DEF FormInv, PricingInv
  <1>2. QED
    BY <1>1, FormSafe, PTL

\* The last row of product_price_history tells the price of its level, and the
\* cost, up to the updates that put back what they had read over a change made
\* in between.
THEOREM HistoryIsTold == FormSpec => []HistoryTells
  <1>1. FormInv => HistoryTells
    BY DEF FormInv, PricingInv
  <1>2. QED
    BY <1>1, FormSafe, PTL

\* Cost, margin and price of a level agree, for all costs and prices and at
\* any precision, but for the levels an overlapped update kept.
THEOREM TriosSquare == FormSpec => []TrioSquares
  <1>1. FormInv => TrioSquares
    BY DEF FormInv, PricingInv
  <1>2. QED
    BY <1>1, FormSafe, PTL

\* A save of the form writes a level its user did not touch as it was, rounded
\* to the cent, unless somebody has changed it since the form was filled: what
\* was shown is what is sent, and it is still the price when it is written.
THEOREM UntouchedStay == FormSpec => UntouchedKept
  <1>1. ASSUME FormInv, [FormNext]_vars
        PROVE  [\A u \in FormUser :
                   req[u].pc = "save" /\ req'[u].pc = "saved" =>
                       \A l \in form[u].kept :
                           level'[l].price = RoundPrice(level[l].price)]_vars
    BY <1>1, OnlySave, KeptPrices
  <1>2. QED
    BY <1>1, FormSafe, PTL DEF FormSpec, UntouchedKept

\* The prices, the margins and what is read of them stay in their types: no
\* margin that is stored is negative or reaches one, whatever is sent.
THEOREM PricesTyped == FormSpec => [](PricingTypeOK /\ FormTypeOK)
  <1>1. FormInv => PricingTypeOK /\ FormTypeOK
    BY DEF FormInv, PricingInv
  <1>2. QED
    BY <1>1, FormSafe, PTL
=============================================================================
