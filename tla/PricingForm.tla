----------------------------- MODULE PricingForm -----------------------------
(***************************************************************************)
(* The pricing tab of the product dialog (web-erp, products.tsx) over the  *)
(* pricing of the api.  A form is filled from the answer of the api,       *)
(* recomputes the other fields as one is typed, and sends all its fields,  *)
(* the untouched ones as it was filled with them; after a save that went   *)
(* through it asks again and is filled again, over what was typed since.   *)
(*                                                                         *)
(* Left out: the parsing of typed text, the tab of a new product (which    *)
(* sends the same fields after the creation), the badges, the history, and *)
(* a second save sent while the first is under way by leaving the tab.     *)
(***************************************************************************)
EXTENDS Pricing

CONSTANTS FormUser,                \* the users with the dialog; the others
                                   \* send requests of their own
          Costs, Prices, Margins,  \* what a user types
          Edits                    \* fields typed in a behaviour

ASSUME FormAssumption ==
    FormUser \subseteq User /\ Costs \cup Prices \cup Margins \subseteq Nat

VARIABLES form,   \* by user: [open, fetch, touched, shown], and as history
                  \* kept: levels sent as they were, and nobody else changed
          cache,  \* by user: the last answer of GET pricing, whether it was
                  \* invalidated, and as history the levels that have changed
                  \* since: [view, old, stale]
          edits   \* edits left
vars == <<pricingVars, form, cache, edits>>

Empty == [cost |-> 0, min |-> 0, level |-> <<>>]
Closed == [open |-> FALSE, fetch |-> FALSE, touched |-> {}, shown |-> Empty,
           kept |-> {}]
\* Shown once it has been filled, and no save under way.
Ready(u) == form[u].open /\ DOMAIN form[u].shown.level # {} /\ Free(u)
Typing(u) == Ready(u) /\ edits > 0 /\ edits' = edits - 1

\* A change makes every older answer stale.
Stale(u) ==
    LET changed == {l \in Level : level'[l] # level[l]}
    IN  /\ cache' = [v \in FormUser |-> [cache[v] EXCEPT !.stale = @ \cup changed]]
        /\ form' = [v \in FormUser |->
                       IF v = u THEN form[v]
                       ELSE [form[v] EXCEPT !.kept = @ \ changed]]

-----------------------------------------------------------------------------
(* The form *)

View == [cost |-> product.cost, min |-> product.min,
         level |-> [l \in Level |-> [price |-> level[l].price,
                                     margin |-> level[l].margin]]]

\* The dialog opens: with an answer in the cache it shows that, and asks again
\* when the answer was invalidated or is older than 30 seconds.
Open(u) ==
    /\ ~form[u].open /\ edits > 0
    /\ \E old \in BOOLEAN :
          /\ cache[u].old => old
          /\ form' = [form EXCEPT ![u] = [Closed EXCEPT !.open = TRUE,
                    !.fetch = old, !.shown = cache[u].view, !.kept = form[u].kept]]
    /\ UNCHANGED <<pricingVars, cache, edits>>

\* The answer of GET pricing arrives and, unless it is the one there was,
\* fills the form: hydrate.  A removed product is a 404.
Hydrate(u) ==
    /\ form[u].open /\ form[u].fetch
    /\ form' = [form EXCEPT ![u] =
                  IF product.gone \/ View = cache[u].view
                  THEN [@ EXCEPT !.fetch = FALSE]
                  ELSE [@ EXCEPT !.fetch = FALSE, !.touched = {}, !.shown = View]]
    /\ cache' = [cache EXCEPT ![u] = IF product.gone THEN @
                                     ELSE [view |-> View, old |-> FALSE, stale |-> {}]]
    /\ UNCHANGED <<pricingVars, edits>>

\* Going to another tab of the dialog and coming back fills the form again
\* from the last answer, over what was typed, and asks again if that is old.
Return(u) ==
    /\ form[u].open /\ edits > 0
    /\ \E old \in BOOLEAN :
          /\ cache[u].old => old
          /\ form' = [form EXCEPT ![u].fetch = @ \/ old, ![u].touched = {},
                                  ![u].shown = cache[u].view]
    /\ UNCHANGED <<pricingVars, cache, edits>>

OnChangeCost(u) ==
    /\ Typing(u)
    /\ \E c \in Costs :
          LET shown == form[u].shown.level
              moved == {l \in Level : c > 0 /\ shown[l].margin > 0}
          IN  form' = [form EXCEPT
                 ![u].touched = @ \cup moved, ![u].shown.cost = c,
                 ![u].shown.level = [l \in Level |->
                     IF l \notin moved THEN shown[l]
                     ELSE [shown[l] EXCEPT !.price =
                              ClientPriceFromMargin(c, shown[l].margin)]]]
    /\ UNCHANGED <<pricingVars, cache>>

OnChangeMin(u) ==
    /\ Typing(u)
    /\ \E m \in Margins : form' = [form EXCEPT ![u].shown.min = m]
    /\ UNCHANGED <<pricingVars, cache>>

OnChangeLevelPrice(u) ==
    /\ Typing(u)
    /\ \E l \in Level, p \in Prices :
          form' = [form EXCEPT
             ![u].touched = @ \cup {l},
             ![u].shown.level[l] =
                 [price |-> p,
                  margin |-> ClientMarginFromPrice(form[u].shown.cost, p)]]
    /\ UNCHANGED <<pricingVars, cache>>

OnChangeLevelMargin(u) ==
    /\ Typing(u)
    /\ \E l \in Level, m \in Margins :
          form' = [form EXCEPT
             ![u].touched = @ \cup {l},
             ![u].shown.level[l] =
                 [price |-> ClientPriceFromMargin(form[u].shown.cost, m),
                  margin |-> m]]
    /\ UNCHANGED <<pricingVars, cache>>

BuildPayloadOfLevelOne(u) ==                                   \* faulty
    [form[u].shown EXCEPT !.level = [l \in Level |-> @[First]]]
BuildPayload(u) == form[u].shown

Submit(u) ==
    /\ Ready(u)
    /\ Send(u, BuildPayload(u))
    /\ form' = [form EXCEPT ![u].kept =
                   Level \ (form[u].touched \cup cache[u].stale)]
    /\ UNCHANGED <<cache, edits>>

\* onSuccess, which runs after the dialog was closed too, asks for the prices
\* again: at once in an open dialog.
OnSuccess(u) ==
    /\ req[u].pc = "saved"
    /\ form' = [form EXCEPT ![u].fetch = form[u].open]
    /\ cache' = [cache EXCEPT ![u].old = TRUE]
    /\ req' = [req EXCEPT ![u].pc = "idle"]
    /\ UNCHANGED <<product, level, told, past, left, edits>>

\* The answer was an error, or was lost after the save: the form stays.
OnError(u) ==
    /\ req[u].pc \in {"saved", "refused"}
    /\ req' = [req EXCEPT ![u].pc = "idle"]
    /\ UNCHANGED <<product, level, told, past, left, form, cache, edits>>

Close(u) ==
    /\ form[u].open
    /\ form' = [form EXCEPT ![u] = [Closed EXCEPT !.kept = form[u].kept]]
    /\ UNCHANGED <<pricingVars, cache, edits>>

-----------------------------------------------------------------------------
FormInit ==
    /\ Init
    /\ form = [u \in FormUser |-> Closed]
    /\ cache = [u \in FormUser |-> [view |-> Empty, old |-> TRUE, stale |-> {}]]
    /\ edits = Edits

ServerStep(u) ==
    \/ /\ \/ u \notin FormUser /\ \E b \in Bodies : Send(u, b)
          \/ ReadProduct(u) \/ ReadLevels(u) \/ Refuse(u) \/ Abort(u)
       /\ UNCHANGED <<form, cache>>
    \/ Save(u) /\ Stale(u)

\* update and remove, called by anybody.
ProductStep == (PatchProduct \/ RemoveProduct) /\ UNCHANGED <<form, cache>>

FormStep(u) ==
    \/ Open(u) \/ Hydrate(u) \/ Return(u) \/ OnChangeCost(u) \/ OnChangeMin(u)
    \/ OnChangeLevelPrice(u) \/ OnChangeLevelMargin(u)
    \/ Submit(u) \/ OnSuccess(u) \/ OnError(u) \/ Close(u)

FormNext ==
    \/ (ProductStep \/ \E u \in User : ServerStep(u)) /\ UNCHANGED edits
    \/ \E u \in FormUser : FormStep(u)

FormSpec == FormInit /\ [][FormNext]_vars

-----------------------------------------------------------------------------
(* Properties *)

\* The form sends the levels its user did not touch too.  A save of it writes
\* such a level as it was, rounded to the cent (create stores four decimals),
\* unless somebody has changed it since the form was filled.
UntouchedKept ==
    [][\A u \in FormUser :
          req[u].pc = "save" /\ req'[u].pc = "saved" =>
              \A l \in form[u].kept : level'[l].price = RoundPrice(level[l].price)]_vars

\* What pricing.service.ts says of a level sent with both fields: the pair is
\* refused only if the margin is not that of the price, to 0.0001.
TypedPriceAccepted ==
    \A u \in FormUser :
        req[u].pc = "save" /\ (\E l \in Level : ~Resolves(u, l)) =>
            \E l \in Level :
                LET p == RoundPrice(Asked(u, l).price)
                IN  \/ ~MarginDerivable(NewCost(u), p)
                    \/ Asked(u, l).margin \notin
                          (MarginFromPrice(NewCost(u), p) - 1)..
                          (MarginFromPrice(NewCost(u), p) + 1)

Filled(view) == DOMAIN view.level # {}
FormLevels == [Level -> [price : Nat, margin : Nat]]
Shown == [cost : Nat, min : Nat, level : FormLevels \cup {<<>>}]
FormTypeOK ==
    /\ form \in [FormUser -> [open : BOOLEAN, fetch : BOOLEAN,
                              touched : SUBSET Level, shown : Shown,
                              kept : SUBSET Level]]
    /\ cache \in [FormUser -> [view : Shown, old : BOOLEAN, stale : SUBSET Level]]

\* What makes an untouched field safe to send: an answer tells the prices of
\* the levels that have not changed since; a form shows its last answer where
\* it was not typed; what it has sent is still so while the request is handled.
AnswerCurrent(u) ==
    Filled(cache[u].view) =>
        \A l \in Level \ cache[u].stale :
            cache[u].view.level[l].price = level[l].price
ShowsAnswer(u) ==
    Filled(form[u].shown) =>
        /\ Filled(cache[u].view)
        /\ \A l \in Level \ form[u].touched :
              form[u].shown.level[l].price = cache[u].view.level[l].price
SentCurrent(u) ==
    ~Free(u) =>
        \A l \in form[u].kept : req[u].body.level[l].price = level[l].price

FormInv ==
    /\ PricingInv /\ FormTypeOK
    /\ \A u \in FormUser : AnswerCurrent(u) /\ ShowsAnswer(u) /\ SentCurrent(u)
=============================================================================
