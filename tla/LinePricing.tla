---------------------------- MODULE LinePricing -----------------------------
(* The line of a document in the web client (LineRow of quotations.tsx,    *)
(* sales-orders.tsx and invoices.tsx, the same code three times): choosing *)
(* a product asks for its prices, and two effects copy the price of the    *)
(* level into the line. An effect runs after a render in which one of the  *)
(* values it lists changed, with the values of that render.                *)
EXTENDS Naturals

CONSTANTS Product, Level, Price,
          First,    \* the level the first price of a product is of
          None

VARIABLES
    server,     \* the sale prices, as other users leave them
    asked,      \* products whose GET /products/:id/pricing is on its way
    data,       \* the answers the query cache holds
    line,       \* the line on the screen, None when no form is open
    effects,    \* what each effect saw when it last ran
    typed,      \* the price the user wrote over the level's, if any
    saved       \* the line and the typed price of the last save

vars == <<server, asked, data, line, effects, typed, saved>>

Open == line # None
Blank == [product |-> None, level |-> None, price |-> None]
NeverRan == [one |-> None, two |-> None]

\* pricingQ.data of the product shown
Pricing == IF line.product = None THEN None ELSE data[line.product]

\* The values the two effects depend on in the render of now.
Seen == [one |-> <<Pricing, line.product>>, two |-> <<Pricing, line.level>>]

\* React runs the effects of a render before it hears the user again.
Settled == Open => effects = Seen

-----------------------------------------------------------------------------
(* The effects *)

DefaultLevel ==
    /\ effects.one # Seen.one
    /\ Pricing # None
    /\ line.level = None

LevelPrice ==
    /\ effects.two # Seen.two
    /\ Pricing # None
    /\ line.level # None
    /\ line.price # Pricing[line.level]

\* A render is followed by the effects whose values changed: the first
\* gives a line without a level the first one and its price, the second
\* puts the price of the level in the line.
RunEffects ==
    /\ Open
    /\ ~Settled
    /\ effects' = Seen
    /\ line' = CASE DefaultLevel -> [line EXCEPT !.level = First, !.price = Pricing[First]]
                 [] LevelPrice   -> [line EXCEPT !.price = Pricing[line.level]]
                 [] OTHER        -> line
    /\ UNCHANGED <<server, asked, data, typed, saved>>

-----------------------------------------------------------------------------
(* The user *)

Edit(l, t) ==
    /\ Open
    /\ Settled
    /\ line' = l
    /\ typed' = t
    /\ UNCHANGED <<server, asked, data, effects, saved>>

ChooseProduct(p) == Open /\ Edit([line EXCEPT !.product = p], None)

\* The selector is disabled until the prices of the product are there.
ChooseLevel(l) ==
    /\ Open
    /\ Pricing # None
    /\ Edit([line EXCEPT !.level = l], None)

\* A price written over the one of the level counts as the user's own.
TypePrice(c) ==
    /\ Open
    /\ Edit([line EXCEPT !.price = c],
            IF Pricing # None /\ line.level # None THEN c ELSE None)

\* The editor of a new document starts with a blank line, that of a saved
\* one with what was saved.
OpenEditor ==
    /\ ~Open
    /\ line' = IF saved = None THEN Blank ELSE saved.line
    /\ typed' = IF saved = None THEN None ELSE saved.typed
    /\ effects' = NeverRan
    /\ UNCHANGED <<server, asked, data, saved>>

Leave ==
    /\ Open
    /\ Settled
    /\ line' = None
    /\ typed' = None
    /\ UNCHANGED <<server, asked, data, effects>>

Save == Leave /\ saved' = [line |-> line, typed |-> typed]

Discard == Leave /\ UNCHANGED saved

-----------------------------------------------------------------------------
(* The prices *)

\* A query is sent for the product of the line, and again when its data is
\* old or the connection comes back.
Ask ==
    /\ Open
    /\ line.product # None
    /\ asked' = asked \cup {line.product}
    /\ UNCHANGED <<server, data, line, effects, typed, saved>>

Arrive(p) ==
    /\ p \in asked
    /\ asked' = asked \ {p}
    /\ data' = [data EXCEPT ![p] = server[p]]
    /\ UNCHANGED <<server, line, effects, typed, saved>>

Reprice(p, l, c) ==
    /\ server' = [server EXCEPT ![p][l] = c]
    /\ UNCHANGED <<asked, data, line, effects, typed, saved>>

-----------------------------------------------------------------------------

Init ==
    /\ server \in [Product -> [Level -> Price]]
    /\ asked = {}
    /\ data = [p \in Product |-> None]
    /\ line = None
    /\ effects = NeverRan
    /\ typed = None
    /\ saved = None

Next ==
    \/ RunEffects
    \/ \E p \in Product \cup {None} : ChooseProduct(p)
    \/ \E l \in Level \cup {None} : ChooseLevel(l)
    \/ \E c \in Price : TypePrice(c)
    \/ OpenEditor
    \/ Save
    \/ Discard
    \/ Ask
    \/ \E p \in Product : Arrive(p)
    \/ \E p \in Product, l \in Level, c \in Price : Reprice(p, l, c)

Spec == Init /\ [][Next]_vars

-----------------------------------------------------------------------------

\* "Si el usuario sobreescribe manualmente unitPrice -> se respeta"
\* (quotations.tsx:1002): while the user chooses no other level or product,
\* the price he typed stays, also when the document is opened again.
OverrideRespected == Open /\ typed # None => line.price = typed
=============================================================================
