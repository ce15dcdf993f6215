------------------------------ MODULE Permissions ------------------------------
(***************************************************************************)
(* Who may call what: the permission each endpoint of the api asks for     *)
(* (the @RequirePermission of the controllers, checked by PermissionsGuard *)
(* after JwtAuthGuard), the codes the seed creates, and what the web       *)
(* makes of them: the menu, the gates of the routes, and the calls of each *)
(* page.  The four are written in four places of the repository and        *)
(* nothing but their texts keeps them together: the assumptions at the end *)
(* say in what they agree, and exactly where they do not.                  *)
(*                                                                         *)
(* A permission is an area and a verb, an endpoint a resource and an       *)
(* operation.  Which permissions a user has is in module Access.           *)
(***************************************************************************)

Reading(area) == <<area, "read">>
Managing(area) == <<area, "manage">>

-----------------------------------------------------------------------------
(* The codes (prisma/seed.ts) *)

Seeded ==
    {"branch", "warehouses", "users", "roles"} \X {"read", "create", "update", "delete"}
        \cup {"params", "partners",
              "catalogs.currency", "catalogs.exchange-rate", "catalogs.tax",
              "catalogs.uom", "catalogs.department", "catalogs.product-category",
              "catalogs.customer-category", "catalogs.product",
              "inventory.movement", "purchases.po", "purchases.receipt",
              "sales.quote", "sales.order", "sales.invoice"} \X {"read", "manage"}
        \cup {"company"} \X {"read", "update"}
        \cup {"permissions", "audit", "inventory.stock", "pricing"} \X {"read"}
        \cup {<<"auth", "login">>, <<"branch", "access_all">>,
              <<"users", "assign-roles">>, Managing("pricing.item")}

\* The role of the demo user receives every code of the table.
AdminRole == Seeded

-----------------------------------------------------------------------------
(* The endpoints, by controller: a relation between endpoints and codes. *)

Asks(resource, ops, code) == ({resource} \X ops) \X {code}

\* Listed and read with one code, written with another.
Managed(resource, area) ==
    Asks(resource, {"list", "get"}, Reading(area))
        \cup Asks(resource, {"create", "update", "remove"}, Managing(area))

\* A code for each operation.
ByVerb(resource, area) ==
    Asks(resource, {"list", "get"}, Reading(area))
        \cup Asks(resource, {"create"}, <<area, "create">>)
        \cup Asks(resource, {"update"}, <<area, "update">>)
        \cup Asks(resource, {"remove"}, <<area, "delete">>)

CompaniesController ==
    Asks("companies", {"current"}, Reading("company"))
        \cup Asks("companies", {"update"}, <<"company", "update">>)
BranchesController == ByVerb("branches", "branch")
WarehousesController == ByVerb("warehouses", "warehouses")
UsersController ==
    ByVerb("users", "users")
        \cup Asks("users", {"branches"}, Reading("users"))
        \cup Asks("users", {"myBranches"}, Reading("branch"))
        \cup Asks("users", {"replaceRoles"}, <<"users", "assign-roles">>)
        \cup Asks("users", {"replaceBranches"}, <<"users", "update">>)
RolesController ==
    ByVerb("roles", "roles")
        \cup Asks("roles", {"replacePermissions"}, <<"roles", "update">>)
PermissionsController == Asks("permissions", {"list"}, Reading("permissions"))
ParamsController ==
    Asks("params", {"list", "get"}, Reading("params"))
        \cup Asks("params", {"put", "remove"}, Managing("params"))
CurrenciesController == Managed("currencies", "catalogs.currency")
ExchangeRatesController ==
    Managed("exchange-rates", "catalogs.exchange-rate")
        \cup Asks("exchange-rates", {"convert"}, Reading("catalogs.exchange-rate"))
TaxesController == Managed("taxes", "catalogs.tax")
UnitsController == Managed("units-of-measure", "catalogs.uom")
DepartmentsController == Managed("departments", "catalogs.department")
ProductCategoriesController ==
    Managed("product-categories", "catalogs.product-category")
CustomerCategoriesController ==
    Managed("customer-categories", "catalogs.customer-category")
ProductsController == Managed("products", "catalogs.product")
PricingController ==
    Asks("pricing", {"get", "history"}, Reading("pricing"))
        \cup Asks("pricing", {"update"}, Managing("pricing.item"))
StockController == Asks("stock", {"list"}, Reading("inventory.stock"))
MovementsController ==
    Asks("stock-movements", {"list"}, Reading("inventory.movement"))
        \cup Asks("stock-movements", {"create", "transfer"}, Managing("inventory.movement"))
PartnersController ==
    Managed("partners", "partners")
        \cup Asks("partners", {"contacts"}, Reading("partners"))
        \cup Asks("partners", {"addContact", "updateContact", "removeContact"},
                  Managing("partners"))
PurchaseOrdersController ==
    Managed("purchase-orders", "purchases.po")
        \cup Asks("purchase-orders", {"approve", "cancel"}, Managing("purchases.po"))
GoodsReceiptsController ==
    Asks("goods-receipts", {"list", "get"}, Reading("purchases.receipt"))
        \cup Asks("goods-receipts", {"create"}, Managing("purchases.receipt"))
\* To convert a quotation is to create an order.
QuotationsController ==
    Managed("quotations", "sales.quote")
        \cup Asks("quotations", {"send", "accept", "reject", "expire"},
                  Managing("sales.quote"))
        \cup Asks("quotations", {"convert"}, Managing("sales.order"))
SalesOrdersController ==
    Managed("sales-orders", "sales.order")
        \cup Asks("sales-orders", {"confirm", "cancel"}, Managing("sales.order"))
InvoicesController ==
    Asks("invoices", {"list", "get"}, Reading("sales.invoice"))
        \cup Asks("invoices", {"create", "cancel"}, Managing("sales.invoice"))

Required ==
    UNION {CompaniesController, BranchesController, WarehousesController,
           UsersController, RolesController, PermissionsController,
           ParamsController, CurrenciesController, ExchangeRatesController,
           TaxesController, UnitsController, DepartmentsController,
           ProductCategoriesController, CustomerCategoriesController,
           ProductsController, PricingController, StockController,
           MovementsController, PartnersController, PurchaseOrdersController,
           GoodsReceiptsController, QuotationsController,
           SalesOrdersController, InvoicesController}

\* Without a code: with a session, and without one (@Public).
OfSession == {"auth"} \X {"me", "change-password"}
Public == {"auth"} \X {"login", "refresh", "logout", "forgot-password", "reset-password"}
              \cup {<<"app", "root">>, <<"health", "check">>}

\* JwtAuthGuard, then PermissionsGuard: 401 without a session, 403 without
\* the code of the endpoint, and otherwise the handler.
Guards(session, codes, endpoint) ==
    IF endpoint \in Public THEN 200
    ELSE IF ~session THEN 401
    ELSE IF endpoint \in OfSession \/ \E c \in codes : <<endpoint, c>> \in Required
    THEN 200 ELSE 403

-----------------------------------------------------------------------------
(* The web: menu, routes and the calls of each page *)

\* NAV_ENTRIES, the group of the catalogs opened out.  The dashboard asks for
\* nothing.
Nav ==
    {<<"products", Reading("catalogs.product")>>,
     <<"stock", Reading("inventory.stock")>>,
     <<"movements", Reading("inventory.movement")>>,
     <<"partners", Reading("partners")>>,
     <<"purchase-orders", Reading("purchases.po")>>,
     <<"receipts", Reading("purchases.receipt")>>,
     <<"quotations", Reading("sales.quote")>>,
     <<"sales-orders", Reading("sales.order")>>,
     <<"invoices", Reading("sales.invoice")>>,
     <<"branches", Reading("branch")>>,
     <<"users", Reading("users")>>,
     <<"roles", Reading("roles")>>,
     <<"product-categories", Reading("catalogs.product-category")>>,
     <<"departments", Reading("catalogs.department")>>,
     <<"units-of-measure", Reading("catalogs.uom")>>,
     <<"taxes", Reading("catalogs.tax")>>,
     <<"currencies", Reading("catalogs.currency")>>,
     <<"settings", Reading("params")>>}

Page == {n[1] : n \in Nav}

\* The routes that only ask for a session.
Ungated == {"branches", "users", "roles", "settings"}
\* The gates of the others.
Route ==
    {<<"products", Reading("catalogs.product")>>,
     <<"stock", Reading("inventory.stock")>>,
     <<"movements", Reading("inventory.movement")>>,
     <<"partners", Reading("partners")>>,
     <<"purchase-orders", Reading("purchases.po")>>,
     <<"receipts", Reading("purchases.receipt")>>,
     <<"quotations", Reading("sales.quote")>>,
     <<"sales-orders", Reading("sales.order")>>,
     <<"invoices", Reading("sales.invoice")>>,
     <<"product-categories", Reading("catalogs.product-category")>>,
     <<"departments", Reading("catalogs.department")>>,
     <<"units-of-measure", Reading("catalogs.uom")>>,
     <<"taxes", Reading("catalogs.tax")>>,
     <<"currencies", Reading("catalogs.currency")>>}

\* filterNav: what the menu shows to whom holds these codes.
Visible(codes) == {p \in Page : \E c \in codes : <<p, c>> \in Nav}
\* ProtectedRoute: the page, the login page or "Sin permiso".
Shown(session, codes, p) ==
    IF ~session THEN "login"
    ELSE IF p \in Ungated \/ \E c \in codes : <<p, c>> \in Route
    THEN "page" ELSE "forbidden"

\* The list a page is about.
ListOf(p) == IF p = "receipts" THEN <<"goods-receipts", "list">>
             ELSE IF p = "movements" THEN <<"stock-movements", "list">>
             ELSE IF p = "settings" THEN <<"params", "list">>
             ELSE <<p, "list">>

Lists(resources) == resources \X {"list"}

\* What a page asks besides as soon as it opens, to fill its selects.
AskedAtOnce(p) ==
    CASE p = "products" -> Lists({"product-categories", "units-of-measure",
                                  "taxes", "departments"})
      [] p \in {"stock", "movements"} -> Lists({"products", "warehouses"})
      [] p = "receipts" -> Lists({"warehouses", "products", "purchase-orders"})
      [] p = "partners" -> Lists({"customer-categories"})
      [] p = "users" -> Lists({"branches"})
      [] p = "purchase-orders" -> Lists({"partners", "branches", "products"})
                                      \cup {<<"companies", "current">>}
      [] p = "quotations" -> Lists({"partners", "branches", "products", "users"})
                                 \cup {<<"companies", "current">>}
      [] p \in {"sales-orders", "invoices"} ->
             Lists({"partners", "branches", "products", "users", "warehouses"})
                 \cup {<<"companies", "current">>}
      [] OTHER -> {}

Of(resource, ops) == {resource} \X ops
Edited(resource) == Of(resource, {"create", "update", "remove"})

\* What its dialogs, its forms and the buttons of its rows call; none of them
\* is hidden or disabled for lack of a code.
Offered(p) ==
    CASE p = "products" -> Edited(p) \cup Of("pricing", {"get", "history", "update"})
      [] p = "movements" -> Of("stock-movements", {"create", "transfer"})
      [] p = "receipts" -> Of("goods-receipts", {"get", "create"})
      [] p = "partners" -> Edited(p) \cup Of(p, {"get", "addContact", "removeContact"})
      [] p = "users" -> Edited(p) \cup Of(p, {"branches", "replaceBranches"})
      [] p = "purchase-orders" -> Edited(p) \cup Of(p, {"get", "approve", "cancel"})
      [] p = "quotations" ->
             Edited(p) \cup Of(p, {"get", "send", "accept", "reject", "expire", "convert"})
                 \cup Of("pricing", {"get"})
      [] p = "sales-orders" -> Edited(p) \cup Of(p, {"get", "confirm", "cancel"})
                                   \cup Of("invoices", {"create"}) \cup Of("pricing", {"get"})
      [] p = "invoices" -> Of(p, {"get", "create", "cancel"}) \cup Of("pricing", {"get"})
      [] p \in {"product-categories", "departments", "units-of-measure",
                "taxes", "currencies"} -> Edited(p)
      [] OTHER -> {}

-----------------------------------------------------------------------------
(* In what the four places agree *)

Codes(endpoints) == {c \in Seeded : \E e \in endpoints : <<e, c>> \in Required}
\* The codes a page needs besides its own for what it asks at once.
FillsWith(p) == Codes(AskedAtOnce(p)) \ Codes({ListOf(p)})

\* Every code an endpoint, the menu or a route asks for is one the seed
\* creates, so that a role can hold it (require-permission.decorator.ts takes
\* any string).  Three of the seed are asked for by no endpoint: that of the
\* login, that of the audit, and branch.access_all, which the services read.
ASSUME EveryCodeIsSeeded ==
    /\ {r[2] : r \in Required \cup Nav \cup Route} \subseteq Seeded
    /\ Seeded \ {r[2] : r \in Required} =
           {<<"auth", "login">>, Reading("audit"), <<"branch", "access_all">>}

\* An endpoint asks for one code, whichever page calls it, and there is no
\* page that calls an endpoint the api does not have.
ASSUME EveryCallHasItsCode ==
    /\ \A r, s \in Required : r[1] = s[1] => r = s
    /\ \A p \in Page : {ListOf(p)} \cup AskedAtOnce(p) \cup Offered(p)
                          \subseteq {r[1] : r \in Required}

\* The menu, the gate of the route and the list of the page ask for the same
\* code (nav.ts: "Mantener este array como unica fuente de verdad").
ASSUME MenuMatchesApi ==
    /\ \A n \in Nav : n[1] \in Ungated \/ n \in Route
    /\ Route \subseteq Nav
    /\ \A n \in Nav : <<ListOf(n[1]), n[2]>> \in Required

\* The selects are another matter: the pages that show some of them empty to
\* a user who holds their own code alone, and the codes that are missing.
ASSUME SelectsNeedMore ==
    /\ {p \in Page : FillsWith(p) = {}} =
           {"branches", "roles", "settings", "product-categories", "departments",
            "units-of-measure", "taxes", "currencies"}
    /\ \A p \in {"quotations", "sales-orders", "invoices"} :
           {Reading("users"), Reading("company"), Reading("partners"),
            Reading("branch"), Reading("catalogs.product")} \subseteq FillsWith(p)

\* Every page that offers more than its list offers it to who may only read:
\* the api answers 403.
ASSUME ButtonsAreNotHidden ==
    \A p \in Page :
        Offered(p) # {} => Codes(Offered(p)) \ Codes({ListOf(p)}) # {}
=============================================================================
