----------------------------- MODULE DocumentPages -----------------------------
(***************************************************************************)
(* The pages of the web application that list documents and edit them in   *)
(* dialogs (src/apps/web-erp/src/pages): the rows of the list and what     *)
(* they offer, the details asked for, the dialogs and their forms, the     *)
(* calls in flight and the refetch of the list after a success.            *)
(*                                                                         *)
(* A page is one of the records below; the api is what the page relies on: *)
(* the permissions of its user, the statuses an operation is admitted in,  *)
(* and a document number that is unique, so that repeating a creation is   *)
(* refused.  Nothing is said of what the documents hold but whose values   *)
(* were saved last.                                                        *)
(*                                                                         *)
(* A dialog covers the page: rows and "new" are out of reach while one is  *)
(* open, its Cancel button never is.  useQuery and useMutation are React   *)
(* Query: an invalidation drops a refetch in flight and asks again, but    *)
(* joins a first load; the callbacks of a mutation run even if the dialog  *)
(* that began it is gone.  An effect of some forms puts the answer of a    *)
(* query of its own into a part of the form: the prices of a line or of a  *)
(* product, the branches of a user, the lines of a purchase order.         *)
(***************************************************************************)
EXTENDS Naturals, FiniteSets

CONSTANTS Doc,          \* documents the list may show
          Shared,       \* bound: those that another user changes, too
          CallSlot,     \* bound: calls in flight
          Pages,        \* pages to look at, names of PageOf
          Grants,       \* by page: the sets of operations its user may do
          MaxVersion,   \* bound: changes of the documents by anyone
          MaxOpening,   \* bound: editors opened
          MaxPresses,   \* bound, by page: buttons pressed
          None

ASSUME NoneAssumption == None \notin Doc
ASSUME BoundAssumption == IsFiniteSet(CallSlot) /\ MaxOpening \in Nat

-----------------------------------------------------------------------------
(* What the pages offer in a row, by status *)

OfferedByQuotationsLate ==                                     \* faulty
    [DRAFT |-> {"edit", "send", "remove"},
     SENT |-> {"edit", "accept", "reject", "expire"},
     ACCEPTED |-> {"view", "convert", "reject", "expire"},
     REJECTED |-> {"view"}, EXPIRED |-> {"view"}, CONVERTED |-> {"view"}]
OfferedByQuotations ==
    [DRAFT |-> {"edit", "send", "remove"},
     SENT |-> {"edit", "accept", "reject", "expire"},
     ACCEPTED |-> {"view", "convert", "reject"},
     REJECTED |-> {"view"}, EXPIRED |-> {"view"}, CONVERTED |-> {"view"}]
OfferedBySalesOrders ==
    [DRAFT |-> {"edit", "confirm", "remove"},
     CONFIRMED |-> {"view", "invoice", "cancel"},
     INVOICED |-> {"view"}, CANCELLED |-> {"view"}]
OfferedByPurchaseOrders ==
    [DRAFT |-> {"edit", "approve", "remove"}, APPROVED |-> {"view", "cancel"},
     RECEIVED |-> {"view"}, CANCELLED |-> {"view"}]
OfferedByInvoices ==
    [ISSUED |-> {"view", "cancel"}, PARTIAL |-> {"view", "cancel"},
     PAID |-> {"view"}, CANCELLED |-> {"view"}]
OfferedByReceipts == [LIVE |-> {"view"}]
OfferedByPartners == [LIVE |-> {"edit", "remove"}]
OfferedByProducts == [LIVE |-> {"edit", "remove"}]
OfferedByUsers == [LIVE |-> {"edit", "remove"}]
OfferedByCatalogs == [LIVE |-> {"edit", "remove"}]
OfferedByMovements == [LIVE |-> {}]

\* What the api admits: from which statuses an operation leads to which.
Step(from, to) == [from |-> from, to |-> to]
QuotationSteps ==
    [edit |-> Step({"DRAFT", "SENT"}, "SAME"), send |-> Step({"DRAFT"}, "SENT"),
     accept |-> Step({"SENT"}, "ACCEPTED"),
     reject |-> Step({"SENT", "ACCEPTED"}, "REJECTED"),
     expire |-> Step({"DRAFT", "SENT"}, "EXPIRED"),
     convert |-> Step({"ACCEPTED"}, "CONVERTED"),
     remove |-> Step({"DRAFT"}, "GONE")]
SalesOrderSteps ==
    [edit |-> Step({"DRAFT"}, "SAME"), confirm |-> Step({"DRAFT"}, "CONFIRMED"),
     cancel |-> Step({"DRAFT", "CONFIRMED"}, "CANCELLED"),
     bill |-> Step({"CONFIRMED"}, "INVOICED"),
     remove |-> Step({"DRAFT"}, "GONE")]
PurchaseOrderSteps ==
    [edit |-> Step({"DRAFT"}, "SAME"), approve |-> Step({"DRAFT"}, "APPROVED"),
     cancel |-> Step({"DRAFT", "APPROVED"}, "CANCELLED"),
     receive |-> Step({"APPROVED"}, "RECEIVED"),
     remove |-> Step({"DRAFT"}, "GONE")]
InvoiceSteps == [cancel |-> Step({"ISSUED", "PARTIAL"}, "CANCELLED")]
NoSteps == [view |-> Step({}, "SAME")]
LiveSteps == [edit |-> Step({"LIVE"}, "SAME"), remove |-> Step({"LIVE"}, "GONE")]

\* An editor.  numbered: a repeated creation is refused.  closes: the editors a
\* success closes, all of them, those of the same kind (new or old), or only the
\* one it was pressed in.  more: the saves that send a second call.  fills: the
\* forms, by their save, with a part that an answer of its own fills.
Editor(numbered, closes, more, fills) ==
    [numbered |-> numbered, closes |-> closes, more |-> more, fills |-> fills]
QuotationEditor == Editor(TRUE, "all", {}, {"create", "patch"})
SalesOrderEditor == Editor(TRUE, "all", {}, {"create", "patch"})
PurchaseOrderEditor == Editor(TRUE, "all", {}, {})
InvoiceEditor == Editor(TRUE, "all", {}, {"create"})
ReceiptEditor == Editor(TRUE, "same", {}, {"create"})
PartnerEditor == Editor(FALSE, "all", {}, {})
ProductEditor == Editor(FALSE, "all", {"create"}, {"patch"})
UserEditor == Editor(TRUE, "all", {"create", "patch"}, {"patch"})
CatalogEditor == Editor(FALSE, "same", {}, {})
\* Forms in the tabs of a page: a success empties the one it was pressed in.
MovementForm == Editor(FALSE, "own", {}, {})
TransferForm == Editor(FALSE, "own", {}, {})

\* A page.  detail: a row button asks for the document before a dialog opens.
\* referred: a removal may be refused because of the rows that refer to the
\* document.
Page(offered, steps, detail, editor) ==
    [offered |-> offered, steps |-> steps, detail |-> detail, referred |-> FALSE,
     numbered |-> editor.numbered, closes |-> editor.closes, more |-> editor.more,
     fills |-> editor.fills]
QuotationsPage == Page(OfferedByQuotations, QuotationSteps, TRUE, QuotationEditor)
SalesOrdersPage == Page(OfferedBySalesOrders, SalesOrderSteps, TRUE, SalesOrderEditor)
PurchaseOrdersPage ==
    Page(OfferedByPurchaseOrders, PurchaseOrderSteps, TRUE, PurchaseOrderEditor)
InvoicesPage == Page(OfferedByInvoices, InvoiceSteps, TRUE, InvoiceEditor)
ReceiptsPage == Page(OfferedByReceipts, NoSteps, TRUE, ReceiptEditor)
PartnersPage == Page(OfferedByPartners, LiveSteps, TRUE, PartnerEditor)
ProductsPage == Page(OfferedByProducts, LiveSteps, FALSE, ProductEditor)
UsersPage == Page(OfferedByUsers, LiveSteps, FALSE, UserEditor)
CatalogPage ==
    [Page(OfferedByCatalogs, LiveSteps, FALSE, CatalogEditor) EXCEPT !.referred = TRUE]
\* The movements page: no list, a tab for each form.
MovementsPage == Page(OfferedByMovements, NoSteps, FALSE, MovementForm)
TransfersTab == Page(OfferedByMovements, NoSteps, FALSE, TransferForm)

PageOf ==
    [quotations |-> QuotationsPage, salesOrders |-> SalesOrdersPage,
     purchaseOrders |-> PurchaseOrdersPage, invoices |-> InvoicesPage,
     receipts |-> ReceiptsPage, partners |-> PartnersPage,
     products |-> ProductsPage, users |-> UsersPage, catalog |-> CatalogPage,
     movements |-> MovementsPage, transfers |-> TransfersTab]

ASSUME PagesAssumption == Pages \subseteq DOMAIN PageOf

-----------------------------------------------------------------------------
VARIABLES page,      \* the page shown, for good
          allowed,   \* the operations its user has the permissions for
          doc,       \* the documents: [status, by: whose values were saved last]
          version,   \* of the documents: how often one was changed
          list,      \* what the rows show: [rows, version]; 0: not loaded yet
          fetch,     \* the query of the list: [at, rows, version, joined]
          dialog,    \* what is open: [creating, editing, viewing, deriving], and
                     \* of the last one the slot of its call and if it is done
          form,      \* the editor: [opening, base, due, typed]; opening 0: not
                     \* there.  due: the next answer fills the part it fills,
                     \* being the first or a new one; typed: the user has changed
                     \* that part
          calls,     \* by slot: the calls in flight
          heard,     \* history: the version the last success heard made
          hasty,     \* history: a document to edit was asked for before the
                     \* answer to another one
          presses,   \* how many buttons were pressed
          made,      \* history, by opening: documents created,
          failed,    \* saves that failed for the user,
          tries,     \* saves pressed,
          ended      \* and how the editor went: saved, cancelled, swept
serverVars == <<doc, version>>
listVars == <<list, fetch>>
dialogVars == <<dialog, form, ended>>
saveVars == <<made, failed, tries>>
history == <<heard, hasty>>
pagesVars ==
    <<page, allowed, serverVars, listVars, dialogVars, calls, saveVars, history,
      presses>>

Now == PageOf[page]
Opening == 1 .. MaxOpening
NoneSent == [op |-> "none", doc |-> None, at |-> "off", shown |-> "", found |-> "",
             version |-> 0, base |-> None, opening |-> 0, second |-> FALSE]
NoForm == [opening |-> 0, base |-> None, due |-> FALSE, typed |-> FALSE]
NoDialog == [creating |-> FALSE, editing |-> None, viewing |-> None,
             deriving |-> None, by |-> None, done |-> FALSE]

Saves == {"create", "patch"}
Derivations == {"convert", "bill"}
Details == {"edit", "view", "invoice"}
InFlight(s) == calls[s].at # "off"
EditorOpen(d) == d.creating \/ d.editing # None
Covered == EditorOpen(dialog) \/ dialog.viewing # None \/ dialog.deriving # None
NoRows == [d \in Doc |-> "GONE"]

-----------------------------------------------------------------------------
(* The list *)

Asked == [at |-> "asked", joined |-> FALSE, rows |-> NoRows, version |-> 0]
\* useQuery asks when the page is shown, and again after the network was gone.
AskList ==
    /\ fetch.at = "failed"
    /\ fetch' = Asked
    /\ UNCHANGED <<page, allowed, serverVars, list, dialogVars, calls, saveVars,
                   history, presses>>
ReadList ==
    /\ fetch.at = "asked"
    /\ fetch' = [fetch EXCEPT !.at = "read", !.version = version,
                              !.rows = [d \in Doc |-> doc[d].status]]
    /\ UNCHANGED <<page, allowed, serverVars, list, dialogVars, calls, saveVars,
                   history, presses>>
ListArrives ==
    /\ fetch.at = "read"
    /\ list' = [rows |-> fetch.rows, version |-> fetch.version]
    /\ fetch' = [Asked EXCEPT !.at = "off", !.joined = fetch.joined]
    /\ UNCHANGED <<page, allowed, serverVars, dialogVars, calls, saveVars, history,
                   presses>>
\* No answer, twice.
ListFails ==
    /\ fetch.at \in {"asked", "read"}
    /\ fetch' = [Asked EXCEPT !.at = "failed"]
    /\ UNCHANGED <<page, allowed, serverVars, list, dialogVars, calls, saveVars,
                   history, presses>>

Fetching == fetch.at \in {"asked", "read"}
InvalidateLater ==                                             \* faulty
    IF Fetching THEN UNCHANGED fetch
    ELSE fetch' = Asked
\* invalidateQueries
Invalidate ==
    IF Fetching /\ list.version = 0 THEN fetch' = [fetch EXCEPT !.joined = TRUE]
    ELSE fetch' = Asked

-----------------------------------------------------------------------------
(* What the user presses *)

Listed(d) == list.version > 0 /\ list.rows[d] # "GONE"
Offers(d) == Now.offered[list.rows[d]]
New(op, d) == [NoneSent EXCEPT !.op = op, !.doc = d, !.at = "sent"]
FromRow(op, d) == [New(op, d) EXCEPT !.shown = list.rows[d]]

Pressed == presses < MaxPresses[page] /\ presses' = presses + 1

\* The bounds leave room for what is in flight.
Room == version + Cardinality({s \in CallSlot : InFlight(s)}) < MaxVersion
Unopened == {o \in Opening : ended[o] = "never"}
MayOpen ==
    Cardinality(Unopened) > Cardinality({s \in CallSlot : calls[s].op = "edit"})

\* An editor is put on the page: its form takes its values once, the part that
\* an answer fills aside.  The prices of a product are not shown before theirs.
Mounted(d) ==
    LET o == CHOOSE o \in Unopened : \A p \in Unopened : o <= p
    IN  /\ form' = [opening |-> o, base |-> d, due |-> page # "products",
                                                typed |-> FALSE]
        /\ ended' = [ended EXCEPT ![o] = "open"]

\* "Nuevo": setCreating(true).
OpenNew ==
    /\ ~Covered /\ MayOpen
    /\ dialog' = [dialog EXCEPT !.creating = TRUE]
    /\ Mounted(None)
    /\ Pressed
    /\ UNCHANGED <<page, allowed, serverVars, listVars, calls, saveVars, history>>

\* openEdit, openView and openInvoice ask for the document.
AskDetail(s, d, op) ==
    /\ ~Covered /\ Listed(d) /\ op \in Offers(d) \cap Details /\ Now.detail
    /\ ~InFlight(s) /\ Room /\ (op = "edit" => MayOpen)
    /\ calls' = [calls EXCEPT ![s] = FromRow(op, d)]
    /\ hasty' = (hasty \/ (op = "edit" /\ \E u \in CallSlot : calls[u].op = "edit"))
    /\ Pressed
    /\ UNCHANGED <<page, allowed, serverVars, listVars, dialogVars, saveVars,
                   heard>>
\* setEditing(row), setConverting(row): the row itself opens in the dialog.
OpenRow(d, op) ==
    /\ ~Covered /\ Listed(d) /\ op \in Offers(d)
    /\ \/ /\ op = "edit" /\ ~Now.detail /\ MayOpen
          /\ dialog' = [dialog EXCEPT !.editing = d]
          /\ Mounted(d)
       \/ /\ op = "convert"
          /\ dialog' = [dialog EXCEPT !.deriving = d]
          /\ UNCHANGED <<form, ended>>
    /\ Pressed
    /\ UNCHANGED <<page, allowed, serverVars, listVars, calls, saveVars, history>>

\* The other buttons of a row, after a confirm(): pressed again while the
\* first call is in flight, they send a second one.
Press(s, d, op) ==
    /\ ~Covered /\ Listed(d) /\ ~InFlight(s) /\ Room
    /\ op \in Offers(d) \ (Details \cup Derivations)
    /\ calls' = [calls EXCEPT ![s] = FromRow(op, d)]
    /\ Pressed
    /\ UNCHANGED <<page, allowed, serverVars, listVars, dialogVars, saveVars,
                   history>>

PendingNever == FALSE                                          \* faulty
\* mutation.isPending of the open editor.
Pending ==
    \E s \in CallSlot : calls[s].op \in Saves /\ calls[s].opening = form.opening

\* "Guardar": the form is sent, to the document of the dialog as it is now.
Submit(s) ==
    /\ EditorOpen(dialog) /\ ~Pending /\ ~InFlight(s) /\ Room
    /\ LET op == IF dialog.creating THEN "create" ELSE "patch"
       IN  calls' = [calls EXCEPT ![s] =
               [New(op, IF op = "create" THEN None ELSE dialog.editing)
                   EXCEPT !.base = form.base, !.opening = form.opening]]
    /\ tries' = [tries EXCEPT ![form.opening] = @ + 1]
    /\ Pressed
    /\ UNCHANGED <<page, allowed, serverVars, listVars, dialogVars, made, failed,
                   history>>
\* "Convertir", "Emitir factura".
Derive(s) ==
    /\ dialog.deriving # None /\ ~dialog.done /\ dialog.by = None
    /\ ~InFlight(s) /\ Room
    /\ LET op == IF page = "quotations" THEN "convert" ELSE "bill"
       IN  calls' = [calls EXCEPT ![s] = New(op, dialog.deriving)]
    /\ dialog' = [dialog EXCEPT !.by = s]
    /\ Pressed
    /\ UNCHANGED <<page, allowed, serverVars, listVars, form, ended, saveVars,
                   history>>

EndForm(how) ==
    /\ form' = NoForm
    /\ ended' = IF form.opening = 0 THEN ended ELSE [ended EXCEPT ![form.opening] = how]
CloseForgetful == [NoDialog EXCEPT !.editing = dialog.editing]  \* faulty
\* close()
Close == NoDialog

\* "Cancelar", "Cerrar": also while a save is in flight.  Each of the two dialogs
\* of the receipts has one of its own.
Cancel ==
    /\ Covered
    /\ \/ /\ page # "receipts"
          /\ dialog' = Close
          /\ UNCHANGED fetch
       \/ /\ page = "receipts" /\ dialog.creating
          /\ dialog' = [dialog EXCEPT !.creating = FALSE]
          /\ Invalidate
       \/ /\ page = "receipts" /\ dialog.viewing # None
          /\ dialog' = [dialog EXCEPT !.viewing = None]
          /\ UNCHANGED fetch
    /\ IF EditorOpen(dialog') THEN UNCHANGED <<form, ended>> ELSE EndForm("cancelled")
    /\ Pressed
    /\ UNCHANGED <<page, allowed, serverVars, list, calls, saveVars, history>>

-----------------------------------------------------------------------------
(* The part of a form that an answer fills *)

Filling ==
    /\ form.opening # 0
    /\ (IF form.base = None THEN "create" ELSE "patch") \in Now.fills
ChangeForm(f) ==
    /\ form' = f
    /\ UNCHANGED <<page, allowed, doc, listVars, dialog, ended, calls, saveVars,
                   history>>

TypePart ==
    /\ Filling /\ ~form.typed
    /\ ChangeForm([form EXCEPT !.typed = TRUE])
    /\ Pressed /\ UNCHANGED version

FillPartAlways ==                                              \* faulty
    /\ Filling
    /\ ChangeForm([form EXCEPT !.due = FALSE, !.typed = FALSE])
    /\ UNCHANGED <<version, presses>>
\* The effect runs when the answer is the first one or says something else.
FillPart ==
    /\ Filling /\ form.due
    /\ ChangeForm([form EXCEPT !.due = FALSE, !.typed = FALSE])
    /\ UNCHANGED <<version, presses>>

\* Somebody changes what the query of the part asks for.
PartChanges ==
    /\ Filling /\ ~form.due /\ Room
    /\ ChangeForm([form EXCEPT !.due = TRUE])
    /\ version' = version + 1 /\ UNCHANGED presses

\* The prices of a product are in a tab.  Coming back to it mounts it again, and
\* its effect runs on the last answer.
Return ==
    /\ Filling /\ page = "products" /\ form.typed
    /\ ChangeForm([form EXCEPT !.typed = FALSE])
    /\ Pressed /\ UNCHANGED version
\* The tab has a save of its own, whose steps are those of PricingForm.
SavePart ==
    /\ Filling /\ page = "products" /\ form.typed /\ "patch" \in allowed /\ Room
    /\ form' = [form EXCEPT !.due = TRUE, !.typed = FALSE]
    /\ version' = version + 1 /\ heard' = version'
    /\ Invalidate
    /\ Pressed
    /\ UNCHANGED <<page, allowed, doc, list, dialog, ended, calls, saveVars, hasty>>

-----------------------------------------------------------------------------
(* The api, and what may be lost *)

Accept(s) == calls' = [calls EXCEPT ![s].at = "ok", ![s].version = version']
Refuse(s) ==
    /\ calls' = [calls EXCEPT ![s].at = "refused", ![s].found =
                    IF calls[s].doc \in Doc THEN doc[calls[s].doc].status ELSE ""]
    /\ UNCHANGED <<serverVars, made>>
Admitted(op, d) == doc[d].status \in Now.steps[op].from
Outcome(op, d) == IF op = "edit" THEN doc[d].status ELSE Now.steps[op].to

ServeDetail(s) ==
    /\ calls[s].op \in Details
    /\ IF doc[calls[s].doc].status = "GONE" THEN Refuse(s)
       ELSE UNCHANGED <<serverVars, made>> /\ Accept(s)
ServeOperation(s) ==
    LET c == calls[s] IN
    /\ c.op \in DOMAIN Now.steps \ Details
    /\ \/ /\ c.op \in allowed /\ Admitted(c.op, c.doc)
          /\ doc' = [doc EXCEPT ![c.doc].status = Outcome(c.op, c.doc)]
          /\ version' = version + 1
          /\ Accept(s) /\ UNCHANGED made
       \/ ~(c.op \in allowed /\ Admitted(c.op, c.doc)) /\ Refuse(s)
       \/ c.op = "remove" /\ Now.referred /\ Refuse(s)
ServeSave(s) ==
    LET c == calls[s] IN
    /\ c.op \in Saves /\ ~c.second
    /\ IF c.op \notin allowed THEN Refuse(s)
       ELSE IF c.op = "create"
       THEN IF Now.numbered /\ made[c.opening] > 0 THEN Refuse(s)
            ELSE /\ made' = [made EXCEPT ![c.opening] = @ + 1]
                 /\ version' = version + 1
                 /\ Accept(s) /\ UNCHANGED doc
       ELSE IF ~Admitted("edit", c.doc) THEN Refuse(s)
            ELSE /\ doc' = [doc EXCEPT ![c.doc].by = c.base]
                 /\ version' = version + 1
                 /\ Accept(s) /\ UNCHANGED made
\* The prices of a new product, the branches of a user.
ServeSecond(s) ==
    /\ calls[s].second
    /\ \/ UNCHANGED <<serverVars, made>> /\ Accept(s)
       \/ Refuse(s)
Serve(s) ==
    /\ calls[s].at = "sent"
    /\ ServeDetail(s) \/ ServeOperation(s) \/ ServeSave(s) \/ ServeSecond(s)
    /\ UNCHANGED <<page, allowed, listVars, dialogVars, failed, tries, history,
                   presses>>

\* The request or its answer does not arrive.
Lose(s) ==
    /\ calls[s].at \in {"sent", "ok", "refused"}
    /\ calls' = [calls EXCEPT ![s] =
                    [@ EXCEPT !.at = "lost", !.version = 0, !.found = ""]]
    /\ UNCHANGED <<page, allowed, serverVars, listVars, dialogVars, saveVars, history,
                   presses>>

\* Another user.
Others(d, op) ==
    /\ Room /\ d \in Shared
    /\ op \in DOMAIN Now.steps \ {"edit"} /\ Admitted(op, d)
    /\ doc' = [doc EXCEPT ![d].status = Outcome(op, d)]
    /\ version' = version + 1
    /\ UNCHANGED <<page, allowed, listVars, dialogVars, calls, saveVars, history,
                   presses>>

-----------------------------------------------------------------------------
(* What the page does with an answer *)

Succeeded(s) == calls[s].at = "ok"
Heard(s) == calls[s].at \in {"ok", "refused", "lost"}
Free(s) == calls' = [calls EXCEPT ![s] = NoneSent]
Refetch(s) ==
    IF Succeeded(s) THEN Invalidate /\ heard' = calls[s].version
    ELSE UNCHANGED <<fetch, heard>>

HearDetail(s) ==
    /\ calls[s].op \in Details /\ Free(s)
    /\ LET d == calls[s].doc
       IN  IF ~Succeeded(s) THEN UNCHANGED dialogVars
           ELSE CASE calls[s].op = "edit" ->
                       /\ dialog' = [dialog EXCEPT !.editing = d]
                       /\ IF EditorOpen(dialog) THEN UNCHANGED <<form, ended>>
                          ELSE Mounted(d)
                  [] calls[s].op = "view" ->
                       dialog' = [dialog EXCEPT !.viewing = d] /\ UNCHANGED <<form, ended>>
                  [] calls[s].op = "invoice" ->
                       dialog' = [dialog EXCEPT !.deriving = d] /\ UNCHANGED <<form, ended>>
    /\ UNCHANGED <<fetch, heard, saveVars>>
HearOperation(s) ==
    /\ calls[s].op \in DOMAIN Now.steps \ (Details \cup Derivations) /\ Free(s)
    /\ Refetch(s)
    /\ UNCHANGED <<dialogVars, saveVars>>
HearDerivation(s) ==
    /\ calls[s].op \in Derivations /\ Free(s)
    /\ Refetch(s)
    /\ dialog' = IF dialog.by # s THEN dialog
                 ELSE [dialog EXCEPT !.by = None, !.done = Succeeded(s)]
    /\ UNCHANGED <<form, ended, saveVars>>

\* The editors that the success of a save closes.
ClosedBy(s) ==
    CASE Now.closes = "all" -> Close
      [] Now.closes = "same" ->
             IF calls[s].op = "create" THEN [dialog EXCEPT !.creating = FALSE]
                                      ELSE [dialog EXCEPT !.editing = None]
      [] Now.closes = "own" ->
             IF calls[s].opening = form.opening THEN Close ELSE dialog
Shut(s) ==
    /\ dialog' = ClosedBy(s)
    /\ IF EditorOpen(dialog') \/ ~EditorOpen(dialog) THEN UNCHANGED <<form, ended>>
       ELSE EndForm(IF Succeeded(s) /\ calls[s].opening = form.opening
                    THEN "saved" ELSE "swept")
OnSettled(s) ==                                                \* faulty
    /\ Free(s)
    /\ Refetch(s)
    /\ Shut(s)
    /\ failed' = [failed EXCEPT ![calls[s].opening] =
                      IF Succeeded(s) THEN @ ELSE @ + 1]
    /\ UNCHANGED <<made, tries>>
\* onSuccess, onError
OnAnswer(s) ==
    /\ Free(s)
    /\ Refetch(s)
    /\ IF Succeeded(s) THEN Shut(s) ELSE UNCHANGED dialogVars
    /\ failed' = [failed EXCEPT ![calls[s].opening] =
                      IF Succeeded(s) THEN @ ELSE @ + 1]
    /\ UNCHANGED <<made, tries>>
HearSave(s) ==
    /\ calls[s].op \in Saves
    /\ IF Succeeded(s) /\ calls[s].op \in Now.more /\ ~calls[s].second
       THEN /\ calls' = [calls EXCEPT ![s].at = "sent", ![s].second = TRUE]
            /\ UNCHANGED <<fetch, heard, dialogVars, saveVars>>
       ELSE OnAnswer(s)
Hear(s) ==
    /\ Heard(s)
    /\ HearDetail(s) \/ HearOperation(s) \/ HearDerivation(s) \/ HearSave(s)
    /\ UNCHANGED <<page, allowed, serverVars, list, hasty, presses>>

-----------------------------------------------------------------------------
PagesInit ==
    /\ page \in Pages /\ allowed \in Grants[page]
    /\ \E st \in [Doc -> DOMAIN Now.offered] :
           /\ \A d \in Doc \ Shared : st[d] \in {"DRAFT", "ISSUED", "LIVE"}
           /\ doc = [d \in Doc |-> [status |-> st[d], by |-> d]]
    /\ version = 1
    /\ list = [rows |-> NoRows, version |-> 0]
    /\ fetch = Asked
    /\ dialog = NoDialog /\ form = NoForm
    /\ calls = [s \in CallSlot |-> NoneSent]
    /\ heard = 0 /\ hasty = FALSE /\ presses = 0
    /\ made = [o \in Opening |-> 0] /\ failed = made /\ tries = made
    /\ ended = [o \in Opening |-> "never"]

Operations == (UNION {DOMAIN PageOf[p].steps : p \in Pages})
                  \cup {"view", "convert", "invoice"}
OfPage == DOMAIN Now.steps \cup {"view", "convert", "invoice"}
PagesNext ==
    \/ AskList \/ ReadList \/ ListArrives \/ ListFails
    \/ OpenNew \/ Cancel
    \/ TypePart \/ FillPart \/ PartChanges \/ Return \/ SavePart
    \/ \E d \in Doc, op \in OfPage : OpenRow(d, op) \/ Others(d, op)
    \/ \E s \in CallSlot :
          \/ Submit(s) \/ Derive(s) \/ Serve(s) \/ Lose(s) \/ Hear(s)
          \/ \E d \in Doc, op \in OfPage : AskDetail(s, d, op) \/ Press(s, d, op)

\* The api answers, and the page handles what it hears.
PagesFairness ==
    /\ WF_pagesVars(ReadList) /\ WF_pagesVars(ListArrives)
    /\ WF_pagesVars(\E s \in CallSlot : Serve(s))
    /\ WF_pagesVars(\E s \in CallSlot : Hear(s))
PagesSpec == PagesInit /\ [][PagesNext]_pagesVars /\ PagesFairness

-----------------------------------------------------------------------------
(* Properties *)

\* Values are saved in the document they were shown for, unless a second
\* document to edit was asked for before the answer to the first.
SavedWhereShown == \A d \in Doc : doc[d].by # d => hasty

\* The button of a row is refused only if its row is out of date or its user
\* lacks the permission (it is shown all the same), in the pages of the documents
\* with a status.
FreshPressAccepted ==
    \A s \in CallSlot :
        /\ calls[s].at = "refused" /\ calls[s].shown # "" /\ ~Now.referred
        => calls[s].found # calls[s].shown \/ calls[s].op \notin allowed

\* What an editor creates is there once, unless a save that the user saw fail
\* had created it and no number of the document stops the next one.
CreatedOnce ==
    \A o \in Opening : made[o] <= 1 + (IF Now.numbered THEN 0 ELSE failed[o])

\* What the user typed goes away with a Cancel or with the success of the save
\* of its dialog, unless an editor was cancelled while its save was in flight.
\* The part of a form that an answer fills also goes away with an answer that is
\* the first or says something else, and the prices of a product on coming back
\* to their tab or with their own save.
InputKept ==
    [][/\ \A o \in Opening :
             ended[o] # "swept" /\ ended'[o] = "swept" =>
                 \E p \in Opening : ended[p] = "cancelled" /\ tries[p] > 0
       /\ form.typed /\ ~form'.typed =>
             \/ ended'[form.opening] \in {"cancelled", "saved", "swept"}
             \/ form.due /\ ~form'.due
             \/ Return \/ SavePart]_pagesVars

\* After a success the rows come to show it, unless the list could not be
\* loaded, or was being loaded for the first time.
ListCatchesUp ==
    []<>(list.version >= heard \/ fetch.at = "failed" \/ fetch.joined)
=============================================================================
