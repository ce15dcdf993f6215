-------------------------------- MODULE Bodies --------------------------------
(***************************************************************************)
(* What a form lets through and what the api takes.  Each is written by    *)
(* hand, the schemas of the web (zod) in its pages and the parsers of the  *)
(* bodies in the dto files of the api, with regular expressions that look  *)
(* alike and are not: the assumptions at the end say exactly where a value *)
(* the form lets through is answered with a 400, where a zero passes for a *)
(* positive amount, and what an editor shows empty and does not clear.     *)
(*                                                                         *)
(* A value is abstracted to its class: what the tests of the code tell     *)
(* apart.  A field is the set of classes that are taken, or sent.          *)
(***************************************************************************)
EXTENDS Naturals, Sequences, FiniteSets

\* Texts: "", blanks, a word, one over the limit of the field, three capitals,
\* a member of the enumeration, a date, an address, and numerals: 0, 00, -0,
\* 0.25, 0.12345, 7 and -7.
Numerals == {"zero", "zeros", "minusZero", "fraction", "fine", "id", "negative"}
Written == {"word", "iso", "enum", "date", "email"} \cup Numerals
Texts == Written \cup {"empty", "blank", "long"}
\* The numbers 0, 0.25, 1 and 7.
Numbers == {"nought", "share", "unit", "number"}
NoValue == {"absent", "null"}

-----------------------------------------------------------------------------
(* The parsers of a field; the ones of quotations.dto.ts are repeated, word *)
(* for word or nearly, in the other files.                                  *)

RequireString == Written
NullableString == Written \cup NoValue \cup {"empty"}
\* BigInt("") and BigInt("  ") are 0.
RequireBigInt == {"empty", "blank", "zero", "zeros", "minusZero", "id", "negative"}
                     \cup {"nought", "unit", "number"}
NullableBigInt == RequireBigInt \cup NoValue
AsCurrencyCode == {"iso"}
NonNegativeDecimal == {"zero", "zeros", "fraction", "id"} \cup Numbers
\* Only 0, 0.0 and so on are refused: 00 passes.
PositiveDecimal == NonNegativeDecimal \ {"zero", "nought"}
RateLessThanOne == NonNegativeDecimal \ {"id", "unit", "number"}
PositiveRateDecimal == PositiveDecimal \cup {"fine"}
OptionalDate == {"date", "empty"} \cup NoValue
AsBoolean == {"bool"}
AsEnum == {"enum"}
AsInt == {"nought", "unit", "number"}
SignedDecimal == (Numerals \ {"fine"}) \cup Numbers
\* Number(value) in [0, 1], for taxes and commissions.
AsPercentage == {"zero", "zeros", "minusZero", "fraction", "fine", "nought", "share", "unit"}
RequireEmail == {"email"}
AsMarginFraction == RateLessThanOne

Or(field) == field \cup {"absent"}

-----------------------------------------------------------------------------
(* The bodies of the api *)

QuotationBody ==
    [customerId |-> NullableBigInt, branchId |-> NullableBigInt,
     salespersonId |-> NullableBigInt, quoteNumber |-> RequireString,
     quoteDate |-> OptionalDate, validUntil |-> OptionalDate,
     currencyCode |-> Or(AsCurrencyCode), exchangeRate |-> Or(PositiveRateDecimal),
     notes |-> NullableString]
QuotationLine ==
    [productId |-> NullableBigInt, description |-> NullableString,
     quantity |-> PositiveDecimal, unitPrice |-> NonNegativeDecimal,
     discountRate |-> Or(RateLessThanOne), taxRate |-> Or(NonNegativeDecimal),
     priceListId |-> NullableBigInt]
SalesOrderBody ==
    [customerId |-> RequireBigInt, branchId |-> NullableBigInt,
     salespersonId |-> NullableBigInt, orderNumber |-> RequireString,
     orderDate |-> OptionalDate, currencyCode |-> Or(AsCurrencyCode),
     exchangeRate |-> Or(PositiveRateDecimal), notes |-> NullableString]
SalesOrderLine ==
    [productId |-> RequireBigInt, quantity |-> PositiveDecimal,
     unitPrice |-> NonNegativeDecimal, discountRate |-> Or(RateLessThanOne),
     taxRate |-> Or(NonNegativeDecimal), priceListId |-> NullableBigInt]
InvoiceBody ==
    [customerId |-> RequireBigInt, branchId |-> NullableBigInt,
     salespersonId |-> NullableBigInt, salesOrderId |-> NullableBigInt,
     warehouseId |-> RequireBigInt, invoiceNumber |-> RequireString,
     invoiceDate |-> OptionalDate, dueDate |-> OptionalDate,
     currencyCode |-> Or(AsCurrencyCode), exchangeRate |-> Or(PositiveRateDecimal)]
InvoiceLine ==
    [productId |-> NullableBigInt, description |-> NullableString,
     quantity |-> PositiveDecimal, unitPrice |-> NonNegativeDecimal,
     taxRate |-> Or(NonNegativeDecimal), priceListId |-> NullableBigInt]
PurchaseOrderBody ==
    [supplierId |-> RequireBigInt, branchId |-> NullableBigInt,
     orderNumber |-> RequireString, orderDate |-> OptionalDate,
     expectedDate |-> OptionalDate, currencyCode |-> Or(AsCurrencyCode),
     exchangeRate |-> Or(PositiveRateDecimal), notes |-> NullableString]
PurchaseOrderLine ==
    [productId |-> RequireBigInt, quantity |-> PositiveDecimal,
     unitCost |-> NonNegativeDecimal, taxRate |-> Or(NonNegativeDecimal)]
ReceiptBody ==
    [purchaseOrderId |-> NullableBigInt, warehouseId |-> RequireBigInt,
     receiptNumber |-> RequireString, receiptDate |-> OptionalDate]
ReceiptLine ==
    [productId |-> RequireBigInt, quantity |-> PositiveDecimal,
     unitCost |-> NonNegativeDecimal \cup NoValue]

\* The sign of the quantity goes with the type of the movement.
MovementQuantity(type) ==
    CASE type = "IN" -> SignedDecimal \ {"zero", "nought", "minusZero", "negative"}
      [] type = "OUT" -> {"minusZero", "negative"}
      [] type = "ADJUST" -> SignedDecimal \ {"zero", "nought", "minusZero"}
MovementBody(type) ==
    [productId |-> RequireBigInt, warehouseId |-> RequireBigInt,
     movementType |-> AsEnum, quantity |-> MovementQuantity(type),
     unitCost |-> Or(NonNegativeDecimal), sourceDoc |-> NullableString,
     sourceId |-> NullableBigInt, movementDate |-> OptionalDate,
     notes |-> NullableString]
TransferBody ==
    [productId |-> RequireBigInt, fromWarehouseId |-> RequireBigInt,
     toWarehouseId |-> RequireBigInt, quantity |-> PositiveDecimal,
     movementDate |-> OptionalDate, notes |-> NullableString]

PartnerBody ==
    [code |-> NullableString, tradeName |-> NullableString, taxId |-> NullableString,
     email |-> NullableString, phone |-> NullableString, address |-> NullableString,
     partnerType |-> AsEnum, legalName |-> RequireString,
     currencyCode |-> Or(AsCurrencyCode), creditLimit |-> Or(NonNegativeDecimal),
     creditDays |-> Or(AsInt), isActive |-> Or(AsBoolean),
     customerCategoryId |-> NullableBigInt]
ContactBody ==
    [name |-> RequireString, position |-> NullableString,
     email |-> NullableString, phone |-> NullableString]
ProductBody ==
    [name |-> RequireString, barcode |-> NullableString,
     description |-> NullableString, uomId |-> RequireBigInt,
     categoryId |-> NullableBigInt, taxId |-> NullableBigInt,
     departmentId |-> NullableBigInt, trackingType |-> Or(AsEnum),
     warrantyMonths |-> Or(AsInt), isInventoried |-> Or(AsBoolean),
     isActive |-> Or(AsBoolean), costPrice |-> Or(NonNegativeDecimal),
     salePrice |-> Or(NonNegativeDecimal), priceCurrency |-> Or(AsCurrencyCode),
     minStock |-> Or(NonNegativeDecimal), maxStock |-> Or(NonNegativeDecimal)]
PricingBody ==
    [costPrice |-> Or(NonNegativeDecimal), minMarginPct |-> Or(AsMarginFraction),
     reason |-> Or(Texts \ {"long"})]
PricingLevel ==
    [priceListId |-> {"zero", "zeros", "id", "nought", "unit", "number"},
     salePrice |-> Or(NonNegativeDecimal), marginPct |-> Or(AsMarginFraction)]
UserBody ==
    [username |-> RequireString, email |-> RequireEmail, password |-> RequireString,
     fullName |-> RequireString, isActive |-> Or(AsBoolean),
     isSalesperson |-> Or(AsBoolean), commissionPct |-> Or(AsPercentage),
     defaultBranchId |-> NullableBigInt]
TaxBody ==
    [name |-> RequireString, rate |-> Or(AsPercentage), isActive |-> Or(AsBoolean)]
\* The code is put in capitals: letters, digits, - and _.
UnitBody ==
    [code |-> RequireString \ {"fraction", "fine", "email"}, name |-> RequireString,
     isActive |-> Or(AsBoolean)]
DepartmentBody == [name |-> RequireString, isActive |-> Or(AsBoolean)]
ProductCategoryBody ==
    [name |-> RequireString, parentId |-> NullableBigInt, isActive |-> Or(AsBoolean)]
\* At most six decimals: the seven of the class "number" are one too many.
CurrencyBody ==
    [code |-> AsCurrencyCode, name |-> RequireString, symbol |-> NullableString,
     decimals |-> Or({"nought", "unit"}), isActive |-> Or(AsBoolean)]

\* An update takes what the creation takes, or nothing, field by field.  The
\* date of the document is the exception: once given it stays.
Patch(body, date) ==
    [f \in DOMAIN body |-> Or(body[f]) \ (IF f = date THEN {"null", "empty"} ELSE {})]

-----------------------------------------------------------------------------
(* What the forms send once their schema, or their own checks, are content. *)

\* v?.trim() ? v.trim() : null, and v || undefined.
OrNull(sent) == sent \cup {"null"}
OrAbsent(sent) == sent \cup {"absent"}
\* z.string().min(1), sent as typed; trimmed by hand in the others.
Filled == Written \cup {"blank"}
\* if (!f.name.trim()), with no limit: the catalogs, the users and the contacts.
Typed == Written \cup {"long"}
Chosen == {"id"}
Decimal == {"zero", "zeros", "fraction", "id"}
Rate == OrAbsent(Decimal \cup {"fine"})
Percent == {"nought", "share", "unit"}

QuotationForm ==
    [customerId |-> OrNull(Chosen), branchId |-> OrNull(Chosen),
     salespersonId |-> OrNull(Chosen), quoteNumber |-> Filled,
     quoteDate |-> OrAbsent({"date"}), validUntil |-> OrAbsent({"date"}),
     currencyCode |-> {"iso"}, exchangeRate |-> Rate, notes |-> OrNull(Written)]
QuotationFormLine ==
    [productId |-> OrNull(Chosen), description |-> OrNull(Written),
     quantity |-> Decimal, unitPrice |-> Decimal, discountRate |-> Decimal,
     taxRate |-> Decimal, priceListId |-> OrNull(Chosen)]
SalesOrderForm ==
    [customerId |-> Chosen, branchId |-> OrNull(Chosen),
     salespersonId |-> OrNull(Chosen), orderNumber |-> Filled,
     orderDate |-> OrAbsent({"date"}), currencyCode |-> {"iso"},
     exchangeRate |-> Rate, notes |-> OrNull(Written)]
SalesOrderFormLine ==
    [productId |-> Chosen, quantity |-> Decimal, unitPrice |-> Decimal,
     discountRate |-> Decimal, taxRate |-> Decimal, priceListId |-> OrNull(Chosen)]
InvoiceForm ==
    [customerId |-> Chosen, branchId |-> OrNull(Chosen),
     salespersonId |-> OrNull(Chosen), warehouseId |-> Chosen,
     invoiceNumber |-> Filled, invoiceDate |-> OrAbsent({"date"}),
     dueDate |-> OrAbsent({"date"}), currencyCode |-> {"iso"}, exchangeRate |-> Rate]
InvoiceFormLine ==
    [productId |-> OrNull(Chosen), description |-> OrNull(Written),
     quantity |-> Decimal, unitPrice |-> Decimal, taxRate |-> Decimal,
     priceListId |-> OrNull(Chosen)]
PurchaseOrderForm ==
    [supplierId |-> Chosen, branchId |-> OrNull(Chosen), orderNumber |-> Filled,
     orderDate |-> OrAbsent({"date"}), expectedDate |-> OrAbsent({"date"}),
     currencyCode |-> {"iso"}, exchangeRate |-> Rate, notes |-> OrNull(Written)]
PurchaseOrderFormLine ==
    [productId |-> Chosen, quantity |-> Decimal, unitCost |-> Decimal, taxRate |-> Decimal]
\* Against an order the cost is any text, or left to the order.
ReceiptForm(mode) ==
    [purchaseOrderId |-> IF mode = "po" THEN Chosen ELSE {"absent"},
     warehouseId |-> Chosen, receiptNumber |-> Filled,
     receiptDate |-> OrAbsent({"date"})]
ReceiptFormLine(mode) ==
    [productId |-> Chosen, quantity |-> Decimal,
     unitCost |-> IF mode = "po" THEN OrAbsent(Texts \ {"empty"}) ELSE Decimal]
ManualMovementForm ==
    [productId |-> Chosen, warehouseId |-> Chosen, movementType |-> {"enum"},
     quantity |-> Numerals \ {"fine"}, unitCost |-> Decimal, notes |-> OrNull(Written)]
TransferOrderForm ==
    [productId |-> Chosen, fromWarehouseId |-> Chosen, toWarehouseId |-> Chosen,
     quantity |-> Decimal, notes |-> OrNull(Written)]
PartnerForm ==
    [code |-> OrNull(Written), tradeName |-> OrNull(Written), taxId |-> OrNull(Written),
     email |-> OrNull(Written), phone |-> OrNull(Written), address |-> OrNull(Written),
     partnerType |-> {"enum"}, legalName |-> Filled, currencyCode |-> {"iso"},
     creditLimit |-> Decimal, creditDays |-> AsInt, isActive |-> {"bool"},
     customerCategoryId |-> OrNull(Chosen)]
ContactForm ==
    [name |-> Typed, position |-> OrNull(Typed),
     email |-> OrNull(Typed), phone |-> OrNull(Typed)]
ProductForm ==
    [name |-> Filled, barcode |-> OrNull(Written), description |-> OrNull(Written),
     uomId |-> Chosen, categoryId |-> OrNull(Chosen), taxId |-> OrNull(Chosen),
     departmentId |-> OrNull(Chosen), trackingType |-> {"enum"},
     warrantyMonths |-> AsInt, isInventoried |-> {"bool"}, isActive |-> {"bool"}]
\* What MoneyInput makes of the text, and a percentage over a hundred: neither
\* has a schema.
PriceForm ==
    [costPrice |-> {"zero", "fraction", "fine", "id", "negative"},
     minMarginPct |-> {"zero", "fraction", "id", "negative"},
     reason |-> OrAbsent(Written)]
PriceFormLevel ==
    [priceListId |-> Chosen, salePrice |-> PriceForm.costPrice,
     marginPct |-> PriceForm.minMarginPct]
\* The password is not trimmed, and left out of an update when blank.
UserForm ==
    [username |-> Typed, email |-> Typed,
     password |-> Typed, fullName |-> Typed,
     isActive |-> {"bool"}, isSalesperson |-> {"bool"}, commissionPct |-> Percent,
     defaultBranchId |-> OrAbsent(Chosen)]
TaxForm == [name |-> Typed, rate |-> Percent, isActive |-> {"bool"}]
UnitForm ==
    [code |-> {"word", "iso", "enum", "date"} \cup {"zero", "zeros", "minusZero", "id", "negative"},
     name |-> Typed, isActive |-> {"bool"}]
DepartmentForm == [name |-> Typed, isActive |-> {"bool"}]
ProductCategoryForm ==
    [name |-> Typed, parentId |-> OrNull(Chosen), isActive |-> {"bool"}]
CurrencyForm ==
    [code |-> {"iso"}, name |-> Typed,
     symbol |-> OrNull(Written), decimals |-> {"nought", "unit"},
     isActive |-> {"bool"}]

-----------------------------------------------------------------------------
(* The amounts of the price form (MoneyInput, parseMoney): the decimals of the *)
(* number read, from the separators of the text and the digits after each; the *)
(* text begins with a digit.                                                   *)

NotANumber == "NaN"
DecimalsOf(seps, digits) ==
    LET last == Len(seps)
        commas == {i \in DOMAIN seps : seps[i] = ","}
    IN  CASE last = 0 -> 0
          [] commas # {} /\ (Cardinality(commas) > 1 \/ seps[last] # ",") -> NotANumber
          [] commas # {} /\ seps[last] = "," -> digits[last]
          [] commas = {} -> IF digits[last] <= 2 /\ \A i \in 1..last - 1 : digits[i] > 0
                            THEN digits[last] ELSE 0

-----------------------------------------------------------------------------
\* What a form lets through and the api answers with a 400.
Rejected(form, body) ==
    UNION {{f} \X (form[f] \ body[f]) : f \in DOMAIN form}

\* Every field a form sends is one the api knows, and one it leaves out is one
\* the api can do without (quotations.dto.ts:232, receipts.tsx:318 and the rest).
Complete(form, body) ==
    /\ DOMAIN form \subseteq DOMAIN body
    /\ \A f \in DOMAIN body \ DOMAIN form : "absent" \in body[f]

ASSUME FormsAreComplete ==
    /\ Complete(QuotationForm, QuotationBody)
    /\ Complete(QuotationFormLine, QuotationLine)
    /\ Complete(SalesOrderForm, SalesOrderBody)
    /\ Complete(SalesOrderFormLine, SalesOrderLine)
    /\ Complete(InvoiceForm, InvoiceBody)
    /\ Complete(InvoiceFormLine, InvoiceLine)
    /\ Complete(PurchaseOrderForm, PurchaseOrderBody)
    /\ Complete(PurchaseOrderFormLine, PurchaseOrderLine)
    /\ \A mode \in {"po", "direct"} :
          Complete(ReceiptForm(mode), ReceiptBody)
              /\ Complete(ReceiptFormLine(mode), ReceiptLine)
    /\ Complete(ManualMovementForm, MovementBody("IN"))
    /\ Complete(TransferOrderForm, TransferBody)
    /\ Complete(PartnerForm, PartnerBody)
    /\ Complete(ContactForm, ContactBody)
    /\ Complete(ProductForm, ProductBody)
    /\ Complete(UserForm, UserBody)

\* The documents are refused for a number of blanks, a rate of exchange of zero,
\* a quantity of zero and a discount of a hundred per cent or more: the schemas
\* say "Decimal > 0" of what they only ask to be written as a decimal.
HeaderRefusals(number) == {<<number, "blank">>, <<"exchangeRate", "zero">>}
NoQuantity == {<<"quantity", "zero">>}

ASSUME DocumentsRefused ==
    /\ Rejected(QuotationForm, QuotationBody) = HeaderRefusals("quoteNumber")
    /\ Rejected(QuotationForm, Patch(QuotationBody, "quoteDate"))
           = HeaderRefusals("quoteNumber")
    /\ Rejected(SalesOrderForm, SalesOrderBody) = HeaderRefusals("orderNumber")
    /\ Rejected(InvoiceForm, InvoiceBody) = HeaderRefusals("invoiceNumber")
    /\ Rejected(PurchaseOrderForm, PurchaseOrderBody) = HeaderRefusals("orderNumber")
    /\ Rejected(QuotationFormLine, QuotationLine)
           = NoQuantity \cup {<<"discountRate", "id">>}
    /\ Rejected(SalesOrderFormLine, SalesOrderLine)
           = NoQuantity \cup {<<"discountRate", "id">>}
    /\ Rejected(InvoiceFormLine, InvoiceLine) = NoQuantity
    /\ Rejected(PurchaseOrderFormLine, PurchaseOrderLine) = NoQuantity
    /\ Rejected(ReceiptFormLine("direct"), ReceiptLine) = NoQuantity
    /\ Rejected(TransferOrderForm, TransferBody) = NoQuantity

\* A line without product and without description passes the forms of the
\* quotations and the invoices, and their parsers refuse it (quotations.dto.ts:203).
NamesSomething(line) == line.productId # "null" \/ line.description # "null"

ASSUME FreeLinesRefused ==
    \A form \in {QuotationFormLine, InvoiceFormLine} :
        \E p \in form.productId, d \in form.description :
            ~NamesSomething([productId |-> p, description |-> d])

\* The sign of a movement is left to the api: each type has quantities of the
\* form it refuses, and "00" in and "-0" out move nothing and are taken.
ASSUME MovementsRefused ==
    /\ Rejected(ManualMovementForm, MovementBody("IN"))
           = {"quantity"} \X {"zero", "minusZero", "negative"}
    /\ Rejected(ManualMovementForm, MovementBody("OUT"))
           = {"quantity"} \X {"zero", "zeros", "fraction", "id"}
    /\ Rejected(ManualMovementForm, MovementBody("ADJUST"))
           = {"quantity"} \X {"zero", "minusZero"}

ASSUME ZeroPasses ==
    /\ "zeros" \in PositiveDecimal
    /\ "zeros" \in MovementQuantity("IN")
    /\ "minusZero" \in MovementQuantity("OUT")
    /\ "empty" \in RequireBigInt

\* The catalogs, the partners and the users are refused for a text too long or
\* of blanks, the users for an address as well, the prices for an amount below
\* zero or of five decimals, or a margin of a hundred per cent.
ASSUME RecordsRefused ==
    /\ \A c \in {<<TaxForm, TaxBody>>, <<UnitForm, UnitBody>>,
                 <<DepartmentForm, DepartmentBody>>,
                 <<ProductCategoryForm, ProductCategoryBody>>,
                 <<CurrencyForm, CurrencyBody>>} :
          Rejected(c[1], c[2]) = {<<"name", "long">>}
    /\ Rejected(ContactForm, ContactBody) = (DOMAIN ContactBody) \X {"long"}
    /\ Rejected(PartnerForm, PartnerBody) = {<<"legalName", "blank">>}
    /\ Rejected(ProductForm, ProductBody) = {<<"name", "blank">>}
    /\ Rejected(UserForm, UserBody)
           = ({"username", "password", "fullName"} \X {"long"})
                 \cup ({"email"} \X (Typed \ {"email"}))
    /\ Rejected(PriceFormLevel, PricingLevel)
           = ({"salePrice"} \X {"fine", "negative"})
                 \cup ({"marginPct"} \X {"id", "negative"})

\* An optional date a document has is kept when its editor is saved empty: the
\* form leaves the field out, and the update changes what it is sent.
ASSUME DatesAreNotCleared ==
    /\ \A c \in {"null", "empty"} :
          c \in Patch(QuotationBody, "quoteDate").validUntil
              /\ c \in Patch(PurchaseOrderBody, "orderDate").expectedDate
    /\ QuotationForm.validUntil \cup PurchaseOrderForm.expectedDate = {"date", "absent"}

\* A price keeps its decimals through the price form up to two of them: three
\* or four after a point are read as thousands (money.ts:87).
ASSUME CentsAreRead ==
    \A d \in 1..4 : (DecimalsOf(<<".">>, <<d>>) = d) <=> d <= 2

ASSUME CommaDecides ==
    \A d, e \in 0..4 :
        /\ DecimalsOf(<<".", ",">>, <<d, e>>) = e
        /\ DecimalsOf(<<",", ".">>, <<d, e>>) = NotANumber
        /\ DecimalsOf(<<",", ",">>, <<d, e>>) = NotANumber
        /\ DecimalsOf(<<".", ".">>, <<d, e>>) \in {0, e}
=============================================================================
