--------------------------------- MODULE Office ---------------------------------
(***************************************************************************)
(* The modules around the stock side by side: purchasing, supplier         *)
(* accounts, audits, the catalogue, its prices, the documents of a sale,   *)
(* the reports and the notifications.                                      *)
(*                                                                         *)
(* They share no state: a receipt reaches the supplier's ledger as         *)
(* PostReceipt, the audited stock as a movement and the part's prices as   *)
(* BeginReceipt, which any number of orders may cause.  Init chooses which *)
(* of them a behaviour is about, and the others rest: what holds of each   *)
(* of them holds here of all.                                              *)
(***************************************************************************)
EXTENDS Integers, FiniteSets

CONSTANTS
    Req, NoReq,                     \* concurrent requests, and nobody
    Order, NoOrder, Ordered,
    Line,                           \* of an order, or of a sale
    Supplier, NoSupplier, Reference, NoReference, Amounts, LedgerBound,
    Ages, Terms, NoDate,
    Session, NoSession, NoItem, MaxUnits,
    AuditedPart, NoPart,            \* the Part of AuditSessions
    Part, Number, NoNumber, Barcode, NoBarcode, Category,
    Cost, Price,
    External, Quantity, Value, Format, NoFormat,
    Reader, Sale, MaxSold, SalePrice, SaleCost,     \* MaxUnits, Price and Cost of Reports
    DayLength, LastDay,
    Event, NoAlert, Role

\* Nothing is not among the values it stands beside.
ASSUME NoneAssumption ==
    /\ NoFormat \notin Format
    /\ NoBarcode \notin Barcode
    /\ NoSession \notin Session
    /\ NoPart \notin AuditedPart
    /\ External \notin Part
    /\ NoItem \notin Nat
    /\ NoReq \notin Req /\ NoSupplier \notin Supplier /\ NoReference \notin Reference

\* Each line of an order has a quantity.
ASSUME OrderAssumption == Ordered \in [Order -> [Line -> Nat]] /\ NoOrder \notin Order

\* An order or a sale has finitely many lines: their units and their values
\* are summed.
ASSUME LineAssumption == IsFiniteSet(Line)

\* A line of a sale is not sold at less than nothing.
ASSUME ValueAssumption == Value \in [Line -> Nat]

\* Each line of a sale has a quantity.
ASSUME QuantityAssumption == Quantity \in [Line -> Nat]

\* So do the sales of the reports: what they sell has a price and a cost.
ASSUME ShopAssumption == MaxSold \in Nat /\ SalePrice \in Nat /\ SaleCost \in Nat

\* What is bought, paid or returned has an amount that is not negative.
ASSUME AmountAssumption == Amounts \subseteq Nat

\* An entry was not created after the report, nor due before it was created.
ASSUME TermsAssumption == Ages \subseteq Nat /\ Terms \subseteq Nat

\* Time is counted in instants, and there is a day to count them in.
ASSUME DayAssumption == DayLength \in Nat \ {0} /\ LastDay \in Nat

\* No row is not a row of the notifications table.
ASSUME RowAssumption == NoAlert \notin [read : BOOLEAN, dated : BOOLEAN]

VARIABLES focus,
          status, received, receipts, charged, notices,
          pc, op, doc, view, gained, raced,
          ledger, deleted, supplierLock, payPc, payDoc, asked,
          stocked, stock, shelf, auditStatus, snapshot, counts, adjusted, flagged,
          hidden, omitted, auditRaced, auditPc, auditDoc, part, auditView, newer,
          row, active, partPc, partDoc, change,
          prices, pricePc, priceOp, priceView, new, judged,
          basket, paperStatus, external, moved, rows, paperPc, format, overwrite,
          paperView, note, refunded, least, most, paperRaced,
          now, saleStatus, created, units, credit, back,
          reportPc, kind, period, read, reportRaced, books,
          alerts, tab, shown, fetch, mark, markAll, overlapped, lost

purchasing == <<status, received, receipts, charged, notices,
                pc, op, doc, view, gained, raced>>
accounts   == <<ledger, deleted, supplierLock, payPc, payDoc, asked>>
audits     == <<stocked, stock, shelf, auditStatus, snapshot, counts, adjusted, flagged,
                hidden, omitted, auditRaced, auditPc, auditDoc, part, auditView, newer>>
catalogue  == <<row, active, partPc, partDoc, change>>
pricing    == <<prices, pricePc, priceOp, priceView, new, judged>>
papers     == <<basket, paperStatus, external, moved, rows, paperPc, format, overwrite,
                paperView, note, refunded, least, most, paperRaced>>
figures    == <<now, saleStatus, created, units, credit, back,
                reportPc, kind, period, read, reportRaced, books>>
noticing   == <<alerts, tab, shown, fetch, mark, markAll, overlapped, lost>>
vars       == <<focus, purchasing, accounts, audits, catalogue, pricing, papers, figures,
                noticing>>

Purchases == INSTANCE Purchasing
Promise   == INSTANCE PurchaseOrder
                 WITH status   <- [o \in Order |-> IF o \in raced THEN "RACED" ELSE status[o]],
                      received <- [o \in Order |-> IF o \in raced THEN [l \in Line |-> 0] ELSE received[o]],
                      owed     <- [o \in Order |-> IF o \in raced THEN 0 ELSE charged[o]]
Payments  == INSTANCE SupplierAccounts WITH pc <- payPc, doc <- payDoc
Audits    == INSTANCE AuditSessions
                 WITH status <- auditStatus, raced <- auditRaced, pc <- auditPc,
                      doc <- auditDoc, view <- auditView, Part <- AuditedPart
Labels    == INSTANCE PartNumbers WITH pc <- partPc, doc <- partDoc
Pricing   == INSTANCE PartPrices WITH pc <- pricePc, op <- priceOp, view <- priceView
Papers    == INSTANCE Invoices
                 WITH part <- basket, status <- paperStatus, pc <- paperPc,
                      view <- paperView, raced <- paperRaced
Figures   == INSTANCE Reports
                 WITH status <- saleStatus, pc <- reportPc, raced <- reportRaced,
                      MaxUnits <- MaxSold, Price <- SalePrice, Cost <- SaleCost
Bell      == INSTANCE Notifications WITH rows <- alerts, NoRow <- NoAlert

\* Where the modules start from one of several states, one is taken of those
\* that rest.
Init ==
    /\ focus \in {"purchasing", "accounts", "audits", "catalogue", "pricing", "papers",
                  "figures", "noticing"}
    /\ Purchases!Init
    /\ Payments!Init
    /\ Audits!Init
    /\ focus # "audits" => stocked = {} /\ \A p \in AuditedPart : shelf[p] = 0
    /\ Labels!Init
    /\ focus # "catalogue" => active = {}
    /\ Pricing!Init
    /\ focus # "pricing" =>
          prices = CHOOSE p \in Pricing!Rows : p.price >= p.cost /\ ~p.review
    /\ Papers!Init
    /\ focus # "papers" => \A l \in Line : basket[l] = External
    /\ Figures!Init
    /\ Bell!Init

Next ==
    \/ /\ focus = "purchasing" /\ Purchases!Next
       /\ UNCHANGED <<focus, accounts, audits, catalogue, pricing, papers, figures, noticing>>
    \/ /\ focus = "accounts" /\ Payments!Next
       /\ UNCHANGED <<focus, purchasing, audits, catalogue, pricing, papers, figures, noticing>>
    \/ /\ focus = "audits" /\ Audits!Next
       /\ UNCHANGED <<focus, purchasing, accounts, catalogue, pricing, papers, figures, noticing>>
    \/ /\ focus = "catalogue" /\ Labels!Next
       /\ UNCHANGED <<focus, purchasing, accounts, audits, pricing, papers, figures, noticing>>
    \/ /\ focus = "pricing" /\ Pricing!Next
       /\ UNCHANGED <<focus, purchasing, accounts, audits, catalogue, papers, figures, noticing>>
    \/ /\ focus = "figures" /\ Figures!Next
       /\ UNCHANGED <<focus, purchasing, accounts, audits, catalogue, pricing, papers, noticing>>
    \/ /\ focus = "papers" /\ Papers!Next
       /\ UNCHANGED <<focus, purchasing, accounts, audits, catalogue, pricing, figures, noticing>>
    \/ /\ focus = "noticing" /\ Bell!Next
       /\ UNCHANGED <<focus, purchasing, accounts, audits, catalogue, pricing, papers, figures>>

Spec == Init /\ [][Next]_vars

-----------------------------------------------------------------------------
(* The properties, with the comments of their modules.                     *)

\* The types of the modules' variables, those of the module in focus: the
\* others rest in a state their Init allows.
TypeOK ==
    /\ focus = "purchasing" => Purchases!TypeOK
    /\ focus = "accounts" => Payments!TypeOK
    /\ focus = "audits" => Audits!TypeOK
    /\ focus = "catalogue" => Labels!TypeOK
    /\ focus = "pricing" => Pricing!TypeOK
    /\ focus = "papers" => Papers!TypeOK
    /\ focus = "figures" => Figures!TypeOK
    /\ focus = "noticing" => Bell!TypeOK

\* A line never claims more than was ordered or than its notes say, and the
\* supplier is owed what the notes say (Purchasing).
NeverOverstated == focus = "purchasing" => Purchases!NeverOverstated

\* Lines, notes and status agree on orders that no two requests raced on
\* (Purchasing).
ReceiptsTallied == focus = "purchasing" => Purchases!ReceiptsTallied

\* Orders that no two requests raced on change as PurchaseOrder says, in single
\* steps: no line is received before the approval, after the cancellation or in
\* excess, and each receipt is charged as it comes in (Purchasing).
OrdersKeepPromise == Promise!Spec

\* A repeated payment is posted once (SupplierAccounts).
PaidOnce == focus = "accounts" => Payments!PaidOnce

\* Only an accepted return can overpay a supplier (SupplierAccounts).
OverpaidOnlyByReturns == focus = "accounts" => Payments!OverpaidOnlyByReturns

\* Aging, schedule and balance of one ledger agree (SupplierAccounts).
AgingAddsUp == focus = "accounts" => Payments!AgingAddsUp

\* A variance is added to the stock once (AuditSessions).
AdjustedOnce == focus = "audits" => Audits!AdjustedOnce

\* An approved audit leaves the books of what it counted equal to the shelf
\* (AuditSessions).
AuditAligns == Audits!AuditAligns

\* Two parts in use have no number and no barcode in common (PartNumbers).
IdentifiersUnique == focus = "catalogue" => Labels!IdentifiersUnique

\* A deleted part stays deleted (PartNumbers).
DeletedForGood == Labels!DeletedForGood

\* The review flag says whether the margin is thin (PartPrices).
ReviewFlagTells == focus = "pricing" => Pricing!ReviewFlagTells

\* A format of a sale has one stored invoice (Invoices).
OneInvoice == focus = "papers" => Papers!OneInvoice

\* A credit note is for what the returns gave back (Invoices).
NoteMatchesRefunds == focus = "papers" => Papers!NoteMatchesRefunds

\* The sales report, the financial summary and the dashboard agree with each
\* other and with the books (Reports).
FiguresAgree == focus = "figures" => Figures!FiguresAgree

\* The notifications page shows what the table holds (Notifications).
PageTells == focus = "noticing" => Bell!PageTells

=============================================================================
