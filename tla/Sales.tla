--------------------------------- MODULE Sales ---------------------------------
(***************************************************************************)
(* Sales and customer credit, as concurrent requests draft, edit, cancel,  *)
(* confirm and return sales and post to customer accounts.  A request is   *)
(* one PostgreSQL transaction at READ COMMITTED: it locks the sale, works  *)
(* on it in several statements, and commits all of it or nothing.          *)
(*                                                                         *)
(* The stock a sale moves is StockLedger's: here a confirmation that finds *)
(* too little is one of the reasons of a Rollback.  A unit costs 1, so that *)
(* quantities are amounts and line_total / quantity is exact.              *)
(***************************************************************************)
EXTENDS Integers, FiniteSets, FiniteSetsExt

CONSTANTS
    Req, NoReq,         \* concurrent requests, and nobody
    Sale, NoSale,       \* sales that may be created
    Line,               \* lines of a sale
    Part, External,     \* stocked parts, and what is bought in for one sale
    Customer, NoCustomer,
    Limit,              \* [Customer -> Nat], credit_limit
    Drafts,             \* what a sale may be created or edited with
    Amounts,            \* what may be paid or adjusted
    AdjustAlone,        \* is no other debit of the customer under way?
    MaxUnits,           \* model bound: units of one line
    InvoiceBound,       \* model bound: invoice numbers drawn
    CreditBound         \* model bound: how far a payment overpays

ASSUME NobodyAssumption ==
    /\ NoReq \notin Req /\ NoSale \notin Sale
    /\ External \notin Part /\ NoCustomer \notin Customer
ASSUME DraftAssumption ==
    \A d \in Drafts :
        /\ d.customer \in Customer \cup {NoCustomer}
        /\ d.credit \in BOOLEAN /\ d.paid \in Nat
        /\ \E L \in SUBSET Line : d.items \in [L -> [part : Part \cup {External},
                                                     qty  : 1 .. MaxUnits]]
\* A sale has finitely many lines: their units are summed.
ASSUME LineAssumption == IsFiniteSet(Line)
ASSUME AmountAssumption ==
    /\ Limit \in [Customer -> Nat] /\ Amounts \subseteq Nat \ {0}
    /\ AdjustAlone \in BOOLEAN
    /\ MaxUnits \in Nat /\ InvoiceBound \in Nat /\ CreditBound \in Nat

VARIABLES
    status,    \* committed status; NONE before the sale is created
    sale,      \* committed header and lines of the sale
    invoice,   \* committed invoice number; 0 when there is none
    back,      \* units of each line that came back: its RETURN movements,
               \* or its external_returned_quantity
    accepted,  \* supplier_returned_quantity of each line
    payable,   \* units of each line the supplier ledger entries stand for
    owed,      \* what the customer's ledger entries of the sale sum to
    balance,   \* what all of the customer's ledger entries sum to
    sequence,  \* last value of invoice_number_seq; no transaction undoes it
    saleLock,  \* the transaction that holds the sale
    custLock,  \* the transaction that holds the customer
    pc, op,    \* where each request is, and in which operation
    doc,       \* the sale it works on
    todo,      \* the lines it still has to process
    sum,       \* the units of those it has processed
    number,    \* the invoice number it drew
    debit,     \* the charge it is going to post
    giving     \* the units of each line it is going to take back

sales    == <<status, sale, invoice, back, accepted, payable>>
accounts == <<owed, balance>>
locks    == <<saleLock, custLock>>
session  == <<pc, op, doc, todo, sum, number, debit, giving>>
vars     == <<sales, accounts, sequence, locks, session>>

Status == {"NONE", "DRAFT", "CONFIRMED", "RETURNED", "CANCELLED"}
Ops    == {"confirm", "return", "edit", "cancel", "accept", "adjust"}
Steps  == {"idle", "locked", "lines", "customer", "limit", "commit"}

NoDebit == [customer |-> NoCustomer, amount |-> 0]
NoLines == [l \in Line |-> 0]
Blank   == [customer |-> NoCustomer, credit |-> FALSE, paid |-> 0, items |-> <<>>]

\* What a sale holds after it was created or edited with a draft.
Header(d, c) == [customer |-> c, credit |-> d.credit, paid |-> d.paid, items |-> d.items]

Headers == {Blank} \cup
           {Header(d, c) : d \in Drafts, c \in Customer \cup {NoCustomer}}

TypeOK ==
    /\ status \in [Sale -> Status]
    /\ sale \in [Sale -> Headers]
    /\ invoice \in [Sale -> Nat]
    /\ back \in [Sale -> [Line -> Nat]]
    /\ accepted \in [Sale -> [Line -> Nat]]
    /\ payable \in [Sale -> [Line -> Int]]
    /\ owed \in [Sale -> Int]
    /\ balance \in [Customer -> Int]
    /\ sequence \in Nat
    /\ saleLock \in [Sale -> Req \cup {NoReq}]
    /\ custLock \in [Customer -> Req \cup {NoReq}]
    /\ pc \in [Req -> Steps]
    /\ op \in [Req -> Ops]
    /\ doc \in [Req -> Sale \cup {NoSale}]
    /\ todo \in [Req -> SUBSET Line]
    /\ sum \in [Req -> Nat]
    /\ number \in [Req -> Nat]
    /\ debit \in [Req -> [customer : Customer \cup {NoCustomer}, amount : Nat]]
    /\ giving \in [Req -> [Line -> Nat]]
    /\ \A r \in Req : pc[r] # "idle" /\ op[r] # "adjust" => doc[r] \in Sale

Init ==
    /\ status   = [s \in Sale |-> "NONE"]
    /\ sale     = [s \in Sale |-> Blank]
    /\ invoice  = [s \in Sale |-> 0]
    /\ back     = [s \in Sale |-> NoLines]
    /\ accepted = [s \in Sale |-> NoLines]
    /\ payable  = [s \in Sale |-> NoLines]
    /\ owed     = [s \in Sale |-> 0]
    /\ balance  = [c \in Customer |-> 0]
    /\ sequence = 0
    /\ saleLock = [s \in Sale |-> NoReq]
    /\ custLock = [c \in Customer |-> NoReq]
    /\ pc     = [r \in Req |-> "idle"]
    /\ op     = [r \in Req |-> "confirm"]
    /\ doc    = [r \in Req |-> NoSale]
    /\ todo   = [r \in Req |-> {}]
    /\ sum    = [r \in Req |-> 0]
    /\ number = [r \in Req |-> 0]
    /\ debit  = [r \in Req |-> NoDebit]
    /\ giving = [r \in Req |-> NoLines]

-----------------------------------------------------------------------------
(* What a sale holds.                                                      *)

Lines(s)       == DOMAIN sale[s].items
PartOf(s, l)   == sale[s].items[l].part
Qty(s, l)      == sale[s].items[l].qty
LinesOf(s, p)  == {l \in Lines(s) : PartOf(s, l) = p}
Units(s, L)    == MapThenSumSet(LAMBDA l : Qty(s, l), L)
Total(s)       == Units(s, Lines(s))

\* Only a credit sale to a known customer is posted to an account.
Account(s) == IF sale[s].credit THEN sale[s].customer ELSE NoCustomer

\* What is left to pay of a total, less what was paid at checkout.
Unpaid(s, total) ==
    IF Account(s) = NoCustomer \/ sale[s].paid >= total THEN 0
    ELSE total - sale[s].paid

Returned(s) == MapThenSumSet(LAMBDA l : back[s][l], Line)

\* The stock ledger knows parts, not lines: lines of a part share its returns.
Already(s, l) ==
    IF PartOf(s, l) = External THEN back[s][l]
    ELSE MapThenSumSet(LAMBDA k : back[s][k], LinesOf(s, PartOf(s, l)))

Left(s, l) == Qty(s, l) - Already(s, l)

At(r, o, step) == op[r] = o /\ pc[r] = step

Goto(r, step) == pc' = [pc EXCEPT ![r] = step]

Post(c, n) == balance' = IF c = NoCustomer THEN balance
                         ELSE [balance EXCEPT ![c] = @ + n]

-----------------------------------------------------------------------------
(* Requests start, and end by a commit or a rollback.                      *)

\* Mutant: a draft is still edited after it was confirmed.
EditedLate(o, s) ==
    \/ o = "confirm" /\ status[s] = "DRAFT" /\ Lines(s) # {}
    \/ o = "edit"    /\ status[s] \in {"DRAFT", "CONFIRMED"}
    \/ o = "cancel"  /\ status[s] = "DRAFT"
    \/ o = "return"  /\ status[s] = "CONFIRMED"
    \/ o = "accept"  /\ status[s] # "NONE"

\* The state an operation requires of the sale.
Allowed(o, s) ==
    \/ o = "confirm" /\ status[s] = "DRAFT" /\ Lines(s) # {}
    \/ o = "edit"    /\ status[s] = "DRAFT"
    \/ o = "cancel"  /\ status[s] = "DRAFT"
    \/ o = "return"  /\ status[s] = "CONFIRMED"
    \/ o = "accept"  /\ status[s] # "NONE"

\* A sale is inserted in one transaction that nobody else can see.
CreateSale(r, s, d) ==
    /\ pc[r] = "idle"
    /\ status[s] = "NONE"
    /\ status' = [status EXCEPT ![s] = "DRAFT"]
    /\ sale'   = [sale   EXCEPT ![s] = Header(d, d.customer)]
    /\ UNCHANGED <<invoice, back, accepted, payable>>
    /\ UNCHANGED <<accounts, sequence, locks, session>>

\* SELECT the sale FOR UPDATE, then check its status; a sale whose status
\* does not allow the operation is refused and nothing is left behind.
LockSale(r, o, s) ==
    /\ pc[r] = "idle"
    /\ saleLock[s] = NoReq
    /\ Allowed(o, s)
    /\ saleLock' = [saleLock EXCEPT ![s] = r]
    /\ op'  = [op  EXCEPT ![r] = o]
    /\ doc' = [doc EXCEPT ![r] = s]
    /\ todo' = [todo EXCEPT ![r] = IF o = "confirm" THEN Lines(s) ELSE {}]
    /\ Goto(r, "locked")
    /\ UNCHANGED <<sales, accounts, sequence, custLock, sum, number, debit, giving>>

EndTransaction(r) ==
    /\ saleLock' = [s \in Sale |-> IF saleLock[s] = r THEN NoReq ELSE saleLock[s]]
    /\ custLock' = [c \in Customer |-> IF custLock[c] = r THEN NoReq ELSE custLock[c]]
    /\ op'     = [op     EXCEPT ![r] = "confirm"]
    /\ doc'    = [doc    EXCEPT ![r] = NoSale]
    /\ todo'   = [todo   EXCEPT ![r] = {}]
    /\ sum'    = [sum    EXCEPT ![r] = 0]
    /\ number' = [number EXCEPT ![r] = 0]
    /\ debit'  = [debit  EXCEPT ![r] = NoDebit]
    /\ giving' = [giving EXCEPT ![r] = NoLines]
    /\ Goto(r, "idle")

\* Insufficient stock, the credit limit, an inactive supplier, a quantity that
\* cannot be returned, any other error, a lost connection, a crash.  The
\* numbers that were drawn from the sequence stay drawn.
Rollback(r) ==
    /\ pc[r] # "idle"
    /\ EndTransaction(r)
    /\ UNCHANGED <<sales, accounts, sequence>>

-----------------------------------------------------------------------------
(* confirm_sale                                                            *)

\* One line is priced, and takes its stock or is charged by the supplier.
SellLine(r, l) ==
    /\ At(r, "confirm", "locked")
    /\ l \in todo[r]
    /\ todo' = [todo EXCEPT ![r] = @ \ {l}]
    /\ sum'  = [sum  EXCEPT ![r] = @ + Qty(doc[r], l)]
    /\ UNCHANGED <<sales, accounts, sequence, locks, pc, op, doc, number, debit, giving>>

\* Mutant: the number is one more than the invoices there are.
CountInvoices(r) ==
    /\ At(r, "confirm", "locked") /\ todo[r] = {}
    /\ number' = [number EXCEPT ![r] =
                    Cardinality({s \in Sale : invoice[s] # 0}) + 1]
    /\ LET charge == Unpaid(doc[r], sum[r])
       IN  /\ debit' = [debit EXCEPT ![r] =
                          [customer |-> Account(doc[r]), amount |-> charge]]
           /\ Goto(r, IF charge > 0 THEN "customer" ELSE "commit")
    /\ UNCHANGED <<sales, accounts, sequence, locks, op, doc, todo, sum, giving>>

\* nextval, then the total.  A request that has nothing to charge does not
\* touch the customer.
DrawInvoice(r) ==
    /\ At(r, "confirm", "locked") /\ todo[r] = {}
    /\ sequence < InvoiceBound
    /\ sequence' = sequence + 1
    /\ number' = [number EXCEPT ![r] = sequence + 1]
    /\ LET charge == Unpaid(doc[r], sum[r])
       IN  /\ debit' = [debit EXCEPT ![r] =
                          [customer |-> Account(doc[r]), amount |-> charge]]
           /\ Goto(r, IF charge > 0 THEN "customer" ELSE "commit")
    /\ UNCHANGED <<sales, accounts, locks, op, doc, todo, sum, giving>>

\* An adjustment of the customer is under way.
Adjusting(c) ==
    \E r \in Req : At(r, "adjust", "commit") /\ debit[r].customer = c

\* Mutant: the customer is read with no lock.
ReadCustomer(r) ==
    /\ At(r, "confirm", "customer")
    /\ Goto(r, "limit")
    /\ UNCHANGED <<sales, accounts, sequence, locks, op, doc, todo, sum, number, debit, giving>>

LockCustomer(r) ==
    /\ At(r, "confirm", "customer")
    /\ custLock[debit[r].customer] = NoReq
    /\ AdjustAlone => ~Adjusting(debit[r].customer)
    /\ custLock' = [custLock EXCEPT ![debit[r].customer] = r]
    /\ Goto(r, "limit")
    /\ UNCHANGED <<sales, accounts, sequence, saleLock, op, doc, todo, sum, number, debit, giving>>

WithinLimit(d) == balance[d.customer] + d.amount <= Limit[d.customer]

\* The balance is summed by a statement of its own, after the lock.
CheckLimit(r) ==
    /\ At(r, "confirm", "limit")
    /\ WithinLimit(debit[r])
    /\ Goto(r, "commit")
    /\ UNCHANGED <<sales, accounts, sequence, locks, op, doc, todo, sum, number, debit, giving>>

CommitConfirm(r) ==
    /\ At(r, "confirm", "commit")
    /\ status'  = [status  EXCEPT ![doc[r]] = "CONFIRMED"]
    /\ invoice' = [invoice EXCEPT ![doc[r]] = number[r]]
    /\ payable' = [payable EXCEPT ![doc[r]] =
                     [l \in Line |-> IF l \in LinesOf(doc[r], External)
                                     THEN @[l] + Qty(doc[r], l) ELSE @[l]]]
    /\ owed'    = [owed    EXCEPT ![doc[r]] = @ + debit[r].amount]
    /\ Post(debit[r].customer, debit[r].amount)
    /\ EndTransaction(r)
    /\ UNCHANGED <<sale, back, accepted, sequence>>

-----------------------------------------------------------------------------
(* return_sale                                                             *)

\* Everything that is left, line by line, or the quantities that were asked
\* for; a line with nothing left, or too little, makes the request fail.
ReturnItems(s) ==
    {g \in [Line -> 0 .. MaxUnits] :
        \/ \A l \in Line : g[l] = IF l \in Lines(s) /\ Left(s, l) > 0
                                 THEN Left(s, l) ELSE 0
        \/ /\ g # NoLines
           /\ \A l \in Line : g[l] > 0 => l \in Lines(s) /\ g[l] <= Left(s, l)}

ResolveReturn(r) ==
    /\ At(r, "return", "locked")
    /\ \E g \in ReturnItems(doc[r]) :
         /\ giving' = [giving EXCEPT ![r] = g]
         /\ todo'   = [todo   EXCEPT ![r] = {l \in Line : g[l] > 0}]
    /\ Goto(r, "lines")
    /\ UNCHANGED <<sales, accounts, sequence, locks, op, doc, sum, number, debit>>

\* One line gets a new layer and its RETURN movement, or its external units.
TakeLine(r, l) ==
    /\ At(r, "return", "lines")
    /\ l \in todo[r]
    /\ todo' = [todo EXCEPT ![r] = @ \ {l}]
    /\ sum'  = [sum  EXCEPT ![r] = @ + giving[r][l]]
    /\ UNCHANGED <<sales, accounts, sequence, locks, pc, op, doc, number, debit, giving>>

\* Mutant: what completes a return refunds the whole sale once more.
CommitRefundAll(r) ==
    /\ At(r, "return", "lines") /\ todo[r] = {}
    /\ back' = [back EXCEPT ![doc[r]] = [l \in Line |-> @[l] + giving[r][l]]]
    /\ status' = [status EXCEPT ![doc[r]] =
                    IF Returned(doc[r]) + sum[r] >= Total(doc[r])
                    THEN "RETURNED" ELSE @]
    /\ LET refund == IF Account(doc[r]) = NoCustomer THEN 0
                     ELSE IF status'[doc[r]] = "RETURNED" THEN Total(doc[r])
                     ELSE sum[r]
       IN  /\ owed' = [owed EXCEPT ![doc[r]] = @ - refund]
           /\ Post(Account(doc[r]), -refund)
    /\ EndTransaction(r)
    /\ UNCHANGED <<sale, invoice, accepted, payable, sequence>>

\* The sale is RETURNED once nothing is missing; a credit sale is refunded.
CommitReturn(r) ==
    /\ At(r, "return", "lines") /\ todo[r] = {}
    /\ back' = [back EXCEPT ![doc[r]] = [l \in Line |-> @[l] + giving[r][l]]]
    /\ status' = [status EXCEPT ![doc[r]] =
                    IF Returned(doc[r]) + sum[r] >= Total(doc[r])
                    THEN "RETURNED" ELSE @]
    /\ LET refund == IF Account(doc[r]) = NoCustomer THEN 0 ELSE sum[r]
       IN  /\ owed' = [owed EXCEPT ![doc[r]] = @ - refund]
           /\ Post(Account(doc[r]), -refund)
    /\ EndTransaction(r)
    /\ UNCHANGED <<sale, invoice, accepted, payable, sequence>>

-----------------------------------------------------------------------------
(* The other operations on a sale                                          *)

\* The draft gets the new header and lines; it keeps its customer when the
\* request names none.
UpdateSale(r) ==
    /\ At(r, "edit", "locked")
    /\ \E d \in Drafts :
         sale' = [sale EXCEPT ![doc[r]] =
                    Header(d, IF d.customer = NoCustomer THEN @.customer
                                                         ELSE d.customer)]
    /\ EndTransaction(r)
    /\ UNCHANGED <<status, invoice, back, accepted, payable, accounts, sequence>>

CancelSale(r) ==
    /\ At(r, "cancel", "locked")
    /\ status' = [status EXCEPT ![doc[r]] = "CANCELLED"]
    /\ EndTransaction(r)
    /\ UNCHANGED <<sale, invoice, back, accepted, payable, accounts, sequence>>

\* The supplier takes back units that the customer returned.
AcceptSupplierReturn(r) ==
    /\ At(r, "accept", "locked")
    /\ \E l \in LinesOf(doc[r], External) :
         \E n \in 1 .. back[doc[r]][l] - accepted[doc[r]][l] :
           /\ accepted' = [accepted EXCEPT ![doc[r]][l] = @ + n]
           /\ payable'  = [payable  EXCEPT ![doc[r]][l] = @ - n]
    /\ EndTransaction(r)
    /\ UNCHANGED <<status, sale, invoice, back, accounts, sequence>>

-----------------------------------------------------------------------------
(* Postings to an account: neither of them locks the customer.             *)

\* A payment, or an adjustment in the customer's favour.
RecordCredit(r, c, n) ==
    /\ pc[r] = "idle"
    /\ balance[c] - n >= -CreditBound
    /\ Post(c, -n)
    /\ UNCHANGED <<sales, owed, sequence, locks, session>>

\* A manual adjustment in the other direction: the balance is summed and
\* compared with the limit, the entry is committed later.
CheckAdjustment(r, c, n) ==
    /\ pc[r] = "idle"
    /\ AdjustAlone => custLock[c] = NoReq /\ ~Adjusting(c)
    /\ WithinLimit([customer |-> c, amount |-> n])
    /\ debit' = [debit EXCEPT ![r] = [customer |-> c, amount |-> n]]
    /\ op' = [op EXCEPT ![r] = "adjust"]
    /\ Goto(r, "commit")
    /\ UNCHANGED <<sales, accounts, sequence, locks, doc, todo, sum, number, giving>>

CommitAdjustment(r) ==
    /\ At(r, "adjust", "commit")
    /\ Post(debit[r].customer, debit[r].amount)
    /\ EndTransaction(r)
    /\ UNCHANGED <<sales, owed, sequence>>

Step(r) ==
    \/ DrawInvoice(r)
    \/ LockCustomer(r)
    \/ CheckLimit(r)
    \/ CommitConfirm(r)
    \/ ResolveReturn(r)
    \/ \E l \in Line : SellLine(r, l) \/ TakeLine(r, l)
    \/ CommitReturn(r)
    \/ UpdateSale(r)
    \/ CancelSale(r)
    \/ AcceptSupplierReturn(r)
    \/ CommitAdjustment(r)
    \/ Rollback(r)

Next ==
    \E r \in Req :
        \/ \E s \in Sale, d \in Drafts : CreateSale(r, s, d)
        \/ \E s \in Sale, o \in Ops : LockSale(r, o, s)
        \/ \E c \in Customer, n \in Amounts :
             RecordCredit(r, c, n) \/ CheckAdjustment(r, c, n)
        \/ Step(r)

Spec == Init /\ [][Next]_vars

-----------------------------------------------------------------------------
(* Properties                                                              *)

\* An invoice number names one sale, whatever requests draw, fail and retry;
\* a sale that was confirmed has one (utils/invoice_number.py).
InvoicesUnique ==
    /\ \A s, t \in Sale : s # t /\ invoice[s] = invoice[t] => invoice[s] = 0
    /\ \A s \in Sale : invoice[s] # 0 <=> status[s] \in {"CONFIRMED", "RETURNED"}

\* No interleaving of confirmations, returns, payments and adjustments lifts a
\* customer's balance above the credit limit.
CreditWithinLimit == \A c \in Customer : balance[c] <= Limit[c]

\* The ledgers of customer and supplier hold of every sale what its status
\* stands for: its charge once, less a refund for each unit that came back;
\* its external units once, less those the supplier accepted.  Concurrent and
\* repeated returns never take back more than was sold, nor the supplier more
\* than came back.
SaleSettled ==
    \A s \in Sale :
        LET sold   == status[s] \in {"CONFIRMED", "RETURNED"}
            refund == IF Account(s) = NoCustomer THEN 0 ELSE Returned(s)
        IN  /\ owed[s] = IF sold THEN Unpaid(s, Total(s)) - refund ELSE 0
            /\ \A l \in LinesOf(s, External) :
                 payable[s][l] = IF sold THEN Qty(s, l) - accepted[s][l] ELSE 0
            /\ status[s] = "RETURNED" <=> sold /\ Returned(s) = Total(s)
            /\ Returned(s) <= Total(s)
            /\ \A l \in Line : accepted[s][l] <= back[s][l]

\* "If not provided, all items are returned in full": whatever has not come
\* back of a confirmed sale can still be returned.
RemainderIsReturnable ==
    \A s \in Sale : status[s] = "CONFIRMED" => \E l \in Lines(s) : Left(s, l) > 0

-----------------------------------------------------------------------------
(* Why they hold.                                                          *)

\* Numbers are drawn once, also those of requests that are still running.
NumbersDrawn ==
    /\ \A s \in Sale : invoice[s] <= sequence
    /\ \A r \in Req : number[r] <= sequence
    /\ \A r \in Req : At(r, "confirm", "customer") \/ At(r, "confirm", "limit")
                        \/ At(r, "confirm", "commit") => number[r] # 0
    /\ \A r, q \in Req : r # q /\ number[r] = number[q] => number[r] = 0
    /\ \A r \in Req, s \in Sale : number[r] = invoice[s] => number[r] = 0

\* Who works on a sale holds it, and its status is the one that was checked.
HoldsSale(r) ==
    pc[r] # "idle" /\ op[r] # "adjust" =>
        /\ saleLock[doc[r]] = r
        /\ Allowed(op[r], doc[r])
        /\ todo[r] \subseteq Lines(doc[r])

SaleInvariant ==
    /\ TypeOK
    /\ \A r \in Req : HoldsSale(r)

\* The inductive form of InvoicesUnique.
InvoiceInvariant ==
    /\ SaleInvariant
    /\ InvoicesUnique
    /\ NumbersDrawn

\* A debit that was checked, or is about to be, has its customer to itself.
HoldsCustomer(r) ==
    /\ pc[r] \in {"customer", "limit"} => debit[r].customer \in Customer
    /\ At(r, "confirm", "limit") => custLock[debit[r].customer] = r
    /\ At(r, "confirm", "commit") /\ debit[r].amount > 0 =>
         /\ debit[r].customer \in Customer
         /\ custLock[debit[r].customer] = r
         /\ WithinLimit(debit[r])
    /\ At(r, "adjust", "commit") =>
         /\ debit[r].customer \in Customer
         /\ custLock[debit[r].customer] = NoReq
         /\ WithinLimit(debit[r])
         /\ \A q \in Req : At(q, "adjust", "commit")
                             /\ debit[q].customer = debit[r].customer => q = r

\* The inductive form of CreditWithinLimit, while AdjustAlone.
CreditInvariant ==
    /\ SaleInvariant
    /\ CreditWithinLimit
    /\ \A r \in Req : HoldsCustomer(r)

Books == INSTANCE SaleAccount WITH
    account  <- [s \in Sale |-> Account(s)],
    units    <- [s \in Sale |-> Total(s)],
    returned <- [s \in Sale |-> Returned(s)]

\* Each operation on a sale or an account is one atomic step, although it
\* locks, reads, checks and writes in separate statements.
RequestsAreSerial == Books!Spec

=============================================================================
