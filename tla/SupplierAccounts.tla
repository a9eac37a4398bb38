---------------------------- MODULE SupplierAccounts ----------------------------
(***************************************************************************)
(* The ledger of each supplier, while receipts, external sales and         *)
(* accepted returns post to it with no lock, and payments, which lock the  *)
(* supplier's row, are checked against the balance.  A payment may be sent *)
(* again with its reference when its answer was lost.  A request runs at   *)
(* READ COMMITTED, one action per statement.                               *)
(***************************************************************************)
EXTENDS Integers, Sequences, FiniteSets, SequencesExt

CONSTANTS
    Req, NoReq,    \* concurrent requests, and nobody
    Supplier,
    NoSupplier,    \* what an idle request works on
    Reference,     \* payment references that clients choose
    NoReference,   \* of an entry that is no payment with a reference
    Amounts,       \* amounts of entries and of payments
    Ages,          \* how old a debit may be at the reports, see Aging
    Terms,         \* the days a supplier may grant
    NoDate,        \* none it can grant: the terms are missing or not understood
    LedgerBound    \* entries in a supplier's ledger, at most

INSTANCE Aging

VARIABLES
    ledger,        \* committed entries of each supplier, oldest first
    deleted,       \* committed deleted_at of the supplier is set
    supplierLock,  \* the transaction that holds the supplier's row
    pc,            \* where each request is
    doc,           \* the supplier it is about
    asked          \* the payment it was asked for

tables == <<ledger, deleted>>
vars   == <<ledger, deleted, supplierLock, pc, doc, asked>>

\* EXTERNAL is a PURCHASE entry whose reference_type is external_sale.
Kinds   == {"PURCHASE", "EXTERNAL", "PAYMENT", "RETURN"}
Payment == [ref : Reference, amount : Amounts]
Entry   == [kind : Kinds, amount : Int, ref : Reference \cup {NoReference},
            age : Nat, terms : Terms \cup {NoDate}]

NoPayment == [ref |-> NoReference, amount |-> 0]

TypeOK ==
    /\ ledger \in [Supplier -> Seq(Entry)]
    /\ deleted \in [Supplier -> BOOLEAN]
    /\ supplierLock \in [Supplier -> Req \cup {NoReq}]
    /\ pc \in [Req -> {"idle", "locked", "new", "pay"}]
    /\ doc \in [Req -> Supplier \cup {NoSupplier}]
    /\ asked \in [Req -> Payment \cup {NoPayment}]

Init ==
    /\ ledger = [s \in Supplier |-> <<>>]
    /\ deleted = [s \in Supplier |-> FALSE]
    /\ supplierLock = [s \in Supplier |-> NoReq]
    /\ pc = [r \in Req |-> "idle"]
    /\ doc = [r \in Req |-> NoSupplier]
    /\ asked = [r \in Req |-> NoPayment]

Goto(r, l) == pc' = [pc EXCEPT ![r] = l]

Debit(k, a, g, d) == [kind |-> k, amount |-> a, ref |-> NoReference, age |-> g, terms |-> d]

\* No report looks at the dates of a credit.
Credit(k, a, x) == [kind |-> k, amount |-> -a, ref |-> x, age |-> 0, terms |-> NoDate]
PaymentEntry(a, x) == Credit("PAYMENT", a, x)
ReturnEntry(a)     == Credit("RETURN", a, NoReference)

\* The sum of a supplier's entries of one kind, and its payments with one
\* reference.
Total(s, kind) ==
    FoldLeft(LAMBDA sum, e : IF e.kind = kind THEN sum + e.amount ELSE sum, 0, ledger[s])
PaymentsOf(s, x) ==
    {i \in DOMAIN ledger[s] : ledger[s][i].kind = "PAYMENT" /\ ledger[s][i].ref = x}

Post(s, entries) ==
    /\ Len(ledger[s]) + Len(entries) <= LedgerBound
    /\ ledger' = [ledger EXCEPT ![s] = @ \o entries]

\* A debit of the age g comes after all the ledger has.
ComesLast(s, g) == \A i \in DOMAIN ledger[s] : IsDebit(ledger[s][i]) => g <= ledger[s][i].age

-----------------------------------------------------------------------------
(* Entries posted by other operations, each in a transaction of its own.   *)
(* None looks at the supplier's lock; receive_goods does not look at       *)
(* deleted_at either.  The age g of a debit is its age at the reports: no  *)
(* operation looks at it.                                                  *)

PostReceipt(s, a, g, d) ==
    /\ ComesLast(s, g)
    /\ Post(s, <<Debit("PURCHASE", a, g, d)>>)
    /\ UNCHANGED <<deleted, supplierLock, pc, doc, asked>>

\* A sale with an external item is confirmed: what it cost, and what of that
\* was paid at once.
PostExternalSale(s, a, g, d, paid) ==
    /\ ~deleted[s]
    /\ paid \in 0..a
    /\ ComesLast(s, g)
    /\ Post(s, IF paid = 0 THEN <<Debit("EXTERNAL", a, g, d)>>
               ELSE <<Debit("EXTERNAL", a, g, d), PaymentEntry(paid, NoReference)>>)
    /\ UNCHANGED <<deleted, supplierLock, pc, doc, asked>>

\* The supplier accepts units that customers returned, at most what was bought
\* from it for their sales.
AcceptReturn(s, a) ==
    /\ a <= Total(s, "EXTERNAL") + Total(s, "RETURN")
    /\ Post(s, <<ReturnEntry(a)>>)
    /\ UNCHANGED <<deleted, supplierLock, pc, doc, asked>>

\* A soft delete, whatever the balance is.
DeleteSupplier(s) ==
    /\ ~deleted[s]
    /\ supplierLock[s] = NoReq
    /\ deleted' = [deleted EXCEPT ![s] = TRUE]
    /\ UNCHANGED <<ledger, supplierLock, pc, doc, asked>>

-----------------------------------------------------------------------------
(* A payment.                                                              *)

\* Mutant: the supplier is read without FOR UPDATE.
ReadSupplier(r, s, p) ==
    /\ pc[r] = "idle"
    /\ ~deleted[s]
    /\ doc'   = [doc   EXCEPT ![r] = s]
    /\ asked' = [asked EXCEPT ![r] = p]
    /\ Goto(r, "locked")
    /\ UNCHANGED <<tables, supplierLock>>

LockSupplier(r, s, p) ==
    /\ pc[r] = "idle"
    /\ ~deleted[s]
    /\ supplierLock[s] = NoReq
    /\ supplierLock' = [supplierLock EXCEPT ![s] = r]
    /\ doc'   = [doc   EXCEPT ![r] = s]
    /\ asked' = [asked EXCEPT ![r] = p]
    /\ Goto(r, "locked")
    /\ UNCHANGED tables

EndTransaction(r) ==
    /\ supplierLock' = [s \in Supplier |-> IF supplierLock[s] = r THEN NoReq ELSE supplierLock[s]]
    /\ doc'   = [doc   EXCEPT ![r] = NoSupplier]
    /\ asked' = [asked EXCEPT ![r] = NoPayment]
    /\ Goto(r, "idle")

\* The reference was used before: the first payment is the answer, or the
\* request is refused because its details differ.
AnswerRepeated(r) ==
    /\ pc[r] = "locked"
    /\ PaymentsOf(doc[r], asked[r].ref) # {}
    /\ EndTransaction(r)
    /\ UNCHANGED tables

\* The reference is new.
FindNoPayment(r) ==
    /\ pc[r] = "locked"
    /\ PaymentsOf(doc[r], asked[r].ref) = {}
    /\ Goto(r, "new")
    /\ UNCHANGED <<tables, supplierLock, doc, asked>>

\* Mutant: the balance is compared before the payment is subtracted.
SumUnchecked(r) ==
    /\ pc[r] = "new"
    /\ Balance(ledger[doc[r]]) > 0
    /\ Goto(r, "pay")
    /\ UNCHANGED <<tables, supplierLock, doc, asked>>

\* The balance is summed and must cover the payment; else it is refused.
SumBalance(r) ==
    /\ pc[r] = "new"
    /\ asked[r].amount <= Balance(ledger[doc[r]])
    /\ Goto(r, "pay")
    /\ UNCHANGED <<tables, supplierLock, doc, asked>>

CommitPayment(r) ==
    /\ pc[r] = "pay"
    /\ Post(doc[r], <<PaymentEntry(asked[r].amount, asked[r].ref)>>)
    /\ EndTransaction(r)
    /\ UNCHANGED deleted

\* A refusal, an error, a crash.
Rollback(r) ==
    /\ pc[r] # "idle"
    /\ EndTransaction(r)
    /\ UNCHANGED tables

Next ==
    \/ \E s \in Supplier, a \in Amounts :
          \/ \E g \in Ages, d \in Terms \cup {NoDate} :
                \/ PostReceipt(s, a, g, d)
                \/ \E paid \in 0..a : PostExternalSale(s, a, g, d, paid)
          \/ AcceptReturn(s, a)
    \/ \E s \in Supplier : DeleteSupplier(s)
    \/ \E r \in Req :
          \/ \E s \in Supplier, p \in Payment : LockSupplier(r, s, p)
          \/ AnswerRepeated(r)
          \/ FindNoPayment(r)
          \/ SumBalance(r)
          \/ CommitPayment(r)
          \/ Rollback(r)

Spec == Init /\ [][Next]_vars

-----------------------------------------------------------------------------
(* Properties                                                              *)

\* A payment that is sent again with its reference is posted once, also while
\* the first attempt is still running.
PaidOnce ==
    \A s \in Supplier, x \in Reference : Cardinality(PaymentsOf(s, x)) <= 1

\* Payments never exceed what was bought, and the balance goes below zero by
\* no more than the returns: two payments never spend one balance, and a
\* return that is accepted between the check and the payment is the only way
\* to overpay a supplier.
OverpaidOnlyByReturns ==
    \A s \in Supplier :
        /\ Total(s, "PURCHASE") + Total(s, "EXTERNAL") + Total(s, "PAYMENT") >= 0
        /\ Balance(ledger[s]) >= Total(s, "RETURN")

\* The aging buckets add up to the balance of the same ledger, or to nothing
\* when the supplier was overpaid, and the payment schedule, computed by
\* other code, splits the same amounts, but for what has no due date, which it
\* leaves out and the aging report counts from created_at.  Of what has one, the
\* schedule calls overdue all that the report calls a day late.
AgingAddsUp ==
    \A s \in Supplier :
        LET es == ledger[s]
        IN  /\ AgingTotal(es) = IF Balance(es) > 0 THEN Balance(es) ELSE 0
            /\ ScheduledOverdue(es) + ScheduledUpcoming(es) + Undated(es) = AgingTotal(es)
            /\ AgedAtLeast(es, 1) - UndatedAged(es, 1) \in 0..ScheduledOverdue(es)

=============================================================================
