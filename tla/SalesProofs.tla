------------------------------ MODULE SalesProofs ------------------------------
(***************************************************************************)
(* Theorems about Sales, for every set of requests, sales and customers:   *)
(* types, invoice numbers, the credit limit, what the ledgers hold of a    *)
(* sale, and that requests behave as the steps of SaleAccount.             *)
(***************************************************************************)
EXTENDS Sales, SumTheorems, TLAPS

-----------------------------------------------------------------------------
(* Types                                                                   *)

\* Lines and quantities of a sale that has a header.
LEMMA HeaderTypes ==
    ASSUME TypeOK, NEW s \in Sale
    PROVE  /\ Lines(s) \subseteq Line
           /\ \A l \in Lines(s) : Qty(s, l) \in Nat
           /\ sale[s].customer \in Customer \cup {NoCustomer}
           /\ sale[s].paid \in Nat
           /\ Account(s) \in Customer \cup {NoCustomer}
<1>1. sale[s] \in Headers
  BY DEF TypeOK
<1>2. CASE sale[s] = Blank
  <2>1. DOMAIN sale[s].items = {}
    BY <1>2 DEF Blank
  <2>. QED
    BY <1>2, <2>1 DEF Blank, Lines, Qty, Account
<1>3. ASSUME NEW d \in Drafts, NEW c \in Customer \cup {NoCustomer}, sale[s] = Header(d, c)
      PROVE  /\ Lines(s) \subseteq Line
             /\ \A l \in Lines(s) : Qty(s, l) \in Nat
             /\ sale[s].customer \in Customer \cup {NoCustomer}
             /\ sale[s].paid \in Nat
             /\ Account(s) \in Customer \cup {NoCustomer}
  <2>1. PICK L \in SUBSET Line :
          d.items \in [L -> [part : Part \cup {External}, qty : 1 .. MaxUnits]]
    BY DraftAssumption
  <2>4. 1 .. MaxUnits \subseteq Nat
    BY AmountAssumption
  <2>2. sale[s].items = d.items /\ sale[s].customer = c /\ sale[s].paid = d.paid
    BY <1>3 DEF Header
  <2>3. d.paid \in Nat
    BY DraftAssumption
  <2>. QED
    BY <2>1, <2>2, <2>3, <2>4 DEF Lines, Qty, Account
<1>. QED
  BY <1>1, <1>2, <1>3 DEF Headers

\* Ending a transaction keeps the types of what it resets.
LEMMA EndKeepsTypes ==
    ASSUME TypeOK, NEW r \in Req, EndTransaction(r)
    PROVE  /\ saleLock' \in [Sale -> Req \cup {NoReq}]
           /\ custLock' \in [Customer -> Req \cup {NoReq}]
           /\ pc' \in [Req -> Steps]
           /\ op' \in [Req -> Ops]
           /\ doc' \in [Req -> Sale \cup {NoSale}]
           /\ todo' \in [Req -> SUBSET Line]
           /\ sum' \in [Req -> Nat]
           /\ number' \in [Req -> Nat]
           /\ debit' \in [Req -> [customer : Customer \cup {NoCustomer}, amount : Nat]]
           /\ giving' \in [Req -> [Line -> Nat]]
           /\ \A q \in Req : pc'[q] # "idle" /\ op'[q] # "adjust" => doc'[q] \in Sale
<1>1. "confirm" \in Ops /\ "idle" \in Steps /\ NoLines \in [Line -> Nat]
  BY DEF Ops, Steps, NoLines
<1>2. NoDebit \in [customer : Customer \cup {NoCustomer}, amount : Nat]
  BY DEF NoDebit
<1>. QED
  BY <1>1, <1>2 DEF TypeOK, EndTransaction, Goto

\* Posting an integer leaves integers.
LEMMA PostTypes ==
    ASSUME TypeOK, NEW c, NEW n \in Int, Post(c, n)
    PROVE  balance' \in [Customer -> Int]
<1>1. CASE c = NoCustomer
  BY <1>1 DEF TypeOK, Post
<1>2. CASE c # NoCustomer
  <2>1. balance' = [balance EXCEPT ![c] = @ + n]
    BY <1>2 DEF Post
  <2>2. \A d \in Customer : balance[d] \in Int /\ balance[d] + n \in Int
    BY DEF TypeOK
  <2>. QED
    BY <2>1, <2>2 DEF TypeOK
<1>. QED
  BY <1>1, <1>2

LEMMA TypeInductive == SaleInvariant /\ [Next]_vars => TypeOK'
<1> SUFFICES ASSUME TypeOK, \A r \in Req : HoldsSale(r), [Next]_vars PROVE TypeOK'
  BY DEF SaleInvariant
<1> USE DEF sales, accounts, locks, session
<1>1. CASE UNCHANGED vars
  BY <1>1 DEF TypeOK, vars
<1>2. ASSUME NEW r \in Req, NEW s \in Sale, NEW d \in Drafts, CreateSale(r, s, d)
      PROVE  TypeOK'
  <2>1. d.customer \in Customer \cup {NoCustomer}
    BY DraftAssumption
  <2>2. Header(d, d.customer) \in Headers /\ "DRAFT" \in Status
    BY <2>1 DEF Headers, Status
  <2>. QED
    BY <1>2, <2>2 DEF CreateSale, TypeOK
<1>3. ASSUME NEW r \in Req, NEW s \in Sale, NEW o \in Ops, LockSale(r, o, s)
      PROVE  TypeOK'
  <2>1. Lines(s) \subseteq Line
    BY HeaderTypes
  <2>2. todo' \in [Req -> SUBSET Line]
    BY <1>3, <2>1 DEF LockSale, TypeOK
  <2>3. "locked" \in Steps
    BY DEF Steps
  <2>. QED
    BY <1>3, <2>2, <2>3 DEF LockSale, TypeOK, Goto
<1>4. ASSUME NEW r \in Req, NEW l \in Line, SellLine(r, l)
      PROVE  TypeOK'
  <2>1. doc[r] \in Sale /\ l \in Lines(doc[r])
    BY <1>4 DEF SellLine, At, TypeOK, HoldsSale
  <2>2. Qty(doc[r], l) \in Nat
    BY <2>1, HeaderTypes
  <2>. QED
    BY <1>4, <2>2 DEF SellLine, At, TypeOK
<1>5. ASSUME NEW r \in Req, DrawInvoice(r) PROVE TypeOK'
  <2>1. doc[r] \in Sale /\ sum[r] \in Nat
    BY <1>5 DEF DrawInvoice, At, TypeOK
  <2> DEFINE charge == Unpaid(doc[r], sum[r])
  <2>2. charge \in Nat /\ Account(doc[r]) \in Customer \cup {NoCustomer}
    BY <2>1, HeaderTypes DEF Unpaid
  <2>3. debit' \in [Req -> [customer : Customer \cup {NoCustomer}, amount : Nat]]
    BY <1>5, <2>2 DEF DrawInvoice, TypeOK
  <2>4. pc' \in [Req -> Steps]
    BY <1>5 DEF DrawInvoice, TypeOK, Goto, Steps
  <2>5. sequence' \in Nat /\ number' \in [Req -> Nat]
    BY <1>5 DEF DrawInvoice, TypeOK
  <2>6. \A q \in Req : pc'[q] # "idle" /\ op'[q] # "adjust" => doc'[q] \in Sale
    BY <1>5 DEF DrawInvoice, At, TypeOK, Goto
  <2>. QED
    BY <1>5, <2>3, <2>4, <2>5, <2>6 DEF DrawInvoice, TypeOK
<1>6. ASSUME NEW r \in Req, LockCustomer(r) PROVE TypeOK'
  BY <1>6 DEF LockCustomer, At, TypeOK, Goto, Steps
<1>7. ASSUME NEW r \in Req, CheckLimit(r) PROVE TypeOK'
  BY <1>7 DEF CheckLimit, At, TypeOK, Goto, Steps
<1>8. ASSUME NEW r \in Req, CommitConfirm(r) PROVE TypeOK'
  <2>1. doc[r] \in Sale /\ debit[r].amount \in Nat
    BY <1>8 DEF CommitConfirm, At, TypeOK
  <2>2. status' \in [Sale -> Status] /\ invoice' \in [Sale -> Nat]
    BY <1>8 DEF CommitConfirm, TypeOK, Status
  <2>3. \A l \in LinesOf(doc[r], External) : Qty(doc[r], l) \in Nat
    BY <2>1, HeaderTypes DEF LinesOf
  <2>4. payable' \in [Sale -> [Line -> Int]]
    BY <1>8, <2>1, <2>3 DEF CommitConfirm, TypeOK
  <2>5. owed' \in [Sale -> Int] /\ balance' \in [Customer -> Int]
    BY <1>8, <2>1, PostTypes DEF CommitConfirm, TypeOK
  <2>. QED
    BY <1>8, <2>2, <2>4, <2>5, EndKeepsTypes DEF CommitConfirm, TypeOK
<1>9. ASSUME NEW r \in Req, ResolveReturn(r) PROVE TypeOK'
  <2>1. doc[r] \in Sale
    BY <1>9 DEF ResolveReturn, At, TypeOK
  <2>2. PICK g \in ReturnItems(doc[r]) :
          /\ giving' = [giving EXCEPT ![r] = g]
          /\ todo' = [todo EXCEPT ![r] = {l \in Line : g[l] > 0}]
    BY <1>9 DEF ResolveReturn
  <2>3. g \in [Line -> Nat]
    BY <2>2, AmountAssumption DEF ReturnItems
  <2>. QED
    BY <1>9, <2>1, <2>2, <2>3 DEF ResolveReturn, At, TypeOK, Goto, Steps
<1>10. ASSUME NEW r \in Req, NEW l \in Line, TakeLine(r, l) PROVE TypeOK'
  BY <1>10 DEF TakeLine, At, TypeOK
<1>11. ASSUME NEW r \in Req, CommitReturn(r) PROVE TypeOK'
  <2>1. doc[r] \in Sale /\ sum[r] \in Nat
    BY <1>11 DEF CommitReturn, At, TypeOK
  <2> DEFINE refund == IF Account(doc[r]) = NoCustomer THEN 0 ELSE sum[r]
  <2>2. refund \in Nat /\ -refund \in Int
    BY <2>1
  <2>3. owed' = [owed EXCEPT ![doc[r]] = @ - refund] /\ Post(Account(doc[r]), -refund)
    BY <1>11 DEF CommitReturn
  <2> HIDE DEF refund
  <2>4. owed' \in [Sale -> Int] /\ balance' \in [Customer -> Int]
    BY <2>1, <2>2, <2>3, PostTypes DEF TypeOK
  <2>5. status' \in [Sale -> Status]
    BY <1>11 DEF CommitReturn, TypeOK, Status
  <2>6. back' \in [Sale -> [Line -> Nat]]
    BY <1>11, <2>1 DEF CommitReturn, TypeOK
  <2>. QED
    BY <1>11, <2>4, <2>5, <2>6, EndKeepsTypes DEF CommitReturn, TypeOK
<1>12. ASSUME NEW r \in Req, UpdateSale(r) PROVE TypeOK'
  <2>1. doc[r] \in Sale
    BY <1>12 DEF UpdateSale, At, TypeOK
  <2>2. sale' \in [Sale -> Headers]
    <3>1. sale[doc[r]].customer \in Customer \cup {NoCustomer}
      BY <2>1, HeaderTypes
    <3>2. PICK d \in Drafts :
            sale' = [sale EXCEPT ![doc[r]] =
                       Header(d, IF d.customer = NoCustomer THEN @.customer
                                                            ELSE d.customer)]
      BY <1>12 DEF UpdateSale
    <3>3. PICK c \in Customer \cup {NoCustomer} :
            sale' = [sale EXCEPT ![doc[r]] = Header(d, c)]
      BY <2>1, <3>1, <3>2, DraftAssumption
    <3>. QED
      BY <2>1, <3>3 DEF TypeOK, Headers
  <2>. QED
    BY <1>12, <2>2, EndKeepsTypes DEF UpdateSale, TypeOK
<1>13. ASSUME NEW r \in Req, CancelSale(r) PROVE TypeOK'
  BY <1>13, EndKeepsTypes DEF CancelSale, TypeOK, Status
<1>14. ASSUME NEW r \in Req, AcceptSupplierReturn(r) PROVE TypeOK'
  <2>1. doc[r] \in Sale
    BY <1>14 DEF AcceptSupplierReturn, At, TypeOK
  <2>2. PICK l \in LinesOf(doc[r], External) :
          \E n \in 1 .. back[doc[r]][l] - accepted[doc[r]][l] :
             /\ accepted' = [accepted EXCEPT ![doc[r]][l] = @ + n]
             /\ payable'  = [payable  EXCEPT ![doc[r]][l] = @ - n]
    BY <1>14 DEF AcceptSupplierReturn
  <2>3. l \in Line
    BY <2>1, HeaderTypes DEF LinesOf
  <2>4. accepted' \in [Sale -> [Line -> Nat]] /\ payable' \in [Sale -> [Line -> Int]]
    BY <2>1, <2>2, <2>3 DEF TypeOK
  <2>. QED
    BY <1>14, <2>4, EndKeepsTypes DEF AcceptSupplierReturn, TypeOK
<1>15. ASSUME NEW r \in Req, NEW c \in Customer, NEW n \in Amounts, RecordCredit(r, c, n)
       PROVE  TypeOK'
  <2>1. -n \in Int
    BY AmountAssumption
  <2>2. balance' \in [Customer -> Int]
    BY <1>15, <2>1, PostTypes DEF RecordCredit
  <2>. QED
    BY <1>15, <2>2 DEF RecordCredit, TypeOK
<1>16. ASSUME NEW r \in Req, NEW c \in Customer, NEW n \in Amounts, CheckAdjustment(r, c, n)
       PROVE  TypeOK'
  <2>1. n \in Nat
    BY AmountAssumption
  <2>. QED
    BY <1>16, <2>1 DEF CheckAdjustment, TypeOK, Goto, Ops, Steps
<1>17. ASSUME NEW r \in Req, CommitAdjustment(r) PROVE TypeOK'
  <2>1. balance' \in [Customer -> Int]
    BY <1>17, PostTypes DEF CommitAdjustment, TypeOK
  <2>. QED
    BY <1>17, <2>1, EndKeepsTypes DEF CommitAdjustment, TypeOK
<1>18. ASSUME NEW r \in Req, Rollback(r) PROVE TypeOK'
  BY <1>18, EndKeepsTypes DEF Rollback, TypeOK
<1>. QED
  BY <1>1, <1>2, <1>3, <1>4, <1>5, <1>6, <1>7, <1>8, <1>9, <1>10, <1>11, <1>12,
     <1>13, <1>14, <1>15, <1>16, <1>17, <1>18 DEF Next, Step

-----------------------------------------------------------------------------
(* Who works on a sale holds it.                                           *)

\* A request keeps its hold on a sale that nobody else changes.
LEMMA HoldKept ==
    ASSUME SaleInvariant, NEW q \in Req,
           pc'[q] = pc[q], op'[q] = op[q], doc'[q] = doc[q], todo'[q] = todo[q],
           pc[q] # "idle" /\ op[q] # "adjust" =>
              /\ status'[doc[q]] = status[doc[q]]
              /\ sale'[doc[q]] = sale[doc[q]]
              /\ saleLock'[doc[q]] = saleLock[doc[q]]
    PROVE  HoldsSale(q)'
BY DEF SaleInvariant, HoldsSale, Allowed, Lines

\* While r works on its sale, the sale of another request is another one.
LEMMA SalesApart ==
    ASSUME SaleInvariant, NEW r \in Req, NEW q \in Req, q # r,
           pc[r] # "idle", op[r] # "adjust", pc[q] # "idle", op[q] # "adjust"
    PROVE  doc[q] \in Sale /\ doc[q] # doc[r] /\ saleLock[doc[q]] = q
BY DEF SaleInvariant, HoldsSale, TypeOK

\* The end of r's transaction leaves other requests, and their locks, alone.
LEMMA EndLeavesOthers ==
    ASSUME SaleInvariant, NEW r \in Req, EndTransaction(r),
           NEW q \in Req, q # r
    PROVE  /\ pc'[q] = pc[q] /\ op'[q] = op[q] /\ doc'[q] = doc[q]
           /\ todo'[q] = todo[q] /\ number'[q] = number[q] /\ debit'[q] = debit[q]
           /\ \A s \in Sale : saleLock[s] = q => saleLock'[s] = q
           /\ \A c \in Customer : custLock[c] = q => custLock'[c] = q
           /\ \A c \in Customer : custLock[c] = NoReq => custLock'[c] = NoReq
BY NobodyAssumption DEF EndTransaction, Goto, SaleInvariant, TypeOK

\* r itself is idle afterwards, and owns nothing.
LEMMA EndIdles ==
    ASSUME SaleInvariant, NEW r \in Req, EndTransaction(r)
    PROVE  pc'[r] = "idle" /\ number'[r] = 0
BY DEF EndTransaction, Goto, SaleInvariant, TypeOK

\* A transaction that changes no sale but its own, and ends.
LEMMA HoldAfterEnd ==
    ASSUME SaleInvariant, NEW r \in Req, pc[r] # "idle", EndTransaction(r),
           op[r] = "adjust" => UNCHANGED <<status, sale>>,
           \A s \in Sale : s # doc[r] => status'[s] = status[s] /\ sale'[s] = sale[s]
    PROVE  \A q \in Req : HoldsSale(q)'
<1>1. HoldsSale(r)'
  BY EndLeavesOthers DEF HoldsSale, EndTransaction, Goto, SaleInvariant, TypeOK
<1>2. ASSUME NEW q \in Req, q # r PROVE HoldsSale(q)'
  <2>1. CASE pc[q] = "idle" \/ op[q] = "adjust"
    BY <1>2, <2>1, EndLeavesOthers, HoldKept
  <2>2. CASE pc[q] # "idle" /\ op[q] # "adjust"
    <3>1. doc[q] \in Sale /\ saleLock[doc[q]] = q
      BY <2>2 DEF SaleInvariant, HoldsSale, TypeOK
    <3>2. op[r] # "adjust" => doc[q] # doc[r]
      BY <1>2, <2>2, SalesApart
    <3>. QED
      BY <1>2, <3>1, <3>2, EndLeavesOthers, HoldKept
  <2>. QED
    BY <2>1, <2>2
<1>. QED
  BY <1>1, <1>2

LEMMA HoldInductive == SaleInvariant /\ [Next]_vars => \A q \in Req : HoldsSale(q)'
<1> SUFFICES ASSUME SaleInvariant, [Next]_vars PROVE \A q \in Req : HoldsSale(q)'
  OBVIOUS
<1> USE DEF sales, accounts, locks, session
<1>1. CASE UNCHANGED vars
  BY <1>1, HoldKept DEF vars
<1>2. ASSUME NEW r \in Req, NEW s \in Sale, NEW d \in Drafts, CreateSale(r, s, d)
      PROVE  \A q \in Req : HoldsSale(q)'
  <2>1. ASSUME NEW q \in Req, pc[q] # "idle", op[q] # "adjust"
        PROVE  doc[q] \in Sale /\ doc[q] # s
    <3>1. doc[q] \in Sale /\ Allowed(op[q], doc[q])
      BY <2>1 DEF SaleInvariant, HoldsSale, TypeOK
    <3>2. status[doc[q]] # "NONE"
      BY <3>1 DEF Allowed
    <3>. QED
      BY <1>2, <3>1, <3>2 DEF CreateSale
  <2>2. ASSUME NEW t \in Sale, t # s
        PROVE  status'[t] = status[t] /\ sale'[t] = sale[t]
    BY <1>2, <2>2 DEF CreateSale, SaleInvariant, TypeOK
  <2>. QED
    BY <1>2, <2>1, <2>2, HoldKept DEF CreateSale
<1>3. ASSUME NEW r \in Req, NEW s \in Sale, NEW o \in Ops, LockSale(r, o, s)
      PROVE  \A q \in Req : HoldsSale(q)'
  <2>1. HoldsSale(r)'
    BY <1>3 DEF LockSale, Goto, HoldsSale, Allowed, Lines, SaleInvariant, TypeOK
  <2>2. ASSUME NEW q \in Req, q # r PROVE HoldsSale(q)'
    <3>1. pc[q] # "idle" /\ op[q] # "adjust" => doc[q] \in Sale /\ doc[q] # s
      BY <1>3, <2>2, NobodyAssumption DEF LockSale, SaleInvariant, HoldsSale, TypeOK
    <3>2. pc'[q] = pc[q] /\ op'[q] = op[q] /\ doc'[q] = doc[q] /\ todo'[q] = todo[q]
      BY <1>3, <2>2 DEF LockSale, Goto, SaleInvariant, TypeOK
    <3>3. \A t \in Sale : t # s => saleLock'[t] = saleLock[t]
      BY <1>3 DEF LockSale, SaleInvariant, TypeOK
    <3>. QED
      BY <1>3, <3>1, <3>2, <3>3, HoldKept DEF LockSale
  <2>. QED
    BY <2>1, <2>2
<1>4. ASSUME NEW r \in Req, NEW l \in Line, SellLine(r, l) \/ TakeLine(r, l)
      PROVE  \A q \in Req : HoldsSale(q)'
  <2>1. UNCHANGED <<status, sale, saleLock, pc, op, doc>>
    BY <1>4 DEF SellLine, TakeLine
  <2>2. todo' = [todo EXCEPT ![r] = @ \ {l}]
    BY <1>4 DEF SellLine, TakeLine
  <2>3. \A q \in Req : todo'[q] \subseteq todo[q]
    BY <2>2 DEF SaleInvariant, TypeOK
  <2>. QED
    BY <2>1, <2>3 DEF SaleInvariant, HoldsSale, Allowed, Lines
<1>5. ASSUME NEW r \in Req, DrawInvoice(r) \/ LockCustomer(r) \/ CheckLimit(r)
      PROVE  \A q \in Req : HoldsSale(q)'
  <2>1. UNCHANGED <<status, sale, saleLock, op, doc, todo>>
    BY <1>5 DEF DrawInvoice, LockCustomer, CheckLimit
  <2>2. pc[r] # "idle" /\ \A q \in Req : q # r => pc'[q] = pc[q]
    BY <1>5 DEF DrawInvoice, LockCustomer, CheckLimit, At, Goto, SaleInvariant, TypeOK
  <2>. QED
    BY <2>1, <2>2 DEF SaleInvariant, HoldsSale, Allowed, Lines
<1>6. ASSUME NEW r \in Req, ResolveReturn(r) PROVE \A q \in Req : HoldsSale(q)'
  <2>1. PICK g \in ReturnItems(doc[r]) :
          todo' = [todo EXCEPT ![r] = {l \in Line : g[l] > 0}]
    BY <1>6 DEF ResolveReturn
  <2>2. {l \in Line : g[l] > 0} \subseteq Lines(doc[r])
    BY AmountAssumption DEF ReturnItems
  <2>3. UNCHANGED <<status, sale, saleLock, op, doc>>
    BY <1>6 DEF ResolveReturn
  <2>4. pc[r] # "idle" /\ \A q \in Req : q # r => pc'[q] = pc[q]
    BY <1>6 DEF ResolveReturn, At, Goto, SaleInvariant, TypeOK
  <2>5. HoldsSale(r)'
    BY <2>1, <2>2, <2>3, <2>4 DEF SaleInvariant, HoldsSale, Allowed, Lines, TypeOK
  <2>6. \A q \in Req : q # r => todo'[q] = todo[q]
    BY <2>1 DEF SaleInvariant, TypeOK
  <2>. QED
    BY <2>3, <2>4, <2>5, <2>6, HoldKept
<1>7. ASSUME NEW r \in Req, CommitConfirm(r) PROVE \A q \in Req : HoldsSale(q)'
  BY <1>7, HoldAfterEnd DEF CommitConfirm, At, SaleInvariant, TypeOK
<1>8. ASSUME NEW r \in Req, CommitReturn(r) PROVE \A q \in Req : HoldsSale(q)'
  BY <1>8, HoldAfterEnd DEF CommitReturn, At, SaleInvariant, TypeOK
<1>9. ASSUME NEW r \in Req, UpdateSale(r) PROVE \A q \in Req : HoldsSale(q)'
  <2>1. \A s \in Sale : s # doc[r] => sale'[s] = sale[s]
    BY <1>9 DEF UpdateSale, SaleInvariant, TypeOK
  <2>. QED
    BY <1>9, <2>1, HoldAfterEnd DEF UpdateSale, At
<1>10. ASSUME NEW r \in Req, CancelSale(r) PROVE \A q \in Req : HoldsSale(q)'
  BY <1>10, HoldAfterEnd DEF CancelSale, At, SaleInvariant, TypeOK
<1>11. ASSUME NEW r \in Req, AcceptSupplierReturn(r) PROVE \A q \in Req : HoldsSale(q)'
  BY <1>11, HoldAfterEnd DEF AcceptSupplierReturn, At
<1>12. ASSUME NEW r \in Req, NEW c \in Customer, NEW n \in Amounts, RecordCredit(r, c, n)
       PROVE  \A q \in Req : HoldsSale(q)'
  BY <1>12, HoldKept DEF RecordCredit
<1>13. ASSUME NEW r \in Req, NEW c \in Customer, NEW n \in Amounts, CheckAdjustment(r, c, n)
       PROVE  \A q \in Req : HoldsSale(q)'
  <2>1. \A q \in Req : q # r => pc'[q] = pc[q] /\ op'[q] = op[q]
    BY <1>13 DEF CheckAdjustment, Goto, SaleInvariant, TypeOK
  <2>2. op'[r] = "adjust"
    BY <1>13 DEF CheckAdjustment, SaleInvariant, TypeOK
  <2>. QED
    BY <1>13, <2>1, <2>2 DEF CheckAdjustment, SaleInvariant, HoldsSale, Allowed, Lines
<1>14. ASSUME NEW r \in Req, CommitAdjustment(r) PROVE \A q \in Req : HoldsSale(q)'
  BY <1>14, HoldAfterEnd DEF CommitAdjustment, At
<1>15. ASSUME NEW r \in Req, Rollback(r) PROVE \A q \in Req : HoldsSale(q)'
  BY <1>15, HoldAfterEnd DEF Rollback
<1>. QED
  BY <1>1, <1>2, <1>3, <1>4, <1>5, <1>6, <1>7, <1>8, <1>9, <1>10, <1>11, <1>12,
     <1>13, <1>14, <1>15 DEF Next, Step

LEMMA InitSaleInvariant == Init => SaleInvariant
<1> SUFFICES ASSUME Init PROVE SaleInvariant
  OBVIOUS
<1>1. "NONE" \in Status /\ "idle" \in Steps /\ "confirm" \in Ops /\ Blank \in Headers
  BY DEF Status, Steps, Ops, Headers
<1>2. NoDebit \in [customer : Customer \cup {NoCustomer}, amount : Nat]
  BY DEF NoDebit
<1>3. NoLines \in [Line -> Nat]
  BY DEF NoLines
<1>. QED
  BY <1>1, <1>2, <1>3 DEF Init, SaleInvariant, TypeOK, HoldsSale

\* Every request that works on a sale holds it, and the model is well typed.
THEOREM SalesHeld == Spec => []SaleInvariant
<1>1. Init => SaleInvariant
  BY InitSaleInvariant
<1>2. SaleInvariant /\ [Next]_vars => SaleInvariant'
  BY TypeInductive, HoldInductive DEF SaleInvariant
<1>. QED
  BY <1>1, <1>2, PTL DEF Spec

\* The model is well typed, for every constant.
THEOREM TypeCorrect == Spec => []TypeOK
<1>1. SaleInvariant => TypeOK
  BY DEF SaleInvariant
<1>. QED
  BY <1>1, SalesHeld, PTL

-----------------------------------------------------------------------------
(* Invoice numbers                                                         *)

\* A step that draws no number and stores none, and confirms or unconfirms no
\* sale.
LEMMA NumbersKept ==
    ASSUME InvoiceInvariant, SaleInvariant', UNCHANGED <<invoice, sequence>>,
           \A q \in Req : /\ number'[q] \in {0, number[q]}
                          /\ number'[q] = 0 => number[q] = 0 \/ pc'[q] = "idle"
                          /\ pc'[q] \in {"customer", "limit", "commit"} /\ op'[q] = "confirm"
                             => pc[q] \in {"customer", "limit", "commit"} /\ op[q] = "confirm",
           \A s \in Sale : status'[s] \in {"CONFIRMED", "RETURNED"}
                            <=> status[s] \in {"CONFIRMED", "RETURNED"}
    PROVE  InvoiceInvariant'
<1>1. InvoicesUnique'
  BY DEF InvoiceInvariant, InvoicesUnique
<1>2. NumbersDrawn'
  <2>1. \A q \in Req : number[q] \in Nat
    BY DEF InvoiceInvariant, SaleInvariant, TypeOK
  <2>2. /\ \A s \in Sale : invoice'[s] <= sequence'
        /\ \A r \in Req : number'[r] <= sequence'
    <3>1. sequence \in Nat /\ 0 <= sequence
      BY DEF InvoiceInvariant, SaleInvariant, TypeOK
    <3>2. /\ \A s \in Sale : invoice[s] <= sequence
          /\ \A r \in Req : number[r] <= sequence
      BY DEF InvoiceInvariant, NumbersDrawn
    <3>. QED
      BY <3>1, <3>2
  <2>3. /\ \A r, q \in Req : r # q /\ number'[r] = number'[q] => number'[r] = 0
        /\ \A r \in Req, s \in Sale : number'[r] = invoice'[s] => number'[r] = 0
    BY DEF InvoiceInvariant, NumbersDrawn
  <2>4. \A r \in Req : At(r, "confirm", "customer")' \/ At(r, "confirm", "limit")'
                        \/ At(r, "confirm", "commit")' => number'[r] # 0
    BY DEF InvoiceInvariant, NumbersDrawn, At
  <2>. QED
    BY <2>2, <2>3, <2>4 DEF NumbersDrawn
<1>. QED
  BY <1>1, <1>2 DEF InvoiceInvariant

LEMMA InvoiceInductive == InvoiceInvariant /\ [Next]_vars => InvoiceInvariant'
<1> SUFFICES ASSUME InvoiceInvariant, [Next]_vars PROVE InvoiceInvariant'
  OBVIOUS
<1> USE DEF sales, accounts, locks, session
<1>a. SaleInvariant'
  BY TypeInductive, HoldInductive DEF InvoiceInvariant, SaleInvariant
<1>b. SaleInvariant
  BY DEF InvoiceInvariant
<1>1. CASE UNCHANGED vars
  BY <1>1, <1>a, NumbersKept DEF vars
<1>2. ASSUME NEW r \in Req, NEW s \in Sale, NEW d \in Drafts, CreateSale(r, s, d)
      PROVE  InvoiceInvariant'
  BY <1>2, <1>a, NumbersKept DEF CreateSale, InvoiceInvariant, SaleInvariant, TypeOK
<1>3. ASSUME NEW r \in Req, NEW s \in Sale, NEW o \in Ops, LockSale(r, o, s)
      PROVE  InvoiceInvariant'
  BY <1>3, <1>a, <1>b, NumbersKept DEF LockSale, Goto, SaleInvariant, TypeOK
<1>4. ASSUME NEW r \in Req, NEW l \in Line, SellLine(r, l) \/ TakeLine(r, l)
      PROVE  InvoiceInvariant'
  <2>1. UNCHANGED <<status, invoice, sequence, number, pc, op>>
    BY <1>4 DEF SellLine, TakeLine
  <2>. QED
    BY <2>1, <1>a, NumbersKept
<1>5. ASSUME NEW r \in Req, DrawInvoice(r) PROVE InvoiceInvariant'
  <2>1. /\ sequence' = sequence + 1 /\ number'[r] = sequence + 1
        /\ \A q \in Req : q # r => number'[q] = number[q] /\ pc'[q] = pc[q]
        /\ UNCHANGED <<status, invoice, op>>
    BY <1>5, <1>b DEF DrawInvoice, Goto, SaleInvariant, TypeOK
  <2>2. sequence \in Nat /\ \A s \in Sale : invoice[s] \in Nat
    BY <1>b DEF SaleInvariant, TypeOK
  <2>3. \A q \in Req : number[q] \in Nat
    BY <1>b DEF SaleInvariant, TypeOK
  <2>4. InvoicesUnique'
    BY <2>1 DEF InvoiceInvariant, InvoicesUnique
  <2>5. NumbersDrawn'
    BY <2>1, <2>2, <2>3 DEF InvoiceInvariant, NumbersDrawn, At
  <2>. QED
    BY <1>a, <2>4, <2>5 DEF InvoiceInvariant
<1>6. ASSUME NEW r \in Req, LockCustomer(r) \/ CheckLimit(r) PROVE InvoiceInvariant'
  <2>1. UNCHANGED <<status, invoice, sequence, number, op>>
    BY <1>6 DEF LockCustomer, CheckLimit
  <2>2. /\ pc[r] \in {"customer", "limit"} /\ op[r] = "confirm"
        /\ \A q \in Req : q # r => pc'[q] = pc[q]
    BY <1>6, <1>b DEF LockCustomer, CheckLimit, At, Goto, SaleInvariant, TypeOK
  <2>. QED
    BY <2>1, <2>2, <1>a, NumbersKept
<1>7. ASSUME NEW r \in Req, CommitConfirm(r) PROVE InvoiceInvariant'
  <2>1. doc[r] \in Sale /\ number[r] # 0 /\ status[doc[r]] = "DRAFT"
    BY <1>7, <1>b DEF CommitConfirm, At, InvoiceInvariant, SaleInvariant, NumbersDrawn,
                      HoldsSale, Allowed, TypeOK
  <2>2. /\ invoice'[doc[r]] = number[r] /\ status'[doc[r]] = "CONFIRMED"
        /\ \A s \in Sale : s # doc[r] => invoice'[s] = invoice[s] /\ status'[s] = status[s]
        /\ sequence' = sequence
    BY <1>7, <1>b, <2>1 DEF CommitConfirm, SaleInvariant, TypeOK
  <2>3. /\ pc'[r] = "idle" /\ number'[r] = 0
        /\ \A q \in Req : q # r => /\ pc'[q] = pc[q] /\ op'[q] = op[q]
                                   /\ number'[q] = number[q]
    <3>1. EndTransaction(r)
      BY <1>7 DEF CommitConfirm
    <3>. QED
      BY <3>1, <1>b, EndLeavesOthers, EndIdles
  <2>4. InvoicesUnique'
    BY <2>1, <2>2 DEF InvoiceInvariant, InvoicesUnique, NumbersDrawn
  <2>5. NumbersDrawn'
    <3>1. 0 <= sequence
      BY <1>b DEF SaleInvariant, TypeOK
    <3>2. /\ \A s \in Sale : invoice'[s] <= sequence'
          /\ \A q \in Req : number'[q] <= sequence'
      BY <2>2, <2>3, <3>1 DEF InvoiceInvariant, NumbersDrawn
    <3>3. \A q, p \in Req : q # p /\ number'[q] = number'[p] => number'[q] = 0
      BY <2>3 DEF InvoiceInvariant, NumbersDrawn
    <3>4. \A q \in Req, s \in Sale : number'[q] = invoice'[s] => number'[q] = 0
      BY <2>1, <2>2, <2>3 DEF InvoiceInvariant, NumbersDrawn
    <3>5. \A q \in Req : At(q, "confirm", "customer")' \/ At(q, "confirm", "limit")'
                          \/ At(q, "confirm", "commit")' => number'[q] # 0
      BY <2>3 DEF InvoiceInvariant, NumbersDrawn, At
    <3>. QED
      BY <3>2, <3>3, <3>4, <3>5 DEF NumbersDrawn
  <2>. QED
    BY <1>a, <2>4, <2>5 DEF InvoiceInvariant
<1>8. ASSUME NEW r \in Req, ResolveReturn(r) PROVE InvoiceInvariant'
  <2>1. UNCHANGED <<status, invoice, sequence, number, op>>
    BY <1>8 DEF ResolveReturn
  <2>2. /\ pc'[r] = "lines"
        /\ \A q \in Req : q # r => pc'[q] = pc[q]
    BY <1>8, <1>b DEF ResolveReturn, Goto, SaleInvariant, TypeOK
  <2>. QED
    BY <2>1, <2>2, <1>a, NumbersKept
<1>9. ASSUME NEW r \in Req,
             CommitReturn(r) \/ UpdateSale(r) \/ CancelSale(r)
               \/ AcceptSupplierReturn(r) \/ CommitAdjustment(r) \/ Rollback(r)
      PROVE  InvoiceInvariant'
  <2>1. EndTransaction(r) /\ UNCHANGED <<invoice, sequence>>
    BY <1>9 DEF CommitReturn, UpdateSale, CancelSale, AcceptSupplierReturn,
                CommitAdjustment, Rollback
  <2>2. /\ pc'[r] = "idle" /\ number'[r] = 0
        /\ \A q \in Req : q # r => /\ pc'[q] = pc[q] /\ op'[q] = op[q]
                                   /\ number'[q] = number[q]
    BY <2>1, <1>b, EndLeavesOthers, EndIdles
  <2>3. \A s \in Sale : status'[s] \in {"CONFIRMED", "RETURNED"}
                         <=> status[s] \in {"CONFIRMED", "RETURNED"}
    <3>1. CASE CommitReturn(r)
      BY <3>1, <1>b DEF CommitReturn, At, SaleInvariant, HoldsSale, Allowed, TypeOK
    <3>2. CASE CancelSale(r)
      BY <3>2, <1>b DEF CancelSale, At, SaleInvariant, HoldsSale, Allowed, TypeOK
    <3>. QED
      BY <1>9, <3>1, <3>2 DEF UpdateSale, AcceptSupplierReturn, CommitAdjustment, Rollback
  <2>. QED
    BY <2>1, <2>2, <2>3, <1>a, NumbersKept
<1>10. ASSUME NEW r \in Req, NEW c \in Customer, NEW n \in Amounts, RecordCredit(r, c, n)
       PROVE  InvoiceInvariant'
  BY <1>10, <1>a, NumbersKept DEF RecordCredit
<1>11. ASSUME NEW r \in Req, NEW c \in Customer, NEW n \in Amounts, CheckAdjustment(r, c, n)
       PROVE  InvoiceInvariant'
  BY <1>11, <1>a, <1>b, NumbersKept DEF CheckAdjustment, Goto, SaleInvariant, TypeOK
<1>. QED
  BY <1>1, <1>2, <1>3, <1>4, <1>5, <1>6, <1>7, <1>8, <1>9, <1>10, <1>11 DEF Next, Step

\* However requests interleave, fail and retry, no two sales get the same
\* invoice number and every confirmed sale gets one.
THEOREM InvoicesAreUnique == Spec => []InvoicesUnique
<1>1. Init => InvoiceInvariant
  BY InitSaleInvariant DEF Init, InvoiceInvariant, InvoicesUnique, NumbersDrawn, At
<1>2. InvoiceInvariant /\ [Next]_vars => InvoiceInvariant'
  BY InvoiceInductive
<1>3. InvoiceInvariant => InvoicesUnique
  BY DEF InvoiceInvariant
<1>. QED
  BY <1>1, <1>2, <1>3, PTL DEF Spec

-----------------------------------------------------------------------------
(* The credit limit                                                        *)

\* A request keeps what it knows of the customer it is about to charge, when
\* nobody else takes the customer and the balance does not grow.
LEMMA CustomerKept ==
    ASSUME CreditInvariant, NEW q \in Req,
           pc'[q] = pc[q], op'[q] = op[q], debit'[q] = debit[q],
           \A c \in Customer : custLock[c] = q => custLock'[c] = q,
           At(q, "adjust", "commit") =>
              custLock'[debit[q].customer] = custLock[debit[q].customer],
           (\/ At(q, "adjust", "commit")
            \/ At(q, "confirm", "commit") /\ debit[q].amount > 0) =>
              \A c \in Customer : c = debit[q].customer => balance'[c] <= balance[c],
           \A p \in Req : At(p, "adjust", "commit")' =>
              At(p, "adjust", "commit") /\ debit'[p] = debit[p],
           balance' \in [Customer -> Int]
    PROVE  HoldsCustomer(q)'
<1>0. /\ TypeOK
      /\ HoldsCustomer(q)
  BY DEF CreditInvariant, SaleInvariant
<1>1. pc'[q] \in {"customer", "limit"} => debit'[q].customer \in Customer
  BY <1>0 DEF HoldsCustomer
<1>2. At(q, "confirm", "limit")' => custLock'[debit'[q].customer] = q
  BY <1>0 DEF HoldsCustomer, At
<1>3. ASSUME NEW c \in Customer, c = debit[q].customer, balance'[c] <= balance[c],
             WithinLimit(debit[q])
      PROVE  WithinLimit(debit[q])'
  <2>1. balance[c] \in Int /\ balance'[c] \in Int /\ Limit[c] \in Int
           /\ debit[q].amount \in Int
    BY <1>0, AmountAssumption DEF TypeOK
  <2>2. balance'[c] + debit[q].amount <= Limit[c]
    BY <1>3, <2>1 DEF WithinLimit
  <2>. QED
    BY <1>3, <2>2 DEF WithinLimit
<1>4. At(q, "confirm", "commit")' /\ debit'[q].amount > 0 =>
         /\ debit'[q].customer \in Customer
         /\ custLock'[debit'[q].customer] = q
         /\ WithinLimit(debit[q])'
  BY <1>0, <1>3 DEF HoldsCustomer, At
<1>5. At(q, "adjust", "commit")' =>
         /\ debit'[q].customer \in Customer
         /\ custLock'[debit'[q].customer] = NoReq
         /\ WithinLimit(debit[q])'
         /\ \A p \in Req : At(p, "adjust", "commit")'
                             /\ debit'[p].customer = debit'[q].customer => p = q
  BY <1>0, <1>3 DEF HoldsCustomer, At
<1>. QED
  BY <1>1, <1>2, <1>4, <1>5 DEF HoldsCustomer

\* What a step keeps for every request it does not move, if it posts nothing.
LEMMA CreditKept ==
    ASSUME CreditInvariant, SaleInvariant', NEW r \in Req,
           balance' = balance, HoldsCustomer(r)',
           \A c \in Customer : custLock'[c] # custLock[c] =>
              custLock[c] = r \/ (custLock[c] = NoReq /\ ~Adjusting(c)),
           \A q \in Req : q # r => pc'[q] = pc[q] /\ op'[q] = op[q] /\ debit'[q] = debit[q],
           ~At(r, "adjust", "commit")'
    PROVE  CreditInvariant'
<1>1. balance \in [Customer -> Int] /\ \A c \in Customer : balance[c] <= balance[c]
  BY DEF CreditInvariant, SaleInvariant, TypeOK
<1>2. ASSUME NEW q \in Req, q # r PROVE HoldsCustomer(q)'
  <2>1. \A c \in Customer : custLock[c] = q => custLock'[c] = q
    BY <1>2, NobodyAssumption
  <2>2. At(q, "adjust", "commit") =>
           custLock'[debit[q].customer] = custLock[debit[q].customer]
    BY NobodyAssumption DEF CreditInvariant, HoldsCustomer, Adjusting
  <2>3. \A p \in Req : At(p, "adjust", "commit")' =>
           At(p, "adjust", "commit") /\ debit'[p] = debit[p]
    BY DEF At
  <2>. QED
    BY <1>1, <1>2, <2>1, <2>2, <2>3, CustomerKept
<1>3. CreditWithinLimit'
  BY DEF CreditInvariant, CreditWithinLimit
<1>. QED
  BY <1>2, <1>3 DEF CreditInvariant

\* A step of r that ends its transaction and lets no balance grow that another
\* request relies on.
LEMMA CreditAfterEnd ==
    ASSUME CreditInvariant, SaleInvariant', NEW r \in Req, EndTransaction(r),
           CreditWithinLimit',
           \A q \in Req : q # r
             /\ (\/ At(q, "adjust", "commit")
                 \/ At(q, "confirm", "commit") /\ debit[q].amount > 0) =>
               \A c \in Customer : c = debit[q].customer => balance'[c] <= balance[c]
    PROVE  CreditInvariant'
<1>1. SaleInvariant /\ balance' \in [Customer -> Int] /\ pc'[r] = "idle"
  BY EndIdles DEF CreditInvariant, SaleInvariant, TypeOK
<1>2. HoldsCustomer(r)'
  BY <1>1 DEF HoldsCustomer, At
<1>3. ASSUME NEW q \in Req, q # r PROVE HoldsCustomer(q)'
  <2>1. \A p \in Req : p # r => /\ pc'[p] = pc[p] /\ op'[p] = op[p]
                                /\ debit'[p] = debit[p]
    BY <1>1, EndLeavesOthers
  <2>2. \A p \in Req : At(p, "adjust", "commit")' =>
           At(p, "adjust", "commit") /\ debit'[p] = debit[p]
    BY <1>1, <2>1 DEF At
  <2>3. \A c \in Customer : custLock[c] = q => custLock'[c] = q
    BY <1>1, <1>3, EndLeavesOthers
  <2>4. At(q, "adjust", "commit") =>
           custLock'[debit[q].customer] = custLock[debit[q].customer]
    BY <1>1, <1>3, EndLeavesOthers DEF CreditInvariant, HoldsCustomer
  <2>. QED
    BY <1>1, <1>3, <2>1, <2>2, <2>3, <2>4, CustomerKept
<1>. QED
  BY <1>2, <1>3 DEF CreditInvariant

LEMMA CreditInductive ==
    ASSUME AdjustAlone
    PROVE  CreditInvariant /\ [Next]_vars => CreditInvariant'
<1> SUFFICES ASSUME CreditInvariant, [Next]_vars PROVE CreditInvariant'
  OBVIOUS
<1> USE DEF sales, accounts, locks, session
<1>a. SaleInvariant'
  BY TypeInductive, HoldInductive DEF CreditInvariant, SaleInvariant
<1>b. SaleInvariant /\ \A c \in Customer : balance[c] \in Int /\ Limit[c] \in Int
  BY AmountAssumption DEF CreditInvariant, SaleInvariant, TypeOK
<1>c. \A r \in Req : /\ debit[r].amount \in Nat
                     /\ debit[r].customer \in Customer \cup {NoCustomer}
  BY <1>b DEF SaleInvariant, TypeOK
<1>1. CASE UNCHANGED <<balance, custLock, pc, op, debit>>
  <2>1. \A r, c, n : At(r, c, n)' <=> At(r, c, n)
    BY <1>1 DEF At
  <2>. QED
    BY <1>1, <1>a, <2>1 DEF CreditInvariant, CreditWithinLimit, HoldsCustomer, WithinLimit
<1>2. ASSUME NEW r \in Req, NEW s \in Sale, NEW o \in Ops, LockSale(r, o, s)
      PROVE  CreditInvariant'
  <2>1. HoldsCustomer(r)' /\ ~At(r, "adjust", "commit")'
    BY <1>2, <1>b DEF LockSale, Goto, HoldsCustomer, At, SaleInvariant, TypeOK
  <2>2. \A q \in Req : q # r => pc'[q] = pc[q] /\ op'[q] = op[q] /\ debit'[q] = debit[q]
    BY <1>2, <1>b DEF LockSale, Goto, SaleInvariant, TypeOK
  <2>. QED
    BY <1>2, <1>a, <2>1, <2>2, CreditKept DEF LockSale
<1>3. ASSUME NEW r \in Req, DrawInvoice(r) PROVE CreditInvariant'
  <2> DEFINE charge == Unpaid(doc[r], sum[r])
  <2>1. doc[r] \in Sale
    BY <1>3, <1>b DEF DrawInvoice, At, SaleInvariant, TypeOK
  <2>2. charge > 0 => Account(doc[r]) \in Customer
    BY <1>b, <2>1, HeaderTypes DEF Unpaid, SaleInvariant
  <2>3. /\ debit'[r] = [customer |-> Account(doc[r]), amount |-> charge]
        /\ pc'[r] = IF charge > 0 THEN "customer" ELSE "commit"
        /\ op'[r] = "confirm"
    BY <1>3, <1>b DEF DrawInvoice, At, Goto, SaleInvariant, TypeOK
  <2>4. HoldsCustomer(r)' /\ ~At(r, "adjust", "commit")'
    BY <2>2, <2>3 DEF HoldsCustomer, At
  <2>5. \A q \in Req : q # r => pc'[q] = pc[q] /\ op'[q] = op[q] /\ debit'[q] = debit[q]
    BY <1>3, <1>b DEF DrawInvoice, Goto, SaleInvariant, TypeOK
  <2>. QED
    BY <1>3, <1>a, <2>4, <2>5, CreditKept DEF DrawInvoice
<1>4. ASSUME NEW r \in Req, LockCustomer(r) PROVE CreditInvariant'
  <2>1. debit[r].customer \in Customer
    BY <1>4 DEF LockCustomer, At, CreditInvariant, HoldsCustomer
  <2>2. /\ custLock' = [custLock EXCEPT ![debit[r].customer] = r]
        /\ custLock[debit[r].customer] = NoReq /\ ~Adjusting(debit[r].customer)
        /\ pc'[r] = "limit" /\ op'[r] = "confirm" /\ debit'[r] = debit[r]
        /\ UNCHANGED balance
    BY <1>4, <1>b DEF LockCustomer, At, Goto, SaleInvariant, TypeOK
  <2>3. custLock'[debit[r].customer] = r
    BY <1>b, <2>1, <2>2 DEF SaleInvariant, TypeOK
  <2>4. HoldsCustomer(r)' /\ ~At(r, "adjust", "commit")'
    BY <2>1, <2>2, <2>3 DEF HoldsCustomer, At
  <2>5. \A q \in Req : q # r => pc'[q] = pc[q] /\ op'[q] = op[q] /\ debit'[q] = debit[q]
    BY <1>4, <1>b DEF LockCustomer, Goto, SaleInvariant, TypeOK
  <2>6. \A c \in Customer : custLock'[c] # custLock[c] =>
           custLock[c] = NoReq /\ ~Adjusting(c)
    BY <1>b, <2>2 DEF SaleInvariant, TypeOK
  <2>. QED
    BY <1>a, <2>2, <2>4, <2>5, <2>6, CreditKept
<1>5. ASSUME NEW r \in Req, CheckLimit(r) PROVE CreditInvariant'
  <2>1. /\ debit[r].customer \in Customer /\ custLock[debit[r].customer] = r
        /\ WithinLimit(debit[r])
    BY <1>5 DEF CheckLimit, At, CreditInvariant, HoldsCustomer
  <2>2. /\ UNCHANGED <<custLock, balance, op, debit>>
        /\ pc'[r] = "commit" /\ op[r] = "confirm"
        /\ \A q \in Req : q # r => pc'[q] = pc[q]
    BY <1>5, <1>b DEF CheckLimit, At, Goto, SaleInvariant, TypeOK
  <2>3. HoldsCustomer(r)' /\ ~At(r, "adjust", "commit")'
    BY <2>1, <2>2 DEF HoldsCustomer, At, WithinLimit
  <2>. QED
    BY <1>a, <2>2, <2>3, CreditKept
<1>6. ASSUME NEW r \in Req, ResolveReturn(r) PROVE CreditInvariant'
  <2>1. /\ UNCHANGED <<custLock, balance, op, debit>>
        /\ pc'[r] = "lines"
        /\ \A q \in Req : q # r => pc'[q] = pc[q]
    BY <1>6, <1>b DEF ResolveReturn, Goto, SaleInvariant, TypeOK
  <2>2. HoldsCustomer(r)' /\ ~At(r, "adjust", "commit")'
    BY <2>1 DEF HoldsCustomer, At
  <2>. QED
    BY <1>a, <2>1, <2>2, CreditKept
<1>7. ASSUME NEW r \in Req, CommitConfirm(r) PROVE CreditInvariant'
  <2>1. Post(debit[r].customer, debit[r].amount) /\ EndTransaction(r)
           /\ At(r, "confirm", "commit")
    BY <1>7 DEF CommitConfirm
  <2>2. CASE debit[r].amount = 0
    <3>1. \A c \in Customer : balance'[c] = balance[c]
      BY <1>b, <1>c, <2>1, <2>2 DEF Post, SaleInvariant, TypeOK
    <3>. QED
      BY <1>a, <1>b, <2>1, <3>1, CreditAfterEnd DEF CreditInvariant, CreditWithinLimit
  <2>3. CASE debit[r].amount > 0
    <3> DEFINE c == debit[r].customer
    <3>1. c \in Customer /\ custLock[c] = r /\ WithinLimit(debit[r])
      BY <2>1, <2>3 DEF CreditInvariant, HoldsCustomer
    <3>2. /\ balance'[c] <= Limit[c]
          /\ \A d \in Customer : d # c => balance'[d] = balance[d]
      BY <1>b, <1>c, <2>1, <3>1, NobodyAssumption DEF Post, WithinLimit, SaleInvariant, TypeOK
    <3>3. ASSUME NEW q \in Req, q # r,
                 \/ At(q, "adjust", "commit")
                 \/ At(q, "confirm", "commit") /\ debit[q].amount > 0
          PROVE  debit[q].customer # c
      BY <3>1, <3>3, NobodyAssumption DEF CreditInvariant, HoldsCustomer
    <3>4. CreditWithinLimit'
      BY <3>2 DEF CreditInvariant, CreditWithinLimit
    <3>. QED
      BY <1>a, <1>b, <2>1, <3>2, <3>3, <3>4, CreditAfterEnd
  <2>. QED
    BY <1>c, <2>2, <2>3
<1>8. ASSUME NEW r \in Req, CommitReturn(r) PROVE CreditInvariant'
  <2> DEFINE refund == IF Account(doc[r]) = NoCustomer THEN 0 ELSE sum[r]
  <2>1. Post(Account(doc[r]), -refund) /\ EndTransaction(r)
    BY <1>8 DEF CommitReturn
  <2>2. refund \in Nat
    BY <1>b DEF SaleInvariant, TypeOK
  <2> HIDE DEF refund
  <2>3. \A c \in Customer : balance'[c] <= balance[c] /\ balance'[c] \in Int
    BY <1>b, <2>1, <2>2 DEF Post, SaleInvariant, TypeOK
  <2>4. CreditWithinLimit'
    BY <1>b, <2>3 DEF CreditInvariant, CreditWithinLimit
  <2>. QED
    BY <1>a, <2>1, <2>3, <2>4, CreditAfterEnd
<1>9. ASSUME NEW r \in Req,
             UpdateSale(r) \/ CancelSale(r) \/ AcceptSupplierReturn(r) \/ Rollback(r)
      PROVE  CreditInvariant'
  <2>1. UNCHANGED balance /\ EndTransaction(r)
    BY <1>9 DEF UpdateSale, CancelSale, AcceptSupplierReturn, Rollback
  <2>2. CreditWithinLimit' /\ \A c \in Customer : balance'[c] <= balance[c]
    BY <1>b, <2>1 DEF CreditInvariant, CreditWithinLimit
  <2>. QED
    BY <1>a, <2>1, <2>2, CreditAfterEnd
<1>10. ASSUME NEW r \in Req, NEW c \in Customer, NEW n \in Amounts, RecordCredit(r, c, n)
       PROVE  CreditInvariant'
  <2>1. /\ UNCHANGED <<custLock, pc, op, debit>>
        /\ Post(c, -n) /\ n \in Nat /\ c # NoCustomer
    BY <1>10, AmountAssumption, NobodyAssumption DEF RecordCredit
  <2>2. \A d \in Customer : balance'[d] <= balance[d] /\ balance'[d] \in Int
    BY <1>b, <2>1 DEF Post, SaleInvariant, TypeOK
  <2>3. CreditWithinLimit'
    BY <1>b, <2>2 DEF CreditInvariant, CreditWithinLimit
  <2>4. balance' \in [Customer -> Int]
    BY <1>a DEF SaleInvariant, TypeOK
  <2>5. \A q \in Req : HoldsCustomer(q)'
    BY <2>1, <2>2, <2>4, CustomerKept DEF At
  <2>. QED
    BY <1>a, <2>3, <2>5 DEF CreditInvariant
<1>11. ASSUME NEW r \in Req, NEW c \in Customer, NEW n \in Amounts, CheckAdjustment(r, c, n)
       PROVE  CreditInvariant'
  <2>1. /\ custLock[c] = NoReq /\ ~Adjusting(c) /\ pc[r] = "idle"
        /\ WithinLimit([customer |-> c, amount |-> n])
        /\ UNCHANGED <<custLock, balance>>
    BY <1>11 DEF CheckAdjustment
  <2>2. /\ pc'[r] = "commit" /\ op'[r] = "adjust"
        /\ debit'[r] = [customer |-> c, amount |-> n]
        /\ \A q \in Req : q # r => pc'[q] = pc[q] /\ op'[q] = op[q] /\ debit'[q] = debit[q]
    BY <1>11, <1>b DEF CheckAdjustment, Goto, SaleInvariant, TypeOK
  <2>3. \A q \in Req : q # r => (At(q, "adjust", "commit")' <=> At(q, "adjust", "commit"))
    BY <2>2 DEF At
  <2>4. HoldsCustomer(r)'
    BY <2>1, <2>2, <2>3 DEF HoldsCustomer, At, Adjusting, WithinLimit
  <2>5. ASSUME NEW q \in Req, q # r PROVE HoldsCustomer(q)'
    <3>1. At(q, "adjust", "commit") => debit[q].customer # c
      BY <2>1 DEF Adjusting
    <3>2. HoldsCustomer(q) /\ pc'[q] = pc[q] /\ op'[q] = op[q] /\ debit'[q] = debit[q]
      BY <2>2, <2>5 DEF CreditInvariant
    <3>. QED
      BY <2>1, <2>2, <2>3, <2>5, <3>1, <3>2 DEF HoldsCustomer, At, WithinLimit
  <2>6. CreditWithinLimit'
    BY <2>1 DEF CreditInvariant, CreditWithinLimit
  <2>. QED
    BY <1>a, <2>4, <2>5, <2>6 DEF CreditInvariant
<1>12. ASSUME NEW r \in Req, CommitAdjustment(r) PROVE CreditInvariant'
  <2> DEFINE c == debit[r].customer
  <2>1. /\ Post(c, debit[r].amount) /\ EndTransaction(r)
        /\ At(r, "adjust", "commit")
    BY <1>12 DEF CommitAdjustment
  <2>2. /\ c \in Customer /\ custLock[c] = NoReq /\ WithinLimit(debit[r])
        /\ \A q \in Req : At(q, "adjust", "commit") /\ debit[q].customer = c => q = r
    BY <2>1 DEF CreditInvariant, HoldsCustomer
  <2>3. /\ balance'[c] <= Limit[c]
        /\ \A d \in Customer : d # c => balance'[d] = balance[d]
    BY <1>b, <1>c, <2>1, <2>2, NobodyAssumption DEF Post, WithinLimit, SaleInvariant, TypeOK
  <2>4. ASSUME NEW q \in Req, q # r,
               \/ At(q, "adjust", "commit")
               \/ At(q, "confirm", "commit") /\ debit[q].amount > 0
        PROVE  debit[q].customer # c
    BY <2>2, <2>4, NobodyAssumption DEF CreditInvariant, HoldsCustomer
  <2>5. CreditWithinLimit'
    BY <2>3 DEF CreditInvariant, CreditWithinLimit
  <2>. QED
    BY <1>a, <1>b, <2>1, <2>3, <2>4, <2>5, CreditAfterEnd
<1>13. ASSUME NEW r \in Req, NEW l \in Line, SellLine(r, l) \/ TakeLine(r, l)
       PROVE  CreditInvariant'
  BY <1>1, <1>13 DEF SellLine, TakeLine
<1>14. ASSUME NEW r \in Req, NEW s \in Sale, NEW d \in Drafts, CreateSale(r, s, d)
       PROVE  CreditInvariant'
  BY <1>1, <1>14 DEF CreateSale
<1>15. CASE UNCHANGED vars
  BY <1>1, <1>15 DEF vars
<1>. QED
  BY <1>2, <1>3, <1>4, <1>5, <1>6, <1>7, <1>8, <1>9, <1>10, <1>11, <1>12, <1>13,
     <1>14, <1>15 DEF Next, Step

\* Nobody owes anything at first.
LEMMA InitCredit == Init => CreditInvariant
<1> SUFFICES ASSUME Init PROVE CreditInvariant
  OBVIOUS
<1>1. CreditWithinLimit
  BY AmountAssumption DEF Init, CreditWithinLimit
<1>2. \A r \in Req : HoldsCustomer(r)
  BY DEF Init, HoldsCustomer, At
<1>. QED
  BY <1>1, <1>2, InitSaleInvariant DEF CreditInvariant

\* As long as a manual adjustment of a customer does not run beside another
\* debit of that customer, no interleaving of confirmations, returns, payments
\* and adjustments lifts a balance above the credit limit.
THEOREM CreditIsLimited == ASSUME AdjustAlone PROVE Spec => []CreditWithinLimit
<1>1. Init => CreditInvariant
  BY InitCredit
<1>2. CreditInvariant /\ [Next]_vars => CreditInvariant'
  BY CreditInductive
<1>3. CreditInvariant => CreditWithinLimit
  BY DEF CreditInvariant
<1>. QED
  BY <1>1, <1>2, <1>3, PTL DEF Spec

-----------------------------------------------------------------------------
(* What the ledgers hold of a sale                                         *)

\* What a header says: the units of each line, their total, the account it is
\* charged to, and what is charged.
QtysOf(x)    == [l \in Line |-> IF l \in DOMAIN x.items THEN x.items[l].qty ELSE 0]
TotalOf(x)   == MapThenSumSet(LAMBDA l : x.items[l].qty, DOMAIN x.items)
AccountOf(x) == IF x.credit THEN x.customer ELSE NoCustomer
UnpaidOf(x)  == IF AccountOf(x) = NoCustomer \/ x.paid >= TotalOf(x) THEN 0 ELSE TotalOf(x) - x.paid

\* The books of a sale: what SaleSettled says of it, and that of a sale that was
\* not confirmed nothing came back, and of no line more than was sold.
SettledAs(state, x, returned, taken, due, charged) ==
    LET sold == state \in {"CONFIRMED", "RETURNED"}
    IN  /\ charged = IF sold THEN UnpaidOf(x) - (IF AccountOf(x) = NoCustomer THEN 0
                                                 ELSE SumOver(returned, Line))
                     ELSE 0
        /\ \A l \in DOMAIN x.items : x.items[l].part = External =>
              due[l] = IF sold THEN x.items[l].qty - taken[l] ELSE 0
        /\ state = "RETURNED" <=> sold /\ SumOver(returned, Line) = TotalOf(x)
        /\ SumOver(returned, Line) <= TotalOf(x)
        /\ \A l \in Line : taken[l] <= returned[l] /\ returned[l] <= QtysOf(x)[l]
        /\ ~sold => returned = NoLines /\ due = NoLines
Settled(s) == SettledAs(status[s], sale[s], back[s], accepted[s], payable[s], owed[s])

\* What a request has summed, and the charge it made of that.
Computed(r) ==
    /\ pc[r] = "idle" \/ (op[r] = "return" /\ pc[r] = "locked") => sum[r] = 0
    /\ op[r] = "confirm" /\ pc[r] = "locked" =>
          sum[r] + SumOver(QtysOf(sale[doc[r]]), todo[r]) = TotalOf(sale[doc[r]])
    /\ op[r] = "confirm" /\ pc[r] \in {"customer", "limit", "commit"} =>
          debit[r] = [customer |-> AccountOf(sale[doc[r]]), amount |-> UnpaidOf(sale[doc[r]])]
    /\ op[r] = "return" /\ pc[r] = "lines" =>
          /\ \A l \in Line : back[doc[r]][l] + giving[r][l] <= QtysOf(sale[doc[r]])[l]
          /\ sum[r] + SumOver(giving[r], todo[r]) = SumOver(giving[r], Line)

\* What the proof of SaleSettled carries.
SettleInvariant ==
    /\ SaleInvariant
    /\ \A s \in Sale : Settled(s)
    /\ \A r \in Req : Computed(r)

\* Of a sale, that is what its header says.
LEMMA HeaderSays ==
    \A s : /\ Lines(s) = DOMAIN sale[s].items
           /\ Total(s) = TotalOf(sale[s])
           /\ Account(s) = AccountOf(sale[s])
           /\ \A n : Unpaid(s, n) = IF AccountOf(sale[s]) = NoCustomer \/ sale[s].paid >= n THEN 0
                                    ELSE n - sale[s].paid
           /\ Returned(s) = SumOver(back[s], Line)
BY DEF Lines, Qty, Units, Total, TotalOf, Account, AccountOf, Unpaid, Returned, MapThenSumSet,
       MapThenFoldSet, SumOver, Summing, Pick

\* And after a step.
LEMMA HeaderSaysNext ==
    \A s : /\ Total(s)' = TotalOf(sale'[s])
           /\ Account(s)' = AccountOf(sale'[s])
           /\ Returned(s)' = SumOver(back'[s], Line)
BY DEF Lines, Qty, Units, Total, TotalOf, Account, AccountOf, Returned, MapThenSumSet,
       MapThenFoldSet, SumOver, Summing, Pick

\* The units of a line are a number, and one at least of a line there is.
LEMMA QtyTypes ==
    ASSUME NEW x \in Headers
    PROVE  /\ DOMAIN x.items \subseteq Line /\ IsFiniteSet(DOMAIN x.items)
           /\ \A l \in DOMAIN x.items : x.items[l].qty \in Nat \ {0} /\ QtysOf(x)[l] = x.items[l].qty
           /\ \A l \in Line : QtysOf(x)[l] \in Nat /\ (l \notin DOMAIN x.items => QtysOf(x)[l] = 0)
           /\ x.paid \in Nat
<1>1. /\ DOMAIN x.items \subseteq Line /\ x.paid \in Nat
      /\ \A l \in DOMAIN x.items : x.items[l].qty \in Nat \ {0}
  <2>1. CASE x = Blank
    <3>1. DOMAIN x.items = {} /\ x.paid = 0
      BY <2>1 DEF Blank
    <3>2. QED
      BY <3>1
  <2>2. ASSUME NEW d \in Drafts, NEW c, x = Header(d, c)
        PROVE  /\ DOMAIN x.items \subseteq Line /\ x.paid \in Nat
               /\ \A l \in DOMAIN x.items : x.items[l].qty \in Nat \ {0}
    <3>1. x.items = d.items /\ x.paid = d.paid
      BY <2>2 DEF Header
    <3>2. PICK L \in SUBSET Line : d.items \in [L -> [part : Part \cup {External}, qty : 1 .. MaxUnits]]
      BY DraftAssumption
    <3>3. 1..MaxUnits \subseteq Nat \ {0} /\ d.paid \in Nat
      BY AmountAssumption, DraftAssumption
    <3>4. QED
      BY <3>1, <3>2, <3>3
  <2>3. QED
    BY <2>1, <2>2 DEF Headers
<1>2. IsFiniteSet(DOMAIN x.items)
  BY <1>1, LineAssumption, FS_Subset
<1>3. QED
  BY <1>1, <1>2 DEF QtysOf

\* What the total chooses.
TotalSummed(x, h) ==
    h = [S \in SUBSET DOMAIN x.items |->
            IF S = {} THEN 0 ELSE x.items[Pick(S)].qty + h[S \ {Pick(S)}]]

\* The total is a fold.
LEMMA TotalUnfolds == \A x : TotalOf(x) = (CHOOSE h : TotalSummed(x, h))[DOMAIN x.items]
BY DEF TotalOf, MapThenSumSet, MapThenFoldSet, TotalSummed, Pick

\* The total is the sum of what is on the lines, and there is none without any.
LEMMA TotalFolded ==
    ASSUME NEW x \in Headers
    PROVE  /\ TotalOf(x) = SumOver(QtysOf(x), DOMAIN x.items) /\ TotalOf(x) = SumOver(QtysOf(x), Line)
           /\ TotalOf(x) \in Nat
           /\ DOMAIN x.items # {} => TotalOf(x) > 0
<1> DEFINE f == QtysOf(x)
           D == DOMAIN x.items
           g == [S \in SUBSET D |-> SumOver(f, S)]
<1>0. IsFiniteSet(D) /\ D \subseteq Line
  BY QtyTypes
<1>1. \A S \in SUBSET D : S # {} => /\ Pick(S) \in D /\ S \ {Pick(S)} \in SUBSET D
                                   /\ f[Pick(S)] = x.items[Pick(S)].qty
  BY PickIn, QtyTypes
<1>2. TotalOf(x) = SumOver(f, D)
  <2> HIDE DEF f
  <2>2. \A S \in SUBSET D : SumOver(f, S) = IF S = {} THEN 0 ELSE f[Pick(S)] + SumOver(f, S \ {Pick(S)})
    BY <1>0, FS_Subset, SumStep
  <2>3. TotalSummed(x, g)
    <3>1. \A S \in SUBSET D : g[S] = IF S = {} THEN 0 ELSE x.items[Pick(S)].qty + g[S \ {Pick(S)}]
      BY <1>1, <2>2
    <3>2. g = [S \in SUBSET D |-> IF S = {} THEN 0 ELSE x.items[Pick(S)].qty + g[S \ {Pick(S)}]]
      BY <3>1
    <3>3. QED
      BY <3>2 DEF TotalSummed
  <2>4. PICK h : h = CHOOSE i : TotalSummed(x, i)
    OBVIOUS
  <2>5. TotalSummed(x, h)
    <3> HIDE DEF g
    <3> QED
      BY <2>3, <2>4
  <2>6. \A S \in SUBSET D : h[S] = IF S = {} THEN 0 ELSE f[Pick(S)] + h[S \ {Pick(S)}]
    BY <1>1, <2>5 DEF TotalSummed
  <2>7. h[D] = SumOver(f, D)
    BY <1>0, <2>6, ChoiceSums
  <2>8. QED
    BY <2>4, <2>7, TotalUnfolds
<1>3. /\ \A l \in Line : f[l] \in Int /\ f[l] \in Nat
      /\ \A l \in Line \ D : f[l] = 0
      /\ \A l \in D : f[l] > 0
  BY QtyTypes
<1> HIDE DEF f
<1>4. SumOver(f, Line) = SumOver(f, D)
  BY <1>0, <1>3, LineAssumption, SumWithin
<1>5. TotalOf(x) \in Nat
  BY <1>0, <1>2, <1>3, SumType
<1>6. ASSUME NEW l \in D PROVE TotalOf(x) > 0
  <2>1. SumOver(f, D) = f[l] + SumOver(f, D \ {l})
    BY <1>0, <1>3, SumRemove
  <2>2. SumOver(f, D \ {l}) \in Nat
    <3>1. IsFiniteSet(D \ {l}) /\ \A k \in D \ {l} : f[k] \in Nat
      BY <1>0, <1>3, FS_RemoveElement
    <3>2. QED
      BY <3>1, SumType
  <2>3. f[l] \in Nat /\ f[l] > 0
    BY <1>0, <1>3
  <2>4. PICK v, w : v = f[l] /\ w = SumOver(f, D \ {l})
    OBVIOUS
  <2>5. v + w > 0
    BY <2>2, <2>3, <2>4
  <2>6. QED
    BY <1>2, <2>1, <2>4, <2>5
<1>7. QED
  BY <1>2, <1>4, <1>5, <1>6 DEF f

\* Nothing on the lines amounts to nothing.
LEMMA NoLinesSum ==
    /\ SumOver(NoLines, Line) = 0
    /\ \A l \in Line : NoLines[l] = 0
    /\ \A f : SumOver(f, {}) = 0
<1>1. \A l \in Line : NoLines[l] = 0
  BY DEF NoLines
<1>2. QED
  BY <1>1, LineAssumption, FS_EmptySet, SumType

\* The books of the sales say what SaleSettled says.
LEMMA SettledSays == SettleInvariant => SaleSettled
<1> SUFFICES ASSUME SettleInvariant PROVE SaleSettled
  OBVIOUS
<1> SUFFICES ASSUME NEW s \in Sale
             PROVE  LET sold   == status[s] \in {"CONFIRMED", "RETURNED"}
                        refund == IF Account(s) = NoCustomer THEN 0 ELSE Returned(s)
                    IN  /\ owed[s] = IF sold THEN Unpaid(s, Total(s)) - refund ELSE 0
                        /\ \A l \in LinesOf(s, External) :
                             payable[s][l] = IF sold THEN Qty(s, l) - accepted[s][l] ELSE 0
                        /\ status[s] = "RETURNED" <=> sold /\ Returned(s) = Total(s)
                        /\ Returned(s) <= Total(s)
                        /\ \A l \in Line : accepted[s][l] <= back[s][l]
  BY DEF SaleSettled
<1>1. SettledAs(status[s], sale[s], back[s], accepted[s], payable[s], owed[s])
  BY DEF SettleInvariant, Settled
<1>2. /\ Total(s) = TotalOf(sale[s]) /\ Account(s) = AccountOf(sale[s])
      /\ Unpaid(s, Total(s)) = UnpaidOf(sale[s])
      /\ Returned(s) = SumOver(back[s], Line)
      /\ \A l \in LinesOf(s, External) :
            l \in DOMAIN sale[s].items /\ sale[s].items[l].part = External /\ Qty(s, l) = sale[s].items[l].qty
  BY HeaderSays DEF UnpaidOf, LinesOf, PartOf, Qty
<1>3. QED
  BY <1>1, <1>2 DEF SettledAs

\* What came back of a line's part, or of the line when it was bought in.
LEMMA BackSummed ==
    \A s, l : Already(s, l) = IF PartOf(s, l) = External THEN back[s][l]
                              ELSE SumOver(back[s], LinesOf(s, PartOf(s, l)))
BY DEF Already, MapThenSumSet, MapThenFoldSet, SumOver, Summing, Pick

\* A request keeps its sums while it and its sale rest.
LEMMA ComputedKept ==
    ASSUME NEW q \in Req, Computed(q),
           pc'[q] = pc[q], op'[q] = op[q], doc'[q] = doc[q], todo'[q] = todo[q],
           sum'[q] = sum[q], debit'[q] = debit[q], giving'[q] = giving[q],
           pc[q] # "idle" /\ op[q] # "adjust" =>
              sale'[doc[q]] = sale[doc[q]] /\ back'[doc[q]] = back[doc[q]]
    PROVE  Computed(q)'
BY DEF Computed

\* A sale keeps its books while nothing is written of it.
LEMMA SettledKept ==
    ASSUME NEW s \in Sale, Settled(s),
           status'[s] = status[s], sale'[s] = sale[s], back'[s] = back[s],
           accepted'[s] = accepted[s], payable'[s] = payable[s], owed'[s] = owed[s]
    PROVE  Settled(s)'
BY DEF Settled

\* What ends a transaction rests of the others.
LEMMA EndRests ==
    ASSUME SaleInvariant, NEW r \in Req, EndTransaction(r)
    PROVE  /\ pc'[r] = "idle" /\ sum'[r] = 0
           /\ \A q \in Req \ {r} :
                 /\ pc'[q] = pc[q] /\ op'[q] = op[q] /\ doc'[q] = doc[q] /\ todo'[q] = todo[q]
                 /\ sum'[q] = sum[q] /\ debit'[q] = debit[q] /\ giving'[q] = giving[q]
BY DEF EndTransaction, Goto, SaleInvariant, TypeOK

\* A transaction that ends and wrote nothing but its own sale leaves the sums of
\* every request.
LEMMA ComputedAfterEnd ==
    ASSUME SettleInvariant, NEW r \in Req, EndTransaction(r), pc[r] # "idle",
           op[r] = "adjust" => UNCHANGED <<sale, back>>,
           \A s \in Sale : s # doc[r] => sale'[s] = sale[s] /\ back'[s] = back[s]
    PROVE  \A q \in Req : Computed(q)'
<1>0. SaleInvariant /\ \A q \in Req : Computed(q)
  BY DEF SettleInvariant
<1>1. Computed(r)'
  BY <1>0, EndRests DEF Computed
<1>2. ASSUME NEW q \in Req \ {r} PROVE Computed(q)'
  <2>1. pc[q] # "idle" /\ op[q] # "adjust" => sale'[doc[q]] = sale[doc[q]] /\ back'[doc[q]] = back[doc[q]]
    <3>1. CASE op[r] = "adjust"
      BY <3>1
    <3>2. CASE op[r] # "adjust"
      BY <1>0, <3>2, SalesApart
    <3>3. QED
      BY <3>1, <3>2
  <2>2. QED
    BY <1>0, <2>1, EndRests, ComputedKept
<1>3. QED
  BY <1>1, <1>2

\* A transaction that ends and settles its sale.
LEMMA SettledAfterEnd ==
    ASSUME SettleInvariant, NEW r \in Req, EndTransaction(r), pc[r] # "idle", op[r] # "adjust",
           \A s \in Sale : s # doc[r] =>
              /\ status'[s] = status[s] /\ sale'[s] = sale[s] /\ back'[s] = back[s]
              /\ accepted'[s] = accepted[s] /\ payable'[s] = payable[s] /\ owed'[s] = owed[s],
           \A s \in Sale : s = doc[r] => Settled(s)'
    PROVE  (\A s \in Sale : Settled(s)') /\ \A q \in Req : Computed(q)'
<1>1. \A s \in Sale : Settled(s)
  BY DEF SettleInvariant
<1>2. ASSUME NEW s \in Sale, s # doc[r] PROVE Settled(s)'
  BY <1>1, <1>2, SettledKept
<1>3. \A q \in Req : Computed(q)'
  BY ComputedAfterEnd
<1>4. QED
  BY <1>2, <1>3

\* What holds of the sale that a request has locked.
LEMMA AtSale ==
    ASSUME SettleInvariant, NEW r \in Req, pc[r] # "idle", op[r] # "adjust"
    PROVE  /\ doc[r] \in Sale /\ sale[doc[r]] \in Headers /\ Settled(doc[r]) /\ Computed(r)
           /\ Allowed(op[r], doc[r])
           /\ status[doc[r]] \in Status
           /\ back[doc[r]] \in [Line -> Nat] /\ accepted[doc[r]] \in [Line -> Nat]
           /\ payable[doc[r]] \in [Line -> Int] /\ owed[doc[r]] \in Int
           /\ giving[r] \in [Line -> Nat] /\ sum[r] \in Nat
           /\ todo[r] \subseteq DOMAIN sale[doc[r]].items /\ IsFiniteSet(todo[r])
<1>1. TypeOK /\ HoldsSale(r) /\ Computed(r) /\ doc[r] \in Sale
  BY DEF SettleInvariant, SaleInvariant, TypeOK
<1>2. Settled(doc[r])
  BY <1>1 DEF SettleInvariant
<1>3. sale[doc[r]] \in Headers
  BY <1>1 DEF TypeOK
<1>4. todo[r] \subseteq DOMAIN sale[doc[r]].items
  BY <1>1 DEF HoldsSale, Lines
<1>5. IsFiniteSet(todo[r])
  BY <1>3, <1>4, QtyTypes, FS_Subset
<1>6. QED
  BY <1>1, <1>2, <1>3, <1>4, <1>5 DEF HoldsSale, TypeOK

\* A draft, new or edited, has empty books.
LEMMA DraftSettled ==
    ASSUME NEW s \in Sale, Settled(s), status[s] \in {"NONE", "DRAFT"},
           status'[s] \in {"DRAFT", "CANCELLED"}, sale'[s] \in Headers,
           accepted[s] \in [Line -> Nat],
           back'[s] = back[s], accepted'[s] = accepted[s], payable'[s] = payable[s], owed'[s] = owed[s]
    PROVE  Settled(s)'
<1>1. /\ back[s] = NoLines /\ payable[s] = NoLines /\ owed[s] = 0
      /\ \A l \in Line : accepted[s][l] <= back[s][l]
  BY DEF Settled, SettledAs
<1> PICK x \in Headers : x = sale'[s]
  OBVIOUS
<1>2. /\ SumOver(back[s], Line) = 0 /\ TotalOf(x) \in Nat
      /\ DOMAIN x.items \subseteq Line
      /\ \A l \in Line : payable[s][l] = 0 /\ back[s][l] = 0 /\ QtysOf(x)[l] \in Nat
  BY <1>1, NoLinesSum, QtyTypes, TotalFolded
<1>3. SumOver(back[s], Line) <= TotalOf(x) /\ status'[s] \notin {"CONFIRMED", "RETURNED"}
  BY <1>2
<1>4. \A l \in Line : back[s][l] <= QtysOf(x)[l]
  BY <1>2
<1>5. SettledAs(status'[s], x, back[s], accepted[s], payable[s], owed[s])
  BY <1>1, <1>2, <1>3, <1>4 DEF SettledAs
<1>6. QED
  BY <1>5 DEF Settled

\* The books of a sale that is confirmed hold its charge and its external units.
LEMMA ConfirmSettled ==
    ASSUME SettleInvariant, NEW r \in Req, NEW s \in Sale, s = doc[r], CommitConfirm(r)
    PROVE  Settled(s)'
<1> PICK x \in Headers : x = sale[s]
  BY AtSale DEF CommitConfirm, At
<1>1. /\ Settled(s) /\ status[s] = "DRAFT" /\ DOMAIN x.items # {}
      /\ accepted[s] \in [Line -> Nat]
      /\ debit[r] = [customer |-> AccountOf(x), amount |-> UnpaidOf(x)]
  BY AtSale DEF CommitConfirm, At, Allowed, Lines, Computed
<1>2. /\ back[s] = NoLines /\ payable[s] = NoLines /\ owed[s] = 0
      /\ \A l \in Line : accepted[s][l] <= back[s][l]
  BY <1>1 DEF Settled, SettledAs
<1>3. /\ status'[s] = "CONFIRMED" /\ sale' = sale /\ back' = back /\ accepted' = accepted
      /\ owed'[s] = owed[s] + debit[r].amount
      /\ payable'[s] = [l \in Line |-> IF l \in LinesOf(s, External)
                                       THEN payable[s][l] + Qty(s, l) ELSE payable[s][l]]
  BY DEF CommitConfirm, SettleInvariant, SaleInvariant, TypeOK
<1>4. /\ SumOver(back[s], Line) = 0 /\ TotalOf(x) \in Nat /\ TotalOf(x) > 0
      /\ DOMAIN x.items \subseteq Line
      /\ \A l \in DOMAIN x.items : x.items[l].qty \in Nat
      /\ \A l \in Line : payable[s][l] = 0 /\ back[s][l] = 0 /\ accepted[s][l] = 0 /\ QtysOf(x)[l] \in Nat
      /\ x.paid \in Nat
  BY <1>1, <1>2, NoLinesSum, QtyTypes, TotalFolded
<1>5. UnpaidOf(x) \in Nat
  BY <1>4 DEF UnpaidOf
<1>6. owed'[s] = UnpaidOf(x) - (IF AccountOf(x) = NoCustomer THEN 0 ELSE SumOver(back[s], Line))
  BY <1>1, <1>2, <1>3, <1>4, <1>5
<1>7. \A l \in DOMAIN x.items : x.items[l].part = External => payable'[s][l] = x.items[l].qty - accepted[s][l]
  BY <1>3, <1>4 DEF LinesOf, Lines, PartOf, Qty
<1>8. SettledAs("CONFIRMED", x, back[s], accepted[s], payable'[s], owed'[s])
  BY <1>4, <1>6, <1>7 DEF SettledAs
<1>9. QED
  BY <1>3, <1>8 DEF Settled

\* Those of a sale of which something comes back, the refund and what is left.
LEMMA ReturnSettled ==
    ASSUME SettleInvariant, NEW r \in Req, NEW s \in Sale, s = doc[r], CommitReturn(r)
    PROVE  /\ Settled(s)'
           /\ SumOver(back'[s], Line) = SumOver(back[s], Line) + sum[r]
<1> PICK x \in Headers : x = sale[s]
  BY AtSale DEF CommitReturn, At
<1>1. /\ Settled(s) /\ status[s] = "CONFIRMED"
      /\ accepted[s] \in [Line -> Nat] /\ back[s] \in [Line -> Nat]
      /\ giving[r] \in [Line -> Nat] /\ sum[r] \in Nat /\ owed[s] \in Int
      /\ \A l \in Line : back[s][l] + giving[r][l] <= QtysOf(x)[l]
      /\ sum[r] + SumOver(giving[r], {}) = SumOver(giving[r], Line)
  BY AtSale DEF CommitReturn, At, Allowed, Computed
<1>2. /\ owed[s] = UnpaidOf(x) - (IF AccountOf(x) = NoCustomer THEN 0 ELSE SumOver(back[s], Line))
      /\ \A l \in DOMAIN x.items : x.items[l].part = External =>
            payable[s][l] = x.items[l].qty - accepted[s][l]
      /\ \A l \in Line : accepted[s][l] <= back[s][l]
  BY <1>1 DEF Settled, SettledAs
<1>3. /\ status'[s] = IF SumOver(back[s], Line) + sum[r] >= TotalOf(x) THEN "RETURNED" ELSE status[s]
      /\ sale' = sale /\ accepted' = accepted /\ payable' = payable
      /\ owed'[s] = owed[s] - (IF AccountOf(x) = NoCustomer THEN 0 ELSE sum[r])
      /\ back'[s] = [l \in Line |-> back[s][l] + giving[r][l]]
  BY HeaderSays DEF CommitReturn, SettleInvariant, SaleInvariant, TypeOK
<1> DEFINE b == back'[s]
<1>4. \A l \in Line : /\ back[s][l] \in Int /\ giving[r][l] \in Int /\ b[l] \in Int /\ b[l] \in Nat
                      /\ b[l] = back[s][l] + giving[r][l] /\ b[l] <= QtysOf(x)[l]
                      /\ accepted[s][l] <= b[l] /\ QtysOf(x)[l] \in Int
  BY <1>1, <1>2, <1>3, QtyTypes
<1> HIDE DEF b
<1>5. sum[r] = SumOver(giving[r], Line)
  BY <1>1, NoLinesSum
<1>6. SumOver(b, Line) = SumOver(back[s], Line) + sum[r]
  BY <1>4, <1>5, LineAssumption, SumAdds
<1>7. SumOver(b, Line) <= TotalOf(x)
  BY <1>4, LineAssumption, SumMonotone, TotalFolded
<1>8. TotalOf(x) \in Nat /\ SumOver(b, Line) \in Nat /\ SumOver(back[s], Line) \in Nat
  BY <1>1, <1>4, LineAssumption, SumType, TotalFolded
<1>9. status'[s] = "RETURNED" <=> SumOver(b, Line) = TotalOf(x)
  BY <1>1, <1>3, <1>6, <1>7, <1>8
<1>10. status'[s] \in {"CONFIRMED", "RETURNED"}
  BY <1>1, <1>3
<1>11. UnpaidOf(x) \in Int
  BY <1>8, QtyTypes DEF UnpaidOf
<1>12. owed'[s] = UnpaidOf(x) - (IF AccountOf(x) = NoCustomer THEN 0 ELSE SumOver(b, Line))
  BY <1>1, <1>2, <1>3, <1>6, <1>8, <1>11
<1>13. SettledAs(status'[s], x, b, accepted[s], payable[s], owed'[s])
  BY <1>2, <1>4, <1>7, <1>9, <1>10, <1>12 DEF SettledAs
<1>14. QED
  BY <1>3, <1>6, <1>13 DEF Settled, b

\* The supplier accepts no more than came back.
LEMMA AcceptSettled ==
    ASSUME SettleInvariant, NEW r \in Req, NEW s \in Sale, s = doc[r], AcceptSupplierReturn(r)
    PROVE  Settled(s)'
<1> PICK x \in Headers : x = sale[s]
  BY AtSale DEF AcceptSupplierReturn, At
<1>1. /\ Settled(s) /\ payable[s] \in [Line -> Int]
      /\ accepted[s] \in [Line -> Nat] /\ back[s] \in [Line -> Nat]
  BY AtSale DEF AcceptSupplierReturn, At
<1>a. PICK l \in LinesOf(s, External) :
          \E m \in 1 .. back[s][l] - accepted[s][l] :
              /\ accepted' = [accepted EXCEPT ![s][l] = @ + m]
              /\ payable'  = [payable  EXCEPT ![s][l] = @ - m]
  BY DEF AcceptSupplierReturn
<1>2. PICK n \in 1 .. back[s][l] - accepted[s][l] :
          /\ accepted' = [accepted EXCEPT ![s][l] = @ + n]
          /\ payable'  = [payable  EXCEPT ![s][l] = @ - n]
  BY <1>a
<1>3. l \in Line /\ l \in DOMAIN x.items /\ n \in Nat \ {0} /\ n <= back[s][l] - accepted[s][l]
  <2>1. l \in DOMAIN x.items
    BY DEF LinesOf, Lines
  <2>2. l \in Line
    BY <2>1, QtyTypes
  <2>3. QED
    BY <1>1, <2>1, <2>2
<1>4. /\ accepted'[s] = [accepted[s] EXCEPT ![l] = @ + n]
      /\ payable'[s] = [payable[s] EXCEPT ![l] = @ - n]
  BY <1>2 DEF SettleInvariant, SaleInvariant, TypeOK
<1>5. /\ \A k \in Line : accepted'[s][k] = (IF k = l THEN accepted[s][l] + n ELSE accepted[s][k])
                         /\ payable'[s][k] = (IF k = l THEN payable[s][l] - n ELSE payable[s][k])
                         /\ accepted'[s][k] <= back[s][k]
  BY <1>1, <1>3, <1>4 DEF Settled, SettledAs
<1>6. status[s] \in {"CONFIRMED", "RETURNED"}
  <2>1. back[s][l] > 0
    BY <1>1, <1>3
  <2>2. back[s] # NoLines
    BY <1>3, <2>1, NoLinesSum
  <2>3. QED
    BY <1>1, <2>2 DEF Settled, SettledAs
<1>7. \A k \in DOMAIN x.items : x.items[k].part = External =>
          payable'[s][k] = x.items[k].qty - accepted'[s][k]
  <2>1. \A k \in DOMAIN x.items : k \in Line /\ x.items[k].qty \in Nat
    BY QtyTypes
  <2>2. \A k \in DOMAIN x.items : x.items[k].part = External =>
          payable[s][k] = x.items[k].qty - accepted[s][k]
    BY <1>1, <1>6 DEF Settled, SettledAs
  <2>3. QED
    BY <1>1, <1>3, <1>5, <2>1, <2>2
<1>8. SettledAs(status[s], x, back[s], accepted'[s], payable'[s], owed[s])
  BY <1>1, <1>5, <1>6, <1>7 DEF Settled, SettledAs
<1>9. QED
  BY <1>8 DEF Settled, AcceptSupplierReturn, accounts

\* There is no sale at first, and nothing in its books.
LEMMA SettleInit == Init => SettleInvariant
<1> SUFFICES ASSUME Init PROVE SettleInvariant
  OBVIOUS
<1>1. SaleInvariant
  BY InitSaleInvariant
<1>2. ASSUME NEW s \in Sale PROVE Settled(s)
  <2>1. /\ status[s] = "NONE" /\ sale[s] = Blank /\ back[s] = NoLines /\ accepted[s] = NoLines
        /\ payable[s] = NoLines /\ owed[s] = 0
    BY DEF Init
  <2>2. DOMAIN Blank.items = {} /\ Blank \in Headers
    BY DEF Blank, Headers
  <2>3. TotalOf(Blank) \in Nat /\ SumOver(NoLines, Line) = 0
    BY <2>2, TotalFolded, NoLinesSum
  <2>4. \A l \in Line : NoLines[l] <= NoLines[l] /\ NoLines[l] <= QtysOf(Blank)[l]
    BY <2>2, QtyTypes, NoLinesSum
  <2> HIDE DEF Blank, NoLines
  <2>5. QED
    BY <2>1, <2>2, <2>3, <2>4 DEF Settled, SettledAs
<1>3. \A r \in Req : Computed(r)
  BY DEF Init, Computed
<1>4. QED
  BY <1>1, <1>2, <1>3 DEF SettleInvariant

\* Requests that work on nothing else than their own locals leave the books.
LEMMA BooksRest ==
    ASSUME SettleInvariant, UNCHANGED <<status, sale, back, accepted, payable, owed>>
    PROVE  \A s \in Sale : Settled(s)'
BY SettledKept DEF SettleInvariant

\* A step of one request on its locals, under its lock.
LEMMA LocalStep ==
    ASSUME SettleInvariant, UNCHANGED <<status, sale, back, accepted, payable, owed>>,
           NEW r \in Req, Computed(r)',
           \A q \in Req \ {r} :
              /\ pc'[q] = pc[q] /\ op'[q] = op[q] /\ doc'[q] = doc[q] /\ todo'[q] = todo[q]
              /\ sum'[q] = sum[q] /\ debit'[q] = debit[q] /\ giving'[q] = giving[q]
    PROVE  (\A s \in Sale : Settled(s)') /\ \A q \in Req : Computed(q)'
<1>1. \A s \in Sale : Settled(s)'
  BY BooksRest
<1>2. ASSUME NEW q \in Req \ {r} PROVE Computed(q)'
  BY ComputedKept DEF SettleInvariant
<1>3. QED
  BY <1>1, <1>2

\* A confirmation that locks the sale has all its lines to sell.
LEMMA LockComputes ==
    ASSUME SettleInvariant, NEW r \in Req, NEW o \in Ops, NEW s \in Sale, LockSale(r, o, s)
    PROVE  Computed(r)'
<1>1. /\ sum[r] = 0 /\ sale[s] \in Headers
      /\ op'[r] = o /\ doc'[r] = s /\ pc'[r] = "locked" /\ sum'[r] = 0 /\ sale' = sale
      /\ o = "confirm" => todo'[r] = DOMAIN sale[s].items
  BY DEF LockSale, Goto, Lines, SettleInvariant, SaleInvariant, TypeOK, Computed, sales
<1>2. o = "confirm" => sum'[r] + SumOver(QtysOf(sale'[s]), todo'[r]) = TotalOf(sale'[s])
  <2>1. TotalOf(sale[s]) = SumOver(QtysOf(sale[s]), DOMAIN sale[s].items) /\ TotalOf(sale[s]) \in Nat
    BY <1>1, TotalFolded
  <2>2. QED
    BY <1>1, <2>1
<1>3. QED
  BY <1>1, <1>2 DEF Computed

\* A line that is sold goes from what is to sell to the sum.
LEMMA SellComputes ==
    ASSUME SettleInvariant, NEW r \in Req, NEW l \in Line, SellLine(r, l)
    PROVE  Computed(r)'
<1> PICK x \in Headers : x = sale[doc[r]]
  BY AtSale DEF SellLine, At
<1>1. /\ op[r] = "confirm" /\ pc[r] = "locked" /\ l \in todo[r] /\ sum[r] \in Nat
      /\ todo[r] \subseteq DOMAIN x.items /\ IsFiniteSet(todo[r])
      /\ sum[r] + SumOver(QtysOf(x), todo[r]) = TotalOf(x)
  BY AtSale DEF SellLine, At, Computed
<1>2. /\ sale' = sale /\ pc' = pc /\ op' = op /\ doc' = doc
      /\ todo'[r] = todo[r] \ {l} /\ sum'[r] = sum[r] + Qty(doc[r], l)
  BY DEF SellLine, sales, SettleInvariant, SaleInvariant, TypeOK
<1> DEFINE f == QtysOf(x)
<1>3. Qty(doc[r], l) = f[l] /\ f[l] \in Nat /\ \A k \in todo[r] : f[k] \in Int /\ f[k] \in Nat
  BY <1>1, QtyTypes DEF Qty
<1> HIDE DEF f
<1>4. SumOver(f, todo[r]) = f[l] + SumOver(f, todo[r] \ {l}) /\ SumOver(f, todo[r] \ {l}) \in Nat
  <2>1. IsFiniteSet(todo[r] \ {l}) /\ \A k \in todo[r] \ {l} : f[k] \in Nat
    BY <1>1, <1>3, FS_RemoveElement
  <2>2. QED
    BY <1>1, <1>3, <2>1, SumRemove, SumType
<1>5. PICK v, w : v = f[l] /\ w = SumOver(f, todo[r] \ {l})
  OBVIOUS
<1>6. (sum[r] + v) + w = sum[r] + (v + w)
  BY <1>1, <1>3, <1>4, <1>5
<1>7. sum'[r] + SumOver(QtysOf(sale'[doc'[r]]), todo'[r]) = TotalOf(sale'[doc'[r]])
  BY <1>1, <1>2, <1>3, <1>4, <1>5, <1>6 DEF f
<1>8. QED
  BY <1>1, <1>2, <1>7 DEF Computed

\* What was summed when every line is sold is the total, and what is charged is
\* what is left to pay of it.
LEMMA DrawComputes ==
    ASSUME SettleInvariant, NEW r \in Req, DrawInvoice(r)
    PROVE  Computed(r)'
<1> PICK x \in Headers : x = sale[doc[r]]
  BY AtSale DEF DrawInvoice, At
<1>1. /\ op[r] = "confirm" /\ sum[r] \in Nat
      /\ sum[r] + SumOver(QtysOf(x), {}) = TotalOf(x)
  BY AtSale DEF DrawInvoice, At, Computed
<1>2. sum[r] = TotalOf(x)
  BY <1>1, NoLinesSum
<1>3. Unpaid(doc[r], sum[r]) = UnpaidOf(x) /\ Account(doc[r]) = AccountOf(x)
  BY <1>2, HeaderSays DEF UnpaidOf
<1>4. /\ sale' = sale /\ op' = op /\ doc' = doc
      /\ debit'[r] = [customer |-> AccountOf(x), amount |-> UnpaidOf(x)]
      /\ pc'[r] \in {"customer", "commit"}
  BY <1>3 DEF DrawInvoice, Goto, sales, SettleInvariant, SaleInvariant, TypeOK
<1>5. QED
  BY <1>1, <1>4 DEF Computed

\* No line is asked back that has less left than that.
LEMMA ResolveComputes ==
    ASSUME SettleInvariant, NEW r \in Req, ResolveReturn(r)
    PROVE  Computed(r)'
<1> PICK s \in Sale : s = doc[r]
  BY AtSale DEF ResolveReturn, At
<1> PICK x \in Headers : x = sale[s]
  BY AtSale DEF ResolveReturn, At
<1>1. /\ op[r] = "return" /\ pc[r] = "locked" /\ sum[r] = 0
      /\ back[s] \in [Line -> Nat]
      /\ \A l \in Line : back[s][l] <= QtysOf(x)[l]
  BY AtSale DEF ResolveReturn, At, Computed, Settled, SettledAs
<1>2. PICK g \in ReturnItems(s) :
          giving' = [giving EXCEPT ![r] = g] /\ todo' = [todo EXCEPT ![r] = {l \in Line : g[l] > 0}]
  BY DEF ResolveReturn
<1>3. /\ sale' = sale /\ back' = back /\ op' = op /\ doc' = doc /\ sum' = sum /\ pc'[r] = "lines"
      /\ giving'[r] = g /\ todo'[r] = {l \in Line : g[l] > 0}
  BY <1>2 DEF ResolveReturn, Goto, sales, SettleInvariant, SaleInvariant, TypeOK
<1>4. g \in [Line -> Nat] /\ \A l \in Line : g[l] \in Nat /\ g[l] \in Int
  BY AmountAssumption DEF ReturnItems
<1>5. ASSUME NEW l \in Lines(s) PROVE Left(s, l) <= QtysOf(x)[l] - back[s][l] /\ Left(s, l) \in Int
  <2>1. l \in Line /\ Qty(s, l) = QtysOf(x)[l] /\ QtysOf(x)[l] \in Nat
    BY <1>5, QtyTypes DEF Lines, Qty
  <2>2. Already(s, l) >= back[s][l] /\ Already(s, l) \in Nat
    <3>1. CASE PartOf(s, l) = External
      BY <1>1, <2>1, <3>1, BackSummed
    <3>2. CASE PartOf(s, l) # External
      <4> DEFINE L == LinesOf(s, PartOf(s, l))
      <4>1. l \in L /\ L \subseteq Line /\ IsFiniteSet(L)
        <5>1. L \subseteq Line
          BY QtyTypes DEF LinesOf, Lines
        <5>2. QED
          BY <1>5, <5>1, LineAssumption, FS_Subset DEF LinesOf
      <4>2. Already(s, l) = SumOver(back[s], L)
        BY <3>2, BackSummed
      <4> HIDE DEF L
      <4>3. \A k \in L : back[s][k] \in Nat /\ back[s][k] \in Int
        BY <1>1, <4>1
      <4>4. IsFiniteSet(L \ {l}) /\ \A k \in L \ {l} : back[s][k] \in Nat
        BY <4>1, <4>3, FS_RemoveElement
      <4>5. /\ SumOver(back[s], L) = back[s][l] + SumOver(back[s], L \ {l})
            /\ SumOver(back[s], L \ {l}) \in Nat
        BY <4>1, <4>3, <4>4, SumRemove, SumType
      <4>6. PICK v, w : v = back[s][l] /\ w = SumOver(back[s], L \ {l})
        OBVIOUS
      <4>7. v + w >= v /\ v + w \in Nat
        BY <4>1, <4>3, <4>5, <4>6
      <4>8. QED
        BY <4>2, <4>5, <4>6, <4>7
    <3>3. QED
      BY <3>1, <3>2
  <2>3. back[s][l] \in Nat
    BY <1>1, <2>1
  <2>4. QED
    BY <2>1, <2>2, <2>3 DEF Left
<1>6. ASSUME NEW l \in Line PROVE back[s][l] + g[l] <= QtysOf(x)[l]
  <2>1. back[s][l] \in Nat /\ g[l] \in Nat /\ QtysOf(x)[l] \in Nat /\ back[s][l] <= QtysOf(x)[l]
    BY <1>1, <1>4, QtyTypes
  <2>2. g[l] > 0 => l \in Lines(s) /\ g[l] <= Left(s, l)
    BY DEF ReturnItems
  <2>3. CASE g[l] > 0
    <3>1. g[l] <= Left(s, l) /\ Left(s, l) <= QtysOf(x)[l] - back[s][l] /\ Left(s, l) \in Int
      BY <1>5, <2>2, <2>3
    <3>2. QED
      BY <2>1, <3>1
  <2>4. QED
    BY <2>1, <2>3
<1>7. SumOver(g, {l \in Line : g[l] > 0}) = SumOver(g, Line) /\ SumOver(g, Line) \in Nat
  <2> DEFINE S == {l \in Line : g[l] > 0}
  <2>1. S \in SUBSET Line /\ \A l \in Line \ S : g[l] = 0
    BY <1>4
  <2> HIDE DEF S
  <2>2. SumOver(g, Line) = SumOver(g, S) /\ SumOver(g, Line) \in Nat
    BY <1>4, <2>1, LineAssumption, SumWithin, SumType
  <2>3. QED
    BY <2>2 DEF S
<1>8. sum'[r] + SumOver(giving'[r], todo'[r]) = SumOver(giving'[r], Line)
  BY <1>1, <1>3, <1>7
<1>9. \A l \in Line : back'[s][l] + giving'[r][l] <= QtysOf(sale'[s])[l]
  BY <1>3, <1>6
<1>10. QED
  BY <1>1, <1>3, <1>8, <1>9 DEF Computed

\* A line that is taken back goes from what is to take to the sum.
LEMMA TakeComputes ==
    ASSUME SettleInvariant, NEW r \in Req, NEW l \in Line, TakeLine(r, l)
    PROVE  Computed(r)'
<1>1. /\ op[r] = "return" /\ pc[r] = "lines" /\ l \in todo[r] /\ sum[r] \in Nat
      /\ IsFiniteSet(todo[r]) /\ todo[r] \subseteq Line
      /\ giving[r] \in [Line -> Nat]
      /\ \A k \in Line : back[doc[r]][k] + giving[r][k] <= QtysOf(sale[doc[r]])[k]
      /\ sum[r] + SumOver(giving[r], todo[r]) = SumOver(giving[r], Line)
  BY AtSale, QtyTypes DEF TakeLine, At, Computed
<1>2. /\ sale' = sale /\ back' = back /\ pc' = pc /\ op' = op /\ doc' = doc /\ giving' = giving
      /\ todo'[r] = todo[r] \ {l} /\ sum'[r] = sum[r] + giving[r][l]
  BY DEF TakeLine, sales, SettleInvariant, SaleInvariant, TypeOK
<1> PICK f : f = giving[r]
  OBVIOUS
<1>3. f[l] \in Nat /\ \A k \in todo[r] : f[k] \in Int /\ f[k] \in Nat
  BY <1>1
<1>4. SumOver(f, todo[r]) = f[l] + SumOver(f, todo[r] \ {l}) /\ SumOver(f, todo[r] \ {l}) \in Nat
  <2>1. IsFiniteSet(todo[r] \ {l}) /\ \A k \in todo[r] \ {l} : f[k] \in Nat
    BY <1>1, <1>3, FS_RemoveElement
  <2>2. QED
    BY <1>1, <1>3, <2>1, SumRemove, SumType
<1>5. PICK v, w : v = f[l] /\ w = SumOver(f, todo[r] \ {l})
  OBVIOUS
<1>6. (sum[r] + v) + w = sum[r] + (v + w)
  BY <1>1, <1>3, <1>4, <1>5
<1>7. sum'[r] + SumOver(giving'[r], todo'[r]) = SumOver(giving'[r], Line)
  BY <1>1, <1>2, <1>4, <1>5, <1>6
<1>8. QED
  BY <1>1, <1>2, <1>7 DEF Computed

\* Who keeps its locals keeps its sums, if nothing is written of any sale.
LEMMA LocalsRest ==
    ASSUME SettleInvariant, UNCHANGED <<status, sale, back, accepted, payable, owed>>,
           UNCHANGED <<pc, op, doc, todo, sum, debit, giving>>
    PROVE  (\A s \in Sale : Settled(s)') /\ \A q \in Req : Computed(q)'
BY BooksRest, ComputedKept DEF SettleInvariant

\* A sale is inserted.
LEMMA CreateSettles ==
    ASSUME SettleInvariant, NEW r \in Req, NEW s \in Sale, NEW d \in Drafts, CreateSale(r, s, d)
    PROVE  (\A t \in Sale : Settled(t)') /\ \A q \in Req : Computed(q)'
<1>0. /\ SaleInvariant /\ Settled(s) /\ accepted[s] \in [Line -> Nat]
      /\ \A t \in Sale : Settled(t)
      /\ \A q \in Req : Computed(q)
  BY DEF SettleInvariant, SaleInvariant, TypeOK
<1>1. /\ status[s] = "NONE" /\ status'[s] = "DRAFT" /\ sale'[s] = Header(d, d.customer)
      /\ back' = back /\ accepted' = accepted /\ payable' = payable /\ owed' = owed
      /\ UNCHANGED <<pc, op, doc, todo, sum, debit, giving>>
      /\ \A t \in Sale : t # s => status'[t] = status[t] /\ sale'[t] = sale[t]
  BY <1>0 DEF CreateSale, SaleInvariant, TypeOK, accounts, session
<1>2. sale'[s] \in Headers
  <2>1. d.customer \in Customer \cup {NoCustomer}
    BY DraftAssumption
  <2>2. QED
    BY <1>1, <2>1 DEF Headers
<1>3. Settled(s)'
  BY <1>0, <1>1, <1>2, DraftSettled
<1>4. ASSUME NEW t \in Sale, t # s PROVE Settled(t)'
  BY <1>0, <1>1, <1>4, SettledKept
<1>5. ASSUME NEW q \in Req PROVE Computed(q)'
  <2>1. pc[q] # "idle" /\ op[q] # "adjust" => doc[q] \in Sale /\ doc[q] # s
    BY <1>0, <1>1, AtSale DEF Allowed
  <2>2. QED
    BY <1>0, <1>1, <2>1, ComputedKept
<1>6. QED
  BY <1>3, <1>4, <1>5

\* What a commit on a sale leaves of the others.
LEMMA OtherSales ==
    ASSUME SaleInvariant, NEW r \in Req,
           \/ CommitConfirm(r) \/ CommitReturn(r) \/ UpdateSale(r)
           \/ CancelSale(r) \/ AcceptSupplierReturn(r)
    PROVE  /\ EndTransaction(r) /\ pc[r] # "idle" /\ op[r] # "adjust"
           /\ \A s \in Sale : s # doc[r] =>
                 /\ status'[s] = status[s] /\ sale'[s] = sale[s] /\ back'[s] = back[s]
                 /\ accepted'[s] = accepted[s] /\ payable'[s] = payable[s] /\ owed'[s] = owed[s]
<1> USE DEF At, accounts
<1>1. CASE CommitConfirm(r)
  BY <1>1 DEF CommitConfirm, SaleInvariant, TypeOK
<1>2. CASE CommitReturn(r)
  BY <1>2 DEF CommitReturn, SaleInvariant, TypeOK
<1>3. CASE UpdateSale(r)
  BY <1>3 DEF UpdateSale, SaleInvariant, TypeOK
<1>4. CASE CancelSale(r)
  BY <1>4 DEF CancelSale, SaleInvariant, TypeOK
<1>5. CASE AcceptSupplierReturn(r)
  BY <1>5 DEF AcceptSupplierReturn, SaleInvariant, TypeOK
<1>6. QED
  BY <1>1, <1>2, <1>3, <1>4, <1>5

\* A draft that is edited or cancelled.
LEMMA EditSettled ==
    ASSUME SettleInvariant, SaleInvariant', NEW r \in Req, NEW s \in Sale, s = doc[r],
           UpdateSale(r) \/ CancelSale(r)
    PROVE  Settled(s)'
<1>1. sale'[s] \in Headers /\ accepted[s] \in [Line -> Nat] /\ Settled(s)
  BY DEF SettleInvariant, SaleInvariant, TypeOK
<1>2. status[s] = "DRAFT"
  BY AtSale DEF UpdateSale, CancelSale, At, Allowed
<1>3. /\ status'[s] \in {"DRAFT", "CANCELLED"}
      /\ back' = back /\ accepted' = accepted /\ payable' = payable /\ owed' = owed
  BY <1>2 DEF UpdateSale, CancelSale, accounts, SettleInvariant, SaleInvariant, TypeOK
<1>4. QED
  BY <1>1, <1>2, <1>3, DraftSettled

\* Each action leaves every sale settled and every request's sums right.
LEMMA SettleInductive == SettleInvariant /\ [Next]_vars => SettleInvariant'
<1> SUFFICES ASSUME SettleInvariant, [Next]_vars PROVE SettleInvariant'
  OBVIOUS
<1>a. SaleInvariant /\ SaleInvariant'
  BY TypeInductive, HoldInductive DEF SettleInvariant, SaleInvariant
<1> DEFINE Settles == (\A s \in Sale : Settled(s)') /\ \A q \in Req : Computed(q)'
<1> SUFFICES Settles
  BY <1>a DEF SettleInvariant
<1>1. CASE UNCHANGED vars
  BY <1>1, LocalsRest DEF vars, sales, accounts, session
<1>2. ASSUME NEW r \in Req, NEW s \in Sale, NEW d \in Drafts, CreateSale(r, s, d) PROVE Settles
  BY <1>2, CreateSettles
<1>3. ASSUME NEW r \in Req, NEW s \in Sale, NEW o \in Ops, LockSale(r, o, s) PROVE Settles
  <2>1. Computed(r)'
    BY <1>3, LockComputes
  <2>2. /\ UNCHANGED <<status, sale, back, accepted, payable, owed>>
        /\ \A q \in Req \ {r} :
              /\ pc'[q] = pc[q] /\ op'[q] = op[q] /\ doc'[q] = doc[q] /\ todo'[q] = todo[q]
              /\ sum'[q] = sum[q] /\ debit'[q] = debit[q] /\ giving'[q] = giving[q]
    BY <1>3, <1>a DEF LockSale, Goto, sales, accounts, SaleInvariant, TypeOK
  <2>3. QED
    BY <2>1, <2>2, LocalStep
<1>4. ASSUME NEW r \in Req, NEW l \in Line, SellLine(r, l) \/ TakeLine(r, l) PROVE Settles
  <2>1. Computed(r)'
    BY <1>4, SellComputes, TakeComputes
  <2>2. /\ UNCHANGED <<status, sale, back, accepted, payable, owed>>
        /\ \A q \in Req \ {r} :
              /\ pc'[q] = pc[q] /\ op'[q] = op[q] /\ doc'[q] = doc[q] /\ todo'[q] = todo[q]
              /\ sum'[q] = sum[q] /\ debit'[q] = debit[q] /\ giving'[q] = giving[q]
    BY <1>4, <1>a DEF SellLine, TakeLine, sales, accounts, SaleInvariant, TypeOK
  <2>3. QED
    BY <2>1, <2>2, LocalStep
<1>5. ASSUME NEW r \in Req, DrawInvoice(r) PROVE Settles
  <2>1. Computed(r)'
    BY <1>5, DrawComputes
  <2>2. /\ UNCHANGED <<status, sale, back, accepted, payable, owed>>
        /\ \A q \in Req \ {r} :
              /\ pc'[q] = pc[q] /\ op'[q] = op[q] /\ doc'[q] = doc[q] /\ todo'[q] = todo[q]
              /\ sum'[q] = sum[q] /\ debit'[q] = debit[q] /\ giving'[q] = giving[q]
    BY <1>5, <1>a DEF DrawInvoice, Goto, sales, accounts, SaleInvariant, TypeOK
  <2>3. QED
    BY <2>1, <2>2, LocalStep
<1>6. ASSUME NEW r \in Req, LockCustomer(r) \/ CheckLimit(r) PROVE Settles
  <2>1. /\ op[r] = "confirm" /\ pc[r] \in {"customer", "limit"}
        /\ op'[r] = "confirm" /\ pc'[r] \in {"limit", "commit"}
        /\ UNCHANGED <<status, sale, back, accepted, payable, owed>>
        /\ UNCHANGED <<doc, todo, sum, debit, giving>>
        /\ \A q \in Req \ {r} : pc'[q] = pc[q] /\ op'[q] = op[q]
    BY <1>6, <1>a DEF LockCustomer, CheckLimit, At, Goto, sales, accounts, SaleInvariant, TypeOK
  <2>2. Computed(r)
    BY DEF SettleInvariant
  <2>3. Computed(r)'
    BY <2>1, <2>2 DEF Computed
  <2>4. QED
    BY <2>1, <2>3, LocalStep
<1>7. ASSUME NEW r \in Req, ResolveReturn(r) PROVE Settles
  <2>1. Computed(r)'
    BY <1>7, ResolveComputes
  <2>2. /\ UNCHANGED <<status, sale, back, accepted, payable, owed>>
        /\ \A q \in Req \ {r} :
              /\ pc'[q] = pc[q] /\ op'[q] = op[q] /\ doc'[q] = doc[q] /\ todo'[q] = todo[q]
              /\ sum'[q] = sum[q] /\ debit'[q] = debit[q] /\ giving'[q] = giving[q]
    BY <1>7, <1>a DEF ResolveReturn, Goto, sales, accounts, SaleInvariant, TypeOK
  <2>3. QED
    BY <2>1, <2>2, LocalStep
<1>8. ASSUME NEW r \in Req,
             \/ CommitConfirm(r) \/ CommitReturn(r) \/ UpdateSale(r)
             \/ CancelSale(r) \/ AcceptSupplierReturn(r)
      PROVE  Settles
  <2>1. \A s \in Sale : s = doc[r] => Settled(s)'
    BY <1>8, <1>a, ConfirmSettled, ReturnSettled, EditSettled, AcceptSettled
  <2>2. QED
    BY <1>8, <1>a, <2>1, OtherSales, SettledAfterEnd
<1>9. ASSUME NEW r \in Req, NEW c \in Customer, NEW n \in Amounts, RecordCredit(r, c, n) PROVE Settles
  BY <1>9, LocalsRest DEF RecordCredit, sales, session
<1>10. ASSUME NEW r \in Req, NEW c \in Customer, NEW n \in Amounts, CheckAdjustment(r, c, n) PROVE Settles
  <2>1. /\ pc[r] = "idle" /\ pc'[r] = "commit" /\ op'[r] = "adjust" /\ sum'[r] = sum[r]
        /\ UNCHANGED <<status, sale, back, accepted, payable, owed>>
        /\ \A q \in Req \ {r} :
              /\ pc'[q] = pc[q] /\ op'[q] = op[q] /\ doc'[q] = doc[q] /\ todo'[q] = todo[q]
              /\ sum'[q] = sum[q] /\ debit'[q] = debit[q] /\ giving'[q] = giving[q]
    BY <1>10, <1>a DEF CheckAdjustment, Goto, sales, accounts, SaleInvariant, TypeOK
  <2>2. Computed(r)'
    BY <2>1 DEF Computed
  <2>3. QED
    BY <2>1, <2>2, LocalStep
<1>11. ASSUME NEW r \in Req, CommitAdjustment(r) \/ Rollback(r) PROVE Settles
  <2>1. /\ EndTransaction(r) /\ pc[r] # "idle"
        /\ UNCHANGED <<status, sale, back, accepted, payable, owed>>
    BY <1>11 DEF CommitAdjustment, Rollback, At, sales, accounts
  <2>2. QED
    BY <2>1, BooksRest, ComputedAfterEnd
<1>12. QED
  BY <1>1, <1>2, <1>3, <1>4, <1>5, <1>6, <1>7, <1>8, <1>9, <1>10, <1>11 DEF Next, Step

\* Whatever confirmations, returns, edits, cancellations and supplier returns
\* interleave or fail, the ledgers of customer and supplier hold of every sale
\* its charge once, less a refund for each unit that came back, and its external
\* units once, less those the supplier accepted; and no more comes back than was
\* sold (services/sales_service.py, confirm_sale and return_sale).
THEOREM SalesAreSettled == Spec => []SaleSettled
<1>1. Init => SettleInvariant
  BY SettleInit
<1>2. SettleInvariant /\ [Next]_vars => SettleInvariant'
  BY SettleInductive
<1>3. SettleInvariant => SaleSettled
  BY SettledSays
<1>. QED
  BY <1>1, <1>2, <1>3, PTL DEF Spec

-----------------------------------------------------------------------------
(* Requests are serial                                                     *)

\* What the sales' books show, before and after a step that leaves the header
\* and the returns of every sale but one.
LEMMA BooksAt ==
    ASSUME NEW s \in Sale,
           \A t \in Sale : t # s => sale'[t] = sale[t] /\ back'[t] = back[t]
    PROVE  /\ [t \in Sale |-> Account(t)]' =
                 [[t \in Sale |-> Account(t)] EXCEPT ![s] = [t \in Sale |-> Account(t)]'[s]]
           /\ [t \in Sale |-> Total(t)]' =
                 [[t \in Sale |-> Total(t)] EXCEPT ![s] = [t \in Sale |-> Total(t)]'[s]]
           /\ [t \in Sale |-> Returned(t)]' =
                 [[t \in Sale |-> Returned(t)] EXCEPT ![s] = [t \in Sale |-> Returned(t)]'[s]]
<1>1. \A t \in Sale : t # s => /\ Account(t)' = Account(t) /\ Total(t)' = Total(t)
                               /\ Returned(t)' = Returned(t)
  BY HeaderSays, HeaderSaysNext
<1>2. QED
  BY <1>1

\* Those that depend on nothing that was written stay.
LEMMA BooksKept ==
    /\ (\A t \in Sale : sale'[t] = sale[t]) =>
          UNCHANGED <<[t \in Sale |-> Account(t)], [t \in Sale |-> Total(t)]>>
    /\ (\A t \in Sale : back'[t] = back[t]) => UNCHANGED [t \in Sale |-> Returned(t)]
<1>1. \A t : sale'[t] = sale[t] => Account(t)' = Account(t) /\ Total(t)' = Total(t)
  BY HeaderSays, HeaderSaysNext
<1>2. \A t : back'[t] = back[t] => Returned(t)' = Returned(t)
  BY HeaderSays, HeaderSaysNext
<1>3. QED
  BY <1>1, <1>2

\* A step that writes no sale and no account is none of the books.
LEMMA NoBooks ==
    ASSUME UNCHANGED <<status, sale, back, owed, balance>>
    PROVE  UNCHANGED Books!vars
BY BooksKept DEF Books!vars

\* The books start empty.
LEMMA BooksInit == Init => Books!Init
<1> SUFFICES ASSUME Init PROVE Books!Init
  OBVIOUS
<1>1. DOMAIN Blank.items = {} /\ Blank \in Headers /\ AccountOf(Blank) = NoCustomer
  BY DEF Blank, Headers, AccountOf
<1>2. TotalOf(Blank) = 0
  BY <1>1, TotalFolded, NoLinesSum
<1>3. \A s \in Sale : sale[s] = Blank /\ back[s] = NoLines
  BY DEF Init
<1>4. \A s \in Sale : Account(s) = NoCustomer /\ Total(s) = 0 /\ Returned(s) = 0
  BY <1>1, <1>2, <1>3, HeaderSays, NoLinesSum
<1>5. QED
  BY <1>4 DEF Init, Books!Init

\* A draft is written.
LEMMA DraftIsDraft ==
    ASSUME NEW s \in Sale, status[s] \in {"NONE", "DRAFT"},
           status' = [status EXCEPT ![s] = "DRAFT"],
           \A t \in Sale : t # s => sale'[t] = sale[t],
           UNCHANGED <<back, owed, balance>>
    PROVE  Books!Draft(s)
BY BooksAt, BooksKept DEF Books!Draft, Books!Become

\* A confirmation charges what its header leaves to pay, within the limit.
LEMMA ConfirmIsConfirm ==
    ASSUME SettleInvariant, CreditInvariant, NEW r \in Req, CommitConfirm(r)
    PROVE  Books!Confirm(doc[r])
<1> PICK s \in Sale : s = doc[r]
  BY AtSale DEF CommitConfirm, At
<1> PICK x \in Headers : x = sale[s]
  BY AtSale DEF CommitConfirm, At
<1>1. /\ status[s] = "DRAFT" /\ owed[s] \in Int
      /\ debit[r] = [customer |-> AccountOf(x), amount |-> UnpaidOf(x)]
  BY AtSale DEF CommitConfirm, At, Allowed, Computed
<1> PICK n, c : n = UnpaidOf(x) /\ c = AccountOf(x)
  OBVIOUS
<1>2. /\ n \in 0 .. TotalOf(x)
      /\ c = NoCustomer => n = 0
  BY QtyTypes, TotalFolded DEF UnpaidOf
<1>3. n > 0 => balance[c] + n <= Limit[c]
  BY <1>1 DEF CreditInvariant, HoldsCustomer, CommitConfirm, WithinLimit
<1>4. /\ status' = [status EXCEPT ![s] = "CONFIRMED"]
      /\ owed' = [owed EXCEPT ![s] = @ + n] /\ owed'[s] = owed[s] + n
      /\ balance' = IF c = NoCustomer THEN balance ELSE [balance EXCEPT ![c] = @ + n]
      /\ sale' = sale /\ back' = back
  BY <1>1 DEF CommitConfirm, Post, SettleInvariant, SaleInvariant, TypeOK
<1>5. Account(s) = c /\ Total(s) = TotalOf(x)
  BY HeaderSays
<1>6. owed'[s] - owed[s] = n
  BY <1>1, <1>2, <1>4, TotalFolded
<1>7. UNCHANGED <<[t \in Sale |-> Account(t)], [t \in Sale |-> Total(t)], [t \in Sale |-> Returned(t)]>>
  BY <1>4, BooksKept
<1>8. QED
  BY <1>1, <1>2, <1>3, <1>4, <1>5, <1>6, <1>7 DEF Books!Confirm, Books!Become, Books!Book

\* A return takes back what is left at most, and refunds it; or nothing at all.
LEMMA ReturnIsReturn ==
    ASSUME SettleInvariant, NEW r \in Req, CommitReturn(r)
    PROVE  Books!Return(doc[r]) \/ UNCHANGED Books!vars
<1> PICK s \in Sale : s = doc[r]
  BY AtSale DEF CommitReturn, At
<1> PICK x \in Headers : x = sale[s]
  BY AtSale DEF CommitReturn, At
<1>a. SaleInvariant /\ TypeOK
  BY DEF SettleInvariant, SaleInvariant
<1>1. /\ status[s] = "CONFIRMED" /\ sum[r] \in Nat /\ back[s] \in [Line -> Nat] /\ owed[s] \in Int
      /\ SumOver(back[s], Line) # TotalOf(x) /\ SumOver(back[s], Line) <= TotalOf(x)
  BY AtSale DEF CommitReturn, At, Allowed, Settled, SettledAs
<1>2. SettledAs(status'[s], sale'[s], back'[s], accepted'[s], payable'[s], owed'[s])
  BY ReturnSettled DEF Settled
<1> PICK n, b, u, c : n = sum[r] /\ b = SumOver(back[s], Line) /\ u = TotalOf(x) /\ c = AccountOf(x)
  OBVIOUS
<1>3. SumOver(back'[s], Line) = b + n
  BY ReturnSettled
<1>4. b \in Nat /\ u \in Nat /\ n \in Nat /\ b < u
  <2>1. \A l \in Line : back[s][l] \in Nat
    BY <1>1
  <2>2. b \in Nat
    BY <2>1, LineAssumption, SumType
  <2>3. QED
    BY <1>1, <2>2, TotalFolded
<1>5. sale' = sale
  BY DEF CommitReturn
<1>6. b + n <= u
  BY <1>2, <1>3, <1>5 DEF SettledAs
<1>7. /\ Account(s) = c /\ Total(s) = u /\ Returned(s) = b /\ Returned(s)' = b + n
  BY <1>3, HeaderSays, HeaderSaysNext
<1>8. /\ status' = [status EXCEPT ![s] = IF b + n >= u THEN "RETURNED" ELSE @]
      /\ owed' = [owed EXCEPT ![s] = @ - (IF c = NoCustomer THEN 0 ELSE n)]
      /\ balance' = IF c = NoCustomer THEN balance
                    ELSE [balance EXCEPT ![c] = @ + -(IF c = NoCustomer THEN 0 ELSE n)]
      /\ \A t \in Sale : t # s => back'[t] = back[t]
  BY <1>7, <1>a DEF CommitReturn, Post, TypeOK
<1>9. CASE n = 0
  <2>1. status' = status /\ owed' = owed
    BY <1>1, <1>4, <1>8, <1>9, <1>a DEF TypeOK
  <2>2. balance' = balance
    BY <1>8, <1>9, <1>a DEF TypeOK
  <2>3. \A t \in Sale : Returned(t)' = Returned(t)
    BY <1>4, <1>7, <1>8, <1>9, HeaderSays, HeaderSaysNext
  <2>4. QED
    BY <1>5, <2>1, <2>2, <2>3, BooksKept DEF Books!vars
<1>10. CASE n > 0
  <2>1. (b + n) - b = n
    BY <1>4
  <2>2. status' = [status EXCEPT ![s] = IF b + n = u THEN "RETURNED" ELSE "CONFIRMED"]
    <3>1. (IF b + n >= u THEN "RETURNED" ELSE status[s]) = IF b + n = u THEN "RETURNED" ELSE "CONFIRMED"
      BY <1>1, <1>4, <1>6
    <3>2. QED
      BY <1>8, <3>1
  <2>3. [t \in Sale |-> Returned(t)]' = [[t \in Sale |-> Returned(t)] EXCEPT ![s] = @ + n]
    <3>1. \A t \in Sale : Returned(t)' = IF t = s THEN Returned(t) + n ELSE Returned(t)
      BY <1>7, <1>8, HeaderSays, HeaderSaysNext
    <3>2. QED
      BY <3>1
  <2>4. UNCHANGED <<[t \in Sale |-> Account(t)], [t \in Sale |-> Total(t)]>>
    BY <1>5, BooksKept
  <2>5. /\ owed' = [owed EXCEPT ![s] = @ + (IF c = NoCustomer THEN 0 ELSE -n)]
        /\ balance' = IF c = NoCustomer THEN balance
                      ELSE [balance EXCEPT ![c] = @ + (IF c = NoCustomer THEN 0 ELSE -n)]
    <3>1. owed[s] - (IF c = NoCustomer THEN 0 ELSE n) = owed[s] + (IF c = NoCustomer THEN 0 ELSE -n)
      BY <1>1, <1>4
    <3>2. -(IF c = NoCustomer THEN 0 ELSE n) = IF c = NoCustomer THEN 0 ELSE -n
      BY <1>4
    <3>3. QED
      BY <1>8, <3>1, <3>2
  <2>6. QED
    BY <1>1, <1>4, <1>6, <1>7, <1>10, <2>1, <2>2, <2>3, <2>4, <2>5
       DEF Books!Return, Books!Become, Books!Book
<1>11. QED
  BY <1>4, <1>9, <1>10

\* A payment or an adjustment settles the customer's account.
LEMMA PostIsSettle ==
    ASSUME CreditInvariant, NEW c \in Customer, NEW n \in Int, Post(c, n),
           n > 0 => balance[c] + n <= Limit[c],
           UNCHANGED <<status, sale, back, owed>>
    PROVE  Books!Settle(c)
<1>1. /\ balance \in [Customer -> Int] /\ c # NoCustomer
  BY NobodyAssumption DEF CreditInvariant, SaleInvariant, TypeOK
<1>2. balance' = [balance EXCEPT ![c] = @ + n] /\ balance'[c] = balance[c] + n /\ balance[c] \in Int
  BY <1>1 DEF Post
<1>3. balance' = [balance EXCEPT ![c] = balance'[c]]
  BY <1>2
<1>4. balance'[c] > balance[c] => balance'[c] <= Limit[c]
  BY <1>2
<1>5. QED
  BY <1>3, <1>4, BooksKept DEF Books!Settle

\* While adjustments run alone, each step of a request is one of the books or
\* shows nothing of them.
LEMMA StepIsSerial ==
    SettleInvariant /\ CreditInvariant /\ [Next]_vars => [Books!Next]_(Books!vars)
<1> SUFFICES ASSUME SettleInvariant, CreditInvariant, [Next]_vars
             PROVE  Books!Next \/ UNCHANGED Books!vars
  OBVIOUS
<1>a. SaleInvariant /\ TypeOK
  BY DEF SettleInvariant, SaleInvariant
<1>1. CASE UNCHANGED vars
  BY <1>1, NoBooks DEF vars, sales, accounts
<1>2. ASSUME NEW r \in Req, NEW s \in Sale, NEW d \in Drafts, CreateSale(r, s, d)
      PROVE  Books!Next
  <2>1. Books!Draft(s)
    BY <1>2, <1>a, DraftIsDraft DEF CreateSale, accounts, TypeOK
  <2>2. QED
    BY <2>1 DEF Books!Next
<1>3. ASSUME NEW r \in Req, NEW s \in Sale, NEW o \in Ops, LockSale(r, o, s)
      PROVE  UNCHANGED Books!vars
  BY <1>3, NoBooks DEF LockSale, sales, accounts
<1>4. ASSUME NEW r \in Req, NEW l \in Line, SellLine(r, l) \/ TakeLine(r, l)
      PROVE  UNCHANGED Books!vars
  BY <1>4, NoBooks DEF SellLine, TakeLine, sales, accounts
<1>5. ASSUME NEW r \in Req,
             DrawInvoice(r) \/ LockCustomer(r) \/ CheckLimit(r) \/ ResolveReturn(r) \/ Rollback(r)
      PROVE  UNCHANGED Books!vars
  BY <1>5, NoBooks DEF DrawInvoice, LockCustomer, CheckLimit, ResolveReturn, Rollback, sales, accounts
<1>6. ASSUME NEW r \in Req, CommitConfirm(r) PROVE Books!Next
  <2>1. doc[r] \in Sale
    BY <1>6, AtSale DEF CommitConfirm, At
  <2>2. QED
    BY <1>6, <2>1, ConfirmIsConfirm DEF Books!Next
<1>7. ASSUME NEW r \in Req, CommitReturn(r) PROVE Books!Next \/ UNCHANGED Books!vars
  <2>1. doc[r] \in Sale
    BY <1>7, AtSale DEF CommitReturn, At
  <2>2. QED
    BY <1>7, <2>1, ReturnIsReturn DEF Books!Next
<1>8. ASSUME NEW r \in Req, UpdateSale(r) PROVE Books!Next
  <2>1. /\ doc[r] \in Sale /\ status[doc[r]] = "DRAFT"
        /\ UNCHANGED <<status, back, owed, balance>>
        /\ \A t \in Sale : t # doc[r] => sale'[t] = sale[t]
    BY <1>8, <1>a, AtSale DEF UpdateSale, At, Allowed, accounts, TypeOK
  <2>2. status' = [status EXCEPT ![doc[r]] = "DRAFT"]
    BY <1>a, <2>1 DEF TypeOK
  <2>3. Books!Draft(doc[r])
    BY <2>1, <2>2, DraftIsDraft
  <2>4. QED
    BY <2>1, <2>3 DEF Books!Next
<1>9. ASSUME NEW r \in Req, CancelSale(r) PROVE Books!Next
  <2>1. doc[r] \in Sale /\ status[doc[r]] = "DRAFT"
    BY <1>9, AtSale DEF CancelSale, At, Allowed
  <2>2. Books!Cancel(doc[r])
    BY <1>9, <2>1, BooksKept DEF CancelSale, accounts, Books!Cancel, Books!Become
  <2>3. QED
    BY <2>1, <2>2 DEF Books!Next
<1>10. ASSUME NEW r \in Req, AcceptSupplierReturn(r) PROVE UNCHANGED Books!vars
  BY <1>10, NoBooks DEF AcceptSupplierReturn, accounts
<1>11. ASSUME NEW r \in Req, NEW c \in Customer, NEW n \in Amounts, RecordCredit(r, c, n)
       PROVE  Books!Next
  <2>1. -n \in Int /\ ~(-n > 0)
    BY AmountAssumption
  <2>2. Books!Settle(c)
    BY <1>11, <2>1, PostIsSettle DEF RecordCredit, sales
  <2>3. QED
    BY <2>2 DEF Books!Next
<1>12. ASSUME NEW r \in Req, NEW c \in Customer, NEW n \in Amounts, CheckAdjustment(r, c, n)
       PROVE  UNCHANGED Books!vars
  BY <1>12, NoBooks DEF CheckAdjustment, sales, accounts
<1>13. ASSUME NEW r \in Req, CommitAdjustment(r) PROVE Books!Next
  <2>1. /\ debit[r].customer \in Customer /\ debit[r].amount \in Int
        /\ balance[debit[r].customer] + debit[r].amount <= Limit[debit[r].customer]
    BY <1>13, <1>a DEF CommitAdjustment, CreditInvariant, HoldsCustomer, WithinLimit, TypeOK
  <2>2. Books!Settle(debit[r].customer)
    BY <1>13, <2>1, PostIsSettle DEF CommitAdjustment, sales
  <2>3. QED
    BY <2>1, <2>2 DEF Books!Next
<1>14. QED
  BY <1>1, <1>2, <1>3, <1>4, <1>5, <1>6, <1>7, <1>8, <1>9, <1>10, <1>11, <1>12, <1>13
     DEF Next, Step

\* As long as a manual adjustment of a customer does not run beside another debit
\* of that customer, each operation on a sale or an account is one atomic step,
\* although it locks, reads, checks and writes in separate statements: what the
\* requests commit is what SaleAccount allows (services/sales_service.py,
\* services/credit_ledger_service.py).
THEOREM RequestsSerialise == ASSUME AdjustAlone PROVE Spec => RequestsAreSerial
<1>1. Init => CreditInvariant
  BY InitCredit
<1>2. CreditInvariant /\ [Next]_vars => CreditInvariant'
  BY CreditInductive
<1>3. Init => Books!Init /\ SettleInvariant
  BY BooksInit, SettleInit
<1>4. SettleInvariant /\ [Next]_vars => SettleInvariant'
  BY SettleInductive
<1>5. SettleInvariant /\ CreditInvariant /\ [Next]_vars => [Books!Next]_(Books!vars)
  BY StepIsSerial
<1>. QED
  BY <1>1, <1>2, <1>3, <1>4, <1>5, PTL DEF Spec, RequestsAreSerial, Books!Spec

=============================================================================
