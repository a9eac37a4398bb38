-------------------------- MODULE PurchasingProofs --------------------------
(***************************************************************************)
(* Theorems about Purchasing, SupplierAccounts and AuditSessions, for every *)
(* set of requests, orders, lines, suppliers, audits and parts.            *)
(***************************************************************************)
EXTENDS Office, Sequences, SumTheorems

-----------------------------------------------------------------------------
(* Purchasing                                                              *)

\* The units of a note are such a sum.
LEMMA UnitsSummed == \A q : Purchases!Units(q) = SumOver(q, Line)
BY DEF Purchases!Units, Purchases!MapThenSumSet, Purchases!MapThenFoldSet, SumOver, Summing, Pick

\* A quantity for each line of an order.
Amount == [Line -> Nat]

\* The types of the tables.
OrderTables ==
    /\ status \in [Order -> Purchases!Status]
    /\ received \in [Order -> Amount]
    /\ receipts \in [Order -> Amount]
    /\ charged \in [Order -> Nat]
    /\ notices \in [Order -> SUBSET Purchases!Notices]
    /\ raced \subseteq Order

\* The types of the sessions, and what a request at work carries.
OrderSessions ==
    /\ pc \in [Req -> {"idle", "work", "row", "commit", "notify"}]
    /\ op \in [Req -> Purchases!Ops]
    /\ doc \in [Req -> Order \cup {NoOrder}]
    /\ view \in [Req -> [status : Purchases!Status, received : Amount]]
    /\ gained \in [Req -> Amount]
    /\ \A r \in Req :
          /\ pc[r] = "idle" <=> doc[r] = NoOrder
          /\ pc[r] \in {"idle", "notify"} \/ op[r] # "receive" => gained[r] = Purchases!Nothing
          /\ pc[r] = "work" => op[r] = "receive"

\* NeverOverstated, with the sum of the units spelled out.
Stated ==
    \A o \in Order :
        /\ \A l \in Line : received[o][l] <= Ordered[o][l] /\ received[o][l] <= receipts[o][l]
        /\ charged[o] = SumOver(receipts[o], Line)

\* What a receipt computed is within what was ordered and what will be noted.
Covered(r) ==
    pc[r] \in {"work", "row", "commit"} =>
        \A l \in Line : /\ view[r].received[l] <= Ordered[doc[r]][l]
                        /\ view[r].received[l] <= receipts[doc[r]][l] + gained[r][l]

\* A request that has read an order and may still write it.
At(r, o) == doc[r] = o /\ pc[r] # "notify"

\* One request works on the order, and its session is current but for the units
\* it is receiving.
AloneAt(o) ==
    /\ \A q, r \in Req : At(q, o) /\ At(r, o) => q = r
    /\ \A r \in Req : At(r, o) =>
          /\ view[r].status = status[o] /\ Purchases!Allowed(op[r], status[o])
          /\ \A l \in Line : view[r].received[l] = received[o][l] + gained[r][l]
          /\ op[r] = "receive" /\ pc[r] # "work" => gained[r] # Purchases!Nothing

\* What ReceiptsTallied says of an order.
Tallied(o) ==
    /\ received[o] = receipts[o]
    /\ status[o] = "RECEIVED" => receipts[o] = Ordered[o]
    /\ status[o] = "PARTIALLY_RECEIVED" => receipts[o] # Purchases!Nothing /\ receipts[o] # Ordered[o]
    /\ status[o] \in {"NONE", "DRAFT", "APPROVED"} => receipts[o] = Purchases!Nothing

\* What both proofs about orders carry.
OrderInvariant ==
    /\ OrderTables /\ OrderSessions
    /\ Stated
    /\ \A r \in Req : Covered(r)
    /\ \A o \in Order \ raced : AloneAt(o) /\ Tallied(o)

\* A step of the composition is a step of Purchasing, or leaves it alone.
LEMMA PurchaseNext == [Next]_vars => [Purchases!Next]_(Purchases!vars)
BY DEF Next, vars, purchasing, Purchases!vars, Purchases!tables, Purchases!session

\* The request does not move.
OrderSame(q) == UNCHANGED <<pc[q], op[q], doc[q], view[q], gained[q]>>

\* The end of a request leaves the others alone.
LEMMA OrderEnd ==
    ASSUME OrderSessions, NEW r \in Req, Purchases!EndTransaction(r)
    PROVE  /\ OrderSessions' /\ pc'[r] = "idle" /\ doc'[r] = NoOrder
           /\ \A q \in Req \ {r} : OrderSame(q)
           /\ UNCHANGED raced
<1>1. Purchases!NoObject \in [status : Purchases!Status, received : Amount] /\ Purchases!Nothing \in Amount
  BY DEF Purchases!NoObject, Purchases!Nothing, Purchases!Status, Amount
<1>2. QED
  BY <1>1 DEF OrderSessions, Purchases!EndTransaction, Purchases!Goto, OrderSame, Purchases!Ops

\* A request that works on another order leaves what holds of an order alone.
LEMMA OrderUntouched ==
    ASSUME OrderSessions, NEW o \in Order, NEW r \in Req, AloneAt(o), Tallied(o),
           ~At(r, o) \/ ~At(r, o)', ~At(r, o)', \A q \in Req \ {r} : OrderSame(q),
           UNCHANGED <<status[o], received[o], receipts[o]>>
    PROVE  AloneAt(o)' /\ Tallied(o)'
<1>1. \A q \in Req : At(q, o)' => q # r /\ At(q, o) /\ OrderSame(q)
  BY DEF At, OrderSame
<1>2. QED
  BY <1>1 DEF AloneAt, Tallied, OrderSame

\* A new order has no line received.
LEMMA OrderCreated ==
    ASSUME OrderInvariant, NEW r \in Req, NEW o \in Order, Purchases!CreateOrder(r, o)
    PROVE  OrderInvariant'
<1> USE OrderAssumption DEF OrderInvariant
<1>1. /\ status[o] = "NONE" /\ status' = [status EXCEPT ![o] = "DRAFT"]
      /\ UNCHANGED <<received, receipts, charged, notices, raced, view, gained>>
      /\ pc[r] = "idle" /\ doc[r] = NoOrder /\ pc'[r] = "notify" /\ doc'[r] = o
      /\ \A q \in Req \ {r} : OrderSame(q)
  BY DEF Purchases!CreateOrder, Purchases!Goto, OrderTables, OrderSessions, OrderSame
<1>2. OrderTables'
  BY <1>1 DEF OrderTables, Purchases!Status
<1>3. OrderSessions'
  BY DEF Purchases!CreateOrder, Purchases!Goto, OrderSessions, Purchases!Ops
<1>4. Stated'
  BY <1>1 DEF Stated
<1>5. ASSUME NEW q \in Req PROVE Covered(q)'
  BY <1>1 DEF Covered, OrderSame
<1>6. ASSUME NEW s \in Order \ raced PROVE AloneAt(s)' /\ Tallied(s)'
  <2>1. CASE s # o
    BY <1>1, <2>1, OrderUntouched DEF At, OrderTables
  <2>2. CASE s = o
    <3>1. \A q \in Req : ~At(q, s)
      BY <1>1, <2>2 DEF AloneAt, Purchases!Allowed
    <3>2. \A q \in Req : ~At(q, s)'
      BY <1>1, <3>1 DEF At, OrderSame
    <3>3. QED
      BY <1>1, <2>2, <3>2 DEF AloneAt, Tallied, OrderTables
  <2>3. QED
    BY <2>1, <2>2
<1>7. QED
  BY <1>1, <1>2, <1>3, <1>4, <1>5, <1>6

\* A request that ends without writing leaves the order as it was.
LEMMA OrderEnded ==
    ASSUME OrderInvariant, NEW r \in Req, Purchases!EndTransaction(r),
           UNCHANGED <<status, received, receipts, charged, notices>>
    PROVE  OrderInvariant'
<1> USE DEF OrderInvariant
<1>1. /\ OrderSessions' /\ pc'[r] = "idle" /\ doc'[r] = NoOrder
      /\ \A q \in Req \ {r} : OrderSame(q)
      /\ UNCHANGED raced
  BY OrderEnd
<1>2. OrderTables'
  BY <1>1 DEF OrderTables
<1>3. Stated'
  BY DEF Stated
<1>4. ASSUME NEW q \in Req PROVE Covered(q)'
  BY <1>1 DEF Covered, OrderSame
<1>5. ASSUME NEW s \in Order \ raced PROVE AloneAt(s)' /\ Tallied(s)'
  BY <1>1, OrderUntouched, OrderAssumption DEF At
<1>6. QED
  BY <1>1, <1>2, <1>3, <1>4, <1>5

\* The notification of a new order writes no order.
LEMMA OrderNotified ==
    ASSUME OrderInvariant, NEW r \in Req, Purchases!NotifyPendingApproval(r)
    PROVE  OrderInvariant'
<1> USE OrderAssumption DEF OrderInvariant
<1>1. /\ UNCHANGED <<status, received, receipts, charged, raced, view, gained, op>>
      /\ pc[r] = "notify" /\ doc[r] \in Order
      /\ pc' = [pc EXCEPT ![r] = "idle"] /\ doc' = [doc EXCEPT ![r] = NoOrder]
      /\ notices' = [notices EXCEPT ![doc[r]] = @ \cup {"pending_approval"}]
  BY DEF Purchases!NotifyPendingApproval, Purchases!Goto, OrderSessions
<1>2. OrderTables'
  BY <1>1 DEF OrderTables, Purchases!Notices
<1>3. OrderSessions'
  BY <1>1 DEF OrderSessions
<1>4. Stated'
  BY <1>1 DEF Stated
<1>5. /\ \A q \in Req \ {r} : OrderSame(q)
      /\ pc'[r] = "idle" /\ doc'[r] = NoOrder
  BY <1>1 DEF OrderSame, OrderSessions
<1>6. ASSUME NEW q \in Req PROVE Covered(q)'
  BY <1>1, <1>5 DEF Covered, OrderSame
<1>7. ASSUME NEW s \in Order \ raced PROVE AloneAt(s)' /\ Tallied(s)'
  BY <1>1, <1>5, OrderUntouched DEF At
<1>8. QED
  BY <1>1, <1>2, <1>3, <1>4, <1>6, <1>7

\* A request that reads an order has what is committed, and is alone on it
\* unless the order is raced.
LEMMA OrderRead ==
    ASSUME OrderInvariant, NEW r \in Req, NEW o \in Order, NEW c \in Purchases!Ops,
           NEW next \in {"work", "row"}, next = "work" <=> c = "receive",
           Purchases!GetOrder(r, o, c), Purchases!Goto(r, next)
    PROVE  OrderInvariant'
<1> USE OrderAssumption DEF OrderInvariant
<1>1. /\ UNCHANGED <<status, received, receipts, charged, notices, gained>>
      /\ pc[r] = "idle" /\ doc[r] = NoOrder /\ gained[r] = Purchases!Nothing
      /\ Purchases!Allowed(c, status[o])
      /\ pc' = [pc EXCEPT ![r] = next] /\ doc' = [doc EXCEPT ![r] = o] /\ op' = [op EXCEPT ![r] = c]
      /\ view' = [view EXCEPT ![r] = [status |-> status[o], received |-> received[o]]]
      /\ raced \subseteq raced' /\ raced' \subseteq Order
      /\ o \notin raced' => \A q \in Req \ {r} : ~At(q, o)
  BY DEF Purchases!GetOrder, Purchases!Goto, OrderSessions, OrderTables, Purchases!tables, At, Purchases!Others
<1>2. OrderTables'
  BY <1>1 DEF OrderTables
<1>3. [status |-> status[o], received |-> received[o]] \in [status : Purchases!Status, received : Amount]
  BY DEF OrderTables
<1>4. OrderSessions'
  BY <1>1, <1>3 DEF OrderSessions
<1>5. /\ \A q \in Req \ {r} : OrderSame(q)
      /\ pc'[r] = next /\ doc'[r] = o /\ op'[r] = c /\ gained'[r] = Purchases!Nothing
      /\ view'[r].status = status[o] /\ view'[r].received = received[o]
  BY <1>1 DEF OrderSessions, OrderSame
<1>6. Stated'
  BY <1>1 DEF Stated
<1>7. \A l \in Line : /\ received[o][l] \in Nat /\ receipts[o][l] \in Nat /\ Purchases!Nothing[l] = 0
                      /\ received[o][l] <= Ordered[o][l] /\ received[o][l] <= receipts[o][l]
  BY DEF Stated, OrderTables, Amount, Purchases!Nothing
<1>8. ASSUME NEW q \in Req PROVE Covered(q)'
  <2>1. CASE q = r
    BY <1>1, <1>5, <1>7, <2>1 DEF Covered
  <2>2. CASE q # r
    BY <1>1, <1>5, <2>2 DEF Covered, OrderSame
  <2>3. QED
    BY <2>1, <2>2
<1>9. ASSUME NEW s \in Order \ raced' PROVE AloneAt(s)' /\ Tallied(s)'
  <2>1. CASE s # o
    BY <1>1, <1>5, <2>1, OrderUntouched DEF At
  <2>2. CASE s = o
    <3>1. \A q \in Req : At(q, s)' => q = r
      BY <1>1, <1>5, <2>2 DEF At, OrderSame
    <3>2. AloneAt(s)'
      BY <1>1, <1>5, <1>7, <2>2, <3>1 DEF AloneAt
    <3>3. QED
      BY <1>1, <3>2 DEF Tallied
  <2>3. QED
    BY <2>1, <2>2
<1>10. QED
  BY <1>2, <1>4, <1>6, <1>8, <1>9

\* A line of the note stays within what remained of the line.
LEMMA LineReceived ==
    ASSUME OrderInvariant, NEW r \in Req, NEW l \in Line, Purchases!ReceiveLine(r, l)
    PROVE  OrderInvariant'
<1> USE OrderAssumption DEF OrderInvariant
<1>1. /\ pc[r] = "work" /\ op[r] = "receive" /\ doc[r] \in Order
      /\ UNCHANGED <<status, received, receipts, charged, notices, raced, pc, op, doc>>
  BY DEF Purchases!ReceiveLine, Purchases!tables, OrderSessions
<1>2. PICK n \in Purchases!Receivable(r, l) :
         /\ gained' = [gained EXCEPT ![r][l] = @ + n]
         /\ view'   = [view EXCEPT ![r].received[l] = @ + n]
  BY DEF Purchases!ReceiveLine
<1>3. /\ gained[r] \in Amount /\ view[r].received \in Amount /\ view[r].status \in Purchases!Status
      /\ Ordered[doc[r]] \in Amount
  BY <1>1 DEF OrderSessions, Amount
<1>4. n \in Nat /\ n > 0 /\ view[r].received[l] + n <= Ordered[doc[r]][l]
  BY <1>2, <1>3 DEF Purchases!Receivable, Purchases!Remaining, Amount
<1>5. /\ \A q \in Req \ {r} : OrderSame(q)
      /\ gained'[r] \in Amount /\ view'[r] \in [status : Purchases!Status, received : Amount]
      /\ view'[r].status = view[r].status
      /\ gained'[r] = [gained[r] EXCEPT ![l] = @ + n]
      /\ view'[r].received = [view[r].received EXCEPT ![l] = view[r].received[l] + n]
  <2>1. gained'[r] = [gained[r] EXCEPT ![l] = @ + n]
    BY <1>2 DEF OrderSessions
  <2>2. view'[r] = [view[r] EXCEPT !.received = [view[r].received EXCEPT ![l] = view[r].received[l] + n]]
    BY <1>2 DEF OrderSessions
  <2>3. view[r] \in [status : Purchases!Status, received : Amount]
    BY DEF OrderSessions
  <2>4. [view[r].received EXCEPT ![l] = view[r].received[l] + n] \in Amount /\ [gained[r] EXCEPT ![l] = @ + n] \in Amount
    BY <1>3, <1>4 DEF Amount
  <2>5. \A q \in Req \ {r} : OrderSame(q)
    BY <1>1, <1>2 DEF OrderSessions, OrderSame
  <2>6. QED
    BY <2>1, <2>2, <2>3, <2>4, <2>5
<1>6. OrderTables' /\ Stated'
  BY <1>1 DEF OrderTables, Stated
<1>7. OrderSessions'
  <2>1. gained' \in [Req -> Amount]
    BY <1>2, <1>5 DEF OrderSessions, OrderSame
  <2>2. view' \in [Req -> [status : Purchases!Status, received : Amount]]
    BY <1>2, <1>5 DEF OrderSessions, OrderSame
  <2>3. QED
    BY <1>1, <1>5, <2>1, <2>2 DEF OrderSessions, OrderSame
<1>8. \A m \in Line : /\ view'[r].received[m] = view[r].received[m] + (IF m = l THEN n ELSE 0)
                      /\ gained'[r][m] = gained[r][m] + (IF m = l THEN n ELSE 0)
  BY <1>3, <1>4, <1>5 DEF Amount
<1>9. ASSUME NEW q \in Req PROVE Covered(q)'
  <2>1. CASE q = r
    <3>1. receipts[doc[r]] \in Amount
      BY <1>1 DEF OrderTables
    <3>2. \A m \in Line : /\ view[r].received[m] <= Ordered[doc[r]][m]
                          /\ view[r].received[m] <= receipts[doc[r]][m] + gained[r][m]
      BY <1>1 DEF Covered
    <3>3. ASSUME NEW m \in Line
          PROVE  /\ view'[r].received[m] <= Ordered[doc[r]][m]
                 /\ view'[r].received[m] <= receipts[doc[r]][m] + gained'[r][m]
      BY <1>3, <1>4, <1>8, <3>1, <3>2 DEF Amount
    <3>4. QED
      BY <1>1, <2>1, <3>3 DEF Covered
  <2>2. CASE q # r
    BY <1>1, <1>5, <2>2 DEF Covered, OrderSame
  <2>3. QED
    BY <2>1, <2>2
<1>10. ASSUME NEW s \in Order \ raced PROVE AloneAt(s)' /\ Tallied(s)'
  <2>1. CASE s # doc[r]
    BY <1>1, <1>5, <2>1, OrderUntouched DEF At
  <2>2. CASE s = doc[r]
    <3>1. \A q \in Req : At(q, s)' => q = r
      BY <1>1, <2>2 DEF AloneAt, At
    <3>2. /\ view[r].status = status[s] /\ Purchases!Allowed(op[r], status[s])
          /\ \A m \in Line : view[r].received[m] = received[s][m] + gained[r][m]
      BY <1>1, <2>2 DEF AloneAt, At
    <3>3. received[s] \in Amount
      BY DEF OrderTables
    <3>4. \A m \in Line : view'[r].received[m] = received[s][m] + gained'[r][m]
      BY <1>3, <1>4, <1>8, <3>2, <3>3 DEF Amount
    <3>5. AloneAt(s)'
      BY <1>1, <1>5, <3>1, <3>2, <3>4 DEF AloneAt
    <3>6. QED
      BY <1>1, <3>5 DEF Tallied
  <2>3. QED
    BY <2>1, <2>2
<1>11. QED
  BY <1>1, <1>6, <1>7, <1>9, <1>10

\* From the lines to the order and on to the commit, only pc changes.
LEMMA OrderMoves ==
    ASSUME OrderInvariant, NEW r \in Req, NEW next \in {"row", "commit"},
           pc[r] \in {"work", "row"}, pc' = [pc EXCEPT ![r] = next],
           pc[r] = "work" => gained[r] # Purchases!Nothing,
           UNCHANGED <<status, received, receipts, charged, notices, op, doc, view, gained, raced>>
    PROVE  OrderInvariant'
<1> USE DEF OrderInvariant
<1>1. OrderTables' /\ Stated'
  BY DEF OrderTables, Stated
<1>2. OrderSessions'
  BY DEF OrderSessions
<1>3. \A q \in Req : pc'[q] = pc[q] \/ (q = r /\ pc'[q] = next)
  BY DEF OrderSessions
<1>4. ASSUME NEW q \in Req PROVE Covered(q)'
  BY <1>3 DEF Covered
<1>5. ASSUME NEW s \in Order \ raced PROVE AloneAt(s)' /\ Tallied(s)'
  <2>1. \A q \in Req : At(q, s)' <=> At(q, s)
    BY <1>3 DEF At
  <2>2. QED
    BY <1>3, <2>1 DEF AloneAt, Tallied
<1>6. QED
  BY <1>1, <1>2, <1>4, <1>5

\* The status that each operation writes.
LEMMA NewStatusType ==
    ASSUME NEW r \in Req
    PROVE  /\ Purchases!NewStatus(r) \in Purchases!Status
           /\ op[r] = "approve" => Purchases!NewStatus(r) = "APPROVED"
           /\ op[r] = "cancel" => Purchases!NewStatus(r) = "CANCELLED"
           /\ op[r] = "receive" =>
                 Purchases!NewStatus(r) = IF \A l \in Line : view[r].received[l] >= Ordered[doc[r]][l]
                                          THEN "RECEIVED" ELSE "PARTIALLY_RECEIVED"
BY DEF Purchases!NewStatus, Purchases!StatusAfterReceipt, Purchases!Status

\* An approval, a cancellation: only the status is written.
LEMMA StatusCommitted ==
    ASSUME OrderInvariant, NEW r \in Req, pc[r] = "commit", op[r] \in {"approve", "cancel"},
           Purchases!WriteStatus(r), Purchases!EndTransaction(r),
           UNCHANGED <<received, receipts, charged, notices>>
    PROVE  OrderInvariant'
<1> USE OrderAssumption DEF OrderInvariant
<1> DEFINE o == doc[r]
<1>1. /\ OrderSessions' /\ pc'[r] = "idle" /\ doc'[r] = NoOrder
      /\ \A q \in Req \ {r} : OrderSame(q)
      /\ UNCHANGED raced
  BY OrderEnd
<1>2. o \in Order /\ At(r, o)
  BY DEF OrderSessions, At
<1>3. /\ status' \in [Order -> Purchases!Status]
      /\ \A s \in Order \ {o} : status'[s] = status[s]
      /\ view[r].status = status[o] => status'[o] = Purchases!NewStatus(r)
  BY <1>2, NewStatusType DEF Purchases!WriteStatus, Purchases!Overwrites, OrderTables
<1>4. OrderTables' /\ Stated'
  BY <1>1, <1>3 DEF OrderTables, Stated
<1>5. ASSUME NEW q \in Req PROVE Covered(q)'
  BY <1>1 DEF Covered, OrderSame
<1>6. ASSUME NEW s \in Order \ raced PROVE AloneAt(s)' /\ Tallied(s)'
  <2>1. CASE s # o
    BY <1>1, <1>3, <2>1, OrderUntouched DEF At
  <2>2. CASE s = o
    <3>1. \A q \in Req : ~At(q, s)'
      BY <1>1, <1>2, <2>2 DEF AloneAt, At, OrderSame
    <3>2. view[r].status = status[s] /\ Purchases!Allowed(op[r], status[s])
      BY <1>2, <2>2 DEF AloneAt
    <3>3. status'[s] = IF op[r] = "approve" THEN "APPROVED" ELSE "CANCELLED"
      BY <1>3, <2>2, <3>2, NewStatusType
    <3>4. op[r] = "approve" => status[s] = "DRAFT"
      BY <3>2 DEF Purchases!Allowed
    <3>5. Tallied(s)'
      BY <3>3, <3>4 DEF Tallied
    <3>6. QED
      BY <3>1, <3>5 DEF AloneAt
  <2>3. QED
    BY <2>1, <2>2
<1>7. QED
  BY <1>1, <1>4, <1>5, <1>6

\* A receipt that commits writes lines, note and charge that agree.
LEMMA ReceiptCommitted ==
    ASSUME OrderInvariant, NEW r \in Req, Purchases!CommitReceipt(r)
    PROVE  OrderInvariant'
<1> USE OrderAssumption DEF OrderInvariant
<1> DEFINE o == doc[r]
<1>1. /\ OrderSessions' /\ pc'[r] = "idle" /\ doc'[r] = NoOrder
      /\ \A q \in Req \ {r} : OrderSame(q)
      /\ UNCHANGED raced
  BY OrderEnd DEF Purchases!CommitReceipt
<1>2. o \in Order /\ At(r, o) /\ pc[r] = "commit" /\ op[r] = "receive"
  BY DEF OrderSessions, At, Purchases!CommitReceipt
<1>3. /\ status' \in [Order -> Purchases!Status]
      /\ \A s \in Order \ {o} : status'[s] = status[s]
      /\ view[r].status = status[o] => status'[o] = Purchases!NewStatus(r)
  BY <1>2, NewStatusType DEF Purchases!CommitReceipt, Purchases!WriteStatus, Purchases!Overwrites, OrderTables
<1>4. /\ gained[r] \in Amount /\ view[r].received \in Amount /\ Ordered[o] \in Amount
      /\ received[o] \in Amount /\ receipts[o] \in Amount /\ charged[o] \in Nat
  BY <1>2 DEF OrderSessions, OrderTables, Amount
<1>5. /\ received' = [received EXCEPT ![o] =
             [l \in Line |-> IF gained[r][l] > 0 THEN view[r].received[l] ELSE received[o][l]]]
      /\ receipts' = [receipts EXCEPT ![o] = [l \in Line |-> receipts[o][l] + gained[r][l]]]
      /\ charged' = [charged EXCEPT ![o] = charged[o] + Purchases!Units(gained[r])]
      /\ notices' = [notices EXCEPT ![o] = notices[o] \cup Purchases!NoticesOf(r)]
  BY <1>2 DEF Purchases!CommitReceipt, Purchases!WriteLines, Purchases!WriteNote, Purchases!ChargeSupplier
<1>6. /\ received' \in [Order -> Amount] /\ receipts' \in [Order -> Amount]
      /\ \A s \in Order \ {o} : received'[s] = received[s] /\ receipts'[s] = receipts[s]
      /\ \A l \in Line :
            /\ received'[o][l] = IF gained[r][l] > 0 THEN view[r].received[l] ELSE received[o][l]
            /\ receipts'[o][l] = receipts[o][l] + gained[r][l]
  <2>1. /\ [l \in Line |-> IF gained[r][l] > 0 THEN view[r].received[l] ELSE received[o][l]] \in Amount
        /\ [l \in Line |-> receipts[o][l] + gained[r][l]] \in Amount
    BY <1>4 DEF Amount
  <2>2. QED
    BY <1>2, <1>5, <2>1 DEF OrderTables
<1>7. SumOver(gained[r], Line) \in Nat /\ SumOver(receipts'[o], Line) = SumOver(receipts[o], Line) + SumOver(gained[r], Line)
  <2>1. PICK p, q, k : p = receipts[o] /\ q = gained[r] /\ k = receipts'[o]
    OBVIOUS
  <2>2. \A l \in Line : p[l] \in Int /\ q[l] \in Nat /\ k[l] = p[l] + q[l]
    BY <1>4, <1>6, <2>1 DEF Amount
  <2>3. SumOver(q, Line) \in Nat /\ SumOver(k, Line) = SumOver(p, Line) + SumOver(q, Line)
    BY ONLY <2>2, SumAdds, SumType, LineAssumption
  <2>4. QED
    BY <2>1, <2>3
<1>8. /\ charged' \in [Order -> Nat]
      /\ charged'[o] = charged[o] + SumOver(gained[r], Line)
      /\ \A s \in Order \ {o} : charged'[s] = charged[s]
  BY <1>2, <1>4, <1>5, <1>7, UnitsSummed DEF OrderTables
<1>9. notices' \in [Order -> SUBSET Purchases!Notices]
  BY <1>2, <1>5 DEF OrderTables, Purchases!NoticesOf, Purchases!Notices
<1>10. OrderTables'
  BY <1>1, <1>3, <1>6, <1>8, <1>9 DEF OrderTables
<1>11. \A l \in Line : /\ view[r].received[l] <= Ordered[o][l]
                       /\ view[r].received[l] <= receipts[o][l] + gained[r][l]
                       /\ received[o][l] <= Ordered[o][l] /\ received[o][l] <= receipts[o][l]
  BY <1>2 DEF Covered, Stated
<1>12. Stated'
  <2>1. ASSUME NEW l \in Line
        PROVE  received'[o][l] <= Ordered[o][l] /\ received'[o][l] <= receipts'[o][l]
    BY <1>4, <1>6, <1>11 DEF Amount
  <2>2. charged'[o] = SumOver(receipts'[o], Line)
    BY <1>2, <1>7, <1>8 DEF Stated
  <2>3. QED
    BY <1>6, <1>8, <2>1, <2>2 DEF Stated
<1>13. ASSUME NEW q \in Req PROVE Covered(q)'
  <2>1. CASE q = r
    BY <1>1, <2>1 DEF Covered
  <2>2. ASSUME q # r, pc[q] \in {"work", "row", "commit"}, NEW l \in Line
        PROVE  /\ view[q].received[l] <= Ordered[doc[q]][l]
               /\ view[q].received[l] <= receipts'[doc[q]][l] + gained[q][l]
    <3>1. doc[q] \in Order /\ gained[q] \in Amount /\ view[q].received \in Amount /\ receipts[doc[q]] \in Amount
      BY <2>2 DEF OrderSessions, OrderTables
    <3>2. receipts'[doc[q]][l] \in Nat /\ receipts[doc[q]][l] <= receipts'[doc[q]][l]
      BY <1>4, <1>6, <3>1 DEF Amount
    <3>3. /\ view[q].received[l] <= Ordered[doc[q]][l]
          /\ view[q].received[l] <= receipts[doc[q]][l] + gained[q][l]
      BY <2>2 DEF Covered
    <3>4. QED
      BY <3>1, <3>2, <3>3 DEF Amount
  <2>3. QED
    BY <1>1, <2>1, <2>2 DEF Covered, OrderSame
<1>14. ASSUME NEW s \in Order \ raced PROVE AloneAt(s)' /\ Tallied(s)'
  <2>1. CASE s # o
    BY <1>1, <1>3, <1>6, <2>1, OrderUntouched DEF At
  <2>2. CASE s = o
    <3>1. \A q \in Req : ~At(q, s)'
      BY <1>1, <1>2, <2>2 DEF AloneAt, At, OrderSame
    <3>2. /\ view[r].status = status[s] /\ gained[r] # Purchases!Nothing
          /\ \A l \in Line : view[r].received[l] = received[s][l] + gained[r][l]
      BY <1>2, <2>2 DEF AloneAt
    <3>3. received[s] = receipts[s]
      BY DEF Tallied
    <3>4. \A l \in Line : received'[s][l] = receipts'[s][l] /\ receipts'[s][l] = view[r].received[l]
      BY <1>4, <1>6, <2>2, <3>2, <3>3 DEF Amount
    <3>5. received'[s] = receipts'[s] /\ receipts'[s] = view[r].received
      BY <1>4, <1>6, <2>2, <3>4 DEF Amount
    <3>6. view[r].received # Purchases!Nothing
      <4>1. PICK l \in Line : gained[r][l] > 0
        BY <1>4, <3>2 DEF Amount, Purchases!Nothing
      <4>2. view[r].received[l] > 0
        BY <1>4, <2>2, <3>2, <4>1 DEF Amount
      <4>3. QED
        BY <4>2 DEF Purchases!Nothing
    <3>7. status'[s] = IF \A l \in Line : view[r].received[l] >= Ordered[s][l]
                       THEN "RECEIVED" ELSE "PARTIALLY_RECEIVED"
      BY <1>2, <1>3, <2>2, <3>2, NewStatusType
    <3>8. (\A l \in Line : view[r].received[l] >= Ordered[s][l]) <=> view[r].received = Ordered[s]
      <4>1. ASSUME NEW l \in Line
            PROVE  view[r].received[l] >= Ordered[s][l] <=> view[r].received[l] = Ordered[s][l]
        <5>1. PICK a, b : a = view[r].received[l] /\ b = Ordered[s][l]
          OBVIOUS
        <5>2. a \in Nat /\ b \in Nat /\ a <= b
          BY <1>4, <1>11, <2>2, <5>1 DEF Amount
        <5>3. a >= b <=> a = b
          BY ONLY <5>2
        <5>4. QED
          BY ONLY <5>1, <5>3
      <4>2. (\A l \in Line : view[r].received[l] = Ordered[s][l]) <=> view[r].received = Ordered[s]
        BY <1>4, <2>2 DEF Amount
      <4>3. QED
        BY <4>1, <4>2
    <3>9. Tallied(s)'
      BY <3>5, <3>6, <3>7, <3>8 DEF Tallied
    <3>10. QED
      BY <3>1, <3>9 DEF AloneAt
  <2>3. QED
    BY <2>1, <2>2
<1>15. QED
  BY <1>1, <1>10, <1>12, <1>13, <1>14

\* A behaviour starts with no order.
LEMMA OrderInit == Purchases!Init => OrderInvariant
<1> SUFFICES ASSUME Purchases!Init PROVE OrderInvariant
  OBVIOUS
<1> USE OrderAssumption
<1>1. Purchases!NoObject \in [status : Purchases!Status, received : Amount] /\ Purchases!Nothing \in Amount
  BY DEF Purchases!NoObject, Purchases!Nothing, Purchases!Status, Amount
<1>2. OrderTables /\ OrderSessions
  BY <1>1 DEF Purchases!Init, OrderTables, OrderSessions, Purchases!Status, Purchases!Ops
<1>3. SumOver(Purchases!Nothing, Line) = 0
  BY SumType, LineAssumption DEF Purchases!Nothing
<1>4. Stated
  BY <1>3 DEF Purchases!Init, Stated, Purchases!Nothing
<1>5. (\A r \in Req : Covered(r)) /\ \A o \in Order \ raced : AloneAt(o) /\ Tallied(o)
  BY DEF Purchases!Init, Covered, AloneAt, Tallied, At
<1>6. QED
  BY <1>2, <1>4, <1>5 DEF OrderInvariant

\* Every step of Purchasing keeps the invariant.
LEMMA OrderStep ==
    ASSUME OrderInvariant, [Purchases!Next]_(Purchases!vars)
    PROVE  OrderInvariant'
<1>1. CASE UNCHANGED Purchases!vars
  BY <1>1 DEF Purchases!vars, Purchases!tables, Purchases!session, OrderInvariant, OrderTables,
     OrderSessions, Stated, Covered, AloneAt, Tallied, At
<1>2. ASSUME NEW r \in Req, NEW o \in Order,
             Purchases!BeginApprove(r, o) \/ Purchases!BeginReceive(r, o) \/ Purchases!BeginCancel(r, o)
      PROVE  OrderInvariant'
  BY <1>2, OrderRead DEF Purchases!BeginApprove, Purchases!BeginReceive, Purchases!BeginCancel, Purchases!Ops
<1>3. ASSUME NEW r \in Req, Purchases!EndLines(r) PROVE OrderInvariant'
  BY <1>3, OrderMoves DEF Purchases!EndLines, Purchases!Goto, Purchases!tables
<1>4. ASSUME NEW r \in Req, Purchases!UpdateOrder(r) PROVE OrderInvariant'
  BY <1>4, OrderMoves DEF Purchases!UpdateOrder, Purchases!Goto, Purchases!tables
<1>5. ASSUME NEW r \in Req, Purchases!CommitApproval(r) \/ Purchases!CommitCancel(r) PROVE OrderInvariant'
  BY <1>5, StatusCommitted DEF Purchases!CommitApproval, Purchases!CommitCancel
<1>6. ASSUME NEW r \in Req, Purchases!Rollback(r) PROVE OrderInvariant'
  BY <1>6, OrderEnded DEF Purchases!Rollback, Purchases!tables
<1>7. QED
  BY <1>1, <1>2, <1>3, <1>4, <1>5, <1>6, OrderCreated, OrderNotified, LineReceived, ReceiptCommitted
  DEF Purchases!Next

\* The invariant says what NeverOverstated says.
LEMMA OrderStates == OrderInvariant => Purchases!NeverOverstated
BY UnitsSummed DEF OrderInvariant, Stated, Purchases!NeverOverstated

\* The invariant says what ReceiptsTallied says.
LEMMA OrderTallies == OrderInvariant => Purchases!ReceiptsTallied
BY DEF OrderInvariant, Tallied, Purchases!ReceiptsTallied

\* The invariant has the types.
LEMMA OrderTypes == OrderInvariant => Purchases!TypeOK
BY DEF OrderInvariant, OrderTables, OrderSessions, Amount, Purchases!TypeOK

\* However receipts of one order race, with any number of requests and lines: a
\* line claims no more than was ordered nor than its notes say, and the supplier is
\* charged for what the notes say (NeverOverstated).
THEOREM ReceiptsNotOverstated == Spec => []NeverOverstated
<1>1. Init => OrderInvariant
  BY OrderInit DEF Init
<1>2. OrderInvariant /\ [Next]_vars => OrderInvariant'
  BY OrderStep, PurchaseNext
<1>3. OrderInvariant => NeverOverstated
  BY OrderStates DEF NeverOverstated
<1>4. QED
  BY <1>1, <1>2, <1>3, PTL DEF Spec

\* On an order that no two requests worked on at a time, lines, notes and status
\* agree (ReceiptsTallied).
THEOREM OrdersTallied == Spec => []ReceiptsTallied
<1>1. Init => OrderInvariant
  BY OrderInit DEF Init
<1>2. OrderInvariant /\ [Next]_vars => OrderInvariant'
  BY OrderStep, PurchaseNext
<1>3. OrderInvariant => ReceiptsTallied
  BY OrderTallies DEF ReceiptsTallied
<1>4. QED
  BY <1>1, <1>2, <1>3, PTL DEF Spec

-----------------------------------------------------------------------------
(* The abstract purchase order                                             *)

\* The units of the abstract order are the same sum.
LEMMA PromiseUnits == \A q : Promise!Units(q) = SumOver(q, Line)
BY DEF Promise!Units, Promise!MapThenSumSet, Promise!MapThenFoldSet, SumOver, Summing, Pick

\* No operation gives an order the status ORDERED, which receipts would accept.
NeverOrdered == \A o \in Order : status[o] # "ORDERED"

\* What the abstract order shows of the tables.
ShownStatus   == [o \in Order |-> IF o \in raced THEN "RACED" ELSE status[o]]
ShownReceived == [o \in Order |-> IF o \in raced THEN [l \in Line |-> 0] ELSE received[o]]
ShownOwed     == [o \in Order |-> IF o \in raced THEN 0 ELSE charged[o]]

\* An operation writes the statuses that it may leave.
LEMMA NeverOrderedStep ==
    ASSUME OrderInvariant, NeverOrdered, [Purchases!Next]_(Purchases!vars)
    PROVE  NeverOrdered'
<1>1. CASE UNCHANGED status
  BY <1>1 DEF NeverOrdered
<1>2. ASSUME NEW r \in Req, NEW o \in Order, Purchases!CreateOrder(r, o) PROVE NeverOrdered'
  BY <1>2 DEF NeverOrdered, Purchases!CreateOrder, OrderInvariant, OrderTables
<1>3. ASSUME NEW r \in Req, Purchases!WriteStatus(r) PROVE NeverOrdered'
  <2>1. Purchases!NewStatus(r) # "ORDERED"
    BY DEF Purchases!NewStatus, Purchases!StatusAfterReceipt
  <2>2. QED
    BY <1>3, <2>1 DEF NeverOrdered, Purchases!WriteStatus, OrderInvariant, OrderTables
<1>4. QED
  BY <1>1, <1>2, <1>3 DEF Purchases!Next, Purchases!NotifyPendingApproval, Purchases!BeginApprove,
     Purchases!BeginReceive, Purchases!BeginCancel, Purchases!GetOrder, Purchases!ReceiveLine,
     Purchases!EndLines, Purchases!UpdateOrder, Purchases!CommitApproval, Purchases!CommitReceipt,
     Purchases!CommitCancel, Purchases!Rollback, Purchases!tables, Purchases!vars

\* A step that writes one order shows nothing of the others.
LEMMA OneShown ==
    ASSUME OrderTables, NEW o \in Order, UNCHANGED raced,
           \A s \in Order \ {o} : UNCHANGED <<status[s], received[s], charged[s]>>
    PROVE  /\ ShownStatus' = [ShownStatus EXCEPT ![o] = ShownStatus'[o]]
           /\ ShownReceived' = [ShownReceived EXCEPT ![o] = ShownReceived'[o]]
           /\ ShownOwed' = [ShownOwed EXCEPT ![o] = ShownOwed'[o]]
BY DEF ShownStatus, ShownReceived, ShownOwed

\* A step that writes no status, no line and no charge of an order that nobody
\* raced on, and races on none, shows nothing.
LEMMA NothingShown ==
    ASSUME UNCHANGED raced,
           \A s \in Order \ raced : UNCHANGED <<status[s], received[s], charged[s]>>
    PROVE  UNCHANGED Promise!vars
BY DEF Promise!vars

\* Orders are created as drafts.
LEMMA CreationShown ==
    ASSUME OrderInvariant, NEW r \in Req, NEW o \in Order, Purchases!CreateOrder(r, o)
    PROVE  [Promise!Next]_(Promise!vars)
<1> USE DEF OrderInvariant
<1>1. /\ status[o] = "NONE" /\ status' = [status EXCEPT ![o] = "DRAFT"]
      /\ UNCHANGED <<received, charged, raced>>
  BY DEF Purchases!CreateOrder
<1>2. CASE o \in raced
  BY <1>1, <1>2, NothingShown DEF OrderTables
<1>3. CASE o \notin raced
  <2>1. Promise!Create(o)
    <3>1. ShownStatus[o] = "NONE" /\ ShownStatus' = [ShownStatus EXCEPT ![o] = "DRAFT"]
      BY <1>1, <1>3, OneShown DEF ShownStatus, OrderTables
    <3>2. UNCHANGED <<ShownReceived, ShownOwed>>
      BY <1>1 DEF ShownReceived, ShownOwed
    <3>3. QED
      BY <3>1, <3>2 DEF Promise!Create, Promise!Become, ShownStatus, ShownReceived, ShownOwed
  <2>2. QED
    BY <2>1 DEF Promise!Next
<1>4. QED
  BY <1>2, <1>3

\* The first request that overlaps another one makes the order a raced one.
LEMMA RaceShown ==
    ASSUME OrderInvariant, NEW r \in Req, NEW o \in Order, NEW c, Purchases!GetOrder(r, o, c)
    PROVE  [Promise!Next]_(Promise!vars)
<1>1. UNCHANGED <<status, received, charged>> /\ raced' \in {raced, raced \cup {o}}
  BY DEF Purchases!GetOrder, Purchases!tables
<1>2. CASE raced' = raced
  BY <1>1, <1>2, NothingShown
<1>3. CASE raced' = raced \cup {o}
  <2>1. /\ ShownStatus' = [ShownStatus EXCEPT ![o] = "RACED"]
        /\ ShownReceived' = [ShownReceived EXCEPT ![o] = [l \in Line |-> 0]]
        /\ ShownOwed' = [ShownOwed EXCEPT ![o] = 0]
    BY <1>1, <1>3 DEF ShownStatus, ShownReceived, ShownOwed
  <2>2. Promise!Race(o)
    BY <2>1 DEF Promise!Race, Promise!Become, Promise!Nothing, ShownStatus, ShownReceived, ShownOwed
  <2>3. QED
    BY <2>2 DEF Promise!Next
<1>4. QED
  BY <1>1, <1>2, <1>3

\* An approval and a cancellation commit only from the status that was read.
LEMMA StatusShown ==
    ASSUME OrderInvariant, NeverOrdered, NEW r \in Req, pc[r] = "commit", op[r] \in {"approve", "cancel"},
           Purchases!WriteStatus(r), UNCHANGED <<received, charged, raced>>
    PROVE  [Promise!Next]_(Promise!vars)
<1> USE DEF OrderInvariant
<1>1. PICK o : o = doc[r]
  OBVIOUS
<1>2. o \in Order /\ At(r, o)
  BY <1>1 DEF OrderSessions, At
<1>3. \A s \in Order \ {o} : status'[s] = status[s]
  BY <1>1, <1>2 DEF Purchases!WriteStatus, OrderTables
<1>4. CASE o \in raced
  BY <1>3, <1>4, NothingShown
<1>5. CASE o \notin raced
  <2>1. /\ op[r] = "approve" => status[o] = "DRAFT" /\ status'[o] = "APPROVED"
        /\ op[r] = "cancel" => /\ status[o] \in {"DRAFT", "APPROVED", "PARTIALLY_RECEIVED"}
                               /\ status'[o] = "CANCELLED"
    <3>1. view[r].status = status[o] /\ Purchases!Allowed(op[r], status[o])
      BY <1>2, <1>5 DEF AloneAt
    <3>2. status'[o] = Purchases!NewStatus(r)
      BY <1>1, <1>2, <3>1 DEF Purchases!WriteStatus, Purchases!Overwrites, OrderTables
    <3>3. status[o] \in Purchases!Status /\ status[o] # "ORDERED"
      BY <1>2 DEF OrderTables, NeverOrdered
    <3>4. QED
      BY <3>1, <3>2, <3>3, NewStatusType DEF Purchases!Allowed, Purchases!Status
  <2>2. /\ ShownStatus[o] = status[o]
        /\ ShownStatus' = [ShownStatus EXCEPT ![o] = status'[o]]
    BY <1>2, <1>3, <1>5, OneShown DEF ShownStatus
  <2>3. UNCHANGED <<ShownReceived, ShownOwed>>
    BY DEF ShownReceived, ShownOwed
  <2>4. Promise!Approve(o) \/ Promise!Cancel(o)
    BY <2>1, <2>2, <2>3
    DEF Promise!Approve, Promise!Cancel, Promise!Become, ShownStatus, ShownReceived, ShownOwed
  <2>5. QED
    BY <1>2, <2>4 DEF Promise!Next
<1>6. QED
  BY <1>4, <1>5

\* A receipt commits what came in beyond what its session read, and charges it.
LEMMA ReceiptShown ==
    ASSUME OrderInvariant, OrderInvariant', NeverOrdered, NEW r \in Req, Purchases!CommitReceipt(r)
    PROVE  [Promise!Next]_(Promise!vars)
<1> USE DEF OrderInvariant
<1>1. PICK o : o = doc[r]
  OBVIOUS
<1>2. o \in Order /\ At(r, o) /\ pc[r] = "commit" /\ op[r] = "receive" /\ UNCHANGED raced
  BY <1>1 DEF OrderSessions, At, Purchases!CommitReceipt, Purchases!EndTransaction
<1>3. \A s \in Order \ {o} : UNCHANGED <<status[s], received[s], charged[s]>>
  BY <1>1, <1>2 DEF Purchases!CommitReceipt, Purchases!WriteStatus, Purchases!WriteLines,
     Purchases!ChargeSupplier, OrderTables
<1>4. CASE o \in raced
  BY <1>2, <1>3, <1>4, NothingShown
<1>5. CASE o \notin raced
  <2>1. /\ view[r].status = status[o] /\ Purchases!Allowed("receive", status[o])
        /\ \A l \in Line : view[r].received[l] = received[o][l] + gained[r][l]
        /\ gained[r] # Purchases!Nothing
    BY <1>2, <1>5 DEF AloneAt
  <2>2. /\ gained[r] \in Amount /\ received[o] \in Amount /\ received'[o] \in Amount
        /\ Ordered[o] \in Amount
    BY <1>2, OrderAssumption DEF OrderSessions, OrderTables, Amount
  <2>3. \A l \in Line : received'[o][l] = received[o][l] + gained[r][l]
    <3>1. \A l \in Line : received'[o][l] =
                            IF gained[r][l] > 0 THEN view[r].received[l] ELSE received[o][l]
      BY <1>1, <1>2 DEF Purchases!CommitReceipt, Purchases!WriteLines, OrderTables
    <3>2. QED
      BY <2>1, <2>2, <3>1 DEF Amount
  <2>4. received'[o] # received[o]
    <3>1. PICK l \in Line : gained[r][l] > 0
      BY <2>1, <2>2 DEF Amount, Purchases!Nothing
    <3>2. received'[o][l] # received[o][l]
      BY <2>2, <2>3, <3>1 DEF Amount
    <3>3. QED
      BY <3>2
  <2>5. \A l \in Line : received'[o][l] \in received[o][l] .. Ordered[o][l]
    <3>1. \A l \in Line : received'[o][l] <= Ordered[o][l]
      BY <1>2 DEF Stated
    <3>2. QED
      BY <2>2, <2>3, <3>1 DEF Amount
  <2>6. status[o] \in {"APPROVED", "PARTIALLY_RECEIVED"}
    BY <1>2, <2>1 DEF Purchases!Allowed, NeverOrdered
  <2>7. status'[o] = IF received'[o] = Ordered[o] THEN "RECEIVED" ELSE "PARTIALLY_RECEIVED"
    <3>1. status'[o] \in {"RECEIVED", "PARTIALLY_RECEIVED"}
      BY <1>1, <1>2, <2>1, NewStatusType
      DEF Purchases!CommitReceipt, Purchases!WriteStatus, Purchases!Overwrites, OrderTables
    <3>2. Tallied(o)'
      BY <1>2, <1>5
    <3>3. QED
      BY <3>1, <3>2 DEF Tallied
  <2>8. charged'[o] = Promise!Units(received'[o])
    <3>1. charged'[o] = SumOver(receipts'[o], Line)
      BY <1>2 DEF Stated
    <3>2. received'[o] = receipts'[o]
      BY <1>2, <1>5 DEF Tallied
    <3>3. QED
      BY <3>1, <3>2, PromiseUnits
  <2>9. /\ ShownStatus[o] = status[o] /\ ShownReceived[o] = received[o]
        /\ ShownReceived'[o] = received'[o]
        /\ ShownStatus' = [ShownStatus EXCEPT ![o] = status'[o]]
        /\ ShownReceived' = [ShownReceived EXCEPT ![o] = received'[o]]
        /\ ShownOwed' = [ShownOwed EXCEPT ![o] = charged'[o]]
    BY <1>2, <1>3, <1>5, OneShown DEF ShownStatus, ShownReceived, ShownOwed
  <2>10. Promise!Receive(o)
    BY <2>4, <2>5, <2>6, <2>7, <2>8, <2>9
    DEF Promise!Receive, Promise!Become, ShownStatus, ShownReceived, ShownOwed
  <2>11. QED
    BY <1>2, <2>10 DEF Promise!Next
<1>6. QED
  BY <1>4, <1>5

\* Every step of Purchasing is a step of the abstract order, or shows nothing.
LEMMA PromiseStep ==
    ASSUME OrderInvariant, OrderInvariant', NeverOrdered, [Purchases!Next]_(Purchases!vars)
    PROVE  [Promise!Next]_(Promise!vars)
<1>1. CASE UNCHANGED <<status, received, charged, raced>>
  BY <1>1, NothingShown
<1>2. ASSUME NEW r \in Req, NEW o \in Order,
             Purchases!BeginApprove(r, o) \/ Purchases!BeginReceive(r, o) \/ Purchases!BeginCancel(r, o)
      PROVE  [Promise!Next]_(Promise!vars)
  BY <1>2, RaceShown DEF Purchases!BeginApprove, Purchases!BeginReceive, Purchases!BeginCancel
<1>3. ASSUME NEW r \in Req, Purchases!CommitApproval(r) \/ Purchases!CommitCancel(r)
      PROVE  [Promise!Next]_(Promise!vars)
  BY <1>3, StatusShown DEF Purchases!CommitApproval, Purchases!CommitCancel, Purchases!EndTransaction
<1>4. QED
  BY <1>1, <1>2, <1>3, CreationShown, ReceiptShown
  DEF Purchases!Next, Purchases!NotifyPendingApproval, Purchases!ReceiveLine, Purchases!EndLines,
      Purchases!UpdateOrder, Purchases!Rollback, Purchases!EndTransaction, Purchases!tables,
      Purchases!session, Purchases!vars

\* Purchasing implements PurchaseOrder: an order that no two requests raced on
\* changes in single steps, from draft to approved to received; no line is
\* received before the approval, after the cancellation or in excess, and what
\* came in is charged as it comes (OrdersKeepPromise).
THEOREM OrdersImplementPromise == Spec => OrdersKeepPromise
<1>1. Init => OrderInvariant /\ NeverOrdered
  BY OrderInit DEF Init, Purchases!Init, NeverOrdered
<1>2. OrderInvariant /\ NeverOrdered /\ [Next]_vars => OrderInvariant' /\ NeverOrdered'
  BY OrderStep, NeverOrderedStep, PurchaseNext
<1>3. Init => Promise!Init
  BY DEF Init, Purchases!Init, Purchases!Nothing, Promise!Init, Promise!Nothing
<1>4. OrderInvariant /\ OrderInvariant' /\ NeverOrdered /\ [Next]_vars => [Promise!Next]_(Promise!vars)
  BY PromiseStep, PurchaseNext
<1>5. QED
  BY <1>1, <1>2, <1>3, <1>4, PTL DEF Spec, OrdersKeepPromise, Promise!Spec

-----------------------------------------------------------------------------
(* SupplierAccounts                                                        *)

\* The entries of a kind, and all of them, as what they add.
OfKind(es, k) == [i \in DOMAIN es |-> IF es[i].kind = k THEN es[i].amount ELSE 0]
AmountsOf(es) == [i \in DOMAIN es |-> es[i].amount]

\* What the folds of Total and Balance choose.
KindSummed(es, k, h) ==
    h = [S \in SUBSET (DOMAIN es) |->
            IF S = {} THEN 0
            ELSE IF es[Top(S)].kind = k THEN h[S \ {Top(S)}] + es[Top(S)].amount
            ELSE h[S \ {Top(S)}]]
AmountSummed(es, h) ==
    h = [S \in SUBSET (DOMAIN es) |->
            IF S = {} THEN 0 ELSE h[S \ {Top(S)}] + es[Top(S)].amount]

\* Total is the fold of the entries of a kind.
LEMMA TotalUnfolds ==
    \A s, k : Payments!Total(s, k) = (CHOOSE h : KindSummed(ledger[s], k, h))[DOMAIN ledger[s]]
BY DEF Payments!Total, Payments!FoldLeft, Payments!MapThenFoldSet, Payments!Max, KindSummed, Top

\* Balance is the fold of all entries.
LEMMA BalanceUnfolds ==
    \A es : Payments!Balance(es) = (CHOOSE h : AmountSummed(es, h))[DOMAIN es]
BY DEF Payments!Balance, Payments!FoldLeft, Payments!MapThenFoldSet, Payments!Max, AmountSummed, Top

\* The sum of the entries of a kind, of all entries, and of all but returns.
SumOf(es, k) == SumOver(OfKind(es, k), DOMAIN es)
SumOfAll(es) == SumOver(AmountsOf(es), DOMAIN es)
NetOf(es)    == SumOf(es, "PURCHASE") + SumOf(es, "EXTERNAL") + SumOf(es, "PAYMENT")

\* The indices of a ledger are finitely many numbers.
LEMMA EntriesCounted ==
    ASSUME NEW es \in Seq(Payments!Entry)
    PROVE  /\ DOMAIN es = 1..Len(es) /\ Len(es) \in Nat
           /\ DOMAIN es \in SUBSET Int /\ IsFiniteSet(DOMAIN es)
           /\ \A i \in DOMAIN es : es[i] \in Payments!Entry /\ es[i].amount \in Int
<1>1. DOMAIN es = 1..Len(es) /\ Len(es) \in Nat /\ \A i \in DOMAIN es : es[i] \in Payments!Entry
  OBVIOUS
<1>2. IsFiniteSet(1..Len(es))
  BY <1>1, FS_Interval
<1>3. QED
  BY <1>1, <1>2 DEF Payments!Entry

\* The fold of the entries of a kind is their sum.
LEMMA KindFolded ==
    ASSUME NEW es \in Seq(Payments!Entry), NEW k
    PROVE  (CHOOSE h : KindSummed(es, k, h))[DOMAIN es] = SumOf(es, k)
<1> DEFINE f == OfKind(es, k)
           D == DOMAIN es
           g == [S \in SUBSET D |-> SumOver(f, S)]
<1>1. D \in SUBSET Int /\ IsFiniteSet(D) /\ \A i \in D : f[i] \in Int
  BY EntriesCounted DEF OfKind
<1>2. \A S \in SUBSET D : S # {} => Top(S) \in S /\ S \ {Top(S)} \in SUBSET D
  BY <1>1, TopIn, FS_Subset
<1>3. \A S \in SUBSET D : S # {} =>
         f[Top(S)] = IF es[Top(S)].kind = k THEN es[Top(S)].amount ELSE 0
  BY <1>2 DEF OfKind
<1>4. ASSUME NEW S \in SUBSET D PROVE SumOver(f, S) \in Int
  <2>1. IsFiniteSet(S) /\ \A i \in S : f[i] \in Int
    BY <1>1, FS_Subset
  <2> HIDE DEF f, D
  <2>2. QED
    BY <2>1, SumType
<1>5. \A S \in SUBSET D : SumOver(f, S) = IF S = {} THEN 0 ELSE SumOver(f, S \ {Top(S)}) + f[Top(S)]
  <2> HIDE DEF f, D
  <2> QED
    BY <1>1, SumFromTop
<1>6. ASSUME NEW S \in SUBSET D
      PROVE  g[S] = IF S = {} THEN 0
                    ELSE IF es[Top(S)].kind = k THEN g[S \ {Top(S)}] + es[Top(S)].amount
                    ELSE g[S \ {Top(S)}]
  <2> HIDE DEF f, D
  <2>1. CASE S = {}
    BY <1>5, <2>1
  <2>2. CASE S # {}
    <3>1. PICK R : R = S \ {Top(S)}
      OBVIOUS
    <3>2. R \in SUBSET D /\ g[S] = SumOver(f, S) /\ g[R] = SumOver(f, R)
      BY <1>2, <2>2, <3>1
    <3>3. SumOver(f, S) = SumOver(f, R) + f[Top(S)] /\ SumOver(f, R) \in Int
      BY <1>4, <1>5, <2>2, <3>1, <3>2
    <3>4. QED
      BY <1>3, <2>2, <3>1, <3>2, <3>3
  <2>3. QED
    BY <2>1, <2>2
<1>7. KindSummed(es, k, g)
  <2>1. g = [S \in SUBSET D |-> IF S = {} THEN 0
                    ELSE IF es[Top(S)].kind = k THEN g[S \ {Top(S)}] + es[Top(S)].amount
                    ELSE g[S \ {Top(S)}]]
    BY <1>6
  <2>2. QED
    BY <2>1 DEF KindSummed
<1>8. PICK h : h = CHOOSE i : KindSummed(es, k, i)
  OBVIOUS
<1>9. KindSummed(es, k, h)
  <2> HIDE DEF g
  <2> QED
    BY <1>7, <1>8
<1>10. ASSUME NEW S \in SUBSET D
       PROVE  h[S] = IF S = {} THEN 0 ELSE h[S \ {Top(S)}] + f[Top(S)]
  <2> DEFINE T == {U \in SUBSET D : h[U] \in Int}
  <2>1. \A U \in SUBSET D : h[U] = IF U = {} THEN 0
                    ELSE IF es[Top(U)].kind = k THEN h[U \ {Top(U)}] + es[Top(U)].amount
                    ELSE h[U \ {Top(U)}]
    BY <1>9 DEF KindSummed
  <2>2. \A U \in SUBSET D : U # {} => es[Top(U)].amount \in Int
    BY <1>2, EntriesCounted
  <2> HIDE DEF f, D
  <2>3. ASSUME NEW U \in SUBSET D, \A x \in U : U \ {x} \in T PROVE U \in T
    <3>1. CASE U = {}
      <4>1. h[U] = 0
        BY <2>1, <3>1
      <4>2. h[U] \in Int
        BY <4>1
      <4>3. QED
        BY <4>2
    <3>2. CASE U # {}
      <4>1. PICK m, p : m = h[U \ {Top(U)}] /\ p = es[Top(U)].amount
        OBVIOUS
      <4>2. U \ {Top(U)} \in T
        BY <1>2, <2>3, <3>2
      <4>3. m \in Int /\ p \in Int
        BY <2>2, <3>2, <4>1, <4>2
      <4>4. h[U] = IF es[Top(U)].kind = k THEN m + p ELSE m
        BY <2>1, <3>2, <4>1
      <4>5. h[U] \in Int
        BY ONLY <4>3, <4>4
      <4>6. QED
        BY <4>5
    <3>3. QED
      BY <3>1, <3>2
  <2> HIDE DEF T
  <2>4. \A U \in SUBSET D : U \in T
    BY <1>1, <2>3, SubsetInduction
  <2>5. CASE S = {}
    BY <2>1, <2>5
  <2>6. CASE S # {}
    <3>1. PICK m, p : m = h[S \ {Top(S)}] /\ p = f[Top(S)]
      OBVIOUS
    <3>2. m \in Int
      BY <1>2, <2>4, <2>6, <3>1 DEF T
    <3>3. h[S] = IF es[Top(S)].kind = k THEN m + es[Top(S)].amount ELSE m
      BY <2>1, <2>6, <3>1
    <3>4. p = IF es[Top(S)].kind = k THEN es[Top(S)].amount ELSE 0
      BY <1>3, <2>6, <3>1
    <3>5. h[S] = m + p
      <4>1. CASE es[Top(S)].kind = k
        BY <3>3, <3>4, <4>1
      <4>2. CASE es[Top(S)].kind # k
        <5>1. h[S] = m /\ p = 0
          BY <3>3, <3>4, <4>2
        <5>2. QED
          BY ONLY <3>2, <5>1
      <4>3. QED
        BY <4>1, <4>2
    <3>6. QED
      BY <2>6, <3>1, <3>5
  <2>7. QED
    BY <2>5, <2>6
<1>11. h[D] = SumOver(f, D)
  <2> HIDE DEF f, D
  <2> QED
    BY <1>1, <1>10, TopSums
<1>12. QED
  BY <1>8, <1>11 DEF SumOf

\* Balance is the sum of all entries.
LEMMA AmountsFolded ==
    ASSUME NEW es \in Seq(Payments!Entry)
    PROVE  Payments!Balance(es) = SumOfAll(es)
<1> DEFINE f == AmountsOf(es)
           D == DOMAIN es
           g == [S \in SUBSET D |-> SumOver(f, S)]
<1>1. D \in SUBSET Int /\ IsFiniteSet(D) /\ \A i \in D : f[i] \in Int /\ f[i] = es[i].amount
  BY EntriesCounted DEF AmountsOf
<1>2. \A S \in SUBSET D : S # {} => Top(S) \in S /\ S \ {Top(S)} \in SUBSET D
  BY <1>1, TopIn, FS_Subset
<1>3. \A S \in SUBSET D : SumOver(f, S) = IF S = {} THEN 0 ELSE SumOver(f, S \ {Top(S)}) + f[Top(S)]
  <2> HIDE DEF f, D
  <2> QED
    BY <1>1, SumFromTop
<1>4. \A S \in SUBSET D : g[S] = IF S = {} THEN 0 ELSE g[S \ {Top(S)}] + es[Top(S)].amount
  <2> HIDE DEF f, D
  <2> QED
    BY <1>1, <1>2, <1>3
<1>5. AmountSummed(es, g)
  <2>1. g = [S \in SUBSET D |-> IF S = {} THEN 0 ELSE g[S \ {Top(S)}] + es[Top(S)].amount]
    BY <1>4
  <2>2. QED
    BY <2>1 DEF AmountSummed
<1>6. PICK h : h = CHOOSE i : AmountSummed(es, i)
  OBVIOUS
<1>7. AmountSummed(es, h)
  <2> HIDE DEF g
  <2> QED
    BY <1>5, <1>6
<1>8. \A S \in SUBSET D : h[S] = IF S = {} THEN 0 ELSE h[S \ {Top(S)}] + f[Top(S)]
  BY <1>1, <1>2, <1>7 DEF AmountSummed
<1>9. h[D] = SumOver(f, D)
  <2> HIDE DEF f, D
  <2> QED
    BY <1>1, <1>8, TopSums
<1>10. QED
  BY <1>6, <1>9, BalanceUnfolds DEF SumOfAll

\* The sum of the entries of a kind is a number.
LEMMA SumOfType ==
    ASSUME NEW es \in Seq(Payments!Entry), NEW k
    PROVE  SumOf(es, k) \in Int
<1> DEFINE f == OfKind(es, k)
           D == DOMAIN es
<1>1. IsFiniteSet(D) /\ \A i \in D : f[i] \in Int
  BY EntriesCounted DEF OfKind
<1> HIDE DEF f, D
<1>2. SumOver(f, D) \in Int
  BY <1>1, SumType
<1>3. QED
  BY <1>2 DEF SumOf, f, D

\* The balance is what was bought less what was paid, and the returns.
LEMMA BalanceSplits ==
    ASSUME NEW es \in Seq(Payments!Entry)
    PROVE  SumOfAll(es) = NetOf(es) + SumOf(es, "RETURN")
<1> DEFINE D == DOMAIN es
           f1 == OfKind(es, "PURCHASE")
           f2 == OfKind(es, "EXTERNAL")
           f3 == OfKind(es, "PAYMENT")
           f4 == OfKind(es, "RETURN")
           g2 == [i \in D |-> f1[i] + f2[i]]
           g3 == [i \in D |-> g2[i] + f3[i]]
           f  == AmountsOf(es)
<1>1. IsFiniteSet(D)
  BY EntriesCounted
<1>2. ASSUME NEW i \in D
      PROVE  /\ f1[i] \in Int /\ f2[i] \in Int /\ f3[i] \in Int /\ f4[i] \in Int
             /\ g2[i] \in Int /\ g2[i] = f1[i] + f2[i]
             /\ g3[i] \in Int /\ g3[i] = g2[i] + f3[i]
             /\ f[i] = g3[i] + f4[i]
  <2>1. es[i] \in Payments!Entry
    BY EntriesCounted
  <2>2. PICK a, k : a = es[i].amount /\ k = es[i].kind
    OBVIOUS
  <2>3. a \in Int /\ k \in {"PURCHASE", "EXTERNAL", "PAYMENT", "RETURN"}
    BY <2>1, <2>2 DEF Payments!Entry, Payments!Kinds
  <2>4. /\ f1[i] = (IF k = "PURCHASE" THEN a ELSE 0) /\ f2[i] = (IF k = "EXTERNAL" THEN a ELSE 0)
        /\ f3[i] = (IF k = "PAYMENT" THEN a ELSE 0) /\ f4[i] = (IF k = "RETURN" THEN a ELSE 0)
        /\ f[i] = a /\ g2[i] = f1[i] + f2[i] /\ g3[i] = g2[i] + f3[i]
    BY <2>2 DEF OfKind, AmountsOf
  <2> HIDE DEF f1, f2, f3, f4, g2, g3, f
  <2>5. PICK w1, w2, w3, w4, w5, w6, w7 :
           w1 = f1[i] /\ w2 = f2[i] /\ w3 = f3[i] /\ w4 = f4[i] /\ w5 = g2[i] /\ w6 = g3[i] /\ w7 = f[i]
    OBVIOUS
  <2>6. QED
    BY ONLY <2>3, <2>4, <2>5
<1> HIDE DEF f1, f2, f3, f4, g2, g3, f, D
<1>3. SumOver(g2, D) = SumOver(f1, D) + SumOver(f2, D)
  BY <1>1, <1>2, SumAdds
<1>4. SumOver(g3, D) = SumOver(g2, D) + SumOver(f3, D)
  BY <1>1, <1>2, SumAdds
<1>5. SumOver(f, D) = SumOver(g3, D) + SumOver(f4, D)
  BY <1>1, <1>2, SumAdds
<1>6. SumOver(f, D) = (SumOver(f1, D) + SumOver(f2, D)) + SumOver(f3, D) + SumOver(f4, D)
  BY <1>3, <1>4, <1>5
<1>7. QED
  BY <1>6 DEF SumOfAll, NetOf, SumOf, f1, f2, f3, f4, f, D

\* An entry adds its amount to the sum of its kind.
LEMMA SumAppended ==
    ASSUME NEW es \in Seq(Payments!Entry), NEW e \in Payments!Entry, NEW k
    PROVE  SumOf(Append(es, e), k) = SumOf(es, k) + (IF e.kind = k THEN e.amount ELSE 0)
<1> DEFINE fs == Append(es, e)
           n == Len(es) + 1
           D == DOMAIN es
           E == DOMAIN fs
           f == OfKind(es, k)
           g == OfKind(fs, k)
           v == IF e.kind = k THEN e.amount ELSE 0
<1>1. /\ fs \in Seq(Payments!Entry) /\ D = 1..Len(es) /\ E = 1..n /\ Len(es) \in Nat
      /\ fs[n] = e /\ \A i \in D : fs[i] = es[i]
  OBVIOUS
<1>2. IsFiniteSet(E) /\ IsFiniteSet(D) /\ (\A i \in E : g[i] \in Int) /\ \A i \in D : f[i] \in Int
  <2>1. IsFiniteSet(D) /\ \A i \in D : f[i] \in Int
    BY EntriesCounted DEF OfKind
  <2>2. fs \in Seq(Payments!Entry)
    BY <1>1
  <2> HIDE DEF fs
  <2>3. IsFiniteSet(E) /\ \A i \in E : g[i] \in Int
    BY <2>2, EntriesCounted DEF OfKind
  <2>4. QED
    BY <2>1, <2>3
<1>3. n \in E /\ E \ {n} = D
  BY <1>1
<1>4. g[n] = v /\ (\A i \in D : g[i] = f[i]) /\ v \in Int
  BY <1>1, <1>3 DEF OfKind, Payments!Entry
<1>5. SumOf(fs, k) = SumOver(g, E) /\ SumOf(es, k) = SumOver(f, D)
  BY DEF SumOf
<1> HIDE DEF fs, D, E, f, g, v, n
<1>6. SumOver(g, E) = g[n] + SumOver(g, D)
  BY <1>2, <1>3, SumRemove
<1>7. SumOver(g, D) = SumOver(f, D)
  BY <1>2, <1>4, SumSame
<1>8. SumOver(f, D) \in Int
  BY <1>2, SumType
<1>9. PICK w : w = SumOver(f, D)
  OBVIOUS
<1>10. v + w = w + v
  BY <1>4, <1>8, <1>9
<1>11. QED
  BY <1>4, <1>5, <1>6, <1>7, <1>9, <1>10 DEF fs, v

\* The payments with a reference.
PaidWith(es, x) == {i \in DOMAIN es : es[i].kind = "PAYMENT" /\ es[i].ref = x}

\* A set whose members are all the same has one at most.
LEMMA OneAtMost ==
    ASSUME NEW S, \A x, y \in S : x = y
    PROVE  Cardinality(S) <= 1
<1>1. CASE S = {}
  BY <1>1, FS_EmptySet
<1>2. CASE S # {}
  <2>1. PICK x : S = {x}
    BY <1>2
  <2>2. QED
    BY <2>1, FS_Singleton
<1>3. QED
  BY <1>1, <1>2

\* An entry is a payment with its reference, or none.
LEMMA PaidAppended ==
    ASSUME NEW es \in Seq(Payments!Entry), NEW e \in Payments!Entry, NEW x
    PROVE  PaidWith(Append(es, e), x) =
              PaidWith(es, x) \cup (IF e.kind = "PAYMENT" /\ e.ref = x THEN {Len(es) + 1} ELSE {})
BY DEF PaidWith

\* An entry without a reference is no payment with one.
LEMMA NothingPaid ==
    ASSUME NEW es \in Seq(Payments!Entry), NEW e \in Payments!Entry, e.ref = NoReference
    PROVE  \A x \in Reference : PaidWith(Append(es, e), x) = PaidWith(es, x)
<1> SUFFICES ASSUME NEW x \in Reference PROVE PaidWith(Append(es, e), x) = PaidWith(es, x)
  OBVIOUS
<1>1. e.ref # x
  BY NoneAssumption
<1>2. QED
  BY <1>1 DEF PaidWith

\* An entry adds to the returns, or to what stands against them.
LEMMA NetAppended ==
    ASSUME NEW es \in Seq(Payments!Entry), NEW e \in Payments!Entry
    PROVE  /\ NetOf(es) \in Int /\ SumOf(es, "RETURN") \in Int
           /\ NetOf(Append(es, e)) = NetOf(es) + (IF e.kind = "RETURN" THEN 0 ELSE e.amount)
           /\ SumOf(Append(es, e), "RETURN") =
                 SumOf(es, "RETURN") + (IF e.kind = "RETURN" THEN e.amount ELSE 0)
<1> DEFINE fs == Append(es, e)
<1>1. \A k : SumOf(fs, k) = SumOf(es, k) + (IF e.kind = k THEN e.amount ELSE 0)
  BY SumAppended
<1>2. \A k : SumOf(es, k) \in Int
  BY SumOfType
<1>3. e.amount \in Int /\ e.kind \in {"PURCHASE", "EXTERNAL", "PAYMENT", "RETURN"}
  BY DEF Payments!Entry, Payments!Kinds
<1> HIDE DEF fs
<1>4. NetOf(fs) = NetOf(es) + (IF e.kind = "RETURN" THEN 0 ELSE e.amount)
  <2>1. PICK p, x, y, p1, x1, y1, a, k :
           /\ p = SumOf(es, "PURCHASE") /\ x = SumOf(es, "EXTERNAL") /\ y = SumOf(es, "PAYMENT")
           /\ p1 = SumOf(fs, "PURCHASE") /\ x1 = SumOf(fs, "EXTERNAL") /\ y1 = SumOf(fs, "PAYMENT")
           /\ a = e.amount /\ k = e.kind
    OBVIOUS
  <2>2. /\ NetOf(es) = p + x + y /\ NetOf(fs) = p1 + x1 + y1
        /\ p1 = p + (IF k = "PURCHASE" THEN a ELSE 0)
        /\ x1 = x + (IF k = "EXTERNAL" THEN a ELSE 0)
        /\ y1 = y + (IF k = "PAYMENT" THEN a ELSE 0)
    BY <1>1, <2>1 DEF NetOf
  <2>3. p \in Int /\ x \in Int /\ y \in Int /\ a \in Int
        /\ k \in {"PURCHASE", "EXTERNAL", "PAYMENT", "RETURN"}
    BY <1>2, <1>3, <2>1
  <2>4. p1 + x1 + y1 = (p + x + y) + (IF k = "RETURN" THEN 0 ELSE a)
    BY ONLY <2>2, <2>3
  <2>5. QED
    BY <2>1, <2>2, <2>4
<1>5. NetOf(es) \in Int
  BY <1>2 DEF NetOf
<1>6. QED
  BY <1>1, <1>2, <1>4, <1>5 DEF fs

\* What other operations may do to a ledger while a payment is under way.
Grows(es, fs) ==
    /\ fs \in Seq(Payments!Entry)
    /\ NetOf(es) <= NetOf(fs)
    /\ SumOf(fs, "RETURN") <= SumOf(es, "RETURN")
    /\ \A x \in Reference : PaidWith(fs, x) = PaidWith(es, x)

\* A purchase or a return is such a change.
LEMMA OneEntryGrows ==
    ASSUME NEW es \in Seq(Payments!Entry), NEW e \in Payments!Entry, e.ref = NoReference,
           IF e.kind = "RETURN" THEN e.amount <= 0 ELSE e.amount >= 0
    PROVE  Grows(es, es \o <<e>>)
<1>1. es \o <<e>> = Append(es, e) /\ Append(es, e) \in Seq(Payments!Entry)
  OBVIOUS
<1>2. PICK n, m, a : n = NetOf(es) /\ m = SumOf(es, "RETURN") /\ a = e.amount
  OBVIOUS
<1>3. n \in Int /\ m \in Int /\ a \in Int
  BY <1>2, NetAppended DEF Payments!Entry
<1>4. /\ NetOf(Append(es, e)) = n + (IF e.kind = "RETURN" THEN 0 ELSE a)
      /\ SumOf(Append(es, e), "RETURN") = m + (IF e.kind = "RETURN" THEN a ELSE 0)
  BY <1>2, NetAppended
<1>5. n <= NetOf(Append(es, e)) /\ SumOf(Append(es, e), "RETURN") <= m
  BY <1>2, <1>3, <1>4
<1>6. \A x \in Reference : PaidWith(Append(es, e), x) = PaidWith(es, x)
  BY NothingPaid
<1>7. QED
  BY <1>1, <1>2, <1>5, <1>6 DEF Grows

\* So is a purchase of which no more is paid than it costs.
LEMMA PaidPurchaseGrows ==
    ASSUME NEW es \in Seq(Payments!Entry), NEW e \in Payments!Entry, NEW f \in Payments!Entry,
           e.ref = NoReference, f.ref = NoReference, e.kind # "RETURN", f.kind # "RETURN",
           e.amount + f.amount >= 0
    PROVE  Grows(es, es \o <<e, f>>)
<1> DEFINE gs == Append(es, e)
<1>1. es \o <<e, f>> = Append(gs, f) /\ gs \in Seq(Payments!Entry)
      /\ Append(gs, f) \in Seq(Payments!Entry)
  OBVIOUS
<1>2. PICK n, m, a, b : n = NetOf(es) /\ m = SumOf(es, "RETURN") /\ a = e.amount /\ b = f.amount
  OBVIOUS
<1>3. n \in Int /\ m \in Int /\ a \in Int /\ b \in Int /\ a + b >= 0
  BY <1>2, NetAppended DEF Payments!Entry
<1>4. NetOf(gs) = n + a /\ SumOf(gs, "RETURN") = m + 0
  BY <1>2, NetAppended
<1>5. \A x \in Reference : PaidWith(gs, x) = PaidWith(es, x)
  BY NothingPaid
<1> HIDE DEF gs
<1>6. NetOf(Append(gs, f)) = (n + a) + b /\ SumOf(Append(gs, f), "RETURN") = (m + 0) + 0
  BY <1>1, <1>2, <1>4, NetAppended
<1>7. \A x \in Reference : PaidWith(Append(gs, f), x) = PaidWith(gs, x)
  BY <1>1, NothingPaid
<1>8. n <= NetOf(Append(gs, f)) /\ SumOf(Append(gs, f), "RETURN") <= m
  BY <1>3, <1>6
<1>9. QED
  BY <1>1, <1>2, <1>5, <1>7, <1>8 DEF Grows

\* A ledger whose payments, returns aside, never exceed what was bought, and
\* whose references are used once.
SoundLedger(es) ==
    /\ NetOf(es) >= 0
    /\ SumOf(es, "RETURN") <= 0
    /\ \A x \in Reference : \A i, j \in PaidWith(es, x) : i = j

\* A payment that is under way holds the supplier, and what it found in the
\* ledger stands.
HasSupplier(r) ==
    payPc[r] # "idle" =>
        /\ payDoc[r] \in Supplier
        /\ supplierLock[payDoc[r]] = r
        /\ asked[r] \in Payments!Payment
FoundNew(r) ==
    payPc[r] \in {"new", "pay"} => PaidWith(ledger[payDoc[r]], asked[r].ref) = {}
FoundCover(r) ==
    payPc[r] = "pay" => asked[r].amount <= NetOf(ledger[payDoc[r]])

\* What the proofs of PaidOnce and OverpaidOnlyByReturns carry.
AccountInvariant ==
    /\ Payments!TypeOK
    /\ \A s \in Supplier : SoundLedger(ledger[s])
    /\ \A r \in Req : HasSupplier(r) /\ FoundNew(r) /\ FoundCover(r)

\* Such a change keeps the invariant, whoever is in the middle of a payment.
LEMMA GrowthKeeps ==
    ASSUME AccountInvariant, NEW s \in Supplier, NEW fs, Grows(ledger[s], fs),
           ledger' = [ledger EXCEPT ![s] = fs],
           UNCHANGED <<deleted, supplierLock, payPc, payDoc, asked>>
    PROVE  AccountInvariant'
<1> USE DEF AccountInvariant
<1>1. /\ \A t \in Supplier : ledger'[t] = IF t = s THEN fs ELSE ledger[t]
      /\ \A t \in Supplier : ledger[t] \in Seq(Payments!Entry)
  BY DEF Payments!TypeOK
<1>2. Payments!TypeOK'
  BY DEF Payments!TypeOK, Grows
<1>3. ASSUME NEW t \in Supplier
      PROVE  /\ SoundLedger(ledger'[t]) /\ NetOf(ledger[t]) <= NetOf(ledger'[t])
             /\ NetOf(ledger[t]) \in Int /\ NetOf(ledger'[t]) \in Int
             /\ \A x \in Reference : PaidWith(ledger'[t], x) = PaidWith(ledger[t], x)
  <2>1. /\ NetOf(ledger[t]) \in Int /\ SumOf(ledger[t], "RETURN") \in Int
        /\ NetOf(ledger'[t]) \in Int /\ SumOf(ledger'[t], "RETURN") \in Int
    <3>1. ledger[t] \in Seq(Payments!Entry) /\ ledger'[t] \in Seq(Payments!Entry)
      BY <1>1 DEF Grows
    <3>2. ASSUME NEW es \in Seq(Payments!Entry) PROVE NetOf(es) \in Int /\ SumOf(es, "RETURN") \in Int
      BY SumOfType DEF NetOf
    <3>3. QED
      BY <3>1, <3>2
  <2>2. CASE t # s
    <3>1. ledger'[t] = ledger[t]
      BY <1>1, <2>2
    <3>2. QED
      BY <2>1, <3>1
  <2>3. CASE t = s
    <3>1. ledger'[t] = fs
      BY <1>1, <2>3
    <3>2. PICK n, m, n1, m1 : n = NetOf(ledger[t]) /\ m = SumOf(ledger[t], "RETURN")
                           /\ n1 = NetOf(fs) /\ m1 = SumOf(fs, "RETURN")
      OBVIOUS
    <3>3. /\ n \in Int /\ m \in Int /\ n1 \in Int /\ m1 \in Int /\ n <= n1 /\ m1 <= m
          /\ n >= 0 /\ m <= 0
      BY <2>1, <2>3, <3>1, <3>2 DEF Grows, SoundLedger
    <3>4. n1 >= 0 /\ m1 <= 0
      BY ONLY <3>3
    <3>5. \A x \in Reference : PaidWith(fs, x) = PaidWith(ledger[t], x)
      BY <2>3 DEF Grows
    <3>6. \A x \in Reference : \A i, j \in PaidWith(fs, x) : i = j
      BY <3>5 DEF SoundLedger
    <3>7. QED
      BY <3>1, <3>2, <3>3, <3>4, <3>5, <3>6 DEF SoundLedger
  <2>4. QED
    BY <2>2, <2>3
<1>4. ASSUME NEW r \in Req PROVE HasSupplier(r)' /\ FoundNew(r)' /\ FoundCover(r)'
  <2>1. HasSupplier(r)'
    BY DEF HasSupplier
  <2>2. FoundNew(r)'
    BY <1>3 DEF FoundNew, HasSupplier, Payments!Payment
  <2>3. FoundCover(r)'
    <3>1. SUFFICES ASSUME payPc[r] = "pay" PROVE asked[r].amount <= NetOf(ledger'[payDoc[r]])
      BY DEF FoundCover
    <3>2. payDoc[r] \in Supplier /\ asked[r].amount \in Int
      <4>1. payDoc[r] \in Supplier /\ asked[r] \in Payments!Payment
        BY <3>1 DEF HasSupplier
      <4>2. asked[r].amount \in Amounts
        BY <4>1 DEF Payments!Payment
      <4>3. Amounts \subseteq Int
        BY AmountAssumption
      <4>4. QED
        BY ONLY <4>1, <4>2, <4>3
    <3>3. PICK a, n, m : a = asked[r].amount /\ n = NetOf(ledger[payDoc[r]]) /\ m = NetOf(ledger'[payDoc[r]])
      OBVIOUS
    <3>4. a \in Int /\ n \in Int /\ m \in Int /\ a <= n /\ n <= m
      BY <1>3, <3>1, <3>2, <3>3 DEF FoundCover
    <3>5. a <= m
      BY ONLY <3>4
    <3>6. QED
      BY <3>3, <3>5
  <2>4. QED
    BY <2>1, <2>2, <2>3
<1>5. QED
  BY <1>2, <1>3, <1>4

\* Receipts, external sales and accepted returns are such changes.
LEMMA PostsGrow ==
    ASSUME AccountInvariant, NEW s \in Supplier, NEW a \in Amounts
    PROVE  /\ \A g \in Ages, d \in Terms \cup {NoDate} :
                 /\ Payments!PostReceipt(s, a, g, d) => AccountInvariant'
                 /\ \A paid \in 0..a : Payments!PostExternalSale(s, a, g, d, paid) => AccountInvariant'
           /\ Payments!AcceptReturn(s, a) => AccountInvariant'
<1>1. a \in Nat /\ ledger[s] \in Seq(Payments!Entry) /\ ledger \in [Supplier -> Seq(Payments!Entry)]
  BY AmountAssumption DEF AccountInvariant, Payments!TypeOK
<1>2. ASSUME NEW g \in Ages, NEW d \in Terms \cup {NoDate}, Payments!PostReceipt(s, a, g, d)
      PROVE  AccountInvariant'
  <2> DEFINE e == Payments!Debit("PURCHASE", a, g, d)
  <2>1. e \in Payments!Entry /\ e.ref = NoReference /\ e.kind = "PURCHASE" /\ e.amount >= 0
    BY <1>1, TermsAssumption DEF Payments!Debit, Payments!Entry, Payments!Kinds
  <2>2. ledger' = [ledger EXCEPT ![s] = ledger[s] \o <<e>>]
        /\ UNCHANGED <<deleted, supplierLock, payPc, payDoc, asked>>
    BY <1>2 DEF Payments!PostReceipt, Payments!Post
  <2> HIDE DEF e
  <2>3. Grows(ledger[s], ledger[s] \o <<e>>)
    BY <1>1, <2>1, OneEntryGrows
  <2>4. QED
    BY <2>2, <2>3, GrowthKeeps
<1>3. ASSUME NEW g \in Ages, NEW d \in Terms \cup {NoDate}, NEW paid \in 0..a,
             Payments!PostExternalSale(s, a, g, d, paid)
      PROVE  AccountInvariant'
  <2> DEFINE e == Payments!Debit("EXTERNAL", a, g, d)
             f == Payments!PaymentEntry(paid, NoReference)
  <2>1. /\ e \in Payments!Entry /\ e.ref = NoReference /\ e.kind = "EXTERNAL" /\ e.amount = a
        /\ f \in Payments!Entry /\ f.ref = NoReference /\ f.kind = "PAYMENT" /\ f.amount = -paid
    BY <1>1, TermsAssumption
       DEF Payments!Debit, Payments!PaymentEntry, Payments!Credit, Payments!Entry, Payments!Kinds
  <2>2. e.amount >= 0 /\ e.amount + f.amount >= 0
    <3>1. a >= 0 /\ a + (-paid) >= 0
      BY <1>1
    <3>2. QED
      BY <2>1, <3>1
  <2>3. /\ \/ ledger' = [ledger EXCEPT ![s] = ledger[s] \o <<e>>]
           \/ ledger' = [ledger EXCEPT ![s] = ledger[s] \o <<e, f>>]
        /\ UNCHANGED <<deleted, supplierLock, payPc, payDoc, asked>>
    BY <1>3 DEF Payments!PostExternalSale, Payments!Post
  <2> HIDE DEF e, f
  <2>4. Grows(ledger[s], ledger[s] \o <<e>>)
    BY <1>1, <2>1, <2>2, OneEntryGrows
  <2>5. Grows(ledger[s], ledger[s] \o <<e, f>>)
    BY <1>1, <2>1, <2>2, PaidPurchaseGrows
  <2>6. QED
    BY <2>3, <2>4, <2>5, GrowthKeeps
<1>4. ASSUME Payments!AcceptReturn(s, a) PROVE AccountInvariant'
  <2> DEFINE e == Payments!ReturnEntry(a)
  <2>1. e \in Payments!Entry /\ e.ref = NoReference /\ e.kind = "RETURN" /\ e.amount <= 0
    BY <1>1 DEF Payments!ReturnEntry, Payments!Credit, Payments!Entry, Payments!Kinds
  <2>2. ledger' = [ledger EXCEPT ![s] = ledger[s] \o <<e>>]
        /\ UNCHANGED <<deleted, supplierLock, payPc, payDoc, asked>>
    BY <1>4 DEF Payments!AcceptReturn, Payments!Post
  <2> HIDE DEF e
  <2>3. Grows(ledger[s], ledger[s] \o <<e>>)
    BY <1>1, <2>1, OneEntryGrows
  <2>4. QED
    BY <2>2, <2>3, GrowthKeeps
<1>5. QED
  BY <1>2, <1>3, <1>4

\* A request that ends frees the row it held, and leaves the others alone.
LEMMA EndKeeps ==
    ASSUME AccountInvariant, NEW r \in Req, Payments!EndTransaction(r)
    PROVE  /\ supplierLock' \in [Supplier -> Req \cup {NoReq}]
           /\ payPc' \in [Req -> {"idle", "locked", "new", "pay"}]
           /\ payDoc' \in [Req -> Supplier \cup {NoSupplier}]
           /\ asked' \in [Req -> Payments!Payment \cup {Payments!NoPayment}]
           /\ payPc'[r] = "idle"
           /\ \A q \in Req : q # r =>
                 /\ payPc'[q] = payPc[q] /\ payDoc'[q] = payDoc[q] /\ asked'[q] = asked[q]
                 /\ \A s \in Supplier : supplierLock[s] = q => supplierLock'[s] = q
BY DEF AccountInvariant, Payments!TypeOK, Payments!EndTransaction, Payments!Goto

\* A request that ends keeps the invariant.
LEMMA LeavingKeeps ==
    ASSUME AccountInvariant, NEW r \in Req, Payments!EndTransaction(r), UNCHANGED <<ledger, deleted>>
    PROVE  AccountInvariant'
<1>1. Payments!TypeOK'
  BY EndKeeps DEF AccountInvariant, Payments!TypeOK
<1>2. \A s \in Supplier : SoundLedger(ledger[s])'
  BY DEF AccountInvariant, SoundLedger
<1>3. ASSUME NEW q \in Req PROVE HasSupplier(q)' /\ FoundNew(q)' /\ FoundCover(q)'
  BY EndKeeps DEF AccountInvariant, HasSupplier, FoundNew, FoundCover
<1>4. QED
  BY <1>1, <1>2, <1>3 DEF AccountInvariant

\* A payment keeps the invariant: its reference is new and it is covered.
LEMMA CommitKeeps ==
    ASSUME AccountInvariant, NEW r \in Req, Payments!CommitPayment(r)
    PROVE  AccountInvariant'
<1> DEFINE s == payDoc[r]
           e == Payments!PaymentEntry(asked[r].amount, asked[r].ref)
           es == ledger[s]
           fs == Append(es, e)
<1>1. /\ payPc[r] = "pay" /\ s \in Supplier /\ supplierLock[s] = r /\ asked[r] \in Payments!Payment
      /\ es \in Seq(Payments!Entry) /\ SoundLedger(es)
      /\ PaidWith(es, asked[r].ref) = {} /\ asked[r].amount <= NetOf(es)
  BY DEF AccountInvariant, Payments!CommitPayment, HasSupplier, FoundNew, FoundCover, Payments!TypeOK
<1>2. /\ e \in Payments!Entry /\ e.kind = "PAYMENT" /\ e.amount = -asked[r].amount
      /\ e.ref = asked[r].ref /\ e.ref \in Reference /\ asked[r].amount \in Nat
  <2>1. PICK a, x : a = asked[r].amount /\ x = asked[r].ref
    OBVIOUS
  <2>2. a \in Amounts /\ x \in Reference
    BY <1>1, <2>1 DEF Payments!Payment
  <2>3. a \in Nat /\ -a \in Int
    BY <2>2, AmountAssumption
  <2>4. e = [kind |-> "PAYMENT", amount |-> -a, ref |-> x, age |-> 0, terms |-> NoDate]
    BY <2>1 DEF Payments!PaymentEntry, Payments!Credit
  <2> HIDE DEF e
  <2>5. e \in Payments!Entry
    BY <2>2, <2>3, <2>4 DEF Payments!Entry, Payments!Kinds
  <2>6. QED
    BY <2>1, <2>2, <2>3, <2>4, <2>5
<1>3. /\ ledger' = [ledger EXCEPT ![s] = fs]
      /\ Payments!EndTransaction(r) /\ UNCHANGED deleted
  <2>1. ledger' = [ledger EXCEPT ![s] = es \o <<e>>] /\ Payments!EndTransaction(r) /\ UNCHANGED deleted
    BY DEF Payments!CommitPayment, Payments!Post
  <2> HIDE DEF e
  <2>2. es \o <<e>> = fs
    BY <1>1, <1>2
  <2>3. QED
    BY <2>1, <2>2
<1>4. fs \in Seq(Payments!Entry)
  BY <1>1, <1>2
<1> HIDE DEF s, e, es, fs
<1>5. SoundLedger(fs)
  <2>1. PICK n, m, a : n = NetOf(es) /\ m = SumOf(es, "RETURN") /\ a = asked[r].amount
    OBVIOUS
  <2>2. NetOf(fs) = n + (-a) /\ SumOf(fs, "RETURN") = m + 0 /\ n \in Int /\ m \in Int
    BY <1>1, <1>2, <2>1, NetAppended DEF fs
  <2>3. a \in Nat /\ a <= n /\ m <= 0
    BY <1>1, <1>2, <2>1 DEF SoundLedger
  <2>4. NetOf(fs) >= 0 /\ SumOf(fs, "RETURN") <= 0
    BY ONLY <2>2, <2>3
  <2>5. \A x : PaidWith(fs, x) = PaidWith(es, x) \cup (IF e.ref = x THEN {Len(es) + 1} ELSE {})
    BY <1>1, <1>2, PaidAppended DEF fs
  <2>6. ASSUME NEW x \in Reference, NEW i \in PaidWith(fs, x), NEW j \in PaidWith(fs, x) PROVE i = j
    <3>1. CASE e.ref = x
      <4>1. PaidWith(es, x) = {}
        BY <1>1, <1>2, <3>1
      <4>2. QED
        BY <2>5, <2>6, <3>1, <4>1
    <3>2. CASE e.ref # x
      <4>1. PaidWith(fs, x) = PaidWith(es, x)
        BY <2>5, <3>2
      <4>2. QED
        BY <1>1, <2>6, <4>1 DEF SoundLedger
    <3>3. QED
      BY <3>1, <3>2
  <2>7. QED
    BY <2>4, <2>6 DEF SoundLedger
<1>6. \A t \in Supplier : ledger'[t] = IF t = s THEN fs ELSE ledger[t]
  BY <1>3 DEF AccountInvariant, Payments!TypeOK
<1>7. Payments!TypeOK'
  BY <1>3, <1>4, EndKeeps DEF AccountInvariant, Payments!TypeOK
<1>8. ASSUME NEW t \in Supplier PROVE SoundLedger(ledger[t])'
  <2>1. SoundLedger(ledger'[t])
    BY <1>5, <1>6 DEF AccountInvariant
  <2>2. QED
    BY <2>1 DEF SoundLedger, PaidWith
<1>9. ASSUME NEW q \in Req PROVE HasSupplier(q)' /\ FoundNew(q)' /\ FoundCover(q)'
  <2>1. CASE q = r
    BY <1>3, <2>1, EndKeeps DEF HasSupplier, FoundNew, FoundCover
  <2>2. CASE q # r
    <3>1. payPc'[q] = payPc[q] /\ payDoc'[q] = payDoc[q] /\ asked'[q] = asked[q]
          /\ \A t \in Supplier : supplierLock[t] = q => supplierLock'[t] = q
      BY <1>3, <2>2, EndKeeps
    <3>2. payPc[q] # "idle" => payDoc[q] \in Supplier /\ payDoc[q] # s /\ ledger'[payDoc[q]] = ledger[payDoc[q]]
      BY <1>1, <1>6, <2>2 DEF AccountInvariant, HasSupplier
    <3>3. QED
      BY <3>1, <3>2 DEF AccountInvariant, HasSupplier, FoundNew, FoundCover
  <2>3. QED
    BY <2>1, <2>2
<1>10. QED
  BY <1>7, <1>8, <1>9 DEF AccountInvariant

\* Every step of SupplierAccounts keeps the invariant.
LEMMA AccountStep ==
    ASSUME AccountInvariant, [Payments!Next]_(Payments!vars)
    PROVE  AccountInvariant'
<1>1. ASSUME UNCHANGED Payments!vars PROVE AccountInvariant'
  BY <1>1 DEF Payments!vars, AccountInvariant, Payments!TypeOK, SoundLedger, HasSupplier, FoundNew, FoundCover
<1>2. ASSUME NEW s \in Supplier, Payments!DeleteSupplier(s) PROVE AccountInvariant'
  <2>1. /\ UNCHANGED <<ledger, supplierLock, payPc, payDoc, asked>>
        /\ deleted' = [deleted EXCEPT ![s] = TRUE]
    BY <1>2 DEF Payments!DeleteSupplier
  <2>2. deleted' \in [Supplier -> BOOLEAN]
    BY <2>1 DEF AccountInvariant, Payments!TypeOK
  <2>3. Payments!TypeOK'
    BY <2>1, <2>2 DEF AccountInvariant, Payments!TypeOK
  <2>4. QED
    BY <2>1, <2>3 DEF AccountInvariant, SoundLedger, HasSupplier, FoundNew, FoundCover
<1>3. ASSUME NEW r \in Req, NEW s \in Supplier, NEW p \in Payments!Payment,
             Payments!LockSupplier(r, s, p)
      PROVE  AccountInvariant'
  <2>1. /\ payPc' = [payPc EXCEPT ![r] = "locked"] /\ payDoc' = [payDoc EXCEPT ![r] = s]
        /\ asked' = [asked EXCEPT ![r] = p] /\ supplierLock' = [supplierLock EXCEPT ![s] = r]
        /\ UNCHANGED <<ledger, deleted>> /\ supplierLock[s] = NoReq /\ NoReq \notin Req
    BY <1>3, NoneAssumption DEF Payments!LockSupplier, Payments!Goto, Payments!tables
  <2>2. Payments!TypeOK'
    BY <2>1 DEF AccountInvariant, Payments!TypeOK
  <2>3. \A t \in Supplier : SoundLedger(ledger[t])'
    BY <2>1 DEF AccountInvariant, SoundLedger
  <2>4. ASSUME NEW q \in Req PROVE HasSupplier(q)' /\ FoundNew(q)' /\ FoundCover(q)'
    BY <2>1 DEF AccountInvariant, Payments!TypeOK, HasSupplier, FoundNew, FoundCover
  <2>5. QED
    BY <2>2, <2>3, <2>4 DEF AccountInvariant
<1>4. ASSUME NEW r \in Req, Payments!FindNoPayment(r) PROVE AccountInvariant'
  <2>1. /\ payPc[r] = "locked" /\ payPc' = [payPc EXCEPT ![r] = "new"]
        /\ PaidWith(ledger[payDoc[r]], asked[r].ref) = {}
        /\ UNCHANGED <<ledger, deleted, supplierLock, payDoc, asked>>
    BY <1>4 DEF Payments!FindNoPayment, Payments!Goto, Payments!tables, Payments!PaymentsOf, PaidWith
  <2>2. QED
    BY <2>1 DEF AccountInvariant, Payments!TypeOK, SoundLedger, HasSupplier, FoundNew, FoundCover
<1>5. ASSUME NEW r \in Req, Payments!SumBalance(r) PROVE AccountInvariant'
  <2>1. /\ payPc[r] = "new" /\ payPc' = [payPc EXCEPT ![r] = "pay"]
        /\ UNCHANGED <<ledger, deleted, supplierLock, payDoc, asked>>
        /\ asked[r].amount <= Payments!Balance(ledger[payDoc[r]])
    BY <1>5 DEF Payments!SumBalance, Payments!Goto, Payments!tables
  <2>2. payDoc[r] \in Supplier /\ asked[r].amount \in Nat
        /\ ledger[payDoc[r]] \in Seq(Payments!Entry) /\ SoundLedger(ledger[payDoc[r]])
    BY <2>1, AmountAssumption DEF AccountInvariant, HasSupplier, Payments!Payment, Payments!TypeOK
  <2>3. PICK es : es = ledger[payDoc[r]]
    OBVIOUS
  <2>4. /\ Payments!Balance(es) = NetOf(es) + SumOf(es, "RETURN")
        /\ NetOf(es) \in Int /\ SumOf(es, "RETURN") \in Int
    BY <2>2, <2>3, AmountsFolded, BalanceSplits, SumOfType DEF NetOf
  <2>5. asked[r].amount <= NetOf(es)
    <3>1. PICK a, n, m, b : a = asked[r].amount /\ n = NetOf(es) /\ m = SumOf(es, "RETURN")
                         /\ b = Payments!Balance(es)
      OBVIOUS
    <3>2. a \in Nat /\ n \in Int /\ m \in Int /\ m <= 0 /\ a <= b /\ b = n + m
      BY <2>1, <2>2, <2>3, <2>4, <3>1 DEF SoundLedger
    <3>3. a <= n
      BY ONLY <3>2
    <3>4. QED
      BY <3>1, <3>3
  <2>6. QED
    BY <2>1, <2>3, <2>5 DEF AccountInvariant, Payments!TypeOK, SoundLedger, HasSupplier, FoundNew, FoundCover
<1>6. ASSUME NEW r \in Req, Payments!AnswerRepeated(r) \/ Payments!Rollback(r) PROVE AccountInvariant'
  <2>1. Payments!EndTransaction(r) /\ UNCHANGED <<ledger, deleted>>
    BY <1>6 DEF Payments!AnswerRepeated, Payments!Rollback, Payments!tables
  <2>2. QED
    BY <2>1, LeavingKeeps
<1>7. QED
  BY <1>1, <1>2, <1>3, <1>4, <1>5, <1>6, PostsGrow, CommitKeeps DEF Payments!Next

\* A behaviour starts with empty ledgers.
LEMMA AccountInit == Payments!Init => AccountInvariant
<1> SUFFICES ASSUME Payments!Init PROVE AccountInvariant
  OBVIOUS
<1>1. Payments!TypeOK
  BY DEF Payments!Init, Payments!TypeOK
<1>2. ASSUME NEW s \in Supplier PROVE SoundLedger(ledger[s])
  <2> DEFINE es == <<>>
  <2>1. ledger[s] = es /\ es \in Seq(Payments!Entry) /\ DOMAIN es = {}
    BY DEF Payments!Init
  <2> HIDE DEF es
  <2>2. \A k : SumOf(es, k) = 0
    BY <2>1, SumStep, FS_EmptySet DEF SumOf
  <2>3. NetOf(es) = 0
    BY <2>2 DEF NetOf
  <2>4. \A x : PaidWith(es, x) = {}
    BY <2>1 DEF PaidWith
  <2>5. QED
    BY <2>1, <2>2, <2>3, <2>4 DEF SoundLedger
<1>3. \A r \in Req : payPc[r] = "idle"
  BY DEF Payments!Init
<1>4. QED
  BY <1>1, <1>2, <1>3 DEF AccountInvariant, HasSupplier, FoundNew, FoundCover

\* A step of the composition is a step of SupplierAccounts, or leaves it alone.
LEMMA AccountNext == [Next]_vars => [Payments!Next]_(Payments!vars)
BY DEF Next, vars, accounts, Payments!vars

\* The invariant holds throughout.
LEMMA AccountsStand == Spec => []AccountInvariant
<1>1. Init => AccountInvariant
  BY AccountInit DEF Init
<1>2. AccountInvariant /\ [Next]_vars => AccountInvariant'
  BY AccountStep, AccountNext
<1>3. QED
  BY <1>1, <1>2, PTL DEF Spec

\* A payment that is sent again with its reference is posted once, also while the
\* first attempt is still running (PaidOnce).
THEOREM PaymentsArePaidOnce == Spec => []PaidOnce
<1>1. AccountInvariant => PaidOnce
  <2> SUFFICES ASSUME AccountInvariant, NEW s \in Supplier, NEW x \in Reference
               PROVE  Payments!Cardinality(Payments!PaymentsOf(s, x)) <= 1
    BY DEF PaidOnce, Payments!PaidOnce
  <2>1. Payments!PaymentsOf(s, x) = PaidWith(ledger[s], x)
    BY DEF Payments!PaymentsOf, PaidWith
  <2>2. Cardinality(PaidWith(ledger[s], x)) <= 1
    BY OneAtMost DEF AccountInvariant, SoundLedger
  <2>3. \A S : Payments!Cardinality(S) = Cardinality(S)
    BY DEF Payments!Cardinality, Cardinality
  <2>4. QED
    BY <2>1, <2>2, <2>3
<1>2. QED
  BY <1>1, AccountsStand, PTL

\* However receipts, external sales, returns and payments interleave, payments
\* never exceed what was bought, and the balance goes below zero by no more than
\* the returns (OverpaidOnlyByReturns).
THEOREM SuppliersOverpaidByReturns == Spec => []OverpaidOnlyByReturns
<1>1. AccountInvariant => OverpaidOnlyByReturns
  <2> SUFFICES ASSUME AccountInvariant, NEW s \in Supplier
               PROVE  /\ Payments!Total(s, "PURCHASE") + Payments!Total(s, "EXTERNAL")
                             + Payments!Total(s, "PAYMENT") >= 0
                      /\ Payments!Balance(ledger[s]) >= Payments!Total(s, "RETURN")
    BY DEF OverpaidOnlyByReturns, Payments!OverpaidOnlyByReturns
  <2>1. PICK es : es = ledger[s]
    OBVIOUS
  <2>2. es \in Seq(Payments!Entry) /\ SoundLedger(es)
    BY <2>1 DEF AccountInvariant, Payments!TypeOK
  <2>3. \A k : Payments!Total(s, k) = SumOf(es, k)
    BY <2>1, <2>2, TotalUnfolds, KindFolded
  <2>4. Payments!Balance(es) = NetOf(es) + SumOf(es, "RETURN")
    BY <2>2, AmountsFolded, BalanceSplits
  <2>5. NetOf(es) >= 0 /\ NetOf(es) \in Int /\ SumOf(es, "RETURN") \in Int
    BY <2>2, SumOfType DEF SoundLedger, NetOf
  <2>6. Payments!Balance(es) >= SumOf(es, "RETURN")
    BY <2>4, <2>5
  <2>7. QED
    BY <2>1, <2>3, <2>5, <2>6 DEF NetOf
<1>2. QED
  BY <1>1, AccountsStand, PTL

\* The sum that SumWhere takes of some entries, whichever they are.
Chosen(es, D, h) ==
    h = [S \in SUBSET D |-> IF S = {} THEN 0 ELSE es[Pick(S)].amount + h[S \ {Pick(S)}]]
SumChosen(es, D) == (CHOOSE h : Chosen(es, D, h))[D]

\* It is the sum of their amounts.
LEMMA ChosenSummed ==
    ASSUME NEW es \in Seq(Payments!Entry), NEW D \in SUBSET DOMAIN es
    PROVE  SumChosen(es, D) = SumOver(AmountsOf(es), D)
<1> DEFINE f == AmountsOf(es)
           g == [S \in SUBSET D |-> SumOver(f, S)]
<1>1. IsFiniteSet(D)
  BY EntriesCounted, FS_Subset
<1>2. \A S \in SUBSET D : S # {} => /\ S \ {Pick(S)} \in SUBSET D /\ f[Pick(S)] = es[Pick(S)].amount
  BY PickIn DEF AmountsOf
<1>3. \A S \in SUBSET D : SumOver(f, S) = IF S = {} THEN 0 ELSE f[Pick(S)] + SumOver(f, S \ {Pick(S)})
  <2> HIDE DEF f
  <2>1. QED
    BY <1>1, FS_Subset, SumStep
<1> HIDE DEF f
<1>4. Chosen(es, D, g)
  <2>1. \A S \in SUBSET D : g[S] = IF S = {} THEN 0 ELSE es[Pick(S)].amount + g[S \ {Pick(S)}]
    BY <1>2, <1>3
  <2>2. QED
    BY <2>1 DEF Chosen
<1>5. PICK h : h = CHOOSE i : Chosen(es, D, i)
  OBVIOUS
<1>6. Chosen(es, D, h)
  <2> HIDE DEF g
  <2> QED
    BY <1>4, <1>5
<1>7. \A S \in SUBSET D : h[S] = IF S = {} THEN 0 ELSE f[Pick(S)] + h[S \ {Pick(S)}]
  BY <1>2, <1>6 DEF Chosen
<1>8. h[D] = SumOver(f, D)
  BY <1>1, <1>7, ChoiceSums
<1>9. QED
  BY <1>5, <1>8 DEF SumChosen, f

\* The entries that each figure adds up.
CreditsIn(es)   == {i \in DOMAIN es : ~(es[i].amount > 0)}
AgedIn(es, d)   == {i \in DOMAIN es : Payments!DaysOverdue(es[i]) >= d}
OverdueIn(es)   == {i \in DOMAIN es : es[i].terms # NoDate /\ Payments!Late(es[i]) > 0}
UpcomingIn(es)  == {i \in DOMAIN es : es[i].terms # NoDate /\ Payments!Late(es[i]) <= 0}
UndatedIn(es)   == {i \in DOMAIN es : es[i].terms = NoDate}
UndatedAgedIn(es, d) ==
    {i \in DOMAIN es : es[i].terms = NoDate /\ Payments!DaysOverdue(es[i]) >= d}

\* The figures are such sums.
LEMMA FiguresUnfold ==
    \A es :
        /\ Payments!Credits(es) = -SumChosen(es, CreditsIn(es))
        /\ \A d : Payments!AgedAtLeast(es, d) =
                     SumChosen(Payments!Open(es), AgedIn(Payments!Open(es), d))
        /\ \A d : Payments!UndatedAged(es, d) =
                     SumChosen(Payments!Open(es), UndatedAgedIn(Payments!Open(es), d))
        /\ Payments!ScheduledOverdue(es) =
              SumChosen(Payments!Open(es), OverdueIn(Payments!Open(es)))
        /\ Payments!ScheduledUpcoming(es) =
              SumChosen(Payments!Open(es), UpcomingIn(Payments!Open(es)))
        /\ Payments!Undated(es) = SumChosen(Payments!Open(es), UndatedIn(Payments!Open(es)))
BY DEF Payments!Credits, Payments!IsDebit, Payments!AgedAtLeast, Payments!UndatedAged,
       Payments!ScheduledOverdue,
       Payments!ScheduledUpcoming, Payments!Undated, Payments!SumWhere, Payments!MapThenSumSet,
       Payments!MapThenFoldSet, SumChosen, Chosen, Pick, CreditsIn, AgedIn, UndatedAgedIn, OverdueIn,
       UpcomingIn, UndatedIn

\* What is open, and what of the credits is left to pay the next debit.
Account == [credit : Int, open : Seq(Payments!Entry)]
Start(c) == [credit |-> c, open |-> <<>>]
Pay(e, a) ==
    IF ~(e.amount > 0) THEN a
    ELSE LET apply == IF e.amount < a.credit THEN e.amount ELSE a.credit
         IN  [credit |-> a.credit - apply,
              open   |-> Append(a.open, [e EXCEPT !.amount = @ - apply])]
OpenFolded(es, c, h) ==
    h = [S \in SUBSET (DOMAIN es) |->
            IF S = {} THEN Start(c) ELSE Pay(es[Top(S)], h[S \ {Top(S)}])]

\* Open is the fold of the ledger with such steps.
LEMMA OpenUnfolds ==
    \A es : Payments!Open(es) = (CHOOSE h : OpenFolded(es, Payments!Credits(es), h))[DOMAIN es].open
BY DEF Payments!Open, Payments!IsDebit, Payments!FoldLeft, Payments!MapThenFoldSet, Payments!Max,
       OpenFolded, Start, Pay, Top

\* An appended entry adds its amount to the sum of all.
LEMMA AllAppended ==
    ASSUME NEW es \in Seq(Payments!Entry), NEW e \in Payments!Entry
    PROVE  /\ Append(es, e) \in Seq(Payments!Entry)
           /\ SumOfAll(es) \in Int /\ SumOfAll(Append(es, e)) = SumOfAll(es) + e.amount
<1> DEFINE fs == Append(es, e)
           n == Len(es) + 1
           D == DOMAIN es
           E == DOMAIN fs
           f == AmountsOf(es)
           g == AmountsOf(fs)
<1>1. /\ fs \in Seq(Payments!Entry) /\ D = 1..Len(es) /\ E = 1..n /\ Len(es) \in Nat
      /\ fs[n] = e /\ \A i \in D : fs[i] = es[i]
  OBVIOUS
<1>2. IsFiniteSet(D) /\ \A i \in D : f[i] \in Int
  BY EntriesCounted DEF AmountsOf
<1>3. IsFiniteSet(E) /\ \A i \in E : g[i] \in Int
  <2> HIDE DEF fs
  <2>1. QED
    BY <1>1, EntriesCounted DEF AmountsOf
<1>4. n \in E /\ E \ {n} = D
  BY <1>1
<1>5. g[n] = e.amount /\ (\A i \in D : g[i] = f[i]) /\ e.amount \in Int
  BY <1>1, <1>4 DEF AmountsOf, Payments!Entry
<1>6. SumOfAll(fs) = SumOver(g, E) /\ SumOfAll(es) = SumOver(f, D)
  BY DEF SumOfAll
<1> HIDE DEF fs, D, E, f, g, n
<1>7. SumOver(g, E) = g[n] + SumOver(g, D)
  BY <1>3, <1>4, SumRemove
<1>8. SumOver(g, D) = SumOver(f, D)
  BY <1>2, <1>5, SumSame
<1>9. SumOver(f, D) \in Int
  BY <1>2, SumType
<1>10. PICK v, w : v = e.amount /\ w = SumOver(f, D)
  OBVIOUS
<1>11. v + w = w + v
  BY <1>5, <1>9, <1>10
<1>12. QED
  BY <1>1, <1>5, <1>6, <1>7, <1>8, <1>9, <1>10, <1>11 DEF fs

\* A step of the fold keeps the types.
LEMMA PayType ==
    ASSUME NEW e \in Payments!Entry, NEW a \in Account
    PROVE  Pay(e, a) \in Account
<1>1. PICK k, m, os : k = a.credit /\ m = e.amount /\ os = a.open
  OBVIOUS
<1>2. k \in Int /\ m \in Int /\ os \in Seq(Payments!Entry)
  BY <1>1 DEF Account, Payments!Entry
<1>3. PICK y : y = IF m < k THEN m ELSE k
  OBVIOUS
<1>4. y \in Int /\ k - y \in Int /\ m - y \in Int
  BY ONLY <1>2, <1>3
<1>5. PICK d : d = [e EXCEPT !.amount = m - y]
  OBVIOUS
<1>6. d \in Payments!Entry
  BY <1>4, <1>5 DEF Payments!Entry
<1>7. Append(os, d) \in Seq(Payments!Entry)
  BY <1>2, <1>6
<1>8. Pay(e, a) = IF ~(m > 0) THEN a ELSE [credit |-> k - y, open |-> Append(os, d)]
  BY <1>1, <1>3, <1>5 DEF Pay
<1>9. QED
  BY <1>4, <1>7, <1>8 DEF Account

\* What is open is not negative, and nothing is open as long as credit is left.
Paying(a) ==
    /\ a \in Account /\ a.credit >= 0
    /\ \A i \in DOMAIN a.open : a.open[i].amount >= 0
    /\ a.credit = 0 \/ SumOfAll(a.open) = 0

\* A debit is added to what is open, less the credit that it uses up.
LEMMA PayKeeps ==
    ASSUME NEW e \in Payments!Entry, NEW a, Paying(a)
    PROVE  /\ Paying(Pay(e, a))
           /\ SumOfAll(Pay(e, a).open) - Pay(e, a).credit =
                 SumOfAll(a.open) - a.credit + (IF e.amount > 0 THEN e.amount ELSE 0)
<1>1. PICK k, m, os, w : k = a.credit /\ m = e.amount /\ os = a.open /\ w = SumOfAll(os)
  OBVIOUS
<1>2. k \in Int /\ m \in Int /\ os \in Seq(Payments!Entry) /\ k >= 0 /\ (k = 0 \/ w = 0)
  BY <1>1 DEF Account, Payments!Entry, Paying
<1>3. w \in Int
  BY <1>1, <1>2, AllAppended
<1>4. CASE ~(m > 0)
  <2>1. Pay(e, a) = a
    BY <1>1, <1>4 DEF Pay
  <2>2. w - k = w - k + 0
    BY ONLY <1>2, <1>3
  <2>3. QED
    BY <1>1, <1>4, <2>1, <2>2
<1>5. CASE m > 0
  <2>1. PICK y : y = IF m < k THEN m ELSE k
    OBVIOUS
  <2>2. PICK d : d = [e EXCEPT !.amount = m - y]
    OBVIOUS
  <2>3. y \in Int /\ m - y >= 0 /\ k - y >= 0 /\ m - y \in Int
    BY ONLY <1>2, <1>5, <2>1
  <2>4. d \in Payments!Entry /\ d.amount = m - y
    BY <2>2, <2>3 DEF Payments!Entry
  <2>5. PICK fs : fs = Append(os, d)
    OBVIOUS
  <2>6. Pay(e, a) = [credit |-> k - y, open |-> fs]
    BY <1>1, <1>5, <2>1, <2>2, <2>5 DEF Pay
  <2>7. fs \in Seq(Payments!Entry) /\ SumOfAll(fs) = w + (m - y)
    BY <1>1, <1>2, <2>4, <2>5, AllAppended
  <2>8. ASSUME NEW i \in DOMAIN fs PROVE fs[i].amount >= 0
    <3>1. (i \in DOMAIN os /\ fs[i] = os[i]) \/ fs[i] = d
      BY <1>2, <2>4, <2>5
    <3>2. QED
      BY <1>1, <2>3, <2>4, <3>1 DEF Paying
  <2>9. k - y = 0 \/ w + (m - y) = 0
    BY ONLY <1>2, <1>5, <2>1
  <2>10. (w + (m - y)) - (k - y) = w - k + m
    BY ONLY <1>2, <1>3, <2>3
  <2>11. Pay(e, a) \in Account
    BY PayType DEF Paying
  <2>12. QED
    BY <1>1, <1>5, <2>3, <2>6, <2>7, <2>8, <2>9, <2>10, <2>11 DEF Paying
<1>6. QED
  BY <1>4, <1>5

\* The debits of a ledger.
DebitsOf(es) == [i \in DOMAIN es |-> IF es[i].amount > 0 THEN es[i].amount ELSE 0]

\* Credits are what is not a debit, and so the balance is what the debits exceed them by.
LEMMA CreditsSummed ==
    ASSUME NEW es \in Seq(Payments!Entry)
    PROVE  /\ Payments!Credits(es) \in Nat
           /\ SumOver(DebitsOf(es), DOMAIN es) \in Nat
           /\ Payments!Balance(es) = SumOver(DebitsOf(es), DOMAIN es) - Payments!Credits(es)
<1> DEFINE f == AmountsOf(es)
           g == DebitsOf(es)
           D == DOMAIN es
           C == CreditsIn(es)
           B == D \ C
           k == [i \in C |-> -es[i].amount]
           z == [i \in C |-> 0]
<1>1. /\ IsFiniteSet(D) /\ C \in SUBSET D /\ IsFiniteSet(C) /\ IsFiniteSet(B)
      /\ \A i \in D : es[i].amount \in Int /\ f[i] = es[i].amount
  BY EntriesCounted, FS_Subset DEF AmountsOf, CreditsIn
<1>2. /\ \A i \in D : f[i] \in Int /\ g[i] \in Int /\ g[i] \in Nat
      /\ \A i \in C : g[i] = 0 /\ k[i] \in Nat /\ k[i] \in Int /\ z[i] = f[i] + k[i] /\ z[i] = 0
      /\ \A i \in B : g[i] = f[i]
  BY <1>1 DEF DebitsOf, CreditsIn
<1>3. Payments!Balance(es) = SumOver(f, D) /\ Payments!Credits(es) = -SumOver(f, C)
  BY <1>1, FiguresUnfold, ChosenSummed, AmountsFolded DEF SumOfAll
<1> HIDE DEF f, g, D, C, k, z
<1>4. SumOver(f, D) = SumOver(f, C) + SumOver(f, B) /\ SumOver(g, D) = SumOver(g, C) + SumOver(g, B)
  BY <1>1, <1>2, SumUnion
<1>5. SumOver(g, C) = 0 /\ SumOver(z, C) = 0 /\ SumOver(k, C) \in Nat /\ SumOver(g, B) = SumOver(f, B)
  <2> HIDE DEF B
  <2>1. SumOver(g, C) = 0 /\ SumOver(z, C) = 0 /\ SumOver(k, C) \in Nat
    BY <1>1, <1>2, SumType
  <2>2. SumOver(g, B) = SumOver(f, B)
    BY <1>1, <1>2, SumSame
  <2>3. QED
    BY <2>1, <2>2
<1>6. SumOver(z, C) = SumOver(f, C) + SumOver(k, C)
  <2>1. \A i \in C : f[i] \in Int
    BY <1>1, <1>2
  <2>2. QED
    BY <1>1, <1>2, <2>1, SumAdds
<1>7. SumOver(f, C) \in Int /\ SumOver(f, B) \in Int /\ SumOver(g, D) \in Nat
  <2>1. (\A i \in C : f[i] \in Int) /\ \A i \in B : f[i] \in Int
    BY <1>1, <1>2
  <2>2. QED
    BY <1>1, <1>2, <2>1, SumType
<1>8. PICK fc, fb, kc : fc = SumOver(f, C) /\ fb = SumOver(f, B) /\ kc = SumOver(k, C)
  OBVIOUS
<1>9. /\ fc \in Int /\ fb \in Int /\ kc \in Nat /\ 0 = fc + kc
      /\ Payments!Balance(es) = fc + fb /\ Payments!Credits(es) = -fc /\ SumOver(g, D) = 0 + fb
  BY <1>3, <1>4, <1>5, <1>6, <1>7, <1>8
<1>10. -fc \in Nat /\ fc + fb = (0 + fb) - (-fc)
  BY ONLY <1>9
<1>11. QED
  BY <1>7, <1>9, <1>10 DEF g, D

\* What is open is what the debits exceed the credits by, if they do.
LEMMA OpenAdds ==
    ASSUME NEW es \in Seq(Payments!Entry)
    PROVE  /\ Payments!Open(es) \in Seq(Payments!Entry)
           /\ \A i \in DOMAIN Payments!Open(es) : Payments!Open(es)[i].amount >= 0
           /\ SumOfAll(Payments!Open(es)) =
                 IF Payments!Balance(es) > 0 THEN Payments!Balance(es) ELSE 0
<1> DEFINE c == Payments!Credits(es)
           D == DOMAIN es
           f == DebitsOf(es)
           step == [i \in D |-> [a \in Account |-> Pay(es[i], a)]]
<1>1. /\ D = 1..Len(es) /\ Len(es) \in Nat /\ D \in SUBSET Int /\ IsFiniteSet(D)
      /\ \A i \in D : es[i] \in Payments!Entry
  BY EntriesCounted
<1>2. c \in Nat /\ SumOver(f, D) \in Nat /\ Payments!Balance(es) = SumOver(f, D) - c
  BY CreditsSummed
<1>3. Start(c) \in Account
  BY <1>2 DEF Start, Account
<1>4. PICK h : h = CHOOSE g : OpenFolded(es, c, g)
  OBVIOUS
<1>5. OpenFolded(es, c, h)
  <2>1. \A i \in D, a \in Account : step[i][a] \in Account /\ step[i][a] = Pay(es[i], a)
    BY <1>1, PayType
  <2> HIDE DEF step
  <2>2. PICK g : Folded(D, Start(c), step, g) /\ \A S \in SUBSET D : g[S] \in Account
    BY <1>1, <1>3, <2>1, FoldExists
  <2>3. \A S \in SUBSET D : S # {} => Top(S) \in D /\ g[S \ {Top(S)}] \in Account
    BY <1>1, <2>2, TopIn, FS_Subset
  <2>4. \A S \in SUBSET D : g[S] = IF S = {} THEN Start(c) ELSE Pay(es[Top(S)], g[S \ {Top(S)}])
    BY <2>1, <2>2, <2>3 DEF Folded
  <2>5. OpenFolded(es, c, g)
    <3>1. g = [S \in SUBSET D |-> g[S]]
      BY <2>2 DEF Folded
    <3>2. QED
      BY <2>4, <3>1 DEF OpenFolded
  <2>6. QED
    BY <1>4, <2>5
<1>6. \A i \in D : f[i] \in Int /\ f[i] = IF es[i].amount > 0 THEN es[i].amount ELSE 0
  BY EntriesCounted DEF DebitsOf
<1>7. \A S \in SUBSET D : SumOver(f, S) = IF S = {} THEN 0 ELSE SumOver(f, S \ {Top(S)}) + f[Top(S)]
  <2> HIDE DEF D, f, c, step
  <2>1. \A i \in D : f[i] \in Int
    BY <1>6
  <2>2. QED
    BY <1>1, <2>1, SumFromTop
<1> DEFINE Fine(n) == /\ Paying(h[1..n])
                      /\ SumOfAll(h[1..n].open) - h[1..n].credit = SumOver(f, 1..n) - c
           X == {n \in Nat : n \in 0..Len(es) => Fine(n)}
<1>8. 0 \in X
  <2>1. h[1..0] = Start(c)
    BY <1>5 DEF OpenFolded
  <2>2. SumOver(f, 1..0) = 0 /\ SumOfAll(<<>>) = 0
    <3>1. 1..0 = {} /\ DOMAIN <<>> = {} /\ IsFiniteSet({})
      BY FS_EmptySet
    <3>2. QED
      BY <3>1, SumStep DEF SumOfAll
  <2>3. Fine(0)
    BY <1>2, <1>3, <2>1, <2>2 DEF Start, Paying
  <2> HIDE DEF Fine
  <2>4. QED
    BY <2>3
<1>9. ASSUME NEW n \in Nat, n \in X PROVE n + 1 \in X
  <2>1. ASSUME n + 1 \in 0..Len(es) PROVE Fine(n + 1)
    <3>1. n + 1 \in D /\ 1..(n + 1) \in SUBSET D /\ 1..(n + 1) # {} /\ Fine(n)
      BY <1>1, <1>9, <2>1
    <3>2. Top(1..(n + 1)) = n + 1 /\ 1..(n + 1) \ {Top(1..(n + 1))} = 1..n
      <4>1. (n + 1) - 1 = n
        OBVIOUS
      <4>2. QED
        BY <4>1, TopOfFirst
    <3>3. h[1..(n + 1)] = Pay(es[n + 1], h[1..n])
      BY <1>5, <3>1, <3>2 DEF OpenFolded
    <3>4. SumOver(f, 1..(n + 1)) = SumOver(f, 1..n) + f[n + 1]
      <4> HIDE DEF D, f, c, step, Fine
      <4>1. PICK U : U = 1..(n + 1)
        OBVIOUS
      <4>2. SumOver(f, U) = SumOver(f, U \ {Top(U)}) + f[Top(U)]
        BY <1>7, <3>1, <4>1
      <4>3. QED
        BY <3>2, <4>1, <4>2
    <3>5. PICK a, t : a = h[1..n] /\ t = Pay(es[n + 1], a)
      OBVIOUS
    <3>6. /\ Paying(t)
          /\ SumOfAll(t.open) - t.credit = SumOfAll(a.open) - a.credit + f[n + 1]
      <4> HIDE DEF f
      <4>1. QED
        BY <1>1, <1>6, <3>1, <3>5, PayKeeps
    <3>7. SumOfAll(a.open) - a.credit = SumOver(f, 1..n) - c
      BY <3>1, <3>5
    <3>8. SumOver(f, 1..n) \in Int /\ f[n + 1] \in Int /\ c \in Int
      <4>1. IsFiniteSet(1..n) /\ 1..n \in SUBSET D
        BY <1>1, <3>1, FS_Interval
      <4> HIDE DEF D, f
      <4>2. QED
        BY <1>2, <1>6, <3>1, <4>1, SumType
    <3>9. PICK s, p, y : s = SumOver(f, 1..n) /\ p = f[n + 1] /\ y = c
      OBVIOUS
    <3>10. (s - y) + p = (s + p) - y
      BY ONLY <3>8, <3>9
    <3>11. SumOfAll(t.open) - t.credit = SumOver(f, 1..(n + 1)) - c
      BY <3>4, <3>6, <3>7, <3>9, <3>10
    <3> HIDE DEF c, f
    <3>12. QED
      BY <3>3, <3>5, <3>6, <3>11
  <2>2. QED
    BY <2>1
<1> HIDE DEF X
<1>10. Nat \subseteq X
  BY <1>8, <1>9, CountingInduction
<1>11. Fine(Len(es))
  BY <1>1, <1>10 DEF X
<1>12. PICK os, k : os = h[D].open /\ k = h[D].credit
  OBVIOUS
<1>13. Payments!Open(es) = os
  BY <1>4, <1>12, OpenUnfolds
<1>14. /\ os \in Seq(Payments!Entry) /\ k \in Int /\ k >= 0 /\ (k = 0 \/ SumOfAll(os) = 0)
       /\ \A i \in DOMAIN os : os[i].amount >= 0
       /\ SumOfAll(os) - k = SumOver(f, D) - c
  BY <1>1, <1>11, <1>12 DEF Paying, Account
<1>15. SumOfAll(os) \in Int /\ SumOfAll(os) >= 0
  <2>1. IsFiniteSet(DOMAIN os) /\ \A i \in DOMAIN os : AmountsOf(os)[i] \in Nat
    BY <1>14, EntriesCounted DEF AmountsOf
  <2>2. SumOver(AmountsOf(os), DOMAIN os) \in Nat
    BY <2>1, SumType
  <2>3. QED
    BY <2>2 DEF SumOfAll
<1>16. PICK w, b : w = SumOfAll(os) /\ b = Payments!Balance(es)
  OBVIOUS
<1>17. w \in Int /\ w >= 0 /\ k \in Int /\ k >= 0 /\ (k = 0 \/ w = 0) /\ w - k = b
  BY <1>2, <1>14, <1>15, <1>16
<1>18. w = IF b > 0 THEN b ELSE 0
  BY ONLY <1>17
<1>19. QED
  BY <1>13, <1>14, <1>16, <1>18

\* The schedule parts what is open, and of what has a due date calls overdue all
\* that the report calls a day late.
LEMMA ScheduleParts ==
    ASSUME NEW os \in Seq(Payments!Entry), \A i \in DOMAIN os : os[i].amount >= 0
    PROVE  /\ SumChosen(os, OverdueIn(os)) + SumChosen(os, UpcomingIn(os))
                + SumChosen(os, UndatedIn(os)) = SumOfAll(os)
           /\ SumChosen(os, AgedIn(os, 1)) - SumChosen(os, UndatedAgedIn(os, 1))
                \in 0..SumChosen(os, OverdueIn(os))
<1> DEFINE f == AmountsOf(os)
           D == DOMAIN os
           O == OverdueIn(os)
           U == UpcomingIn(os)
           N == UndatedIn(os)
           L == AgedIn(os, 1)
           Y == UndatedAgedIn(os, 1)
           T == L \ Y
           R == O \ T
           B == D \ O
<1>1. IsFiniteSet(D) /\ \A i \in D : os[i] \in Payments!Entry /\ f[i] \in Nat /\ f[i] \in Int
  <2>1. \A i \in D : os[i].amount \in Int /\ os[i].amount >= 0
    BY EntriesCounted
  <2>2. QED
    BY <2>1, EntriesCounted DEF AmountsOf
<1>2. \A i \in D : os[i].terms # NoDate => Payments!Late(os[i]) \in Int
  <2>1. ASSUME NEW i \in D, os[i].terms # NoDate PROVE Payments!Late(os[i]) \in Int
    <3>1. PICK g, d : g = os[i].age /\ d = os[i].terms
      OBVIOUS
    <3>2. g \in Nat /\ d \in Nat
      BY <1>1, <2>1, <3>1, TermsAssumption DEF Payments!Entry
    <3>3. g - 2 * d \in Int
      BY ONLY <3>2
    <3>4. QED
      BY <2>1, <3>1, <3>3 DEF Payments!Late
  <2>2. QED
    BY <2>1
<1>3. O \in SUBSET D /\ U \in SUBSET B /\ B \ U = N /\ N \in SUBSET D /\ U \in SUBSET D
  BY <1>2 DEF OverdueIn, UpcomingIn, UndatedIn
<1>4. L \in SUBSET D /\ Y \in SUBSET L /\ T \in SUBSET O
  <2>1. ASSUME NEW i \in D, i \in T PROVE i \in O
    <3>1. os[i].terms # NoDate /\ Payments!Late(os[i]) \in Int /\ Payments!Late(os[i]) \div 2 >= 1
      BY <1>2, <2>1 DEF AgedIn, UndatedAgedIn, Payments!DaysOverdue
    <3>2. PICK y : y = Payments!Late(os[i])
      OBVIOUS
    <3>3. y > 0
      BY ONLY <3>1, <3>2
    <3>4. QED
      BY <2>1, <3>1, <3>2, <3>3 DEF OverdueIn
  <2>2. QED
    BY <2>1 DEF AgedIn, UndatedAgedIn
<1>5. /\ SumChosen(os, O) = SumOver(f, O) /\ SumChosen(os, U) = SumOver(f, U)
      /\ SumChosen(os, N) = SumOver(f, N) /\ SumChosen(os, L) = SumOver(f, L)
      /\ SumChosen(os, Y) = SumOver(f, Y) /\ SumOfAll(os) = SumOver(f, D)
  <2>1. Y \in SUBSET D
    BY <1>4
  <2> HIDE DEF O, U, N, L, Y
  <2>2. QED
    BY <1>3, <1>4, <2>1, ChosenSummed DEF SumOfAll
<1> HIDE DEF f, D, O, U, N, L, Y
<1>6. SumOver(f, D) = SumOver(f, O) + SumOver(f, B)
  <2>1. QED
    BY <1>1, <1>3, SumUnion
<1>7. SumOver(f, B) = SumOver(f, U) + SumOver(f, N)
  <2>1. IsFiniteSet(B) /\ \A i \in B : f[i] \in Int
    BY <1>1, FS_Subset
  <2> HIDE DEF B
  <2>2. QED
    BY <1>3, <2>1, SumUnion
<1>8. SumOver(f, L) = SumOver(f, Y) + SumOver(f, T)
  <2>1. IsFiniteSet(L) /\ \A i \in L : f[i] \in Int
    BY <1>1, <1>4, FS_Subset
  <2>2. QED
    BY <1>4, <2>1, SumUnion
<1>9. SumOver(f, O) = SumOver(f, T) + SumOver(f, R)
  <2>1. IsFiniteSet(O) /\ \A i \in O : f[i] \in Int
    BY <1>1, <1>3, FS_Subset
  <2> HIDE DEF T
  <2>2. QED
    BY <1>4, <2>1, SumUnion
<1>10. /\ SumOver(f, O) \in Nat /\ SumOver(f, U) \in Nat /\ SumOver(f, N) \in Nat
       /\ SumOver(f, Y) \in Nat /\ SumOver(f, T) \in Nat /\ SumOver(f, R) \in Nat
  <2>1. ASSUME NEW S \in SUBSET D PROVE SumOver(f, S) \in Nat
    <3>1. IsFiniteSet(S) /\ \A i \in S : f[i] \in Nat
      BY <1>1, FS_Subset
    <3>2. QED
      BY <3>1, SumType
  <2>2. Y \in SUBSET D /\ T \in SUBSET D /\ R \in SUBSET D
    BY <1>3, <1>4
  <2> HIDE DEF R, T
  <2>3. QED
    BY <1>3, <2>1, <2>2
<1> HIDE DEF R, B, T
<1>11. PICK d, o, u, n, l, y, t, r, b :
           /\ d = SumOver(f, D) /\ o = SumOver(f, O) /\ u = SumOver(f, U)
           /\ n = SumOver(f, N) /\ l = SumOver(f, L) /\ y = SumOver(f, Y)
           /\ t = SumOver(f, T) /\ r = SumOver(f, R) /\ b = SumOver(f, B)
  OBVIOUS
<1>12. o + u + n = d /\ l - y \in 0..o
  <2>1. /\ d = o + b /\ b = u + n /\ l = y + t /\ o = t + r
        /\ o \in Nat /\ u \in Nat /\ n \in Nat /\ y \in Nat /\ t \in Nat /\ r \in Nat
    BY <1>6, <1>7, <1>8, <1>9, <1>10, <1>11
  <2>2. QED
    BY ONLY <2>1
<1>13. QED
  BY <1>5, <1>11, <1>12 DEF O, U, N, L, Y

\* The aging report adds up to the balance of the supplier's ledger, or to
\* nothing when it is overpaid; the payment schedule parts the same amounts, with
\* what has no due date, which it leaves out, and of what has one calls overdue all
\* that the aging report calls a day late (calculate_aging of supplier_service and
\* the schedule of routers/suppliers).
THEOREM LedgersAge == Spec => []AgingAddsUp
<1>1. AccountInvariant => Payments!AgingAddsUp
  <2> SUFFICES ASSUME AccountInvariant, NEW s \in Supplier
               PROVE  LET es == ledger[s]
                      IN  /\ Payments!AgingTotal(es) =
                                IF Payments!Balance(es) > 0 THEN Payments!Balance(es) ELSE 0
                          /\ Payments!ScheduledOverdue(es) + Payments!ScheduledUpcoming(es)
                               + Payments!Undated(es) = Payments!AgingTotal(es)
                          /\ Payments!AgedAtLeast(es, 1) - Payments!UndatedAged(es, 1)
                               \in 0..Payments!ScheduledOverdue(es)
    BY DEF Payments!AgingAddsUp
  <2>1. PICK es : es = ledger[s]
    OBVIOUS
  <2>2. es \in Seq(Payments!Entry)
    BY <2>1 DEF AccountInvariant, Payments!TypeOK
  <2>3. PICK os : os = Payments!Open(es)
    OBVIOUS
  <2>4. /\ os \in Seq(Payments!Entry) /\ \A i \in DOMAIN os : os[i].amount >= 0
        /\ SumOfAll(os) = IF Payments!Balance(es) > 0 THEN Payments!Balance(es) ELSE 0
    BY <2>2, <2>3, OpenAdds
  <2>5. Payments!AgingTotal(es) = SumOfAll(os)
    BY <2>3, <2>4, AmountsFolded DEF Payments!AgingTotal
  <2>6. /\ Payments!ScheduledOverdue(es) = SumChosen(os, OverdueIn(os))
        /\ Payments!ScheduledUpcoming(es) = SumChosen(os, UpcomingIn(os))
        /\ Payments!Undated(es) = SumChosen(os, UndatedIn(os))
        /\ Payments!AgedAtLeast(es, 1) = SumChosen(os, AgedIn(os, 1))
        /\ Payments!UndatedAged(es, 1) = SumChosen(os, UndatedAgedIn(os, 1))
    BY <2>3, FiguresUnfold
  <2>7. QED
    BY <2>1, <2>4, <2>5, <2>6, ScheduleParts
<1>2. QED
  <2>1. AccountInvariant => AgingAddsUp
    BY <1>1 DEF AgingAddsUp
  <2>2. QED
    BY <2>1, AccountsStand, PTL

-----------------------------------------------------------------------------
(* AuditSessions                                                           *)

\* The types of what is committed.
AuditShared ==
    /\ stocked \subseteq AuditedPart
    /\ stock \in [AuditedPart -> Nat] /\ shelf \in [AuditedPart -> Nat]
    /\ auditStatus \in [Session -> Audits!Status]
    /\ snapshot \in [Session -> [AuditedPart -> Nat \cup {NoItem}]]
    /\ counts \in [Session -> SUBSET Audits!CountRow]
    /\ DOMAIN adjusted = Session
    /\ flagged \in [Session -> SUBSET AuditedPart]
    /\ hidden \in [Session -> SUBSET AuditedPart]
    /\ omitted \in [Session -> SUBSET AuditedPart]

\* The types of the sessions, and what a request at work carries.
AuditLocal ==
    /\ auditPc \in [Req -> {"idle", "stamped", "find", "count", "sum", "adjust", "move"}]
    /\ auditDoc \in [Req -> Session \cup {NoSession}]
    /\ part \in [Req -> AuditedPart \cup {NoPart}]
    /\ auditView \in [Req -> Audits!View]
    /\ newer \in [Req -> SUBSET Session]
    /\ \A r \in Req :
          /\ auditPc[r] \in {"idle", "move"} <=> auditDoc[r] = NoSession
          /\ auditPc[r] \in {"move", "find", "count"} => part[r] \in AuditedPart
          /\ auditPc[r] = "count" => auditView[r].item \in Nat

\* What a count of the part is compared with.
Frozen(s, p) == IF snapshot[s][p] = NoItem THEN 0 ELSE snapshot[s][p]

\* One request works on the session, and what it has read of it is current.
AloneOn(s) ==
    /\ \A q, r \in Req : auditDoc[q] = s /\ auditDoc[r] = s => q = r
    /\ \A r \in Req : auditDoc[r] = s =>
          /\ auditPc[r] = "stamped" => auditStatus[s] = "NONE"
          /\ auditPc[r] # "stamped" => auditStatus[s] \in Audits!Open /\ auditView[r].status = auditStatus[s]
          /\ auditPc[r] = "count" =>
                /\ auditView[r].rows = {c \in counts[s] : c.part = part[r]}
                /\ auditView[r].item = Frozen(s, part[r])
          /\ auditPc[r] = "adjust" => auditView[r].rows = counts[s]

\* A part is counted once, and compared with its snapshot.
CountedOnce(s) ==
    /\ auditStatus[s] = "NONE" => counts[s] = {}
    /\ \A c, d \in counts[s] : c.part = d.part => c = d
    /\ \A c \in counts[s] : /\ snapshot[s][c.part] \in Nat
                            /\ c.variance = c.counted - snapshot[s][c.part]

\* The approval, and nothing before it, posts the variances.
Posted(s) ==
    \A p \in AuditedPart :
        /\ auditStatus[s] # "COMPLETED" => adjusted[s][p] = 0
        /\ auditStatus[s] = "COMPLETED" =>
              /\ \A c \in counts[s] : c.part = p => adjusted[s][p] = c.variance
              /\ (\A c \in counts[s] : c.part # p) => adjusted[s][p] = 0

\* What the snapshot or the flags know to have changed since, and what they
\* have no way to know.
Excused(s) == flagged[s] \cup hidden[s] \cup omitted[s]

\* The books of every other part are those of the snapshot, and its count is
\* what is on the shelf.
Aligned(s) ==
    auditStatus[s] \in Audits!Open =>
        /\ \A p \in AuditedPart \ Excused(s) : stock[p] = Frozen(s, p)
        /\ \A c \in counts[s] : c.part \notin Excused(s) => c.counted = shelf[c.part]
        /\ \A r \in Req : auditDoc[r] = s /\ auditPc[r] \in {"find", "count"} /\ part[r] \notin Excused(s) =>
              auditView[r].counted = shelf[part[r]]

\* A movement that was not written after the timestamp is hidden.
Hidden(s) ==
    /\ \A r \in Req : auditDoc[r] = s /\ auditPc[r] # "stamped" => auditStatus[s] # "NONE"
    /\ auditStatus[s] # "NONE" =>
          \A r \in Req : s \notin newer[r] /\ auditDoc[r] # s => Audits!Moving(r) \subseteq hidden[s]

\* What holds of an audit that no two requests wrote at a time.
Sound(s) == AloneOn(s) /\ CountedOnce(s) /\ Posted(s) /\ Aligned(s)

\* A part without a row in the stock has none.
Unstocked == \A p \in AuditedPart \ stocked : stock[p] = 0

\* What both proofs about audits carry.
AuditInvariant ==
    /\ AuditShared /\ AuditLocal /\ Unstocked
    /\ \A s \in Session : Hidden(s)
    /\ \A s \in Session \ auditRaced : Sound(s)

\* The sum of the variances of some counts.
Variances(S) == Audits!MapThenSumSet(LAMBDA c : c.variance, S)

\* What a request has written of a part, and not committed.
Written(r, p) ==
    IF auditPc[r] = "move" /\ part[r] = p THEN auditView[r].change
    ELSE IF auditPc[r] = "adjust" THEN Variances({c \in auditView[r].rows : c.part = p})
    ELSE 0

\* Changes, part by part; and in the next state.
LEMMA ChangesWritten == \A r \in Req : Audits!Changes(r) = [p \in AuditedPart |-> Written(r, p)]
BY DEF Audits!Changes, Written, Variances, Audits!MapThenSumSet, Audits!MapThenFoldSet

LEMMA ChangesWrittenNext == \A r \in Req : Audits!Changes(r)' = [p \in AuditedPart |-> Written(r, p)']
BY DEF Audits!Changes, Written, Variances, Audits!MapThenSumSet, Audits!MapThenFoldSet

\* Moving, part by part; and in the next state.
LEMMA MovingWritten == \A r \in Req : Audits!Moving(r) = {p \in AuditedPart : Written(r, p) # 0}
BY ChangesWritten DEF Audits!Moving

LEMMA MovingWrittenNext == \A r \in Req : Audits!Moving(r)' = {p \in AuditedPart : Written(r, p)' # 0}
BY ChangesWrittenNext DEF Audits!Moving

\* A request that does not move has written what it had.
LEMMA MovingSame ==
    ASSUME NEW q \in Req, UNCHANGED <<auditPc[q], part[q], auditView[q]>> PROVE Audits!Moving(q)' = Audits!Moving(q)
<1>1. ASSUME NEW p \in AuditedPart PROVE Written(q, p)' = Written(q, p)
   BY DEF Written
<1> QED
  BY <1>1, MovingWritten, MovingWrittenNext

\* Before it writes a movement or the adjustments, a request has written nothing.
LEMMA NotMovingNext ==
    ASSUME NEW q \in Req, auditPc'[q] \notin {"move", "adjust"} PROVE Audits!Moving(q)' = {}
BY MovingWrittenNext DEF Written

\* The request does not move.
Same(q) == UNCHANGED <<auditPc[q], auditDoc[q], part[q], auditView[q], newer[q]>>

\* A step of the composition is a step of AuditSessions, or leaves it alone.
LEMMA AuditNext == [Next]_vars => [Audits!Next]_(Audits!vars)
BY DEF Next, vars, audits, Audits!vars, Audits!sessions, Audits!goods, Audits!history, Audits!local

\* The end of a request leaves the others alone.
LEMMA AuditEnd ==
    ASSUME AuditLocal, NEW r \in Req, Audits!EndTransaction(r)
    PROVE  /\ AuditLocal'
           /\ auditPc'[r] = "idle" /\ auditDoc'[r] = NoSession
           /\ \A q \in Req \ {r} : Same(q)
<1>1. Audits!NoView \in Audits!View
  BY DEF Audits!NoView, Audits!View, Audits!Status
<1>2. QED
  BY <1>1 DEF AuditLocal, Audits!EndTransaction, Audits!Goto, Same

\* A request that does not work on a session leaves what holds of it alone.
LEMMA Untouched ==
    ASSUME AuditShared, AuditLocal, NEW s \in Session, NEW r \in Req, Sound(s),
           auditDoc[r] # s, auditDoc'[r] # s, \A q \in Req \ {r} : Same(q),
           UNCHANGED <<auditStatus[s], snapshot[s], counts[s], adjusted[s]>>,
           Excused(s) \subseteq Excused(s)',
           \A p \in AuditedPart \ Excused(s)' : UNCHANGED <<stock[p], shelf[p]>>
    PROVE  Sound(s)'
<1> USE DEF Sound
<1>1. \A q \in Req : auditDoc'[q] = s => auditDoc[q] = s /\ Same(q)
  BY DEF Same
<1>2. AloneOn(s)'
  BY <1>1 DEF AloneOn, Frozen, Same
<1>3. CountedOnce(s)'
  BY DEF CountedOnce
<1>4. Posted(s)'
  BY DEF Posted
<1>5. /\ \A c \in counts[s] : c.part \in AuditedPart
      /\ \A q \in Req : auditPc[q] \in {"find", "count"} => part[q] \in AuditedPart
  BY DEF AuditShared, AuditLocal, Audits!CountRow
<1>6. Aligned(s)'
  BY <1>1, <1>5 DEF Aligned, Frozen, Same
<1>7. QED
  BY <1>2, <1>3, <1>4, <1>6

\* Steps that begin no movement hide none.
LEMMA HiddenKept ==
    ASSUME NEW s \in Session, NEW r \in Req, Hidden(s), \A q \in Req \ {r} : Same(q),
           UNCHANGED <<auditStatus[s], hidden[s]>>,
           auditDoc'[r] = s /\ auditPc'[r] # "stamped" => auditStatus[s] # "NONE",
           auditPc'[r] \notin {"move", "adjust"} \/ s \in newer'[r] \/ auditDoc'[r] = s
    PROVE  Hidden(s)'
<1>1. \A q \in Req \ {r} : Audits!Moving(q)' = Audits!Moving(q)
  BY MovingSame DEF Same
<1>2. auditPc'[r] \notin {"move", "adjust"} => Audits!Moving(r)' = {}
  BY NotMovingNext
<1>3. QED
  BY <1>1, <1>2 DEF Hidden, Same

\* A movement that is written is hidden from the audits stamped before it, or
\* newer than them.
LEMMA MovementWritten ==
    ASSUME AuditInvariant, NEW r \in Req, NEW p \in AuditedPart, NEW d \in Int,
           Audits!WriteMovement(r, p, d)
    PROVE  AuditInvariant'
<1> USE NoneAssumption DEF AuditInvariant
<1>1. AuditShared' /\ Unstocked'
  BY DEF Audits!WriteMovement, AuditShared, Unstocked, Audits!goods, Audits!sessions, Audits!history
<1>2. Audits!Stamped \subseteq Session
  BY DEF Audits!Stamped
<1>3. AuditLocal'
  <2>1. /\ auditPc[r] = "idle" /\ auditPc' = [auditPc EXCEPT ![r] = "move"]
        /\ part' = [part EXCEPT ![r] = p] /\ newer' = [newer EXCEPT ![r] = Audits!Stamped]
        /\ auditView' = [auditView EXCEPT ![r].change = d] /\ UNCHANGED auditDoc
    BY DEF Audits!WriteMovement, Audits!Goto
  <2>2. auditView' \in [Req -> Audits!View]
    <3>1. auditView[r] \in Audits!View /\ auditView \in [Req -> Audits!View]
      BY DEF AuditLocal
    <3>2. [auditView[r] EXCEPT !.change = d] \in Audits!View
      BY <3>1 DEF Audits!View
    <3>3. auditView' = [auditView EXCEPT ![r] = [auditView[r] EXCEPT !.change = d]]
      BY <2>1
    <3>4. QED
      BY <3>1, <3>2, <3>3
  <2>3. QED
    BY <1>2, <2>1, <2>2 DEF AuditLocal
<1>4. /\ \A q \in Req \ {r} : Same(q)
      /\ auditDoc'[r] = NoSession /\ auditDoc[r] = NoSession
      /\ newer'[r] = Audits!Stamped
  BY DEF Audits!WriteMovement, AuditLocal, Audits!Goto, Same
<1>5. UNCHANGED <<stock, shelf, auditStatus, snapshot, counts, adjusted, flagged, hidden, omitted, auditRaced>>
  BY DEF Audits!WriteMovement, Audits!goods, Audits!sessions, Audits!history
<1>6. ASSUME NEW s \in Session PROVE Hidden(s)'
  <2>1. CASE auditStatus[s] = "NONE"
    BY <1>4, <1>5, <2>1 DEF Hidden, Same
  <2>2. CASE auditStatus[s] # "NONE"
    BY <1>4, <1>5, <2>2, HiddenKept DEF Audits!Stamped
  <2>3. QED
    BY <2>1, <2>2
<1>7. ASSUME NEW s \in Session \ auditRaced PROVE Sound(s)'
  BY <1>4, <1>5, Untouched DEF Excused
<1>8. QED
  BY <1>1, <1>3, <1>5, <1>6, <1>7

\* A movement that commits changes books and shelf alike, except where an audit
\* knows or is excused.
LEMMA MovementCommitted ==
    ASSUME AuditInvariant, NEW r \in Req, Audits!CommitMovement(r)
    PROVE  AuditInvariant'
<1> USE NoneAssumption DEF AuditInvariant
<1>1. /\ part[r] \in AuditedPart /\ auditView[r].change \in Int /\ auditDoc[r] = NoSession
      /\ auditPc[r] = "move"
  BY DEF Audits!CommitMovement, AuditLocal, Audits!View
<1>2. AuditLocal' /\ auditPc'[r] = "idle" /\ auditDoc'[r] = NoSession /\ \A q \in Req \ {r} : Same(q)
  BY AuditEnd DEF Audits!CommitMovement
<1>3. /\ UNCHANGED <<auditStatus, snapshot, counts, adjusted, hidden, omitted, auditRaced>>
      /\ \A p \in AuditedPart \ {part[r]} : UNCHANGED <<stock[p], shelf[p]>>
      /\ stocked' = stocked \cup {part[r]}
      /\ auditView[r].change = 0 => UNCHANGED <<stock, shelf>>
  BY <1>1 DEF Audits!CommitMovement, Audits!history, AuditShared
<1>4. Audits!Moving(r) \subseteq AuditedPart
  BY DEF Audits!Moving
<1>5. /\ flagged' \in [Session -> SUBSET AuditedPart]
      /\ \A s \in Session : flagged'[s] = IF s \in newer[r] THEN flagged[s] \cup Audits!Moving(r) ELSE flagged[s]
  BY <1>4 DEF Audits!CommitMovement, Audits!Flag, AuditShared
<1>6. stock' \in [AuditedPart -> Nat] /\ shelf' \in [AuditedPart -> Nat]
  <2>1. stock[part[r]] + auditView[r].change \in Nat /\ shelf[part[r]] + auditView[r].change \in Nat
    BY <1>1 DEF Audits!CommitMovement, AuditShared
  <2>2. QED
    BY <2>1 DEF Audits!CommitMovement, AuditShared
<1>7. AuditShared' /\ Unstocked'
  BY <1>1, <1>3, <1>5, <1>6 DEF AuditShared, Unstocked
<1>8. ASSUME NEW s \in Session PROVE Hidden(s)'
  BY <1>2, <1>3, HiddenKept
<1>9. auditView[r].change # 0 => part[r] \in Audits!Moving(r)
  BY <1>1, MovingWritten DEF Written
<1>10. ASSUME NEW s \in Session \ auditRaced PROVE Sound(s)'
  <2>1. Excused(s) \subseteq Excused(s)'
    BY <1>3, <1>5 DEF Excused
  <2>2. auditStatus[s] \in Audits!Open => Audits!Moving(r) \subseteq Excused(s)'
    BY <1>1, <1>3, <1>5 DEF Hidden, Excused, Audits!Open
  <2>3. CASE auditStatus[s] \in Audits!Open
    BY <1>1, <1>2, <1>3, <1>9, <2>1, <2>2, <2>3, Untouched
  <2>4. CASE auditStatus[s] \notin Audits!Open
    BY <1>1, <1>2, <1>3, <2>4 DEF Sound, AloneOn, CountedOnce, Posted, Aligned, Same, Frozen
  <2>5. QED
    BY <2>3, <2>4
<1>11. QED
  BY <1>2, <1>3, <1>7, <1>8, <1>10

\* A new audit takes its timestamp.
LEMMA SessionStamped ==
    ASSUME AuditInvariant, NEW r \in Req, NEW t \in Session, Audits!StampSession(r, t)
    PROVE  AuditInvariant'
<1> USE NoneAssumption DEF AuditInvariant
<1>1. AuditShared' /\ Unstocked'
  BY DEF Audits!StampSession, AuditShared, Unstocked, Audits!goods, Audits!sessions, Audits!history
<1>2. AuditLocal'
  BY DEF Audits!StampSession, AuditLocal, Audits!Goto
<1>3. /\ \A q \in Req \ {r} : Same(q)
      /\ auditPc'[r] = "stamped" /\ auditDoc'[r] = t /\ auditDoc[r] = NoSession
      /\ auditStatus[t] = "NONE" /\ \A q \in Req : auditDoc[q] # t
  BY DEF Audits!StampSession, AuditLocal, Audits!Goto, Same, Audits!Stamped
<1>4. UNCHANGED <<stock, shelf, auditStatus, snapshot, counts, adjusted, flagged, hidden, omitted, auditRaced>>
  BY DEF Audits!StampSession, Audits!goods, Audits!sessions, Audits!history
<1>5. ASSUME NEW s \in Session PROVE Hidden(s)'
  BY <1>3, <1>4, HiddenKept
<1>6. ASSUME NEW s \in Session \ auditRaced PROVE Sound(s)'
  <2>1. CASE s # t
    BY <1>3, <1>4, <2>1, Untouched DEF Excused
  <2>2. CASE s = t
    <3>1. \A q \in Req : auditDoc'[q] = s => q = r
      BY <1>3, <2>2 DEF Same
    <3>2. AloneOn(s)'
      BY <1>3, <1>4, <2>2, <3>1 DEF AloneOn
    <3>3. CountedOnce(s)' /\ Posted(s)' /\ Aligned(s)'
      BY <1>3, <1>4, <2>2 DEF Sound, CountedOnce, Posted, Aligned, Audits!Open
    <3>4. QED
      BY <3>2, <3>3 DEF Sound
  <2>3. QED
    BY <2>1, <2>2
<1>7. QED
  BY <1>1, <1>2, <1>4, <1>5, <1>6

\* A new audit freezes the books as they are, but for what is being written.
LEMMA SessionCommitted ==
    ASSUME AuditInvariant, NEW r \in Req, NEW parts \in SUBSET AuditedPart,
           Audits!CommitSession(r, parts)
    PROVE  AuditInvariant'
<1> USE NoneAssumption DEF AuditInvariant
<1> DEFINE t == auditDoc[r]
<1>1. t \in Session /\ auditPc[r] = "stamped"
  BY DEF Audits!CommitSession, AuditLocal
<1>2. AuditLocal' /\ auditPc'[r] = "idle" /\ auditDoc'[r] = NoSession /\ \A q \in Req \ {r} : Same(q)
  BY AuditEnd DEF Audits!CommitSession
<1>3. /\ UNCHANGED <<stocked, stock, shelf, counts, adjusted, flagged, auditRaced>>
      /\ auditStatus' \in [Session -> Audits!Status] /\ auditStatus'[t] = "INITIATED"
      /\ \A s \in Session \ {t} :
            UNCHANGED <<auditStatus[s], snapshot[s], hidden[s], omitted[s]>>
  BY <1>1 DEF Audits!CommitSession, Audits!goods, AuditShared, Audits!Status
<1>4. \A q \in Req : Audits!Moving(q) \subseteq AuditedPart
  BY DEF Audits!Moving
<1>5. /\ hidden' \in [Session -> SUBSET AuditedPart]
      /\ \A q \in Req : t \notin newer[q] => Audits!Moving(q) \subseteq hidden'[t]
  BY <1>1, <1>4 DEF Audits!CommitSession, AuditShared
<1>6. /\ omitted' \in [Session -> SUBSET AuditedPart]
      /\ \A p \in stocked \ parts : p \in AuditedPart /\ stock[p] > 0 => p \in omitted'[t]
  BY <1>1 DEF Audits!CommitSession, AuditShared
<1>7. /\ snapshot' \in [Session -> [AuditedPart -> Nat \cup {NoItem}]]
      /\ \A p \in AuditedPart :
            snapshot'[t][p] = IF p \in stocked \cap parts THEN stock[p] ELSE NoItem
  BY <1>1 DEF Audits!CommitSession, AuditShared
<1>8. AuditShared' /\ Unstocked'
  BY <1>3, <1>5, <1>6, <1>7 DEF AuditShared, Unstocked
<1>9. ASSUME NEW s \in Session PROVE Hidden(s)'
  <2>1. CASE s # t
    BY <1>2, <1>3, <2>1, HiddenKept
  <2>2. CASE s = t
    <3>1. \A q \in Req \ {r} : Audits!Moving(q)' = Audits!Moving(q)
      BY <1>2, MovingSame DEF Same
    <3>2. Audits!Moving(r)' = {}
      BY <1>2, NotMovingNext
    <3>3. QED
      BY <1>1, <1>2, <1>3, <1>5, <2>2, <3>1, <3>2 DEF Hidden, Same
  <2>3. QED
    BY <2>1, <2>2
<1>10. ASSUME NEW s \in Session \ auditRaced PROVE Sound(s)'
  <2>1. CASE s # t
    BY <1>1, <1>2, <1>3, <2>1, Untouched DEF Excused
  <2>2. CASE s = t
    <3>1. \A q \in Req : auditDoc'[q] # s
      BY <1>1, <1>2, <2>2 DEF Sound, AloneOn, Same
    <3>2. auditStatus[s] = "NONE" /\ counts[s] = {}
      BY <1>1, <2>2 DEF Sound, AloneOn, CountedOnce
    <3>3. AloneOn(s)'
      BY <3>1 DEF AloneOn
    <3>4. CountedOnce(s)' /\ Posted(s)'
      BY <1>3, <2>2, <3>2 DEF Sound, CountedOnce, Posted
    <3>5. ASSUME NEW p \in AuditedPart \ Excused(s)' PROVE stock'[p] = Frozen(s, p)'
      <4>1. p \in stocked \ parts => stock[p] = 0
        BY <1>6, <2>2, <3>5 DEF Excused, AuditShared
      <4>2. QED
        BY <1>3, <1>7, <2>2, <4>1 DEF Frozen, Unstocked, AuditShared
    <3>6. Aligned(s)'
      BY <1>3, <3>1, <3>2, <3>5 DEF Aligned
    <3>7. QED
      BY <3>3, <3>4, <3>6 DEF Sound
  <2>3. QED
    BY <2>1, <2>2
<1>11. QED
  BY <1>2, <1>3, <1>8, <1>9, <1>10

\* A request reads an audit for a count or an approval.
LEMMA SessionRead ==
    ASSUME AuditInvariant, NEW r \in Req, NEW t \in Session, NEW p, NEW next,
           Audits!GetSession(r, t, p, next),
           (p \in AuditedPart /\ next = "find") \/ (p = NoPart /\ next = "sum")
    PROVE  AuditInvariant'
<1> USE NoneAssumption DEF AuditInvariant
<1>1. AuditShared' /\ Unstocked'
  BY DEF Audits!GetSession, AuditShared, Unstocked, Audits!goods, Audits!sessions
<1>2. auditView'[r] \in Audits!View /\ auditView' = [auditView EXCEPT ![r] = auditView'[r]]
  <2>1. auditView[r] \in Audits!View /\ auditStatus[t] \in Audits!Status
    BY DEF AuditLocal, AuditShared
  <2>2. (IF p = NoPart THEN 0 ELSE shelf[p]) \in Nat
    BY DEF AuditShared
  <2>3. auditView'[r] = [auditView[r] EXCEPT !.status = auditStatus[t],
                                             !.counted = IF p = NoPart THEN 0 ELSE shelf[p]]
    BY DEF AuditLocal, Audits!GetSession
  <2>4. auditView' = [auditView EXCEPT ![r] = auditView'[r]]
    BY <2>3 DEF AuditLocal, Audits!GetSession
  <2>5. QED
    BY <2>1, <2>2, <2>3, <2>4 DEF Audits!View
<1>3. AuditLocal'
  BY <1>2 DEF Audits!GetSession, AuditLocal, Audits!Goto
<1>4. /\ \A q \in Req \ {r} : Same(q)
      /\ auditPc'[r] = next /\ auditDoc'[r] = t /\ auditDoc[r] = NoSession
      /\ auditStatus[t] \in Audits!Open /\ auditView'[r].status = auditStatus[t]
      /\ p # NoPart => part'[r] = p /\ auditView'[r].counted = shelf[p]
      /\ t \notin auditRaced' => \A q \in Req : auditDoc[q] # t
      /\ auditRaced \subseteq auditRaced'
  BY DEF Audits!GetSession, AuditLocal, Audits!Goto, Same, Audits!Others, Audits!View
<1>5. UNCHANGED <<stock, shelf, auditStatus, snapshot, counts, adjusted, flagged, hidden, omitted>>
  BY DEF Audits!GetSession, Audits!goods, Audits!sessions
<1>6. ASSUME NEW s \in Session PROVE Hidden(s)'
  BY <1>4, <1>5, HiddenKept DEF Audits!Open
<1>7. ASSUME NEW s \in Session \ auditRaced' PROVE Sound(s)'
  <2>1. CASE s # t
    BY <1>4, <1>5, <2>1, Untouched DEF Excused
  <2>2. CASE s = t
    <3>1. \A q \in Req : auditDoc'[q] = s => q = r
      BY <1>4, <2>2 DEF Same
    <3>2. AloneOn(s)'
      BY <1>4, <1>5, <2>2, <3>1 DEF AloneOn, Audits!Open
    <3>3. CountedOnce(s)' /\ Posted(s)'
      BY <1>4, <1>5, <2>2 DEF Sound, CountedOnce, Posted
    <3>4. Aligned(s)'
      <4>1. auditPc'[r] \in {"find", "count"} => part'[r] = p /\ auditView'[r].counted = shelf[p]
        BY <1>4
      <4>2. QED
        BY <1>4, <1>5, <2>2, <3>1, <4>1 DEF Sound, Aligned, Excused, Frozen
    <3>5. QED
      BY <3>2, <3>3, <3>4 DEF Sound
  <2>3. QED
    BY <2>1, <2>2
<1>8. QED
  BY <1>1, <1>3, <1>4, <1>6, <1>7

\* A count is looked up, and the part frozen if it was not.
LEMMA CountFound ==
    ASSUME AuditInvariant, NEW r \in Req, Audits!FindCount(r)
    PROVE  AuditInvariant'
<1> USE NoneAssumption DEF AuditInvariant
<1> DEFINE t == auditDoc[r]
<1>1. t \in Session /\ part[r] \in AuditedPart /\ auditPc[r] = "find"
  BY DEF Audits!FindCount, AuditLocal
<1>2. AuditShared' /\ Unstocked'
  BY DEF Audits!FindCount, AuditShared, Unstocked, Audits!goods, Audits!sessions, Audits!history
<1>3. UNCHANGED <<stock, shelf, auditStatus, snapshot, counts, adjusted, flagged, hidden, omitted, auditRaced>>
  BY DEF Audits!FindCount, Audits!goods, Audits!sessions, Audits!history
<1>4. Frozen(t, part[r]) \in Nat /\ {c \in counts[t] : c.part = part[r]} \in SUBSET Audits!CountRow
  BY <1>1 DEF Frozen, AuditShared
<1>5. /\ auditView' = [auditView EXCEPT ![r].item = Frozen(t, part[r]),
                                        ![r].rows = {c \in counts[t] : c.part = part[r]}]
      /\ auditPc' = [auditPc EXCEPT ![r] = "count"]
      /\ UNCHANGED <<auditDoc, part, newer>>
  BY DEF Audits!FindCount, Audits!Goto, Frozen
<1>6. /\ auditView'[r] \in Audits!View /\ auditView' = [auditView EXCEPT ![r] = auditView'[r]]
      /\ auditView'[r].rows = {c \in counts[t] : c.part = part[r]}
      /\ auditView'[r].item = Frozen(t, part[r])
      /\ auditView'[r].status = auditView[r].status /\ auditView'[r].counted = auditView[r].counted
  <2>1. auditView[r] \in Audits!View
    BY DEF AuditLocal
  <2>2. auditView'[r] = [auditView[r] EXCEPT !.item = Frozen(t, part[r]),
                                             !.rows = {c \in counts[t] : c.part = part[r]}]
    BY <1>5 DEF AuditLocal
  <2>3. auditView' = [auditView EXCEPT ![r] = auditView'[r]]
    BY <1>5, <2>2 DEF AuditLocal
  <2>4. QED
    BY <1>4, <2>1, <2>2, <2>3 DEF Audits!View
<1>7. AuditLocal'
  BY <1>1, <1>4, <1>5, <1>6 DEF AuditLocal
<1>8. \A q \in Req \ {r} : Same(q)
  BY <1>5, <1>6 DEF AuditLocal, Same
<1>9. ASSUME NEW s \in Session PROVE Hidden(s)'
  BY <1>1, <1>3, <1>5, <1>8, HiddenKept DEF AuditLocal, Hidden
<1>10. ASSUME NEW s \in Session \ auditRaced PROVE Sound(s)'
  <2>1. CASE s # t
    BY <1>3, <1>5, <1>8, <2>1, Untouched DEF Excused
  <2>2. CASE s = t
    <3>1. \A q \in Req : auditDoc'[q] = s => q = r
      BY <1>5, <2>2 DEF Sound, AloneOn
    <3>2. auditPc'[r] = "count"
      BY <1>5 DEF AuditLocal
    <3>3. AloneOn(s)'
      <4>1. auditStatus[s] \in Audits!Open /\ auditView[r].status = auditStatus[s]
        BY <1>1, <2>2 DEF Sound, AloneOn
      <4>2. UNCHANGED <<counts[s], auditStatus[s], part[r]>> /\ Frozen(s, part[r])' = Frozen(s, part[r])
        BY <1>3, <1>5 DEF Frozen
      <4>3. QED
        BY <1>6, <2>2, <3>1, <3>2, <4>1, <4>2 DEF AloneOn
    <3>4. CountedOnce(s)' /\ Posted(s)'
      BY <1>3 DEF Sound, CountedOnce, Posted
    <3>5. Aligned(s)'
      <4>1. Aligned(s) /\ Excused(s)' = Excused(s)
        BY <1>3 DEF Sound, Excused
      <4>2. auditStatus[s] \in Audits!Open /\ part[r] \notin Excused(s) => auditView[r].counted = shelf[part[r]]
        BY <1>1, <2>2, <4>1 DEF Aligned
      <4>3. \A p \in AuditedPart : Frozen(s, p)' = Frozen(s, p)
        BY <1>3 DEF Frozen
      <4>4. QED
        BY <1>3, <1>5, <1>6, <3>1, <4>1, <4>2, <4>3 DEF Aligned
    <3>6. QED
      BY <3>3, <3>4, <3>5 DEF Sound
  <2>3. QED
    BY <2>1, <2>2
<1>11. QED
  BY <1>2, <1>3, <1>7, <1>9, <1>10

\* A count replaces the earlier one of its part.
LEMMA CountCommitted ==
    ASSUME AuditInvariant, NEW r \in Req, Audits!CommitCount(r)
    PROVE  AuditInvariant'
<1> USE NoneAssumption DEF AuditInvariant
<1> DEFINE t == auditDoc[r]
           p == part[r]
           kept(who) == [part |-> p, by |-> who, counted |-> auditView[r].counted,
                        variance |-> auditView[r].counted - auditView[r].item]
<1>1. /\ t \in Session /\ p \in AuditedPart /\ auditPc[r] = "count"
      /\ auditView[r] \in Audits!View /\ auditView[r].item \in Nat
      /\ auditView[r].counted \in Nat /\ auditView[r].rows \subseteq Audits!CountRow
  BY DEF Audits!CommitCount, AuditLocal, Audits!View
<1>2. PICK who \in IF auditView[r].rows = {} THEN {r} ELSE {c.by : c \in auditView[r].rows} :
         counts' = [counts EXCEPT ![t] = {c \in @ : ~(c.part = p /\ c.by = who)} \cup {kept(who)}]
  BY DEF Audits!CommitCount
<1>3. kept(who) \in Audits!CountRow
  BY <1>1, <1>2 DEF Audits!CountRow
<1> HIDE DEF kept
<1>4. /\ snapshot' = [snapshot EXCEPT ![t][p] = auditView[r].item]
      /\ auditStatus' = [auditStatus EXCEPT ![t] =
                           IF auditView[r].status = "INITIATED" THEN "IN_PROGRESS" ELSE @]
      /\ UNCHANGED <<stocked, stock, shelf, adjusted, flagged, hidden, omitted, auditRaced>>
  BY DEF Audits!CommitCount, Audits!goods, Audits!history
<1>5. AuditLocal' /\ auditPc'[r] = "idle" /\ auditDoc'[r] = NoSession /\ \A q \in Req \ {r} : Same(q)
  BY AuditEnd DEF Audits!CommitCount
<1>6. counts' \in [Session -> SUBSET Audits!CountRow]
  BY <1>2, <1>3 DEF AuditShared
<1>7. snapshot' \in [Session -> [AuditedPart -> Nat \cup {NoItem}]]
  BY <1>1, <1>4 DEF AuditShared
<1>8. auditStatus' \in [Session -> Audits!Status]
  BY <1>1, <1>4 DEF AuditShared, Audits!Status
<1>9. AuditShared' /\ Unstocked'
  BY <1>4, <1>6, <1>7, <1>8 DEF AuditShared, Unstocked
<1>10. ASSUME NEW s \in Session PROVE Hidden(s)'
  <2>1. auditStatus'[s] = "NONE" <=> auditStatus[s] = "NONE"
    BY <1>1, <1>4 DEF AuditShared, Audits!Status, Hidden
  <2>2. \A q \in Req \ {r} : Audits!Moving(q)' = Audits!Moving(q)
    BY <1>5, MovingSame DEF Same
  <2>3. Audits!Moving(r)' = {}
    BY <1>5, NotMovingNext
  <2>4. QED
    BY <1>1, <1>4, <1>5, <2>1, <2>2, <2>3 DEF Hidden, Same
<1>11. ASSUME NEW s \in Session \ auditRaced PROVE Sound(s)'
  <2>1. CASE s # t
    <3>1. UNCHANGED <<auditStatus[s], snapshot[s], counts[s], adjusted[s]>>
      BY <1>1, <1>2, <1>4, <2>1 DEF AuditShared
    <3>2. QED
      BY <1>1, <1>4, <1>5, <2>1, <3>1, Untouched DEF Excused
  <2>2. CASE s = t
    <3>1. \A q \in Req : auditDoc'[q] # s
      BY <1>1, <1>5, <2>2 DEF Sound, AloneOn, Same
    <3>2. /\ auditView[r].rows = {c \in counts[s] : c.part = p}
          /\ auditView[r].item = Frozen(s, p)
          /\ auditStatus[s] \in Audits!Open
      BY <1>1, <2>2 DEF Sound, AloneOn
    <3>3. auditStatus'[s] \in Audits!Open
      BY <1>1, <1>4, <2>2, <3>2 DEF AuditShared, Audits!Open
    <3>4. \A c \in counts[s] : c.part = p => c.by = who
      BY <1>2, <3>2 DEF Sound, CountedOnce
    <3>5. counts'[s] = {c \in counts[s] : c.part # p} \cup {kept(who)}
      BY <1>2, <2>2, <3>4 DEF AuditShared
    <3>6. /\ snapshot'[s][p] = auditView[r].item
          /\ \A o \in AuditedPart \ {p} : snapshot'[s][o] = snapshot[s][o]
          /\ \A o \in AuditedPart : Frozen(s, o)' = Frozen(s, o)
      BY <1>1, <1>4, <2>2, <3>2 DEF AuditShared, Frozen
    <3>7. \A c \in counts[s] : c.part \in AuditedPart
      BY DEF AuditShared, Audits!CountRow
    <3>8. kept(who).part = p /\ kept(who).counted = auditView[r].counted
          /\ kept(who).variance = auditView[r].counted - auditView[r].item
      BY DEF kept
    <3>9. AloneOn(s)'
      BY <3>1 DEF AloneOn
    <3>10. CountedOnce(s)'
      BY <1>1, <3>3, <3>5, <3>6, <3>7, <3>8 DEF Sound, CountedOnce, Audits!Open
    <3>11. Posted(s)'
      BY <1>4, <3>2, <3>3 DEF Sound, Posted, Audits!Open
    <3>12. Aligned(s)'
      <4>1. p \notin Excused(s) => auditView[r].counted = shelf[p]
        BY <1>1, <2>2, <3>2 DEF Sound, Aligned
      <4>2. Excused(s)' = Excused(s)
        BY <1>4 DEF Excused
      <4>3. QED
        BY <1>4, <3>1, <3>2, <3>5, <3>6, <3>8, <4>1, <4>2 DEF Sound, Aligned
    <3>13. QED
      BY <3>9, <3>10, <3>11, <3>12 DEF Sound
  <2>3. QED
    BY <2>1, <2>2
<1>12. QED
  BY <1>4, <1>5, <1>9, <1>10, <1>11

\* An approval has read the counts and writes their variances.
LEMMA AdjustmentsWritten ==
    ASSUME AuditInvariant, NEW r \in Req, Audits!WriteAdjustments(r)
    PROVE  AuditInvariant'
<1> USE NoneAssumption DEF AuditInvariant
<1> DEFINE t == auditDoc[r]
<1>1. t \in Session /\ auditPc[r] = "sum" /\ auditView[r] \in Audits!View
  BY DEF Audits!WriteAdjustments, AuditLocal
<1>2. AuditShared' /\ Unstocked'
  BY DEF Audits!WriteAdjustments, AuditShared, Unstocked, Audits!goods, Audits!sessions, Audits!history
<1>3. UNCHANGED <<stock, shelf, auditStatus, snapshot, counts, adjusted, flagged, hidden, omitted, auditRaced>>
  BY DEF Audits!WriteAdjustments, Audits!goods, Audits!sessions, Audits!history
<1>4. /\ auditView' = [auditView EXCEPT ![r].rows = counts[t]]
      /\ newer' = [newer EXCEPT ![r] = Audits!Stamped \ {t}]
      /\ auditPc' = [auditPc EXCEPT ![r] = "adjust"]
      /\ UNCHANGED <<auditDoc, part>>
  BY DEF Audits!WriteAdjustments, Audits!Goto
<1>5. /\ auditView'[r] \in Audits!View /\ auditView' = [auditView EXCEPT ![r] = auditView'[r]]
      /\ auditView'[r].rows = counts[t] /\ auditView'[r].status = auditView[r].status
  <2>1. counts[t] \in SUBSET Audits!CountRow
    BY <1>1 DEF AuditShared
  <2>2. auditView'[r] = [auditView[r] EXCEPT !.rows = counts[t]]
    BY <1>4 DEF AuditLocal
  <2>3. auditView' = [auditView EXCEPT ![r] = auditView'[r]]
    BY <1>4, <2>2 DEF AuditLocal
  <2>4. QED
    BY <1>1, <2>1, <2>2, <2>3 DEF Audits!View
<1>6. Audits!Stamped \subseteq Session
  BY DEF Audits!Stamped
<1>7. AuditLocal'
  BY <1>1, <1>4, <1>5, <1>6 DEF AuditLocal
<1>8. \A q \in Req \ {r} : Same(q)
  BY <1>4, <1>5 DEF AuditLocal, Same
<1>9. ASSUME NEW s \in Session PROVE Hidden(s)'
  <2>1. auditStatus[s] # "NONE" /\ s # t => s \in newer'[r]
    BY <1>4 DEF AuditLocal, Audits!Stamped
  <2>2. auditDoc[r] = s => auditStatus[s] # "NONE"
    BY <1>1 DEF Hidden
  <2>3. CASE auditStatus[s] = "NONE"
    BY <1>3, <1>4, <1>8, <2>2, <2>3 DEF Hidden, Same
  <2>4. CASE auditStatus[s] # "NONE"
    BY <1>3, <1>4, <1>8, <2>1, <2>4, HiddenKept
  <2>5. QED
    BY <2>3, <2>4
<1>10. ASSUME NEW s \in Session \ auditRaced PROVE Sound(s)'
  <2>1. CASE s # t
    BY <1>3, <1>4, <1>8, <2>1, Untouched DEF Excused
  <2>2. CASE s = t
    <3>1. \A q \in Req : auditDoc'[q] = s => q = r
      BY <1>4, <2>2 DEF Sound, AloneOn
    <3>2. auditPc'[r] = "adjust"
      BY <1>4 DEF AuditLocal
    <3>3. AloneOn(s)'
      <4>1. auditStatus[s] \in Audits!Open /\ auditView[r].status = auditStatus[s]
        BY <1>1, <2>2 DEF Sound, AloneOn
      <4>2. QED
        BY <1>3, <1>5, <2>2, <3>1, <3>2, <4>1 DEF AloneOn
    <3>4. CountedOnce(s)' /\ Posted(s)'
      BY <1>3 DEF Sound, CountedOnce, Posted
    <3>5. Aligned(s)'
      BY <1>3, <3>1, <3>2 DEF Sound, Aligned, Excused, Frozen
    <3>6. QED
      BY <3>3, <3>4, <3>5 DEF Sound
  <2>3. QED
    BY <2>1, <2>2
<1>11. QED
  BY <1>2, <1>3, <1>7, <1>9, <1>10

\* A request that rolls back leaves the audit as it was.
LEMMA AuditRollback ==
    ASSUME AuditInvariant, NEW r \in Req, Audits!Rollback(r)
    PROVE  AuditInvariant'
<1> USE NoneAssumption DEF AuditInvariant
<1>1. AuditLocal' /\ auditPc'[r] = "idle" /\ auditDoc'[r] = NoSession /\ \A q \in Req \ {r} : Same(q)
  BY AuditEnd DEF Audits!Rollback
<1>2. UNCHANGED <<stocked, stock, shelf, auditStatus, snapshot, counts, adjusted, flagged, hidden,
                  omitted, auditRaced>>
  BY DEF Audits!Rollback, Audits!goods, Audits!sessions, Audits!history
<1>3. AuditShared' /\ Unstocked'
  BY <1>2 DEF AuditShared, Unstocked
<1>4. ASSUME NEW s \in Session PROVE Hidden(s)'
  BY <1>1, <1>2, HiddenKept
<1>5. ASSUME NEW s \in Session \ auditRaced PROVE Sound(s)'
  <2>1. CASE auditDoc[r] # s
    BY <1>1, <1>2, <2>1, Untouched DEF Excused
  <2>2. CASE auditDoc[r] = s
    <3>1. \A q \in Req : auditDoc'[q] # s
      BY <1>1, <2>2 DEF Sound, AloneOn, Same
    <3>2. QED
      BY <1>2, <3>1 DEF Sound, AloneOn, CountedOnce, Posted, Aligned, Excused, Frozen
  <2>3. QED
    BY <2>1, <2>2
<1>6. QED
  BY <1>1, <1>2, <1>3, <1>4, <1>5

\* No counts, no variance.
LEMMA VarianceOfNone == Variances({}) = 0
BY DEF Variances, Audits!MapThenSumSet, Audits!MapThenFoldSet

\* The variance of one count.
LEMMA VarianceOfOne == ASSUME NEW x, x.variance \in Int PROVE Variances({x}) = x.variance
<1> DEFINE Q(i) == i = [s \in SUBSET {x} |-> IF s = {} THEN 0 ELSE
               (CHOOSE y \in s : TRUE).variance + i[s \ {CHOOSE y \in s : TRUE}]]
           g == [s \in SUBSET {x} |-> IF s = {} THEN 0 ELSE x.variance]
           f == CHOOSE i : Q(i)
<1>1. \A s \in SUBSET {x} : s # {} => (CHOOSE y \in s : TRUE) = x /\ s \ {x} = {}
  <2>1. \A s \in SUBSET {x} : s = {} \/ s = {x}
    OBVIOUS
  <2>2. QED
    BY <2>1
<1>2. Q(g)
  BY <1>1
<1>3. Q(f)
  <2> HIDE DEF Q, g
  <2> QED
    BY <1>2
<1>4. f = [s \in SUBSET {x} |-> IF s = {} THEN 0 ELSE
               (CHOOSE y \in s : TRUE).variance + f[s \ {CHOOSE y \in s : TRUE}]]
  BY <1>3
<1> HIDE DEF f
<1>5. f[{}] = 0
  BY <1>4
<1>6. f[{x}] = x.variance + f[{}]
  <2>1. {x} \in SUBSET {x} /\ {x} # {}
    OBVIOUS
  <2>2. f[{x}] = (CHOOSE y \in {x} : TRUE).variance + f[{x} \ {CHOOSE y \in {x} : TRUE}]
    BY <1>4, <2>1
  <2>3. QED
    BY <1>1, <2>1, <2>2
<1>7. f[{x}] = x.variance
  BY <1>5, <1>6
<1>8. QED
  BY <1>7 DEF f, Variances, Audits!MapThenSumSet, Audits!MapThenFoldSet

\* What an approval writes for a part of a session that no two requests wrote at
\* once is the variance of its count.
LEMMA VarianceWritten ==
    ASSUME AuditInvariant, NEW r \in Req, NEW p \in AuditedPart,
           auditPc[r] = "adjust", auditDoc[r] \notin auditRaced
    PROVE  /\ \A c \in counts[auditDoc[r]] : c.part = p => Audits!Changes(r)[p] = c.variance
           /\ (\A c \in counts[auditDoc[r]] : c.part # p) => Audits!Changes(r)[p] = 0
<1> USE DEF AuditInvariant
<1> DEFINE t == auditDoc[r]
           found == {c \in auditView[r].rows : c.part = p}
<1>1. t \in Session \ auditRaced
  BY NoneAssumption DEF AuditLocal
<1>2. auditView[r].rows = counts[t]
  BY <1>1 DEF Sound, AloneOn
<1>3. Audits!Changes(r)[p] = Variances(found)
  BY ChangesWritten DEF Written
<1>4. ASSUME NEW c \in counts[t], c.part = p PROVE Variances(found) = c.variance
  <2>1. found = {c}
    BY <1>1, <1>2, <1>4 DEF Sound, CountedOnce
  <2>2. c.variance \in Int
    BY <1>1 DEF AuditShared, Audits!CountRow
  <2>3. QED
    BY <2>1, <2>2, VarianceOfOne
<1>5. ASSUME \A c \in counts[t] : c.part # p PROVE Variances(found) = 0
  <2>1. found = {}
    BY <1>2, <1>5
  <2>2. QED
    BY <2>1, VarianceOfNone
<1>6. QED
  BY <1>3, <1>4, <1>5

\* An approval that commits posts each variance once.
LEMMA ApprovalCommitted ==
    ASSUME AuditInvariant, NEW r \in Req, Audits!CommitApproval(r)
    PROVE  AuditInvariant'
<1> USE NoneAssumption DEF AuditInvariant
<1> DEFINE t == auditDoc[r]
           gap == Audits!Changes(r)
<1>1. t \in Session /\ auditPc[r] = "adjust"
  BY DEF Audits!CommitApproval, AuditLocal
<1>2. AuditLocal' /\ auditPc'[r] = "idle" /\ auditDoc'[r] = NoSession /\ \A q \in Req \ {r} : Same(q)
  BY AuditEnd DEF Audits!CommitApproval
<1>3. /\ UNCHANGED <<shelf, snapshot, counts, hidden, omitted, auditRaced>>
      /\ auditStatus' = [auditStatus EXCEPT ![t] = "COMPLETED"]
      /\ adjusted' = [adjusted EXCEPT ![t] = [p \in AuditedPart |-> @[p] + gap[p]]]
      /\ stock' = [p \in AuditedPart |-> stock[p] + gap[p]]
      /\ stocked' = stocked \cup Audits!Moving(r)
      /\ \A p \in AuditedPart : stock[p] + gap[p] \in 0..MaxUnits
  BY DEF Audits!CommitApproval, Audits!history
<1>4. Audits!Moving(r) = {p \in AuditedPart : gap[p] # 0}
  BY DEF Audits!Moving
<1> HIDE DEF gap
<1>5. stock' \in [AuditedPart -> Nat]
  BY <1>3
<1>6. /\ flagged' \in [Session -> SUBSET AuditedPart]
      /\ \A s \in Session : flagged'[s] = IF s \in newer[r] THEN flagged[s] \cup Audits!Moving(r) ELSE flagged[s]
  BY <1>4 DEF Audits!CommitApproval, Audits!Flag, AuditShared
<1>7. auditStatus' \in [Session -> Audits!Status] /\ auditStatus'[t] = "COMPLETED"
      /\ \A s \in Session \ {t} : auditStatus'[s] = auditStatus[s]
  BY <1>1, <1>3 DEF AuditShared, Audits!Status
<1>8. \A p \in AuditedPart \ Audits!Moving(r) : stock'[p] = stock[p]
  BY <1>3, <1>4 DEF AuditShared
<1>9. DOMAIN adjusted' = Session
  BY <1>3 DEF AuditShared
<1>10. AuditShared' /\ Unstocked'
  BY <1>3, <1>4, <1>5, <1>6, <1>7, <1>8, <1>9 DEF AuditShared, Unstocked
<1>11. ASSUME NEW s \in Session PROVE Hidden(s)'
  <2>1. auditStatus[s] # "NONE" => auditStatus'[s] # "NONE"
    BY <1>1, <1>7
  <2>2. auditStatus'[s] # "NONE" => auditStatus[s] # "NONE"
    BY <1>1, <1>7 DEF Hidden
  <2>3. \A q \in Req \ {r} : Audits!Moving(q)' = Audits!Moving(q)
    BY <1>2, MovingSame DEF Same
  <2>4. Audits!Moving(r)' = {}
    BY <1>2, NotMovingNext
  <2>5. QED
    BY <1>2, <1>3, <2>1, <2>2, <2>3, <2>4 DEF Hidden, Same
<1>12. ASSUME NEW s \in Session \ auditRaced PROVE Sound(s)'
  <2>1. CASE s # t
    <3>1. Excused(s) \subseteq Excused(s)'
      BY <1>3, <1>6 DEF Excused
    <3>2. auditStatus[s] \in Audits!Open => Audits!Moving(r) \subseteq Excused(s)'
      BY <1>3, <1>6, <2>1 DEF Hidden, Excused, Audits!Open
    <3>3. UNCHANGED <<auditStatus[s], snapshot[s], counts[s], adjusted[s]>>
      BY <1>1, <1>3, <1>7, <2>1 DEF AuditShared
    <3>4. CASE auditStatus[s] \in Audits!Open
      BY <1>1, <1>2, <1>3, <1>8, <2>1, <3>1, <3>2, <3>3, <3>4, Untouched
    <3>5. CASE auditStatus[s] \notin Audits!Open
      <4>1. \A q \in Req : auditDoc'[q] = s => auditDoc[q] = s /\ Same(q)
        BY <1>2 DEF Same
      <4>2. AloneOn(s)'
        BY <3>3, <4>1 DEF Sound, AloneOn, Same, Frozen
      <4>3. QED
        BY <3>3, <3>5, <4>2 DEF Sound, CountedOnce, Posted, Aligned
    <3>6. QED
      BY <3>4, <3>5
  <2>2. CASE s = t
    <3>1. \A q \in Req : auditDoc'[q] # s
      BY <1>1, <1>2, <2>2 DEF Sound, AloneOn, Same
    <3>2. auditStatus[s] \in Audits!Open
      BY <1>1, <2>2 DEF Sound, AloneOn
    <3>3. AloneOn(s)'
      BY <3>1 DEF AloneOn
    <3>4. CountedOnce(s)' /\ Aligned(s)'
      BY <1>3, <1>7, <2>2 DEF Sound, CountedOnce, Aligned, Audits!Open
    <3>5. ASSUME NEW p \in AuditedPart PROVE adjusted'[s][p] = gap[p]
      <4>1. adjusted[s][p] = 0
        BY <3>2 DEF Sound, Posted, Audits!Open
      <4>2. adjusted'[s][p] = 0 + gap[p]
        BY <1>1, <1>3, <2>2, <4>1 DEF AuditShared
      <4>3. gap[p] \in Int
        <5>1. CASE \A c \in counts[s] : c.part # p
          BY <1>1, <2>2, <5>1, VarianceWritten DEF gap
        <5>2. ASSUME NEW c \in counts[s], c.part = p PROVE gap[p] \in Int
          BY <1>1, <2>2, <5>2, VarianceWritten DEF gap, AuditShared, Audits!CountRow
        <5>3. QED
          BY <5>1, <5>2
      <4>4. QED
        BY <4>2, <4>3
    <3>6. Posted(s)'
      BY <1>1, <1>3, <1>7, <2>2, <3>5, VarianceWritten DEF Posted, gap
    <3>7. QED
      BY <3>3, <3>4, <3>6 DEF Sound
  <2>3. QED
    BY <2>1, <2>2
<1>13. QED
  BY <1>2, <1>3, <1>10, <1>11, <1>12

\* A behaviour starts with no audit.
LEMMA AuditInit == Audits!Init => AuditInvariant
<1> SUFFICES ASSUME Audits!Init PROVE AuditInvariant
  OBVIOUS
<1>1. Audits!NoView \in Audits!View
  BY DEF Audits!NoView, Audits!View, Audits!Status
<1>2. AuditShared
  <2>1. stock \in [AuditedPart -> Nat] /\ shelf \in [AuditedPart -> Nat]
    BY DEF Audits!Init
  <2>2. QED
    BY <2>1 DEF Audits!Init, AuditShared, Audits!Status, Audits!NoItems
<1>3. AuditLocal /\ Unstocked
  BY <1>1 DEF Audits!Init, AuditLocal, Unstocked
<1>4. ASSUME NEW s \in Session PROVE Hidden(s) /\ Sound(s)
  BY NoneAssumption DEF Audits!Init, Hidden, Sound, AloneOn, CountedOnce, Posted, Aligned, Audits!Open, Audits!Nothing
<1>5. QED
  BY <1>2, <1>4, <1>3 DEF AuditInvariant

\* Every step of AuditSessions keeps the invariant.
LEMMA AuditStep ==
    ASSUME AuditInvariant, [Audits!Next]_(Audits!vars)
    PROVE  AuditInvariant'
<1>1. CASE UNCHANGED Audits!vars
  <2>1. UNCHANGED <<stocked, stock, shelf, auditStatus, snapshot, counts, adjusted, flagged, hidden,
                    omitted, auditRaced, auditPc, auditDoc, part, auditView, newer>>
    BY <1>1 DEF Audits!vars, Audits!goods, Audits!sessions, Audits!history, Audits!local
  <2>2. \A r \in Req : Audits!Moving(r)' = Audits!Moving(r)
    BY <2>1, MovingSame
  <2>3. ASSUME NEW s \in Session PROVE Hidden(s)'
    BY <2>1, <2>2 DEF AuditInvariant, Hidden
  <2>4. ASSUME NEW s \in Session \ auditRaced PROVE Sound(s)'
    BY <2>1 DEF AuditInvariant, Sound, AloneOn, CountedOnce, Posted, Aligned, Excused, Frozen
  <2>5. QED
    BY <2>1, <2>3, <2>4 DEF AuditInvariant, AuditShared, AuditLocal, Unstocked
<1>2. ASSUME NEW r \in Req, NEW p \in AuditedPart, NEW d \in {-1, 1}, Audits!WriteMovement(r, p, d)
      PROVE  AuditInvariant'
  BY <1>2, MovementWritten
<1>3. ASSUME NEW r \in Req, NEW s \in Session, Audits!BeginApproval(r, s) PROVE AuditInvariant'
  BY <1>3, SessionRead DEF Audits!BeginApproval
<1>4. ASSUME NEW r \in Req, NEW s \in Session, NEW p \in AuditedPart, Audits!BeginCount(r, s, p)
      PROVE  AuditInvariant'
  BY <1>4, SessionRead DEF Audits!BeginCount
<1>5. ASSUME NEW r \in Req, NEW parts \in Audits!Scopes, Audits!CommitSession(r, parts)
      PROVE  AuditInvariant'
  BY <1>5, SessionCommitted DEF Audits!Scopes
<1>6. QED
  BY <1>1, <1>2, <1>3, <1>4, <1>5, MovementCommitted, SessionStamped, CountFound, CountCommitted,
     AdjustmentsWritten, ApprovalCommitted, AuditRollback DEF Audits!Next

\* The sum of AdjustedOnce: what the counts differ from the snapshot.
Differences(k, S) == Audits!MapThenSumSet(LAMBDA c : c.counted - k, S)

\* No counts, no difference.
LEMMA DifferenceOfNone == ASSUME NEW k PROVE Differences(k, {}) = 0
BY DEF Differences, Audits!MapThenSumSet, Audits!MapThenFoldSet

\* The difference of one count.
LEMMA DifferenceOfOne ==
    ASSUME NEW k, NEW x, x.counted - k \in Int
    PROVE  Differences(k, {x}) = x.counted - k
<1> DEFINE Q(i) == i = [s \in SUBSET {x} |-> IF s = {} THEN 0 ELSE
               ((CHOOSE y \in s : TRUE).counted - k) + i[s \ {CHOOSE y \in s : TRUE}]]
           g == [s \in SUBSET {x} |-> IF s = {} THEN 0 ELSE x.counted - k]
           f == CHOOSE i : Q(i)
<1>1. \A s \in SUBSET {x} : s # {} => (CHOOSE y \in s : TRUE) = x /\ s \ {x} = {}
  <2>1. \A s \in SUBSET {x} : s = {} \/ s = {x}
    OBVIOUS
  <2>2. QED
    BY <2>1
<1>2. Q(g)
  BY <1>1
<1>3. Q(f)
  <2> HIDE DEF Q, g
  <2> QED
    BY <1>2
<1>4. f = [s \in SUBSET {x} |-> IF s = {} THEN 0 ELSE
               ((CHOOSE y \in s : TRUE).counted - k) + f[s \ {CHOOSE y \in s : TRUE}]]
  BY <1>3
<1> HIDE DEF f
<1>5. f[{}] = 0
  BY <1>4
<1>6. f[{x}] = (x.counted - k) + f[{}]
  <2>1. {x} \in SUBSET {x} /\ {x} # {}
    OBVIOUS
  <2>2. f[{x}] = ((CHOOSE y \in {x} : TRUE).counted - k) + f[{x} \ {CHOOSE y \in {x} : TRUE}]
    BY <1>4, <2>1
  <2>3. QED
    BY <1>1, <2>1, <2>2
<1>7. f[{x}] = x.counted - k
  BY <1>5, <1>6
<1>8. QED
  BY <1>7 DEF f, Differences, Audits!MapThenSumSet, Audits!MapThenFoldSet

\* The invariant says what AdjustedOnce says.
LEMMA AuditAdjusts == ASSUME AuditInvariant PROVE Audits!AdjustedOnce
<1> USE DEF AuditInvariant
<1>1. ASSUME NEW s \in Session \ auditRaced, NEW p \in AuditedPart
      PROVE  LET found == {c \in counts[s] : c.part = p}
             IN  /\ Cardinality(found) <= 1
                 /\ adjusted[s][p] = IF auditStatus[s] # "COMPLETED" THEN 0
                                     ELSE Differences(snapshot[s][p], found)
  <2> DEFINE found == {c \in counts[s] : c.part = p}
  <2>1. auditStatus[s] # "COMPLETED" => adjusted[s][p] = 0
    BY DEF Sound, Posted
  <2>2. CASE found = {}
    <3>1. Cardinality(found) = 0
      BY <2>2, FS_EmptySet
    <3>2. Differences(snapshot[s][p], found) = 0
      BY <2>2, DifferenceOfNone
    <3>3. auditStatus[s] = "COMPLETED" => adjusted[s][p] = 0
      BY <2>2 DEF Sound, Posted
    <3>4. QED
      BY <2>1, <3>1, <3>2, <3>3
  <2>3. ASSUME NEW c \in counts[s], c.part = p
        PROVE  /\ Cardinality(found) <= 1
               /\ auditStatus[s] = "COMPLETED" => adjusted[s][p] = Differences(snapshot[s][p], found)
    <3>1. found = {c}
      BY <2>3 DEF Sound, CountedOnce
    <3>2. Cardinality(found) = 1
      BY <3>1, FS_Singleton
    <3>3. c.counted \in Nat /\ snapshot[s][p] \in Nat /\ c.variance = c.counted - snapshot[s][p]
      BY <2>3 DEF Sound, CountedOnce, AuditShared, Audits!CountRow
    <3>4. Differences(snapshot[s][p], found) = c.variance
      <4>1. PICK k : k = snapshot[s][p]
        OBVIOUS
      <4>2. PICK x : x = c
        OBVIOUS
      <4>3. x.counted - k \in Int
        BY <3>3, <4>1, <4>2
      <4>4. Differences(k, {x}) = x.counted - k
        BY ONLY <4>3, DifferenceOfOne
      <4>5. QED
        BY <3>1, <3>3, <4>1, <4>2, <4>4
    <3>5. auditStatus[s] = "COMPLETED" => adjusted[s][p] = c.variance
      BY <2>3 DEF Sound, Posted
    <3>6. QED
      BY <3>2, <3>4, <3>5
  <2>4. QED
    BY <2>1, <2>2, <2>3
<1>2. \A S : Audits!Cardinality(S) = Cardinality(S)
  BY DEF Audits!Cardinality, Cardinality
<1>3. Audits!AdjustedOnce <=>
        \A s \in Session \ auditRaced, p \in AuditedPart :
          LET found == {c \in counts[s] : c.part = p}
          IN  /\ Audits!Cardinality(found) <= 1
              /\ adjusted[s][p] = IF auditStatus[s] # "COMPLETED" THEN 0
                                  ELSE Differences(snapshot[s][p], found)
  BY DEF Audits!AdjustedOnce, Differences, Audits!MapThenSumSet, Audits!MapThenFoldSet
<1>4. QED
  BY <1>1, <1>2, <1>3

\* An approval leaves books and shelf equal on every part that it counted, but for
\* those it knows to recount and those it cannot know of.
LEMMA ApprovalAligns ==
    ASSUME AuditInvariant, [Audits!Next]_(Audits!vars), NEW s \in Session \ auditRaced,
           auditStatus[s] \in Audits!Open, auditStatus'[s] = "COMPLETED", NEW c \in counts[s]
    PROVE  \/ c.part \in Audits!RecountRequired(s) \cup hidden[s] \cup omitted[s]
           \/ stock'[c.part] = shelf'[c.part]
<1> USE NoneAssumption DEF AuditInvariant
<1>1. PICK r \in Req : Audits!CommitApproval(r) /\ auditDoc[r] = s
  <2>1. ASSUME NEW r \in Req, Audits!CommitCount(r) PROVE FALSE
    BY <2>1 DEF Audits!CommitCount, AuditShared, Audits!Open
  <2>2. ASSUME NEW r \in Req, Audits!CommitApproval(r), auditDoc[r] # s PROVE FALSE
    BY <2>2 DEF Audits!CommitApproval, AuditShared, Audits!Open
  <2>3. ASSUME NEW r \in Req, NEW parts \in Audits!Scopes, Audits!CommitSession(r, parts) PROVE FALSE
    BY <2>3 DEF Audits!CommitSession, AuditShared, Audits!Open
  <2>4. CASE UNCHANGED auditStatus
    BY <2>4 DEF Audits!Open
  <2>5. QED
    BY <2>1, <2>2, <2>3, <2>4 DEF Audits!Next, Audits!vars, Audits!sessions, Audits!WriteMovement,
       Audits!CommitMovement, Audits!StampSession, Audits!BeginApproval, Audits!BeginCount,
       Audits!GetSession, Audits!FindCount, Audits!WriteAdjustments, Audits!Rollback
<1>2. /\ auditPc[r] = "adjust" /\ shelf' = shelf
      /\ stock' = [p \in AuditedPart |-> stock[p] + Audits!Changes(r)[p]]
  BY <1>1 DEF Audits!CommitApproval
<1>3. /\ c.part \in AuditedPart /\ c.counted \in Nat
      /\ snapshot[s][c.part] \in Nat /\ c.variance = c.counted - snapshot[s][c.part]
  BY DEF Sound, CountedOnce, AuditShared, Audits!CountRow
<1>4. Audits!Changes(r)[c.part] = c.variance
  BY <1>1, <1>2, <1>3, VarianceWritten
<1>5. CASE c.part \notin Excused(s)
  <2>1. stock[c.part] = snapshot[s][c.part] /\ c.counted = shelf[c.part]
    BY <1>3, <1>5 DEF Sound, Aligned, Frozen
  <2>2. stock'[c.part] = stock[c.part] + c.variance
    BY <1>2, <1>3, <1>4
  <2>3. QED
    BY <1>2, <1>3, <2>1, <2>2
<1>6. CASE c.part \in Excused(s)
  BY <1>3, <1>6 DEF Excused, Audits!RecountRequired
<1>7. QED
  BY <1>5, <1>6

\* An audit adds the variance of each part it counted to the stock once, when it is
\* approved, unless two requests wrote the audit at a time (AdjustedOnce).
THEOREM VariancePostedOnce == Spec => []AdjustedOnce
<1>1. Init => AuditInvariant
  BY AuditInit DEF Init
<1>2. AuditInvariant /\ [Next]_vars => AuditInvariant'
  BY AuditStep, AuditNext
<1>3. AuditInvariant => AdjustedOnce
  BY AuditAdjusts DEF AdjustedOnce
<1>4. QED
  BY <1>1, <1>2, <1>3, PTL DEF Spec

\* For any number of audits, movements and counts that interleave, an approval
\* leaves the books of what was counted equal to the shelf, except for parts
\* flagged for a recount and movements hidden from the audit (AuditAligns).
THEOREM ApprovalAlignsBooks == Spec => AuditAligns
<1> DEFINE Align ==
      \A s \in Session \ auditRaced :
          auditStatus[s] \in Audits!Open /\ auditStatus'[s] = "COMPLETED" =>
              \A c \in counts[s] :
                  \/ c.part \in Audits!RecountRequired(s) \cup hidden[s] \cup omitted[s]
                  \/ stock'[c.part] = shelf'[c.part]
<1>1. Init => AuditInvariant
  BY AuditInit DEF Init
<1>2. AuditInvariant /\ [Next]_vars => AuditInvariant'
  BY AuditStep, AuditNext
<1>3. AuditInvariant /\ [Next]_vars => [Align]_(Audits!vars)
  BY AuditNext, ApprovalAligns
<1>4. QED
  BY <1>1, <1>2, <1>3, PTL DEF Spec, AuditAligns, Audits!AuditAligns

-----------------------------------------------------------------------------
(* What else the types of an audit say.                                    *)

\* The entries of a session are whole numbers, and the counts that make them
\* up are finitely many.
AuditRest ==
    /\ adjusted \in [Session -> [AuditedPart -> Int]]
    /\ auditRaced \subseteq Session
    /\ \A s \in Session : IsFiniteSet(counts[s])
    /\ \A r \in Req : IsFiniteSet(auditView[r].rows)

\* The variances of finitely many counts, summed.
LEMMA VariancesFolded ==
    ASSUME NEW D, IsFiniteSet(D), \A c \in D : c.variance \in Int
    PROVE  Variances(D) \in Int
<1> DEFINE f == [c \in D |-> c.variance]
           Q(h) == h = [S \in SUBSET D |-> IF S = {} THEN 0 ELSE Pick(S).variance + h[S \ {Pick(S)}]]
           g == [S \in SUBSET D |-> SumOver(f, S)]
<1>1. \A S \in SUBSET D : S # {} => /\ Pick(S) \in D /\ S \ {Pick(S)} \in SUBSET D
                                   /\ f[Pick(S)] = Pick(S).variance
  BY PickIn
<1>2. \A S \in SUBSET D : SumOver(f, S) = IF S = {} THEN 0 ELSE f[Pick(S)] + SumOver(f, S \ {Pick(S)})
  <2> HIDE DEF f
  <2>1. QED
    BY FS_Subset, SumStep
<1>3. Q(g)
  <2>1. \A S \in SUBSET D : g[S] = IF S = {} THEN 0 ELSE Pick(S).variance + g[S \ {Pick(S)}]
    <3> HIDE DEF f
    <3>1. QED
      BY <1>1, <1>2
  <2>2. QED
    BY <2>1
<1>4. PICK h : h = CHOOSE i : Q(i)
  OBVIOUS
<1>5. Q(h)
  <2> HIDE DEF g, Q
  <2> QED
    BY <1>3, <1>4
<1>6. \A S \in SUBSET D : h[S] = IF S = {} THEN 0 ELSE f[Pick(S)] + h[S \ {Pick(S)}]
  BY <1>1, <1>5
<1>7. \A c \in D : f[c] \in Int
  OBVIOUS
<1>8. h[D] \in Int
  <2> HIDE DEF f
  <2>1. h[D] = SumOver(f, D)
    BY <1>6, ChoiceSums
  <2>2. QED
    BY <1>7, <2>1, SumType
<1>9. Variances(D) = (CHOOSE i : Q(i))[D]
  BY DEF Variances, Audits!MapThenSumSet, Audits!MapThenFoldSet, Pick
<1>10. QED
  BY <1>4, <1>8, <1>9

\* What a request has written of a part is a whole number.
LEMMA WrittenType ==
    ASSUME AuditLocal, AuditRest, NEW r \in Req, NEW p \in AuditedPart
    PROVE  Audits!Changes(r)[p] \in Int
<1>1. auditView[r].change \in Int /\ auditView[r].rows \subseteq Audits!CountRow
  BY DEF AuditLocal, Audits!View
<1>2. PICK D : D = {c \in auditView[r].rows : c.part = p}
  OBVIOUS
<1>3. IsFiniteSet(D) /\ \A c \in D : c.variance \in Int
  BY <1>1, <1>2, FS_Subset DEF AuditRest, Audits!CountRow
<1>4. Variances(D) \in Int
  BY <1>3, VariancesFolded
<1>5. QED
  BY <1>1, <1>2, <1>4, ChangesWritten DEF Written

\* Every step of AuditSessions keeps these types.
LEMMA AuditRestStep ==
    ASSUME AuditInvariant, AuditRest, [Audits!Next]_(Audits!vars)
    PROVE  AuditRest'
<1> USE NoneAssumption DEF AuditInvariant
<1> DEFINE Rows(r, t) == auditView' = [auditView EXCEPT ![r] = t] /\ IsFiniteSet(t.rows)
<1>1. ASSUME UNCHANGED <<adjusted, counts>>, auditRaced' \subseteq Session,
             \/ UNCHANGED auditView
             \/ \E r \in Req, t \in Audits!View : Rows(r, t)
      PROVE  AuditRest'
  BY <1>1 DEF AuditRest, AuditLocal
<1>2. Audits!NoView \in Audits!View /\ IsFiniteSet(Audits!NoView.rows) /\ auditRaced \subseteq Session
  BY FS_EmptySet DEF AuditRest, Audits!NoView, Audits!View, Audits!Status
<1>3. CASE UNCHANGED Audits!vars
  BY <1>1, <1>2, <1>3 DEF Audits!vars, Audits!sessions, Audits!history, Audits!local
<1>4. ASSUME NEW r \in Req, NEW p \in AuditedPart, NEW d \in {-1, 1}, Audits!WriteMovement(r, p, d)
      PROVE  AuditRest'
  <2>1. PICK t : t = [auditView[r] EXCEPT !.change = d]
    OBVIOUS
  <2>2. auditView' = [auditView EXCEPT ![r] = t] /\ UNCHANGED <<adjusted, counts, auditRaced>>
    BY <1>4, <2>1 DEF Audits!WriteMovement, Audits!sessions, Audits!history
  <2>3. auditView[r] \in Audits!View /\ IsFiniteSet(auditView[r].rows) /\ d \in Int
    BY DEF AuditLocal, AuditRest
  <2>4. t \in Audits!View /\ t.rows = auditView[r].rows
    BY <2>1, <2>3 DEF Audits!View
  <2>5. QED
    BY <1>1, <1>2, <2>2, <2>3, <2>4
<1>5. ASSUME NEW r \in Req, \/ Audits!CommitMovement(r) \/ Audits!Rollback(r)
                           \/ \E parts \in Audits!Scopes : Audits!CommitSession(r, parts)
      PROVE  AuditRest'
  <2>1. UNCHANGED <<adjusted, counts, auditRaced>> /\ auditView' = [auditView EXCEPT ![r] = Audits!NoView]
    BY <1>5 DEF Audits!CommitMovement, Audits!Rollback, Audits!CommitSession, Audits!EndTransaction,
                Audits!history, Audits!sessions
  <2>2. QED
    BY <1>1, <1>2, <2>1
<1>6. ASSUME NEW r \in Req, NEW s \in Session, Audits!StampSession(r, s) PROVE AuditRest'
  BY <1>1, <1>2, <1>6 DEF Audits!StampSession, Audits!sessions, Audits!history
<1>7. ASSUME NEW r \in Req, NEW s \in Session, NEW p \in AuditedPart \cup {NoPart}, NEW l,
             Audits!GetSession(r, s, p, l)
      PROVE  AuditRest'
  <2>1. PICK t : t = [auditView[r] EXCEPT !.status = auditStatus[s],
                                          !.counted = IF p = NoPart THEN 0 ELSE shelf[p]]
    OBVIOUS
  <2>2. auditView' = [auditView EXCEPT ![r] = t] /\ UNCHANGED <<adjusted, counts>> /\ auditRaced' \subseteq Session
    BY <1>2, <1>7, <2>1 DEF Audits!GetSession, Audits!sessions
  <2>3. auditView[r] \in Audits!View /\ auditStatus[s] \in Audits!Status
        /\ (IF p = NoPart THEN 0 ELSE shelf[p]) \in Nat
    BY DEF AuditLocal, AuditShared
  <2>4. t \in Audits!View /\ t.rows = auditView[r].rows
    BY <2>1, <2>3 DEF Audits!View
  <2>5. QED
    BY <1>1, <2>2, <2>4 DEF AuditRest
<1>8. ASSUME NEW r \in Req, Audits!FindCount(r) PROVE AuditRest'
  <2>1. auditDoc[r] \in Session /\ part[r] \in AuditedPart
    BY <1>8 DEF AuditLocal, Audits!FindCount
  <2>2. PICK t : t = [auditView[r] EXCEPT
            !.item = IF snapshot[auditDoc[r]][part[r]] = NoItem THEN 0 ELSE snapshot[auditDoc[r]][part[r]],
            !.rows = {c \in counts[auditDoc[r]] : c.part = part[r]}]
    OBVIOUS
  <2>3. auditView' = [auditView EXCEPT ![r] = t] /\ UNCHANGED <<adjusted, counts, auditRaced>>
    BY <1>8, <2>2 DEF Audits!FindCount, Audits!sessions, Audits!history
  <2>4. t \in Audits!View
    <3>1. snapshot[auditDoc[r]][part[r]] \in Nat \cup {NoItem} /\ counts[auditDoc[r]] \in SUBSET Audits!CountRow
      BY <2>1 DEF AuditShared
    <3>2. auditView[r] \in Audits!View
      BY DEF AuditLocal
    <3>3. QED
      BY <2>2, <3>1, <3>2 DEF Audits!View
  <2>5. IsFiniteSet(t.rows)
    <3>1. t.rows \subseteq counts[auditDoc[r]]
      BY <2>2 DEF AuditLocal, Audits!View
    <3>2. QED
      BY <2>1, <3>1, FS_Subset DEF AuditRest
  <2>6. QED
    BY <1>1, <1>2, <2>3, <2>4, <2>5
<1>9. ASSUME NEW r \in Req, Audits!CommitCount(r) PROVE AuditRest'
  <2>1. auditDoc[r] \in Session
    BY <1>9 DEF AuditLocal, Audits!CommitCount
  <2>2. PICK s \in Session : s = auditDoc[r]
    BY <2>1
  <2>a. PICK B, c : B \subseteq counts[s] /\ counts' = [counts EXCEPT ![s] = B \cup {c}]
    BY <1>9, <2>2 DEF Audits!CommitCount, AuditShared
  <2>3. IsFiniteSet(B \cup {c})
    BY <2>a, FS_Subset, FS_AddElement DEF AuditRest
  <2>4. \A q \in Session : IsFiniteSet(counts'[q])
    BY <2>2, <2>a, <2>3 DEF AuditRest, AuditShared
  <2>5. UNCHANGED <<adjusted, auditRaced>> /\ auditView' = [auditView EXCEPT ![r] = Audits!NoView]
    BY <1>9 DEF Audits!CommitCount, Audits!EndTransaction, Audits!history
  <2>6. \A q \in Req : IsFiniteSet(auditView'[q].rows)
    BY <1>2, <2>5 DEF AuditRest, AuditLocal
  <2>7. QED
    BY <2>4, <2>5, <2>6 DEF AuditRest
<1>10. ASSUME NEW r \in Req, Audits!WriteAdjustments(r) PROVE AuditRest'
  <2>1. auditDoc[r] \in Session
    BY <1>10 DEF AuditLocal, Audits!WriteAdjustments
  <2>2. PICK t : t = [auditView[r] EXCEPT !.rows = counts[auditDoc[r]]]
    OBVIOUS
  <2>3. auditView' = [auditView EXCEPT ![r] = t] /\ UNCHANGED <<adjusted, counts, auditRaced>>
    BY <1>10, <2>2 DEF Audits!WriteAdjustments, Audits!sessions, Audits!history
  <2>4. auditView[r] \in Audits!View /\ counts[auditDoc[r]] \in SUBSET Audits!CountRow
    BY <2>1 DEF AuditLocal, AuditShared
  <2>5. t \in Audits!View /\ t.rows = counts[auditDoc[r]]
    BY <2>2, <2>4 DEF Audits!View
  <2>6. QED
    BY <1>1, <1>2, <2>1, <2>3, <2>5 DEF AuditRest
<1>11. ASSUME NEW r \in Req, Audits!CommitApproval(r) PROVE AuditRest'
  <2>1. auditDoc[r] \in Session
    BY <1>11 DEF AuditLocal, Audits!CommitApproval
  <2>2. PICK k : k = Audits!Changes(r)
    OBVIOUS
  <2>3. \A p \in AuditedPart : k[p] \in Int
    BY <2>2, WrittenType
  <2>4. /\ adjusted' = [adjusted EXCEPT ![auditDoc[r]] =
                          [p \in AuditedPart |-> adjusted[auditDoc[r]][p] + k[p]]]
        /\ UNCHANGED <<counts, auditRaced>> /\ auditView' = [auditView EXCEPT ![r] = Audits!NoView]
    BY <1>11, <2>2 DEF Audits!CommitApproval, Audits!EndTransaction, Audits!history
  <2>5. adjusted' \in [Session -> [AuditedPart -> Int]]
    BY <2>1, <2>3, <2>4 DEF AuditRest
  <2>6. \A q \in Req : IsFiniteSet(auditView'[q].rows)
    BY <1>2, <2>4 DEF AuditRest, AuditLocal
  <2>7. QED
    BY <2>4, <2>5, <2>6 DEF AuditRest
<1> HIDE DEF Rows, AuditInvariant
<1>12. QED
  BY <1>3, <1>4, <1>5, <1>6, <1>7, <1>8, <1>9, <1>10, <1>11
  DEF Audits!Next, Audits!BeginCount, Audits!BeginApproval

\* The types of an audit.
LEMMA AuditTypes == AuditInvariant /\ AuditRest => Audits!TypeOK
BY DEF AuditInvariant, AuditRest, AuditShared, AuditLocal, Audits!TypeOK

\* A behaviour starts with no counts and no entries.
LEMMA AuditRestInit == Audits!Init => AuditRest
<1>1. IsFiniteSet(Audits!NoView.rows) /\ Audits!Nothing \in [AuditedPart -> Int]
  BY FS_EmptySet DEF Audits!NoView, Audits!Nothing
<1>2. ASSUME Audits!Init PROVE AuditRest
  <2>1. /\ adjusted = [s \in Session |-> Audits!Nothing] /\ counts = [s \in Session |-> {}]
        /\ auditView = [r \in Req |-> Audits!NoView] /\ auditRaced = {}
    BY <1>2 DEF Audits!Init
  <2>2. QED
    BY <1>1, <2>1, FS_EmptySet DEF AuditRest
<1>3. QED
  BY <1>2

=============================================================================
