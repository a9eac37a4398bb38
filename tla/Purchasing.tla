------------------------------ MODULE Purchasing ------------------------------
(***************************************************************************)
(* Purchase orders, as concurrent requests create, approve, receive and    *)
(* cancel them.  A request is one PostgreSQL transaction at READ           *)
(* COMMITTED.  It reads the order and its lines with no lock; each flush   *)
(* then overwrites a row with what the session computed from that read,    *)
(* and holds the row until the transaction ends.  Two requests on one      *)
(* order may overlap: `raced` remembers the orders on which they did.      *)
(*                                                                         *)
(* A received unit also goes through a cost layer and a stock movement     *)
(* (StockLedger) and through the supplier's account (SupplierAccounts).    *)
(* Units stand for money: each costs 1.                                    *)
(***************************************************************************)
EXTENDS Integers, FiniteSets, FiniteSetsExt

CONSTANTS
    Req,       \* concurrent requests
    Order,     \* purchase orders that may be created
    NoOrder,   \* what an idle request works on
    Line,      \* the lines of an order
    Ordered    \* [Order -> [Line -> Nat]], quantity_ordered

VARIABLES
    status,    \* committed status; NONE before the order is created
    received,  \* committed quantity_received of each line
    receipts,  \* units on the committed goods receipt notes of each line
    charged,   \* what those receipts posted to the supplier's ledger
    notices,   \* kinds of notifications about the order that managers got
    pc,        \* where each request is
    op,        \* which operation it performs
    doc,       \* on which order
    view,      \* status and received of the order in its session
    gained,    \* units on the note it is writing
    raced      \* history: the orders that two requests worked on at once

tables  == <<status, received, receipts, charged, notices>>
session == <<pc, op, doc, view, gained>>
vars    == <<tables, session, raced>>

Status == {"NONE", "DRAFT", "APPROVED", "ORDERED",
           "PARTIALLY_RECEIVED", "RECEIVED", "CANCELLED"}
Notices == {"pending_approval", "goods_received", "discrepancy"}
Ops     == {"create", "approve", "receive", "cancel"}

Nothing  == [l \in Line |-> 0]
NoObject == [status |-> "NONE", received |-> Nothing]

TypeOK ==
    /\ status \in [Order -> Status]
    /\ received \in [Order -> [Line -> Nat]]
    /\ receipts \in [Order -> [Line -> Nat]]
    /\ charged \in [Order -> Nat]
    /\ notices \in [Order -> SUBSET Notices]
    /\ pc \in [Req -> {"idle", "work", "row", "commit", "notify"}]
    /\ op \in [Req -> Ops]
    /\ doc \in [Req -> Order \cup {NoOrder}]
    /\ view \in [Req -> [status : Status, received : [Line -> Nat]]]
    /\ gained \in [Req -> [Line -> Nat]]
    /\ raced \subseteq Order

Init ==
    /\ status = [o \in Order |-> "NONE"]
    /\ received = [o \in Order |-> Nothing]
    /\ receipts = [o \in Order |-> Nothing]
    /\ charged = [o \in Order |-> 0]
    /\ notices = [o \in Order |-> {}]
    /\ pc = [r \in Req |-> "idle"]
    /\ op = [r \in Req |-> "create"]
    /\ doc = [r \in Req |-> NoOrder]
    /\ view = [r \in Req |-> NoObject]
    /\ gained = [r \in Req |-> Nothing]
    /\ raced = {}

Goto(r, l) == pc' = [pc EXCEPT ![r] = l]
Units(q)   == MapThenSumSet(LAMBDA l : q[l], Line)

\* Who else has read an order and may still write it.
Others(r, o) == {s \in Req \ {r} : doc[s] = o /\ pc[s] # "notify"}

\* Mutant: an order that is received in full may still be cancelled.
AllowedLate(o, s) ==
    \/ o = "approve" /\ s = "DRAFT"
    \/ o = "receive" /\ s \in {"APPROVED", "ORDERED", "PARTIALLY_RECEIVED"}
    \/ o = "cancel"  /\ s \notin {"NONE", "CANCELLED"}

\* The statuses in which an operation is allowed.  An order without lines
\* cannot be created, and a cancellation gives its reason.
Allowed(o, s) ==
    \/ o = "approve" /\ s = "DRAFT"
    \/ o = "receive" /\ s \in {"APPROVED", "ORDERED", "PARTIALLY_RECEIVED"}
    \/ o = "cancel"  /\ s \notin {"NONE", "RECEIVED", "CANCELLED"}

\* The order is inserted and committed; the notification is a transaction of
\* its own, and when it fails the order stays.
CreateOrder(r, o) ==
    /\ pc[r] = "idle"
    /\ status[o] = "NONE"
    /\ status' = [status EXCEPT ![o] = "DRAFT"]
    /\ doc' = [doc EXCEPT ![r] = o]
    /\ op'  = [op  EXCEPT ![r] = "create"]
    /\ Goto(r, "notify")
    /\ UNCHANGED <<received, receipts, charged, notices, view, gained, raced>>

NotifyPendingApproval(r) ==
    /\ pc[r] = "notify"
    /\ notices' = [notices EXCEPT ![doc[r]] = @ \cup {"pending_approval"}]
    /\ doc' = [doc EXCEPT ![r] = NoOrder]
    /\ Goto(r, "idle")
    /\ UNCHANGED <<status, received, receipts, charged, op, view, gained, raced>>

\* Read the order and its lines, with no lock, and check the status.
GetOrder(r, o, c) ==
    /\ pc[r] = "idle"
    /\ Allowed(c, status[o])
    /\ doc'  = [doc  EXCEPT ![r] = o]
    /\ op'   = [op   EXCEPT ![r] = c]
    /\ view' = [view EXCEPT ![r] = [status |-> status[o], received |-> received[o]]]
    /\ raced' = IF Others(r, o) = {} THEN raced ELSE raced \cup {o}
    /\ UNCHANGED <<tables, gained>>

BeginApprove(r, o) == GetOrder(r, o, "approve") /\ Goto(r, "row")
BeginReceive(r, o) == GetOrder(r, o, "receive") /\ Goto(r, "work")
BeginCancel(r, o)  == GetOrder(r, o, "cancel")  /\ Goto(r, "row")

Remaining(r, l) == Ordered[doc[r]][l] - view[r].received[l]

\* The quantities a line of the note may have: a positive one, and no more
\* than remains.
Receivable(r, l) == 1..Remaining(r, l)

\* Mutant: the quantity on the note is compared with what was ordered.
ReceiveAgain(r, l) ==
    /\ pc[r] = "work"
    /\ \A s \in Others(r, doc[r]) : gained[s][l] = 0
    /\ \E q \in 1..Ordered[doc[r]][l] :
          /\ gained' = [gained EXCEPT ![r][l] = @ + q]
          /\ view'   = [view EXCEPT ![r].received[l] = @ + q]
    /\ UNCHANGED <<tables, pc, op, doc, raced>>

\* One line of the note: no more than remains of the line the session read.
\* The flush overwrites the line, once nobody else holds it.
ReceiveLine(r, l) ==
    /\ pc[r] = "work"
    /\ \A s \in Others(r, doc[r]) : gained[s][l] = 0
    /\ \E q \in Receivable(r, l) :
          /\ gained' = [gained EXCEPT ![r][l] = @ + q]
          /\ view'   = [view EXCEPT ![r].received[l] = @ + q]
    /\ UNCHANGED <<tables, pc, op, doc, raced>>

EndLines(r) ==
    /\ pc[r] = "work"
    /\ gained[r] # Nothing
    /\ Goto(r, "row")
    /\ UNCHANGED <<tables, op, doc, view, gained, raced>>

\* Mutant: the order is complete as soon as one of its lines is.
CompleteEarly(r) ==
    IF \E l \in Line : view[r].received[l] >= Ordered[doc[r]][l]
    THEN "RECEIVED" ELSE "PARTIALLY_RECEIVED"

\* The status a receipt gives the order, by the lines of the session.
StatusAfterReceipt(r) ==
    IF \A l \in Line : view[r].received[l] >= Ordered[doc[r]][l]
    THEN "RECEIVED" ELSE "PARTIALLY_RECEIVED"

NewStatus(r) ==
    CASE op[r] = "approve" -> "APPROVED"
      [] op[r] = "cancel"  -> "CANCELLED"
      [] OTHER             -> StatusAfterReceipt(r)

\* The session emits an UPDATE of the order only for a status that changed.
Overwrites(r) == NewStatus(r) # view[r].status

UpdateOrder(r) ==
    /\ pc[r] = "row"
    /\ Overwrites(r) =>
          ~ \E s \in Others(r, doc[r]) : pc[s] = "commit" /\ Overwrites(s)
    /\ Goto(r, "commit")
    /\ UNCHANGED <<tables, op, doc, view, gained, raced>>

\* The handler compares each line with what remains after the receipt: the
\* line it reads is the one its session has updated.  (The code compares the
\* items one by one; the model adds up the items of one line.)
IsDiscrepant(r, l) ==
    /\ gained[r][l] > 0
    /\ 10 * gained[r][l] < 8 * Remaining(r, l)
    /\ Remaining(r, l) - gained[r][l] > 1

NoticesOf(r) ==
    {"goods_received"}
      \cup (IF \E l \in Line : IsDiscrepant(r, l) THEN {"discrepancy"} ELSE {})

EndTransaction(r) ==
    /\ doc'    = [doc    EXCEPT ![r] = NoOrder]
    /\ view'   = [view   EXCEPT ![r] = NoObject]
    /\ gained' = [gained EXCEPT ![r] = Nothing]
    /\ op'     = [op     EXCEPT ![r] = "create"]
    /\ Goto(r, "idle")
    /\ UNCHANGED raced

WriteStatus(r) ==
    status' = IF Overwrites(r) THEN [status EXCEPT ![doc[r]] = NewStatus(r)] ELSE status

\* The lines of the note get the quantities that the session computed.
WriteLines(r) ==
    received' = [received EXCEPT ![doc[r]] =
        [l \in Line |-> IF gained[r][l] > 0 THEN view[r].received[l] ELSE @[l]]]

WriteNote(r) ==
    receipts' = [receipts EXCEPT ![doc[r]] = [l \in Line |-> @[l] + gained[r][l]]]

ChargeSupplier(r) == charged' = [charged EXCEPT ![doc[r]] = @ + Units(gained[r])]

\* At the commit, what the transaction flushed becomes visible.
CommitApproval(r) ==
    /\ pc[r] = "commit"
    /\ op[r] = "approve"
    /\ WriteStatus(r)
    /\ EndTransaction(r)
    /\ UNCHANGED <<received, receipts, charged, notices>>

CommitReceipt(r) ==
    /\ pc[r] = "commit"
    /\ op[r] = "receive"
    /\ WriteStatus(r)
    /\ WriteLines(r)
    /\ WriteNote(r)
    /\ ChargeSupplier(r)
    /\ notices' = [notices EXCEPT ![doc[r]] = @ \cup NoticesOf(r)]
    /\ EndTransaction(r)

CommitCancel(r) ==
    /\ pc[r] = "commit"
    /\ op[r] = "cancel"
    /\ WriteStatus(r)
    /\ EndTransaction(r)
    /\ UNCHANGED <<received, receipts, charged, notices>>

\* A refused quantity, a deadlock, any other error, a crash.
Rollback(r) ==
    /\ pc[r] # "idle"
    /\ EndTransaction(r)
    /\ UNCHANGED tables

Next ==
    \E r \in Req :
        \/ \E o \in Order : CreateOrder(r, o)
        \/ NotifyPendingApproval(r)
        \/ \E o \in Order : BeginApprove(r, o)
        \/ \E o \in Order : BeginReceive(r, o)
        \/ \E o \in Order : BeginCancel(r, o)
        \/ \E l \in Line : ReceiveLine(r, l)
        \/ EndLines(r)
        \/ UpdateOrder(r)
        \/ CommitApproval(r)
        \/ CommitReceipt(r)
        \/ CommitCancel(r)
        \/ Rollback(r)

Spec == Init /\ [][Next]_vars

-----------------------------------------------------------------------------
(* Properties                                                              *)

\* However requests race, an order line never claims more than was ordered
\* nor more than its receipt notes say, and the supplier is owed exactly what
\* the notes say: a lost update hides a receipt, it never invents one.
NeverOverstated ==
    \A o \in Order :
        /\ \A l \in Line : received[o][l] <= Ordered[o][l] /\ received[o][l] <= receipts[o][l]
        /\ charged[o] = Units(receipts[o])

\* On an order that no two requests raced on, each line is the sum of its
\* notes, and the status says what they amount to: RECEIVED if the lines are
\* full, PARTIALLY_RECEIVED if some units came, and no receipt before the
\* approval.
ReceiptsTallied ==
    \A o \in Order \ raced :
        /\ received[o] = receipts[o]
        /\ status[o] = "RECEIVED" => receipts[o] = Ordered[o]
        /\ status[o] = "PARTIALLY_RECEIVED" =>
              receipts[o] # Nothing /\ receipts[o] # Ordered[o]
        /\ status[o] \in {"NONE", "DRAFT", "APPROVED"} => receipts[o] = Nothing

=============================================================================
