----------------------------- MODULE PurchaseOrder -----------------------------
(***************************************************************************)
(* What the backend promises of a purchase order: it changes state in      *)
(* single steps, goods come in after an approval and until the lines are   *)
(* full or the order is cancelled, and what came in is owed.  Nothing is   *)
(* said of requests, rows or notes, and nothing of an order once two       *)
(* requests overlapped on it: the code takes no lock.                      *)
(***************************************************************************)
EXTENDS Integers, FiniteSetsExt

CONSTANTS Order, Line, Ordered

VARIABLES
    status,     \* state of each order; NONE before it is created, RACED
                \* once nothing is promised of it any more
    received,   \* units that came in of each line
    owed        \* what the supplier charges for them: a unit costs 1

vars == <<status, received, owed>>

Nothing  == [l \in Line |-> 0]
Units(q) == MapThenSumSet(LAMBDA l : q[l], Line)

Init ==
    /\ status = [o \in Order |-> "NONE"]
    /\ received = [o \in Order |-> Nothing]
    /\ owed = [o \in Order |-> 0]

Become(o, s) == status' = [status EXCEPT ![o] = s]

Create(o) ==
    /\ status[o] = "NONE"
    /\ Become(o, "DRAFT")
    /\ UNCHANGED <<received, owed>>

Approve(o) ==
    /\ status[o] = "DRAFT"
    /\ Become(o, "APPROVED")
    /\ UNCHANGED <<received, owed>>

\* Some lines get some units, and none more than was ordered.
Receive(o) ==
    /\ status[o] \in {"APPROVED", "PARTIALLY_RECEIVED"}
    /\ received'[o] # received[o]
    /\ \A l \in Line : received'[o][l] \in received[o][l] .. Ordered[o][l]
    /\ received' = [received EXCEPT ![o] = received'[o]]
    /\ owed' = [owed EXCEPT ![o] = Units(received'[o])]
    /\ Become(o, IF received'[o] = Ordered[o] THEN "RECEIVED" ELSE "PARTIALLY_RECEIVED")

\* What came in is kept, and stays owed.
Cancel(o) ==
    /\ status[o] \in {"DRAFT", "APPROVED", "PARTIALLY_RECEIVED"}
    /\ Become(o, "CANCELLED")
    /\ UNCHANGED <<received, owed>>

\* From here on the order may be in any state: it stands for none.
Race(o) ==
    /\ Become(o, "RACED")
    /\ received' = [received EXCEPT ![o] = Nothing]
    /\ owed' = [owed EXCEPT ![o] = 0]

Next == \E o \in Order : Create(o) \/ Approve(o) \/ Receive(o) \/ Cancel(o) \/ Race(o)

Spec == Init /\ [][Next]_vars

=============================================================================
