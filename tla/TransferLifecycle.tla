--------------------------- MODULE TransferLifecycle ---------------------------
(***************************************************************************)
(* What the backend promises of a stock transfer: it changes state in      *)
(* single steps, and each step books the units the new state stands for.   *)
(* Nothing is said of requests, rows or locks.                             *)
(***************************************************************************)
EXTENDS Integers

CONSTANTS Transfer, Location, Source, Destination, Quantity

VARIABLES
    status,   \* state of each transfer; NONE before it is requested
    booked    \* booked[t][l]: sum of the movements of transfer t at location l

vars == <<status, booked>>

Init ==
    /\ status = [t \in Transfer |-> "NONE"]
    /\ booked = [t \in Transfer |-> [l \in Location |-> 0]]

Book(t, l, q) == booked' = [booked EXCEPT ![t][l] = @ + q]
Become(t, s)  == status' = [status EXCEPT ![t] = s]

Create(t) ==
    /\ status[t] = "NONE"
    /\ Become(t, "PENDING")
    /\ UNCHANGED booked

Approve(t) ==
    /\ status[t] = "PENDING"
    /\ Become(t, "IN_TRANSIT")
    /\ Book(t, Source[t], -Quantity[t])

Receive(t) ==
    /\ status[t] = "IN_TRANSIT"
    /\ Become(t, "RECEIVED")
    /\ Book(t, Destination[t], Quantity[t])

\* What left the source comes back to it.
Cancel(t) ==
    /\ Become(t, "CANCELLED")
    /\ \/ status[t] = "PENDING"    /\ UNCHANGED booked
       \/ status[t] = "IN_TRANSIT" /\ Book(t, Source[t], Quantity[t])

Next == \E t \in Transfer : Create(t) \/ Approve(t) \/ Receive(t) \/ Cancel(t)

Spec == Init /\ [][Next]_vars

=============================================================================
