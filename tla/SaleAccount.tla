----------------------------- MODULE SaleAccount -----------------------------
(***************************************************************************)
(* What the backend promises of a sale and of the customer's account: each *)
(* operation is one step, a sale is charged once, no more comes back than  *)
(* was sold, and no charge lifts a balance above the credit limit.         *)
(* Nothing is said of requests, locks, lines or statements.                *)
(***************************************************************************)
EXTENDS Integers

CONSTANTS Sale, Customer, NoCustomer, Limit

VARIABLES
    status,    \* state of each sale; NONE before it is created
    account,   \* the customer a sale is charged to, or NoCustomer
    units,     \* units on the sale
    returned,  \* units that came back
    owed,      \* what the ledger entries of the sale sum to
    balance    \* what the ledger entries of the customer sum to

vars == <<status, account, units, returned, owed, balance>>

Init ==
    /\ status   = [s \in Sale |-> "NONE"]
    /\ account  = [s \in Sale |-> NoCustomer]
    /\ units    = [s \in Sale |-> 0]
    /\ returned = [s \in Sale |-> 0]
    /\ owed     = [s \in Sale |-> 0]
    /\ balance  = [c \in Customer |-> 0]

Become(s, new) == status' = [status EXCEPT ![s] = new]

\* Nobody but this customer's account, or nobody's, changes by this much.
Book(s, c, n) ==
    /\ owed' = [owed EXCEPT ![s] = @ + n]
    /\ balance' = IF c = NoCustomer THEN balance
                  ELSE [balance EXCEPT ![c] = @ + n]

\* A draft is created, or edited, with any customer and any units.
Draft(s) ==
    /\ status[s] \in {"NONE", "DRAFT"}
    /\ Become(s, "DRAFT")
    /\ account' = [account EXCEPT ![s] = account'[s]]
    /\ units'   = [units   EXCEPT ![s] = units'[s]]
    /\ UNCHANGED <<returned, owed, balance>>

Cancel(s) ==
    /\ status[s] = "DRAFT"
    /\ Become(s, "CANCELLED")
    /\ UNCHANGED <<account, units, returned, owed, balance>>

Confirm(s) ==
    /\ status[s] = "DRAFT"
    /\ Become(s, "CONFIRMED")
    /\ LET charge == owed'[s] - owed[s]
       IN  /\ charge \in 0 .. units[s]
           /\ account[s] = NoCustomer => charge = 0
           /\ charge > 0 => balance[account[s]] + charge <= Limit[account[s]]
           /\ Book(s, account[s], charge)
    /\ UNCHANGED <<account, units, returned>>

Return(s) ==
    /\ status[s] = "CONFIRMED"
    /\ LET back == returned'[s] - returned[s]
       IN  /\ back > 0
           /\ returned' = [returned EXCEPT ![s] = @ + back]
           /\ returned[s] + back <= units[s]
           /\ Become(s, IF returned[s] + back = units[s] THEN "RETURNED"
                                                         ELSE "CONFIRMED")
           /\ Book(s, account[s], IF account[s] = NoCustomer THEN 0 ELSE -back)
    /\ UNCHANGED <<account, units>>

\* A payment, or a manual adjustment in either direction.
Settle(c) ==
    /\ balance' = [balance EXCEPT ![c] = balance'[c]]
    /\ balance'[c] > balance[c] => balance'[c] <= Limit[c]
    /\ UNCHANGED <<status, account, units, returned, owed>>

Next ==
    \/ \E s \in Sale : Draft(s) \/ Cancel(s) \/ Confirm(s) \/ Return(s)
    \/ \E c \in Customer : Settle(c)

Spec == Init /\ [][Next]_vars

=============================================================================
