-------------------------------- MODULE PartPrices --------------------------------
(***************************************************************************)
(* The prices of one spare part, and the flag that its selling price needs *)
(* a review.  An update and a receipt set the flag from the margin of the  *)
(* row they read, without a lock; the owner may dismiss it.  What a        *)
(* request writes are the columns that differ from what it read.           *)
(***************************************************************************)
EXTENDS Integers

CONSTANTS
    Req,
    Cost, Price     \* the amounts in use

VARIABLES
    prices,     \* cost_price, selling_price and price_review_needed, committed
    pc, op,     \* where a request is, and what it does
    view,       \* the row it read
    new,        \* what it makes of it
    judged      \* history: the flag was set by a request that saw the prices
                \* as they are

local == <<pc, op, view, new>>
vars  == <<prices, local, judged>>

Rows  == [cost : Cost, price : Price, review : BOOLEAN]
NoRow == [cost |-> 0, price |-> 0, review |-> FALSE]

TypeOK ==
    /\ prices \in Rows
    /\ pc \in [Req -> {"idle", "checked", "flushed"}]
    /\ op \in [Req -> {"none", "update", "receive", "dismiss"}]
    /\ \A r \in Req : pc[r] # "idle" => view[r] \in Rows /\ new[r] \in Rows
    /\ judged \in BOOLEAN

\* create_spare_part asks for a price that covers the cost, and judges nothing.
Init ==
    /\ prices \in {row \in Rows : row.price >= row.cost /\ ~row.review}
    /\ pc = [r \in Req |-> "idle"]
    /\ op = [r \in Req |-> "none"]
    /\ view = [r \in Req |-> NoRow]
    /\ new = [r \in Req |-> NoRow]
    /\ judged = FALSE

\* Whether list_price_review_items has the part.
Listed == prices.review

\* The margin is below 15 % of the selling price.
Thin(row) == row.price > 0 /\ (row.price - row.cost) * 100 < 15 * row.price

-----------------------------------------------------------------------------

\* Mutant: a receipt raises the flag and never takes it back.
ReviewRaised(row) == [row EXCEPT !.review = @ \/ Thin(row)]

\* A receipt judges a part that has a selling price.
ReviewOnReceipt(row) == [row EXCEPT !.review = IF row.price > 0 THEN Thin(row) ELSE @]

Begin(r, what, row) ==
    /\ pc[r] = "idle"
    /\ pc'   = [pc   EXCEPT ![r] = "checked"]
    /\ op'   = [op   EXCEPT ![r] = what]
    /\ view' = [view EXCEPT ![r] = prices]
    /\ new'  = [new  EXCEPT ![r] = row]
    /\ UNCHANGED <<prices, judged>>

\* A cost and a price are compared when the request has both.
Acceptable(c, p) == c # prices.cost /\ p # prices.price => p >= c

\* update_spare_part.
BeginUpdate(r) ==
    \E c \in Cost, p \in Price :
        /\ Acceptable(c, p)
        /\ LET row == [prices EXCEPT !.cost = c, !.price = p]
           IN  Begin(r, "update", [row EXCEPT !.review = Thin(row)])

\* receive_goods: the unit cost of the order's line is the part's cost.
BeginReceipt(r) ==
    \E c \in Cost : Begin(r, "receive", ReviewOnReceipt([prices EXCEPT !.cost = c]))

BeginDismiss(r) == Begin(r, "dismiss", [prices EXCEPT !.review = FALSE])

-----------------------------------------------------------------------------

Writes(r) == new[r] # view[r]

\* The UPDATE, once no other request has written the row.
Flush(r) ==
    /\ pc[r] = "checked"
    /\ Writes(r) => \A q \in Req : pc[q] = "flushed" => ~Writes(q)
    /\ pc' = [pc EXCEPT ![r] = "flushed"]
    /\ UNCHANGED <<prices, op, view, new, judged>>

End(r) ==
    /\ pc' = [pc EXCEPT ![r] = "idle"]
    /\ op' = [op EXCEPT ![r] = "none"]
    /\ view' = [view EXCEPT ![r] = NoRow]
    /\ new'  = [new  EXCEPT ![r] = NoRow]

Judges(r) == op[r] = "update" \/ (op[r] = "receive" /\ new[r].price > 0)

Commit(r) ==
    /\ pc[r] = "flushed"
    /\ prices' = [c \in DOMAIN prices |->
                    IF new[r][c] # view[r][c] THEN new[r][c] ELSE prices[c]]
    /\ judged' = \/ Judges(r) /\ view[r] = prices
                 \/ judged /\ (~Writes(r) \/ (op[r] = "receive" /\ view[r] = prices))
    /\ End(r)

Rollback(r) ==
    /\ pc[r] # "idle"
    /\ End(r)
    /\ UNCHANGED <<prices, judged>>

Next == \E r \in Req : \/ BeginUpdate(r) \/ BeginReceipt(r) \/ BeginDismiss(r)
                       \/ Flush(r) \/ Commit(r) \/ Rollback(r)

Spec == Init /\ [][Next]_vars

-----------------------------------------------------------------------------
(* Properties                                                              *)

\* The list of the parts to review has a part exactly when its margin is thin,
\* through receipts and updates in any order, unless the owner dismissed it or
\* the last to judge it had read prices that another request was replacing
\* (update_spare_part, receive_goods, dismiss_price_review).
ReviewFlagTells == judged => (Listed <=> Thin(prices))

=============================================================================
