----------------------------- MODULE MCStockLedger -----------------------------
(***************************************************************************)
(* Values for the constants of StockLedger.                                *)
(***************************************************************************)
EXTENDS StockLedger, TLC

CONSTANTS k1, k2, r1, r2, r3

Sale(k, q)    == [kind |-> "confirm_sale",   key |-> k, qty |-> -q]
Receive(k, q) == [kind |-> "receive_goods",  key |-> k, qty |-> q]
Audit(k, q)   == [kind |-> "complete_audit", key |-> k, qty |-> q]
Adjust(k, q)  == [kind |-> "adjust_stock",   key |-> k, qty |-> q]

\* Sales of two parts in either order, of one part twice, and receipts.
TradeJobs == {<<Sale(k1, 1), Sale(k2, 1)>>, <<Sale(k2, 1), Sale(k1, 1)>>,
              <<Sale(k1, 1), Sale(k1, 1)>>,
              <<Receive(k1, 2)>>, <<Receive(k2, 1), Receive(k1, 1)>>}

\* Audits beside sales and receipts; they can wait for each other in a cycle, and
\* a sale may leave the layers short of what an audit writes off.
AuditJobs == {<<Sale(k1, 1), Sale(k2, 1)>>, <<Sale(k2, 1), Sale(k1, 1)>>,
              <<Receive(k1, 1), Receive(k2, 1)>>,
              <<Audit(k1, -1)>>, <<Audit(k1, -2)>>, <<Audit(k1, 1), Audit(k2, -1)>>}

\* Every path, those that take no lock included.
AllJobs == {<<Sale(k1, 1), Sale(k2, 1)>>, <<Receive(k1, 1), Receive(k2, 1)>>,
            <<Audit(k2, -1), Audit(k1, 1)>>, <<Adjust(k1, 1)>>, <<Adjust(k1, -1)>>}

\* What the reconciliation may run beside, and the manual adjustments.
LedgerJobs == {<<Sale(k1, 1)>>, <<Receive(k1, 2)>>}
AdjustJobs == LedgerJobs \cup {<<Adjust(k1, -1)>>, <<Adjust(k1, 1)>>}

Perms == Permutations(Req)

=============================================================================
