------------------------------ MODULE MCTransfers ------------------------------
(***************************************************************************)
(* Values for the constants of Transfers: two transfers that compete for   *)
(* the stock of one location, and one that goes back.                      *)
(***************************************************************************)
EXTENDS Transfers, TLC

CONSTANTS r1, r2, r3, t1, t2, t3, shop, depot

Sources      == (t1 :> depot) @@ (t2 :> depot) @@ (t3 :> shop)
Destinations == (t1 :> shop)  @@ (t2 :> shop)  @@ (t3 :> depot)
Quantities   == (t1 :> 2) @@ (t2 :> 2) @@ (t3 :> 1)
Stocks       == (depot :> 3) @@ (shop :> 0)

\* The two transfers from the depot only.
TwoSources      == (t1 :> depot) @@ (t2 :> depot)
TwoDestinations == (t1 :> shop) @@ (t2 :> shop)
TwoQuantities   == (t1 :> 2) @@ (t2 :> 2)

Perms == Permutations(Req)

=============================================================================
