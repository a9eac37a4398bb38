-------------------------------- MODULE MCSales --------------------------------
(***************************************************************************)
(* Values for the constants of Sales: one part, and one customer whose     *)
(* limit is less than what two sales together would charge.                *)
(***************************************************************************)
EXTENDS Sales, TLC

CONSTANTS r1, r2, r3, s1, s2, l1, l2, part, customer

Item(p, n) == [part |-> p, qty |-> n]

\* A sale on credit with a part and an external line, one that was half paid
\* at checkout, and one for cash with two lines of one part.
MixedDrafts ==
    {[customer |-> customer, credit |-> TRUE, paid |-> 0,
      items |-> (l1 :> Item(part, 1)) @@ (l2 :> Item(External, 1))],
     [customer |-> customer, credit |-> TRUE, paid |-> 1,
      items |-> (l1 :> Item(part, 2))],
     [customer |-> NoCustomer, credit |-> FALSE, paid |-> 0,
      items |-> (l1 :> Item(part, 1)) @@ (l2 :> Item(part, 1))]}

\* Two lines of one part.
TwinDrafts ==
    {[customer |-> NoCustomer, credit |-> FALSE, paid |-> 0,
      items |-> (l1 :> Item(part, 1)) @@ (l2 :> Item(part, 1))]}

Limits == (customer :> 2)

Perms == Permutations(Req) \cup Permutations(Sale)

=============================================================================
