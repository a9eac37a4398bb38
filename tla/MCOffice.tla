-------------------------------- MODULE MCOffice --------------------------------
(***************************************************************************)
(* Values for the constants of Office: one order and one sale of two       *)
(* lines, one supplier, one audit.  As one module runs at a time, x and y  *)
(* serve each of them where it takes two of a kind.                        *)
(***************************************************************************)
EXTENDS Office, TLC

CONSTANTS o1, a, b

OrderedUnits == o1 :> ((a :> 4) @@ (b :> 1))

SoldUnits == (a :> 2) @@ (b :> 1)
UnitValue == (a :> 3) @@ (b :> 5)

Perms == Permutations(Req) \cup Permutations(Part)

=============================================================================
