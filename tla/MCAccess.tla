-------------------------------- MODULE MCAccess --------------------------------
(***************************************************************************)
(* Symmetry for Access: one user with two refresh tokens and one reset     *)
(* token, two processes that keep the permissions of two roles, two tabs,  *)
(* two mails, and two processes that start.  As one module runs at a time, *)
(* x and y serve each of them where it takes two of a kind.                *)
(***************************************************************************)
EXTENDS Access, TLC

Perms == Permutations(Req) \cup Permutations(Worker)

=============================================================================
