------------------------------ MODULE MCVaultRows ------------------------------
(***************************************************************************)
(* A small instance of VaultRows: two ids and four calls, so that a        *)
(* repeated approval may come after its grant was retired.                 *)
(***************************************************************************)
EXTENDS VaultRows, TLC

CONSTANTS i1, i2, c1, c2, c3, c4

Symmetric == Permutations(Calls) \cup Permutations(Ids)
===============================================================================
