----------------------------- MODULE MCDepositFeed -----------------------------
(***************************************************************************)
(* A small instance of DepositFeed: two calls that may share a row, one    *)
(* row that does not encode, and a retry.                                  *)
(***************************************************************************)
EXTENDS DepositFeed, TLC

CONSTANTS c1, c2, e1, e2, bad

Symmetric == Permutations({c1, c2}) \cup Permutations({e1, e2})
===============================================================================
