----------------------------- MODULE MCAppBackend -----------------------------
(***************************************************************************)
(* A small instance of AppBackend: two requests of one user, so that a     *)
(* failed join is tried again, in two runs of the process.                 *)
(***************************************************************************)
EXTENDS AppBackend, TLC

CONSTANTS u1, r1, r2

OneUser == r1 :> u1 @@ r2 :> u1
===============================================================================
