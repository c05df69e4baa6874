----------------------------- MODULE MCSigningKeys -----------------------------
(***************************************************************************)
(* A small instance of SigningKeys: a notary of each kind and a testkit.   *)
(***************************************************************************)
EXTENDS SigningKeys, TLC

CONSTANTS local, kms, kit, a1, a2

Kinds == local :> "Local" @@ kms :> "Kms" @@ kit :> "testkit"
===============================================================================
