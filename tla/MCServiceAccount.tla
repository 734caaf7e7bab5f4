-------------------------- MODULE MCServiceAccount --------------------------
(***************************************************************************)
(* Instances of ServiceAccountController for TLC: one account.             *)
(***************************************************************************)
EXTENDS ServiceAccountController, TLC

CONSTANTS a1, n1, k1, k2, k3

OneName == a1 :> n1

\* Credentials are interchangeable.
KeySymmetry == Permutations(Keys)
=============================================================================
