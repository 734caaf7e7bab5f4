----------------------------- MODULE MCOperator -----------------------------
(***************************************************************************)
(* Instances of Operator for TLC: one Bucket and its account.              *)
(***************************************************************************)
EXTENDS Operator, TLC

CONSTANTS b1, a1, sa1, s1, n1

OneName == b1 :> n1
OneAccountName == a1 :> n1
OneSaSecret == a1 :> sa1
OneDefaultSecret == b1 :> s1
OneDefaultAccount == b1 :> a1
=============================================================================
