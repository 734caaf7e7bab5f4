------------------------- MODULE MCBucketController -------------------------
(***************************************************************************)
(* Instances of BucketController for TLC: one Bucket, and two Buckets that *)
(* share their namespace.                                                  *)
(***************************************************************************)
EXTENDS BucketController, TLC

CONSTANTS b1, b2, a1, sa1, s1, s2, n1, n2

\* One Bucket; its user may name one account and choose between two secrets.
OneName == b1 :> n1
OneSecrets == b1 :> {s1, s2}
NoneNamed1 == b1 :> {}
OneAccounts == b1 :> {a1}
OneSaSecret == a1 :> sa1
OneDefaultSecret == b1 :> s1
OneDefaultAccount == b1 :> a1

\* Two Buckets of one namespace that may be given the same secret.
SharedNames == b1 :> n1 @@ b2 :> n2
SharedSecrets == b1 :> {s1} @@ b2 :> {s1}
SharedAccounts == b1 :> {a1} @@ b2 :> {a1}
SharedDefaultSecret == b1 :> s1 @@ b2 :> s1
SharedDefaultAccount == b1 :> a1 @@ b2 :> a1
=============================================================================
