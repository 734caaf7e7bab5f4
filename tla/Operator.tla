------------------------------ MODULE Operator ------------------------------
(***************************************************************************)
(* The Bucket controller, the account controller and the collector over    *)
(* one store and one set of informer caches, as main.go puts them together *)
(* in one manager, with Kubernetes' garbage collection of what an account  *)
(* or a Bucket owns.                                                       *)
(*                                                                         *)
(* Each controller is an instance of its module.  Of an account the Bucket *)
(* controller sees that it exists, its UID and its provider; of a Bucket   *)
(* the account controller sees the controller reference, and of a Secret   *)
(* the credentials.  A step of one is a step of the other's environment.   *)
(***************************************************************************)
EXTENDS Objects

CONSTANTS BucketNames, NameOf, AccountName, SaSecret, DefaultSecret, DefaultAccount,
          Annotated, Foreign, ReclaimPolicies, UserDeletes, MaxUid

VARIABLES
  bucket, account, secret, bucketCache, accountCache, secretCache, uids,
  provider, minio, users, canned,
  pc, cur, fresh, obj, ref,                          \* the Bucket worker
  apc, acur, afresh, aobj, aold, akey, awant,        \* the account worker
  gc                                                 \* the collector

worker  == <<pc, cur, fresh, obj, ref>>
aworker == <<apc, acur, afresh, aobj, aold, akey, awant>>

\* How the Bucket controller sees accounts, and MinIO users.
Seen(accounts) == [a \in Accounts |-> IF accounts[a] = None THEN None
                     ELSE NewAccount(accounts[a].uid, accounts[a].provider)]

\* How the account controller sees Buckets and secrets.
Owners(buckets) == [b \in Buckets |-> IF buckets[b] = None THEN None ELSE buckets[b].owner]

Credentials(secrets) ==
  [a \in Accounts |-> IF secrets[SaSecret[a]] = None THEN None ELSE secrets[SaSecret[a]].key]

B == INSTANCE BucketController WITH
  account <- Seen(account), accountCache <- Seen(accountCache),
  userExists <- {a \in Accounts : \E p \in Providers : users[<<p, AccountName[a]>>] # None},
  SecretsOf <- [b \in Buckets |-> {}], AccountsOf <- [b \in Buckets |-> Accounts],
  Webhooks <- TRUE, Faults <- {}, Env <- {"delete", "rotate", "accounts", "users"},
  MaxUid <- MaxUid + 1

S == INSTANCE ServiceAccountController WITH
  pc <- apc, cur <- acur, fresh <- afresh, obj <- aobj, old <- aold, key <- akey, want <- awant,
  secret <- Credentials(secret), secretCache <- Credentials(secretCache),
  owner <- Owners(bucket), ownerCache <- Owners(bucketCache),
  Names <- BucketNames, NameOf <- AccountName,
  Webhooks <- TRUE, Faults <- {}, Env <- {"buckets"}

\* As in the two modules; the names "-sa" and "-bucket-credentials" end in keep
\* the secrets of accounts and of Buckets apart.
ASSUME ConstantsOK ==
  /\ B!ConstantsOK /\ S!ConstantsOK /\ S!NoneIsNoObject
  /\ None \notin AccountObject \cup SecretObject
  /\ \A a, c \in Accounts : SaSecret[a] = SaSecret[c] => a = c
  /\ \A a \in Accounts, b \in Buckets : SaSecret[a] # DefaultSecret[b]

vars == <<bucket, account, secret, bucketCache, accountCache, secretCache, uids,
          provider, minio, users, canned, worker, aworker, gc>>

Init ==
  /\ bucket = [b \in Buckets |-> None] /\ bucketCache = bucket
  /\ account = [a \in Accounts |-> None] /\ accountCache = account
  /\ secret = [s \in Secrets |-> None] /\ secretCache = secret
  /\ users = [u \in Providers \X BucketNames |-> None]
  /\ aobj = None /\ aold = {} /\ akey = None /\ awant = {}
  /\ apc = "idle" /\ acur = None /\ afresh = FALSE
  /\ B!Init /\ S!Init

\* A step of the Bucket worker may make an account and touches nothing else of
\* what the account controller has.
BucketSide ==
  /\ \/ UNCHANGED account
     \/ /\ pc = "account" /\ obj.spec.serviceAccount # None /\ uids < MaxUid
        /\ account[obj.spec.serviceAccount] = None
        /\ account' = [account EXCEPT ![obj.spec.serviceAccount] =
                         S!NewAccount(uids + 1, obj.spec.provider)]
  /\ UNCHANGED <<accountCache, users, canned, aworker, gc>>

BucketStart(b) == BucketSide /\ B!Start(b)
BucketWork == BucketSide /\ B!Work

\* One of the account controller changes no secret but the -sa one of its key.
AccountSide ==
  /\ \/ UNCHANGED secret
     \/ apc = "saveKey" /\ secret' = [secret EXCEPT ![SaSecret[acur]] = NewSecret(acur, akey)]
     \/ apc \in {"undoSecret", "dropSecret"} /\ secret' = [secret EXCEPT ![SaSecret[acur]] = None]
  /\ UNCHANGED <<bucket, bucketCache, secretCache, minio, worker>>

AccountStart(a) == AccountSide /\ S!Start(a)
AccountWork == AccountSide /\ S!Work
Collector == AccountSide /\ S!Collector

\* The informers of the one cache.
Others == <<bucket, account, secret, uids, provider, minio, users, canned,
            worker, aworker, gc>>

SyncBucket(b) == UNCHANGED <<Others, accountCache>> /\ B!SyncBucket(b)
SyncSecret(s) == UNCHANGED <<Others, accountCache>> /\ B!SyncSecret(s)
SyncAccount(a) == UNCHANGED <<Others, bucketCache, secretCache>> /\ S!SyncAccount(a)

UidOf(a) == IF account[a] = None THEN 0 ELSE account[a].uid

\* The owner of the Bucket is gone, or replaced.
Unowned(b) == /\ bucket[b] # None /\ bucket[b].owner # None
              /\ UidOf(bucket[b].owner.account) # bucket[b].owner.uid

\* Users create and delete Buckets; the garbage collector deletes what belongs
\* to an account or a Bucket that is gone.
Cluster ==
  /\ UNCHANGED <<account, accountCache, users, canned, aworker, gc>>
  /\ \/ \E b \in Buckets : \/ uids < MaxUid /\ B!CreateBucket(b)
                           \/ (UserDeletes \/ Unowned(b)) /\ B!DeleteBucket(b)
     \/ \E s \in Secrets : B!CollectSecret(s)

Informers == \/ \E b \in Buckets : SyncBucket(b)
             \/ \E a \in Accounts : SyncAccount(a)
             \/ \E s \in Secrets : SyncSecret(s)

Next ==
  \/ \E b \in Buckets : BucketStart(b)
  \/ \E a \in Accounts : AccountStart(a)
  \/ BucketWork \/ AccountWork \/ Collector \/ Informers \/ Cluster

Spec == Init /\ [][Next]_vars

\* Fairness as in the two modules; the collectors and the users have none.
Fairness ==
  /\ WF_vars(BucketWork) /\ WF_vars(AccountWork) /\ WF_vars(Informers)
  /\ \A b \in Buckets : SF_vars(BucketStart(b))
  /\ \A a \in Accounts : SF_vars(AccountStart(a))

FairSpec == Spec /\ Fairness

-----------------------------------------------------------------------------
(* Properties.                                                             *)

\* What the account controller, the collector and the garbage collection do
\* looks to the Bucket controller like what its module expects of the rest of
\* the cluster, so that what is shown there holds here.
ViewB == [][B!Next]_(B!vars)

\* The same for the account controller.
ViewS == [][S!Next]_(S!vars)

Wanted(b) == bucket[b] # None /\ ~bucket[b].deleting
Alive(a) == account[a] # None /\ ~account[a].deleting

\* The Bucket has its MinIO bucket, is reported Ready, its secret holds what
\* its account has published, and the MinIO user has access to the bucket.
Works(b) ==
  LET spec == bucket[b].spec
      s == secret[spec.secretName]
      k == secret[SaSecret[spec.serviceAccount]]
      u == users[<<spec.provider, AccountName[spec.serviceAccount]>>] IN
  /\ B!Ready(b) /\ minio[B!Place(bucket[b], b)] = b
  /\ s # None /\ s.owner = b
  /\ k # None /\ k.key = s.key
  /\ u # None /\ b \in u.policies

\* A bound: the account worker does not wait for credentials Keys has run out of.
KeysLeft == apc = "addKey" => S!KeysInUse # Keys


-----------------------------------------------------------------------------
(* What the repository says of the program and the program does not do.    *)

\* bucketserviceaccount_controller.go:238: "Service account is not used by any
\* bucket and will be deleted in 1 minute".  None is deleted while a Bucket uses
\* it and the controller's own index shows that it does.
UsedKept ==
  [][\A a \in Accounts :
       /\ Alive(a)
       /\ \E b \in Buckets : /\ Wanted(b) /\ bucketCache[b] = bucket[b]
                            /\ bucket[b].owner = [account |-> a, uid |-> UidOf(a)]
       => Alive(a)']_vars
=============================================================================
