--------------------------- MODULE OperatorProofs ---------------------------
(***************************************************************************)
(* Theorems about the composition: each controller, with the collector and *)
(* Kubernetes' garbage collection, is an environment the module of the     *)
(* other allows, so that what is proved of either holds of both together.  *)
(***************************************************************************)
EXTENDS Operator, Sequences, TLAPS

-----------------------------------------------------------------------------
(* What is proved of the two controllers, at the instances of Operator.    *)

BP == INSTANCE BucketLifeProofs WITH
  account <- Seen(account), accountCache <- Seen(accountCache),
  userExists <- {a \in Accounts : \E p \in Providers : users[<<p, AccountName[a]>>] # None},
  SecretsOf <- [b \in Buckets |-> {}], AccountsOf <- [b \in Buckets |-> Accounts],
  Webhooks <- TRUE, Faults <- {}, Env <- {"delete", "rotate", "accounts", "users"},
  MaxUid <- MaxUid + 1

SP == INSTANCE ServiceAccountProofs WITH
  pc <- apc, cur <- acur, fresh <- afresh, obj <- aobj, old <- aold, key <- akey, want <- awant,
  secret <- Credentials(secret), secretCache <- Credentials(secretCache),
  owner <- Owners(bucket), ownerCache <- Owners(bucketCache),
  Names <- BucketNames, NameOf <- AccountName,
  Webhooks <- TRUE, Faults <- {}, Env <- {"buckets"}

LEMMA BucketConstants == BP!ConstantsOK
BY ConstantsOK DEF B!ConstantsOK, BP!ConstantsOK, B!FaultKinds, BP!FaultKinds, B!EnvKinds,
  BP!EnvKinds, B!BucketObject, BP!BucketObject, B!BucketSpec, BP!BucketSpec, B!OwnerRef,
  BP!OwnerRef, B!BucketConditions, BP!BucketConditions

LEMMA AccountConstants == SP!ConstantsOK /\ SP!NoneIsNoObject
BY ConstantsOK DEF S!ConstantsOK, SP!ConstantsOK, S!NoneIsNoObject, SP!NoneIsNoObject,
  S!AccountObject, SP!AccountObject, S!UserObject, SP!UserObject, S!Types, SP!Types

\* Two instances of one module, with the same substitutions, say the same.
LEMMA SameBuckets ==
  /\ [B!Next]_(B!vars) => [BP!Next]_(BP!vars)
  /\ B!Init => BP!Init
<1>1. ASSUME B!Next PROVE BP!Next
  BY <1>1 DEF B!Next, B!Controller, B!Informers, B!Environment, B!Start, B!Work, B!Crash, B!SyncBucket,
    B!SyncAccount, B!SyncSecret, B!CreateBucket, B!EditBucket, B!DeleteBucket, B!UserSecret,
    B!CollectSecret, B!PublishKeys, B!WithdrawKeys, B!AccountGone, B!MinioUsers,
    B!ProviderChanges, B!ForeignBucket, B!MarkDeleting, B!StartDeletion, B!AddFinalizer,
    B!SetProvider, B!NoDefaultProvider, B!SetSecretName, B!MarkCreating, B!ProviderInvalid,
    B!AccountMissing, B!AccountFound, B!RemoveMinioBucket, B!DropFinalizer, B!CreateAccount,
    B!SetOwner, B!CheckMinioBucket, B!MakeMinioBucket, B!SaveEndpoint, B!UndoMinioBucket,
    B!DeleteOldSecret, B!AwaitKeys, B!SecretTaken, B!UpdateSecret, B!CreateSecret,
    B!SaveSecretName, B!UndoSecret, B!SetReady, B!RecordError, B!Finish, B!store, B!caches,
    B!world, B!worker, B!Requests, B!Defaulted, B!ValidateCreate, B!NewBucket,
    B!ValidateUpdate, B!Outdate, B!NewSecret, B!Begin, B!IsTrue, B!WriteAndReturn,
    B!SetCondition, B!ProviderOf, B!Load, B!Prepared, B!DefaultProvider, B!Specified,
    B!NoConditions, B!Reconcilable, B!AccountSeen, B!Place, B!Goto, B!Write, B!NewAccount,
    B!SecretStep, B!SeenKeys, B!ControlledByOther, B!SeenSecret, B!ReadyStep, B!Continue,
    B!RemoveCondition, B!Or, B!BucketConditions, BP!Next, BP!Controller, BP!Informers,
    BP!Environment, BP!Start, BP!Work, BP!Crash, BP!SyncBucket, BP!SyncAccount, BP!SyncSecret,
    BP!CreateBucket, BP!EditBucket, BP!DeleteBucket, BP!UserSecret, BP!CollectSecret,
    BP!PublishKeys, BP!WithdrawKeys, BP!AccountGone, BP!MinioUsers, BP!ProviderChanges,
    BP!ForeignBucket, BP!MarkDeleting, BP!StartDeletion, BP!AddFinalizer, BP!SetProvider,
    BP!NoDefaultProvider, BP!SetSecretName, BP!MarkCreating, BP!ProviderInvalid,
    BP!AccountMissing, BP!AccountFound, BP!RemoveMinioBucket, BP!DropFinalizer,
    BP!CreateAccount, BP!SetOwner, BP!CheckMinioBucket, BP!MakeMinioBucket, BP!SaveEndpoint,
    BP!UndoMinioBucket, BP!DeleteOldSecret, BP!AwaitKeys, BP!SecretTaken, BP!UpdateSecret,
    BP!CreateSecret, BP!SaveSecretName, BP!UndoSecret, BP!SetReady, BP!RecordError, BP!Finish,
    BP!store, BP!caches, BP!world, BP!worker, BP!Requests, BP!Defaulted, BP!ValidateCreate,
    BP!NewBucket, BP!ValidateUpdate, BP!Outdate, BP!NewSecret, BP!Begin, BP!IsTrue,
    BP!WriteAndReturn, BP!SetCondition, BP!ProviderOf, BP!Load, BP!Prepared,
    BP!DefaultProvider, BP!Specified, BP!NoConditions, BP!Reconcilable, BP!AccountSeen,
    BP!Place, BP!Goto, BP!Write, BP!NewAccount, BP!SecretStep, BP!SeenKeys,
    BP!ControlledByOther, BP!SeenSecret, BP!ReadyStep, BP!Continue, BP!RemoveCondition, BP!Or,
    BP!BucketConditions
<1>q. QED BY <1>1 DEF B!vars, B!Init, B!store, B!caches, B!world, B!worker, BP!vars, BP!Init, BP!store,
    BP!caches, BP!world, BP!worker

LEMMA SameAccounts ==
  /\ [S!Next]_(S!vars) => [SP!Next]_(SP!vars)
  /\ S!Init => SP!Init
<1>1. ASSUME S!Next PROVE SP!Next
  BY <1>1 DEF S!Next, S!Controller, S!Collector, S!Informers, S!Environment, S!Start, S!Work, S!Crash,
    S!GcTake, S!GcMark, S!GcDelete, S!SyncAccount, S!SyncSecret, S!SyncBucket, S!CreateAccount,
    S!DeleteAccount, S!LoseSecret, S!ReleaseBucket, S!AdoptBucket, S!ProviderChanges,
    S!MarkDeleting, S!StartDeletion, S!AddFinalizer, S!StartReconcile, S!DropSecret,
    S!RemoveUser, S!DropFinalizer, S!MarkCreating, S!CheckUser, S!AddUser, S!CheckKeys,
    S!DropKeys, S!AddKey, S!SaveKey, S!SaveSecretName, S!UndoSecret, S!FindBuckets,
    S!MarkPending, S!ClearPending, S!EnsurePolicies, S!SetPolicy, S!SetReady, S!RecordError,
    S!Finish, S!store, S!caches, S!mio, S!Due, S!IsTrue, S!worker, S!With, S!OutdateWorker,
    S!Deleted, S!NewAccount, S!Outdated, S!Begin, S!WriteAndReturn, S!Load, S!Goto, S!User,
    S!Write, S!KeysInUse, S!Continue, S!Listed, S!RemoveCondition, S!ReadyStep, S!SetCondition,
    S!locals, S!Users, S!HasType, SP!Next, SP!Controller, SP!Collector, SP!Informers,
    SP!Environment, SP!Start, SP!Work, SP!Crash, SP!GcTake, SP!GcMark, SP!GcDelete,
    SP!SyncAccount, SP!SyncSecret, SP!SyncBucket, SP!CreateAccount, SP!DeleteAccount,
    SP!LoseSecret, SP!ReleaseBucket, SP!AdoptBucket, SP!ProviderChanges, SP!MarkDeleting,
    SP!StartDeletion, SP!AddFinalizer, SP!StartReconcile, SP!DropSecret, SP!RemoveUser,
    SP!DropFinalizer, SP!MarkCreating, SP!CheckUser, SP!AddUser, SP!CheckKeys, SP!DropKeys,
    SP!AddKey, SP!SaveKey, SP!SaveSecretName, SP!UndoSecret, SP!FindBuckets, SP!MarkPending,
    SP!ClearPending, SP!EnsurePolicies, SP!SetPolicy, SP!SetReady, SP!RecordError, SP!Finish,
    SP!store, SP!caches, SP!mio, SP!Due, SP!IsTrue, SP!worker, SP!With, SP!OutdateWorker,
    SP!Deleted, SP!NewAccount, SP!Outdated, SP!Begin, SP!WriteAndReturn, SP!Load, SP!Goto,
    SP!User, SP!Write, SP!KeysInUse, SP!Continue, SP!Listed, SP!RemoveCondition, SP!ReadyStep,
    SP!SetCondition, SP!locals, SP!Users, SP!HasType
<1>q. QED BY <1>1 DEF S!vars, S!Init, S!store, S!caches, S!mio, S!worker, S!Users, S!locals, SP!vars, SP!Init,
    SP!store, SP!caches, SP!mio, SP!worker, SP!Users, SP!locals

-----------------------------------------------------------------------------
(* The inductive invariant: those of the two controllers, and what ties    *)
(* one to the other.                                                       *)

\* UIDs are given to accounts one after the other.
Given(u) == u \in 1 .. uids

UidsInv ==
  /\ uids <= MaxUid
  /\ \A a \in Accounts : /\ account[a] # None => Given(account[a].uid)
                         /\ accountCache[a] # None => Given(accountCache[a].uid)

\* A Bucket refers to an account that has existed, and its access secret is
\* not that of an account.
Refers(o) ==
  /\ o.owner # None => Given(o.owner.uid)
  /\ \A a \in Accounts : SaSecret[a] # o.spec.secretName /\ SaSecret[a] # o.secretName

BucketsInv == \A b \in Buckets : /\ bucket[b] # None => Refers(bucket[b])
                                 /\ bucketCache[b] # None => Refers(bucketCache[b])

WorkerInv == pc # "idle" => Refers(obj) /\ (ref # None => Given(ref.uid))

\* Only the account controller writes -sa secrets, each with credentials.
SecretsInv ==
  \A a \in Accounts : secret[SaSecret[a]] # None =>
    secret[SaSecret[a]].owner = a /\ secret[SaSecret[a]].key # None

\* The account at work is the one it was when its version was read.
VersionInv == apc # "idle" /\ afresh => account[acur].uid = aobj.uid

TiesInv == UidsInv /\ BucketsInv /\ WorkerInv /\ SecretsInv /\ VersionInv

OperatorInv == BP!TypeOK /\ SP!Typed /\ SP!OrphanInv /\ TiesInv


-----------------------------------------------------------------------------
(* What the invariant says of the shared variables.                        *)

\* Store, caches and the Bucket worker.
LEMMA BucketTypes ==
  ASSUME BP!TypeOK
  PROVE  /\ bucket \in [Buckets -> ObjectOrNone(BucketObject)]
         /\ bucketCache \in [Buckets -> ObjectOrNone(BucketObject)]
         /\ secret \in [Secrets -> ObjectOrNone(SecretObject)]
         /\ secretCache \in [Secrets -> ObjectOrNone(SecretObject)]
         /\ uids \in Nat
         /\ pc # "idle" => cur \in Buckets /\ obj \in BucketObject
         /\ ref \in ObjectOrNone(OwnerRef)
BY DEF BP!TypeOK, BP!ObjectsOK, BP!WorkerOK, BP!ObjectOrNone, ObjectOrNone, BP!BucketObject,
   BucketObject, BP!BucketSpec, BucketSpec, BP!OwnerRef, OwnerRef, BP!BucketConditions,
   BucketConditions, BP!SecretObject, SecretObject

\* Accounts, MinIO users, the account worker and the collector.
LEMMA AccountTypes ==
  ASSUME SP!Typed
  PROVE  /\ account \in [Accounts -> ObjectOrNone(S!AccountObject)]
         /\ accountCache \in [Accounts -> ObjectOrNone(S!AccountObject)]
         /\ users \in [Providers \X BucketNames -> ObjectOrNone(S!UserObject)]
         /\ apc # "idle" => acur \in Accounts /\ aobj \in S!AccountObject
         /\ apc = "saveKey" => akey \in Keys
         /\ apc \in {"keys", "dropKeys", "addKey"}
              => users[<<aobj.provider, AccountName[acur]>>] # None
         /\ gc # None => gc.account \in Accounts /\ gc.obj \in S!AccountObject
BY DEF SP!Typed, SP!StoreOK, SP!MinioOK, SP!WorkerOK, SP!Account, SP!AccountObject, S!AccountObject,
   SP!Types, S!Types, SP!UserObject, S!UserObject, SP!Users, SP!KeySteps, SP!User, SP!GcCall,
   SP!ObjectOrNone, ObjectOrNone

\* Where the account controller is in its work, and what is so of the account.
LEMMA AccountAtWork ==
  ASSUME SP!OrphanInv, SP!Typed
  PROVE  /\ apc # "idle" /\ afresh => account[acur] # None /\ account[acur].provider = aobj.provider
         /\ apc \in {"saveKey", "undoSecret"} => account[acur] # None
         /\ gc # None /\ gc.fresh => account[gc.account] = gc.obj
         /\ \A p \in Providers : provider[p] = "usable"
BY DEF SP!OrphanInv, SP!WorkerFollows, SP!SameAccount, SP!AliveSteps, SP!Held, SP!GcFollows,
   SP!ProvidersUp

-----------------------------------------------------------------------------
(* How the Bucket controller sees what happens to accounts.                *)

\* A write that keeps the UID and the provider of an account is not seen.
LEMMA SeenKept ==
  ASSUME account \in [Accounts -> ObjectOrNone(S!AccountObject)],
         NEW a \in Accounts, NEW new, account[a] # None, new # None,
         new.uid = account[a].uid, new.provider = account[a].provider,
         account' = [account EXCEPT ![a] = new]
  PROVE  Seen(account)' = Seen(account)
<1>1. \A c \in Accounts : Seen(account)'[c] = Seen(account)[c]
  BY DEF Seen
<1>q. QED BY <1>1 DEF Seen

\* One that removes an account is.
LEMMA SeenGone ==
  ASSUME account \in [Accounts -> ObjectOrNone(S!AccountObject)],
         NEW a \in Accounts, account' = [account EXCEPT ![a] = None]
  PROVE  Seen(account)' = [Seen(account) EXCEPT ![a] = None]
BY DEF Seen

\* A step of the account controller that the Bucket controller sees, if at all,
\* in the MinIO users.
LEMMA UnseenStep ==
  ASSUME Seen(account)' = Seen(account),
         UNCHANGED <<bucket, bucketCache, accountCache, secret, secretCache, uids, provider, minio,
                     worker>>
  PROVE  [B!Next]_(B!vars)
<1>1. Seen(accountCache)' = Seen(accountCache)
  BY DEF Seen
<1>2. B!MinioUsers
  BY <1>1 DEF B!MinioUsers, B!store, B!caches, B!worker, worker
<1>q. QED BY <1>2 DEF B!Next, B!Environment

\* The last write of an account that is being deleted.
LEMMA GoneStep ==
  ASSUME OperatorInv, NEW a \in Accounts, account[a] # None,
         account' = [account EXCEPT ![a] = None],
         UNCHANGED <<bucket, bucketCache, accountCache, secret, secretCache, uids, provider, minio,
                     users, worker>>
  PROVE  [B!Next]_(B!vars)
<1>1. Seen(accountCache)' = Seen(accountCache)
  BY DEF Seen
<1>2. Seen(account)' = [Seen(account) EXCEPT ![a] = None]
  BY SeenGone, AccountTypes DEF OperatorInv
<1>3. Seen(account)[a] # None
  <2>1. account[a] \in S!AccountObject
    BY AccountTypes DEF OperatorInv, ObjectOrNone
  <2>2. Seen(account)[a] \in AccountObject
    BY <2>1 DEF Seen, NewAccount, AccountObject, S!AccountObject
  <2>q. QED BY <2>2, ConstantsOK
<1>4. uids < MaxUid + 1
  BY BucketTypes, ConstantsOK DEF OperatorInv, TiesInv, UidsInv, S!ConstantsOK
<1>5. B!AccountGone(a)
  BY <1>1, <1>2, <1>3, <1>4 DEF B!AccountGone, B!caches, B!world, B!worker, worker
<1>q. QED BY <1>5 DEF B!Next, B!Environment

\* Any other write of it.
LEMMA TouchStep ==
  ASSUME OperatorInv, NEW a \in Accounts, NEW new, account[a] # None,
         new # None => new.uid = account[a].uid /\ new.provider = account[a].provider,
         account' = [account EXCEPT ![a] = new],
         UNCHANGED <<bucket, bucketCache, accountCache, secret, secretCache, uids, provider, minio,
                     users, worker>>
  PROVE  [B!Next]_(B!vars)
<1>1. CASE new = None
  BY <1>1, GoneStep
<1>2. CASE new # None
  BY <1>2, SeenKept, UnseenStep, AccountTypes DEF OperatorInv
<1>q. QED BY <1>1, <1>2

\* What the account side may do to a secret it does in the view of the account
\* controller as well.
LEMMA SecretSide ==
  ASSUME OperatorInv, AccountSide, UNCHANGED Credentials(secret)
  PROVE  UNCHANGED secret
<1> DEFINE s == SaSecret[acur]
<1>1. CASE UNCHANGED secret
  BY <1>1
<1>2. ASSUME apc \in {"saveKey", "undoSecret", "dropSecret"}
      PROVE  /\ acur \in Accounts /\ s \in Secrets
             /\ secret \in [Secrets -> ObjectOrNone(SecretObject)]
             /\ Credentials(secret)[acur] = IF secret[s] = None THEN None ELSE secret[s].key
             /\ Credentials(secret)'[acur] = IF secret'[s] = None THEN None ELSE secret'[s].key
             /\ secret[s] # None => secret[s].owner = acur /\ secret[s].key # None
  BY <1>2, AccountTypes, BucketTypes, ConstantsOK DEF OperatorInv, TiesInv, SecretsInv, Credentials,
     B!ConstantsOK
<1>3. CASE apc = "saveKey" /\ secret' = [secret EXCEPT ![s] = NewSecret(acur, akey)]
  <2>1. akey \in Keys /\ akey # None
    BY <1>3, AccountTypes, ConstantsOK DEF OperatorInv, B!ConstantsOK
  <2>2. secret'[s] # None /\ secret'[s].key = akey
    BY <1>2, <1>3, <2>1, ConstantsOK DEF NewSecret, SecretObject
  <2>3. secret[s] \in SecretObject /\ secret[s].owner = acur /\ secret[s].key = akey
    BY <1>2, <1>3, <2>1, <2>2 DEF ObjectOrNone
  <2>4. secret[s] = NewSecret(acur, akey)
    BY <2>3 DEF SecretObject, NewSecret
  <2>q. QED BY <1>2, <1>3, <2>4
<1>4. CASE apc \in {"undoSecret", "dropSecret"} /\ secret' = [secret EXCEPT ![s] = None]
  <2>1. secret[s] = None
    BY <1>2, <1>4
  <2>q. QED BY <1>2, <1>4, <2>1
<1>q. QED BY <1>1, <1>3, <1>4 DEF AccountSide

\* Each write of the account at work, but for the last one, is not seen.
LEMMA AccountWrite ==
  ASSUME OperatorInv, AccountSide, apc # "idle", NEW new, NEW ok, NEW ko, NEW mem,
         new # None => new.uid = aobj.uid /\ new.provider = aobj.provider,
         S!Write(new, ok, ko, mem),
         UNCHANGED <<Credentials(secret), uids, accountCache, provider, users>>
  PROVE  [B!Next]_(B!vars)
<1>1. /\ UNCHANGED <<bucket, bucketCache, secret, secretCache, minio, worker>>
      /\ acur \in Accounts /\ account \in [Accounts -> ObjectOrNone(S!AccountObject)]
  BY SecretSide, AccountTypes DEF AccountSide, OperatorInv
<1>2. CASE UNCHANGED account
  BY <1>1, <1>2, UnseenStep DEF Seen
<1>3. CASE afresh /\ account' = [account EXCEPT ![acur] = new]
  <2>1. /\ account[acur] # None /\ account[acur].provider = aobj.provider
        /\ account[acur].uid = aobj.uid
    BY <1>3, AccountAtWork DEF OperatorInv, TiesInv, VersionInv
  <2>q. QED BY <1>1, <1>3, <2>1, TouchStep
<1>q. QED BY <1>2, <1>3 DEF S!Write

\* The account controller publishes and withdraws credentials.
LEMMA AccountSecretStep ==
  ASSUME OperatorInv, AccountSide, S!SaveKey \/ S!DropSecret \/ S!UndoSecret
  PROVE  [B!Next]_(B!vars)
<1> DEFINE s == SaSecret[acur]
<1>1. /\ UNCHANGED <<account, users, bucket, bucketCache, accountCache, secretCache, uids, provider,
                     minio, worker>>
      /\ apc \in {"saveKey", "dropSecret", "undoSecret"} /\ acur \in Accounts
  BY AccountTypes DEF S!SaveKey, S!DropSecret, S!UndoSecret, S!caches, S!mio, AccountSide, OperatorInv
<1>2. CASE UNCHANGED secret
  BY <1>1, <1>2, UnseenStep DEF Seen
<1>f. UNCHANGED <<Seen(account), Seen(accountCache),
                  {a \in Accounts : \E p \in Providers : users[<<p, AccountName[a]>>] # None}>>
  BY <1>1 DEF Seen
<1>3. CASE apc = "saveKey" /\ secret' = [secret EXCEPT ![s] = NewSecret(acur, akey)]
  <2>1. CASE UNCHANGED Credentials(secret)
    BY <2>1, <1>2, SecretSide
  <2>2. CASE Credentials(secret)[acur] = None
    <3>1. secret[s] = None
      BY <1>1, <2>2 DEF OperatorInv, TiesInv, SecretsInv, Credentials
    <3>2. Seen(account)[acur] # None
      <4>1. account[acur] # None /\ account[acur] \in S!AccountObject
        BY <1>1, <1>3, AccountAtWork, AccountTypes DEF OperatorInv, ObjectOrNone
      <4>2. Seen(account)[acur] \in AccountObject
        BY <1>1, <4>1 DEF Seen, NewAccount, AccountObject, S!AccountObject
      <4>q. QED BY <4>2, ConstantsOK
    <3>3. akey \in Keys
      BY <1>3, AccountTypes DEF OperatorInv
    <3>4. B!PublishKeys(acur)
      BY <1>1, <1>3, <1>f, <3>1, <3>2, <3>3
         DEF B!PublishKeys, B!NewSecret, NewSecret, B!caches, B!world, B!worker, worker
    <3>q. QED BY <1>1, <3>4 DEF B!Next, B!Environment
  <2>q. QED BY <1>3, <2>1, <2>2 DEF S!SaveKey, S!DropSecret, S!UndoSecret
<1>4. CASE secret' = [secret EXCEPT ![s] = None]
  <2>1. CASE secret[s] = None
    <3>1. secret \in [Secrets -> ObjectOrNone(SecretObject)] /\ s \in Secrets
      BY <1>1, BucketTypes, ConstantsOK DEF OperatorInv, B!ConstantsOK
    <3>q. QED BY <1>2, <1>4, <2>1, <3>1
  <2>2. CASE secret[s] # None
    <3>1. secret[s].owner = acur
      BY <1>1, <2>2 DEF OperatorInv, TiesInv, SecretsInv
    <3>2. B!WithdrawKeys(acur)
      BY <1>1, <1>4, <1>f, <2>2, <3>1
         DEF B!WithdrawKeys, B!caches, B!world, B!worker, worker
    <3>q. QED BY <1>1, <3>2 DEF B!Next, B!Environment
  <2>q. QED BY <2>1, <2>2
<1>q. QED BY <1>2, <1>3, <1>4 DEF AccountSide

\* The calls of MinIO show in the users that exist, if at all.
LEMMA AccountMinioStep ==
  ASSUME OperatorInv, AccountSide,
         S!RemoveUser \/ S!CheckUser \/ S!AddUser \/ S!CheckKeys \/ S!DropKeys \/ S!AddKey
           \/ S!FindBuckets \/ S!EnsurePolicies \/ S!SetPolicy
  PROVE  [B!Next]_(B!vars)
<1>1. UNCHANGED <<account, Credentials(secret), accountCache, uids, provider>>
  BY DEF S!RemoveUser, S!CheckUser, S!AddUser, S!CheckKeys, S!DropKeys, S!AddKey, S!FindBuckets,
         S!EnsurePolicies, S!SetPolicy, S!store, S!caches
<1>q. QED BY <1>1, SecretSide, UnseenStep DEF AccountSide, Seen

LEMMA AccountWorkForBuckets ==
  ASSUME OperatorInv, AccountWork
  PROVE  [B!Next]_(B!vars)
<1>1. CASE \/ S!DropFinalizer \/ S!MarkCreating \/ S!SaveSecretName \/ S!MarkPending
           \/ S!ClearPending \/ S!SetReady \/ S!RecordError
  <2>1. \A c : LET new == [aobj EXCEPT !.conditions = c] IN
                 new.uid = aobj.uid /\ new.provider = aobj.provider
    OBVIOUS
  <2>q. QED BY <1>1, <2>1, AccountWrite
     DEF AccountWork, S!DropFinalizer, S!MarkCreating, S!SaveSecretName, S!MarkPending,
         S!ClearPending, S!SetReady, S!RecordError, S!With, S!caches, S!mio
<1>q. QED BY <1>1, AccountSecretStep, AccountMinioStep DEF AccountWork, S!Work

LEMMA AccountStartForBuckets ==
  ASSUME OperatorInv, NEW a \in Accounts, AccountStart(a)
  PROVE  [B!Next]_(B!vars)
<1>1. /\ UNCHANGED <<bucket, bucketCache, accountCache, secret, secretCache, uids, provider, minio,
                     worker>>
  <2>1. UNCHANGED Credentials(secret) /\ UNCHANGED <<accountCache, uids, provider>>
    BY DEF AccountStart, S!Start, S!MarkDeleting, S!StartDeletion, S!AddFinalizer, S!StartReconcile,
           S!WriteAndReturn, S!store, S!caches
  <2>q. QED BY <2>1, SecretSide DEF AccountStart, AccountSide
<1>2. CASE UNCHANGED account
  BY <1>1, <1>2, UnseenStep DEF Seen
<1>3. ASSUME NEW new, new.uid = accountCache[a].uid, new.provider = accountCache[a].provider,
             S!Begin(a), S!WriteAndReturn(a, new)
      PROVE  [B!Next]_(B!vars)
  BY <1>1, <1>3, TouchStep DEF S!Begin, S!WriteAndReturn, S!mio
<1>5. CASE S!MarkDeleting(a) \/ S!AddFinalizer(a)
  <2>1. CASE S!MarkDeleting(a)
    <3>1. S!WriteAndReturn(a, S!With(accountCache[a], "Deleting", TRUE)) /\ S!Begin(a)
      BY <2>1 DEF S!MarkDeleting
    <3>2. LET new == S!With(accountCache[a], "Deleting", TRUE) IN
          new.uid = accountCache[a].uid /\ new.provider = accountCache[a].provider
      BY DEF S!With
    <3>q. QED BY <1>3, <3>1, <3>2
  <2>2. CASE S!AddFinalizer(a)
    <3> DEFINE new == [accountCache[a] EXCEPT !.finalizer = TRUE]
    <3>1. S!WriteAndReturn(a, new) /\ S!Begin(a)
      BY <2>2 DEF S!AddFinalizer
    <3>2. new.uid = accountCache[a].uid /\ new.provider = accountCache[a].provider
      OBVIOUS
    <3> HIDE DEF new
    <3>q. QED BY <1>3, <3>1, <3>2
  <2>q. QED BY <1>5, <2>1, <2>2
<1>4. CASE S!StartDeletion(a) \/ S!StartReconcile(a)
  BY <1>2, <1>4 DEF S!StartDeletion, S!StartReconcile, S!store
<1>q. QED BY <1>4, <1>5 DEF AccountStart, S!Start

LEMMA CollectorForBuckets ==
  ASSUME OperatorInv, Collector
  PROVE  [B!Next]_(B!vars)
<1> DEFINE a == gc.account
<1>1. /\ UNCHANGED <<bucket, bucketCache, accountCache, secret, secretCache, uids, provider, minio,
                     users, worker>>
  <2>1. UNCHANGED Credentials(secret) /\ UNCHANGED <<accountCache, uids, provider, users>>
    BY DEF Collector, S!Collector, S!GcTake, S!GcMark, S!GcDelete, S!store, S!caches, S!mio
  <2>q. QED BY <2>1, SecretSide DEF Collector, AccountSide
<1>2. CASE UNCHANGED account
  BY <1>1, <1>2, UnseenStep DEF Seen
<1>3. gc # None => /\ a \in Accounts /\ account[a] \in ObjectOrNone(S!AccountObject)
                   /\ gc.obj # None
                   /\ gc.fresh => account[a] = gc.obj
  BY AccountTypes, AccountAtWork, ConstantsOK DEF OperatorInv, S!NoneIsNoObject
<1>4. CASE gc # None /\ gc.fresh /\ account' = [account EXCEPT ![a] = S!With(gc.obj, "Deleting", TRUE)]
  <2>1. \A c : LET new == [gc.obj EXCEPT !.conditions = c] IN
                 new.uid = gc.obj.uid /\ new.provider = gc.obj.provider
    OBVIOUS
  <2>q. QED BY <1>1, <1>3, <1>4, <2>1, TouchStep DEF S!With
<1>5. CASE gc # None /\ account' = [account EXCEPT ![a] = S!Deleted(account[a])]
  <2>1. CASE account[a] = None
    BY <1>2, <1>3, <1>5, <2>1, AccountTypes DEF S!Deleted, OperatorInv
  <2>2. CASE account[a] # None
    <3>1. S!Deleted(account[a]) # None =>
            /\ S!Deleted(account[a]).uid = account[a].uid
            /\ S!Deleted(account[a]).provider = account[a].provider
      BY <2>2 DEF S!Deleted
    <3>q. QED BY <1>1, <1>3, <1>5, <2>2, <3>1, TouchStep
  <2>q. QED BY <2>1, <2>2
<1>q. QED BY <1>2, <1>4, <1>5 DEF Collector, S!Collector, S!GcTake, S!GcMark, S!GcDelete, S!store

\* The informers, and what users and Kubernetes do, the Bucket controller sees
\* as it is.
LEMMA InformersForBuckets ==
  ASSUME OperatorInv, Informers
  PROVE  [B!Next]_(B!vars)
<1>1. ASSUME NEW b \in Buckets, SyncBucket(b) PROVE [B!Next]_(B!vars)
  BY <1>1 DEF SyncBucket, B!Next, B!Informers
<1>2. ASSUME NEW s \in Secrets, SyncSecret(s) PROVE [B!Next]_(B!vars)
  BY <1>2 DEF SyncSecret, B!Next, B!Informers
<1>3. ASSUME NEW a \in Accounts, SyncAccount(a) PROVE [B!Next]_(B!vars)
  <2>1. UNCHANGED <<bucket, bucketCache, account, secret, secretCache, uids, provider, minio,
                    users, worker>>
    BY <1>3 DEF SyncAccount, Others
  <2>2. Seen(account)' = Seen(account)
    BY <2>1 DEF Seen
  <2>3. CASE Seen(accountCache)' = Seen(accountCache)
    BY <2>1, <2>2, <2>3 DEF B!vars, B!store, B!caches, B!world, B!worker, worker
  <2>4. CASE Seen(accountCache)' # Seen(accountCache)
    <3>1. accountCache' = [accountCache EXCEPT ![a] = account[a]]
      BY <1>3 DEF SyncAccount, S!SyncAccount
    <3>2. Seen(accountCache)' = [Seen(accountCache) EXCEPT ![a] = Seen(account)[a]]
      BY <3>1, AccountTypes DEF Seen, OperatorInv
    <3>3. Seen(accountCache)[a] # Seen(account)[a]
      BY <2>4, <3>2 DEF Seen
    <3>4. B!SyncAccount(a)
      BY <2>1, <2>2, <3>2, <3>3 DEF B!SyncAccount, B!store, B!world, B!worker, worker
    <3>q. QED BY <3>4 DEF B!Next, B!Informers
  <2>q. QED BY <2>3, <2>4
<1>q. QED BY <1>1, <1>2, <1>3 DEF Informers

LEMMA NextForBuckets ==
  ASSUME OperatorInv, [Next]_vars
  PROVE  [B!Next]_(B!vars)
<1>1. CASE \E b \in Buckets : BucketStart(b)
  BY <1>1 DEF BucketStart, B!Next, B!Controller
<1>2. CASE BucketWork
  BY <1>2 DEF BucketWork, B!Next, B!Controller
<1>3. CASE Cluster
  BY <1>3 DEF Cluster, B!Next, B!Environment
<1>4. CASE UNCHANGED vars
  BY <1>4 DEF vars, B!vars, B!store, B!caches, B!world, B!worker, worker, Seen
<1>q. QED BY <1>1, <1>2, <1>3, <1>4, AccountStartForBuckets, AccountWorkForBuckets,
             CollectorForBuckets, InformersForBuckets DEF Next

LEMMA NextBucketTypes ==
  ASSUME OperatorInv, [Next]_vars
  PROVE  BP!TypeOK'
<1>1. [BP!Next]_(BP!vars)
  BY NextForBuckets, SameBuckets
<1>q. QED BY <1>1, BucketConstants, BP!NextTyped DEF OperatorInv, BP!ConstantsOK

-----------------------------------------------------------------------------
(* What the Bucket controller does to Buckets, accounts and secrets.       *)

\* What the code makes of a Bucket refers to the same accounts and secrets.
LEMMA RefersUpdates ==
  ASSUME NEW o \in BucketObject, Refers(o)
  PROVE  /\ Refers([o EXCEPT !.finalizer = TRUE])
         /\ Refers([o EXCEPT !.deleting = TRUE])
         /\ Refers([o EXCEPT !.endpoint = TRUE])
         /\ \A c : Refers([o EXCEPT !.conditions = c])
         /\ \A p : Refers([o EXCEPT !.spec.provider = p])
         /\ \A b \in Buckets : Refers([o EXCEPT !.spec.secretName = DefaultSecret[b]])
         /\ Refers([o EXCEPT !.secretName = o.spec.secretName])
         /\ \A r : (r # None => Given(r.uid)) => Refers([o EXCEPT !.owner = r])
BY ConstantsOK DEF Refers, BucketObject, BucketSpec

\* A step of the Bucket worker: of the Bucket at work, of a secret that is not
\* an account's, or a new account.
BucketWrite == /\ UNCHANGED <<Seen(account), secret, uids>>
               /\ \E b \in Buckets : \E new :
                     /\ bucket' = [bucket EXCEPT ![b] = new]
                     /\ new # None => Refers(new)
SecretWrite == /\ UNCHANGED <<Seen(account), bucket, uids>>
               /\ \E s, x : /\ secret' = [secret EXCEPT ![s] = x]
                            /\ \A a \in Accounts : SaSecret[a] # s
AccountMade == /\ UNCHANGED <<bucket, secret>> /\ B!CreateAccount /\ uids' = uids + 1
NoWrite     == UNCHANGED <<Seen(account), bucket, secret, uids>>

BucketEffect ==
  /\ UNCHANGED <<bucketCache, Seen(accountCache), secretCache, provider>>
  /\ BucketWrite \/ SecretWrite \/ AccountMade \/ NoWrite
  /\ WorkerInv'

LEMMA RefersStays ==
  ASSUME uids' \in Nat, uids \in Nat, uids <= uids', NEW o, Refers(o)
  PROVE  Refers(o)'
BY DEF Refers, Given

LEMMA LoadEffect ==
  ASSUME OperatorInv, NEW b \in Buckets, B!Begin(b), NEW l, NEW r, r # None => Given(r.uid),
         B!Load(b, l, r), UNCHANGED <<B!store, B!caches, provider>>
  PROVE  BucketEffect
<1>1. Refers(bucketCache[b])
  BY DEF B!Begin, OperatorInv, TiesInv, BucketsInv
<1>2. WorkerInv'
  BY <1>1 DEF B!Load, B!store, WorkerInv, Refers, Given
<1>q. QED BY <1>2 DEF BucketEffect, NoWrite, B!store, B!caches

LEMMA ReturnEffect ==
  ASSUME OperatorInv, NEW b \in Buckets, NEW new, NEW adm, Refers(new),
         B!WriteAndReturn(b, new, adm)
  PROVE  BucketEffect
<1>1. WorkerInv'
  BY DEF B!WriteAndReturn, B!worker, OperatorInv, TiesInv, WorkerInv, Refers, Given
<1>q. QED BY <1>1 DEF BucketEffect, BucketWrite, B!WriteAndReturn, B!caches, B!world

LEMMA BucketStartEffect ==
  ASSUME OperatorInv, NEW b \in Buckets, B!Start(b)
  PROVE  BucketEffect
<1> DEFINE o == bucketCache[b]
<1>1. B!Begin(b) /\ o \in BucketObject /\ Refers(o)
  BY BucketTypes DEF B!Start, B!MarkDeleting, B!StartDeletion, B!AddFinalizer, B!SetProvider,
     B!NoDefaultProvider, B!SetSecretName, B!MarkCreating, B!ProviderInvalid, B!AccountMissing,
     B!AccountFound, B!Reconcilable, B!Specified, B!Prepared, B!Begin, OperatorInv, TiesInv,
     BucketsInv, ObjectOrNone
<1>2. CASE B!MarkDeleting(b) \/ B!MarkCreating(b)
  BY <1>1, <1>2, RefersUpdates, ReturnEffect DEF B!MarkDeleting, B!MarkCreating
<1>3. CASE B!AddFinalizer(b)
  BY <1>1, <1>3, RefersUpdates, ReturnEffect DEF B!AddFinalizer
<1>4. CASE B!SetProvider(b)
  BY <1>1, <1>4, RefersUpdates, ReturnEffect DEF B!SetProvider
<1>5. CASE B!SetSecretName(b)
  BY <1>1, <1>5, RefersUpdates, ReturnEffect DEF B!SetSecretName
<1>6. CASE B!StartDeletion(b) \/ B!NoDefaultProvider(b) \/ B!ProviderInvalid(b) \/ B!AccountMissing(b)
  BY <1>1, <1>6, LoadEffect DEF B!StartDeletion, B!NoDefaultProvider, B!ProviderInvalid,
     B!AccountMissing, B!world
<1>7. CASE B!AccountFound(b)
  <2> DEFINE r == [account |-> o.spec.serviceAccount, uid |-> B!AccountSeen(o).uid]
  <2>1. Given(B!AccountSeen(o).uid)
    <3>1. o.spec.serviceAccount \in Accounts /\ accountCache[o.spec.serviceAccount] # None
      BY <1>1, <1>7 DEF B!AccountFound, B!AccountSeen, Seen, BucketObject, BucketSpec
    <3>q. QED BY <3>1, ConstantsOK DEF B!AccountSeen, Seen, NewAccount, OperatorInv, TiesInv, UidsInv
  <2>2. r # None => Given(r.uid)
    BY <2>1
  <2>3. B!Load(b, IF o.owner = r THEN "bucket" ELSE "own", r)
    BY <1>7 DEF B!AccountFound
  <2>4. UNCHANGED <<B!store, B!caches, provider>>
    BY <1>7 DEF B!AccountFound, B!world
  <2> HIDE DEF r
  <2>q. QED BY <1>1, <2>2, <2>3, <2>4, LoadEffect
<1>q. QED BY <1>2, <1>3, <1>4, <1>5, <1>6, <1>7 DEF B!Start

LEMMA ContinueWorker ==
  ASSUME OperatorInv, pc # "idle", NEW l, NEW f, NEW o, Refers(o), UNCHANGED uids,
         B!Continue(l, f, o)
  PROVE  WorkerInv'
BY DEF B!Continue, B!Finish, OperatorInv, TiesInv, WorkerInv, Refers, Given

LEMMA GotoWorker ==
  ASSUME OperatorInv, pc # "idle", NEW l, UNCHANGED uids, B!Goto(l)
  PROVE  WorkerInv'
BY ContinueWorker DEF B!Goto, OperatorInv, TiesInv, WorkerInv

LEMMA WriteEffect ==
  ASSUME OperatorInv, pc # "idle", NEW new, NEW adm, NEW ok, NEW ko, NEW mem,
         new # None => Refers(new), ok # "idle" => new # None, Refers(mem),
         B!Write(new, adm, ok, ko, mem),
         UNCHANGED <<Seen(account), secret, uids, B!caches, provider>>
  PROVE  BucketEffect
<1>1. UNCHANGED bucket \/ bucket' = [bucket EXCEPT ![cur] = new]
  BY DEF B!Write
<1>2. cur \in Buckets
  BY BucketTypes DEF OperatorInv
<1>3. WorkerInv'
  <2>1. CASE B!Continue(ok, TRUE, new)
    <3>1. CASE ok = "idle"
      BY <2>1, <3>1 DEF B!Continue, B!Finish, WorkerInv
    <3>2. CASE ok # "idle"
      BY <2>1, <3>2, ContinueWorker
    <3>q. QED BY <3>1, <3>2
  <2>2. CASE B!Continue(ko, fresh, mem)
    BY <2>2, ContinueWorker
  <2>q. QED BY <2>1, <2>2 DEF B!Write
<1>q. QED BY <1>1, <1>2, <1>3 DEF BucketEffect, BucketWrite, NoWrite, B!caches

LEMMA BucketWorkEffect ==
  ASSUME OperatorInv, B!Work
  PROVE  BucketEffect
<1>1. /\ pc # "idle" /\ cur \in Buckets /\ obj \in BucketObject /\ Refers(obj)
      /\ ref # None => Given(ref.uid)
  BY BucketTypes DEF B!Work, B!RemoveMinioBucket, B!DropFinalizer, B!CreateAccount, B!SetOwner,
     B!CheckMinioBucket, B!MakeMinioBucket, B!SaveEndpoint, B!UndoMinioBucket, B!DeleteOldSecret,
     B!AwaitKeys, B!SecretTaken, B!UpdateSecret, B!CreateSecret, B!SaveSecretName, B!UndoSecret,
     B!SetReady, B!RecordError, OperatorInv, TiesInv, WorkerInv
<1>2. ASSUME UNCHANGED <<B!store, B!caches, provider>>, NEW l, B!Goto(l) \/ B!Finish
      PROVE  BucketEffect
  <2>1. UNCHANGED uids /\ NoWrite
    BY <1>2 DEF B!store, NoWrite
  <2>2. WorkerInv'
    BY <1>1, <1>2, <2>1, GotoWorker DEF B!Finish, WorkerInv
  <2>q. QED BY <1>2, <2>1, <2>2 DEF BucketEffect, B!caches
<1>3. CASE \/ B!RemoveMinioBucket \/ B!CheckMinioBucket \/ B!MakeMinioBucket \/ B!UndoMinioBucket
           \/ B!AwaitKeys \/ B!SecretTaken
  BY <1>2, <1>3 DEF B!RemoveMinioBucket, B!CheckMinioBucket, B!MakeMinioBucket, B!UndoMinioBucket,
     B!AwaitKeys, B!SecretTaken, B!world
<1>4. CASE B!DropFinalizer \/ B!SaveSecretName
  <2>1. obj # None
    BY <1>1, ConstantsOK DEF B!ConstantsOK, B!BucketObject, BucketObject, B!OwnerRef, OwnerRef,
       B!BucketSpec, BucketSpec, B!BucketConditions, BucketConditions
  <2>q. QED BY <1>1, <1>4, <2>1, WriteEffect DEF B!DropFinalizer, B!SaveSecretName, B!world
<1>5. CASE B!SetOwner
  <2> DEFINE new == [obj EXCEPT !.owner = ref]
  <2>1. Refers(new)
    BY <1>1, RefersUpdates
  <2>2. B!Write(new, B!ValidateUpdate(bucket[cur], obj), "idle", "fail", obj)
    BY <1>5 DEF B!SetOwner
  <2>3. UNCHANGED <<Seen(account), secret, uids, B!caches, provider>>
    BY <1>5 DEF B!SetOwner, B!world
  <2> HIDE DEF new
  <2>q. QED BY <1>1, <2>1, <2>2, <2>3, WriteEffect
<1>6. CASE B!SaveEndpoint
  <2> DEFINE new == [obj EXCEPT !.endpoint = TRUE]
  <2>1. Refers(new)
    BY <1>1, RefersUpdates
  <2>2. B!Write(new, TRUE, "idle", "undoBucket", new)
    BY <1>6 DEF B!SaveEndpoint
  <2>3. UNCHANGED <<Seen(account), secret, uids, B!caches, provider>>
    BY <1>6 DEF B!SaveEndpoint, B!world
  <2> HIDE DEF new
  <2>q. QED BY <1>1, <2>1, <2>2, <2>3, WriteEffect
<1>7. CASE B!SetReady \/ B!RecordError
  <2>1. PICK c : B!Write([obj EXCEPT !.conditions = c], TRUE, "idle", "idle",
                         [obj EXCEPT !.conditions = c])
    BY <1>7 DEF B!SetReady, B!RecordError
  <2> DEFINE new == [obj EXCEPT !.conditions = c]
  <2>2. Refers(new)
    BY <1>1, RefersUpdates
  <2>3. UNCHANGED <<Seen(account), secret, uids, B!caches, provider>>
    BY <1>7 DEF B!SetReady, B!RecordError, B!world
  <2> HIDE DEF new
  <2>q. QED BY <1>1, <2>1, <2>2, <2>3, WriteEffect DEF new
<1>8. CASE B!CreateAccount
  <2>1. UNCHANGED <<bucket, secret, bucketCache, Seen(accountCache), secretCache, provider>>
    BY <1>8 DEF B!CreateAccount, B!caches, B!world
  <2>2. CASE UNCHANGED <<Seen(account), uids>> /\ B!Goto("fail")
    BY <1>1, <2>1, <2>2, GotoWorker DEF BucketEffect, NoWrite
  <2>3. CASE /\ uids' = uids + 1
             /\ ref' = [account |-> obj.spec.serviceAccount, uid |-> uids'] /\ UNCHANGED obj
    <3>1. uids \in Nat
      BY BucketTypes DEF OperatorInv
    <3>2. WorkerInv'
      BY <1>1, <2>3, <3>1 DEF WorkerInv, Refers, Given
    <3>q. QED BY <1>8, <2>1, <2>3, <3>2 DEF BucketEffect, AccountMade
  <2>q. QED BY <1>8, <2>2, <2>3 DEF B!CreateAccount
<1>9. CASE B!DeleteOldSecret \/ B!UpdateSecret \/ B!UndoSecret
  <2>1. UNCHANGED <<Seen(account), bucket, uids, bucketCache, Seen(accountCache), secretCache, provider>>
    BY <1>9 DEF B!DeleteOldSecret, B!UpdateSecret, B!UndoSecret, B!caches, B!world
  <2>2. SecretWrite \/ NoWrite
    BY <1>1, <1>9, <2>1 DEF B!DeleteOldSecret, B!UpdateSecret, B!UndoSecret, SecretWrite, NoWrite,
       Refers
  <2>3. WorkerInv'
    BY <1>1, <1>9, <2>1, GotoWorker DEF B!DeleteOldSecret, B!UpdateSecret, B!UndoSecret
  <2>q. QED BY <2>1, <2>2, <2>3 DEF BucketEffect
<1>10. CASE B!CreateSecret
  <2> DEFINE new == [obj EXCEPT !.secretName = obj.spec.secretName]
  <2>1. UNCHANGED <<Seen(account), bucket, uids, bucketCache, Seen(accountCache), secretCache, provider>>
    BY <1>10 DEF B!CreateSecret, B!caches, B!world
  <2>2. SecretWrite \/ NoWrite
    BY <1>1, <1>10, <2>1 DEF B!CreateSecret, SecretWrite, NoWrite, Refers
  <2>3. Refers(new)
    BY <1>1, RefersUpdates
  <2>4. B!Goto("fail") \/ B!Continue("saveSecret", fresh, new)
    BY <1>10 DEF B!CreateSecret
  <2> HIDE DEF new
  <2>5. WorkerInv'
    BY <1>1, <2>1, <2>3, <2>4, GotoWorker, ContinueWorker
  <2>q. QED BY <2>1, <2>2, <2>5 DEF BucketEffect
<1>q. QED BY <1>3, <1>4, <1>5, <1>6, <1>7, <1>8, <1>9, <1>10 DEF B!Work

-----------------------------------------------------------------------------
(* How the account controller sees what happens to Buckets and secrets.    *)

\* What is left when the Bucket controller, a user or Kubernetes steps.
AccountIdle == UNCHANGED <<account, accountCache, provider, users, canned, aworker, gc>>

\* Nothing it sees.
LEMMA UnseenByAccounts ==
  ASSUME AccountIdle, UNCHANGED <<uids, Owners(bucket), Owners(bucketCache), Credentials(secret),
                                  Credentials(secretCache)>>
  PROVE  [S!Next]_(S!vars)
BY DEF AccountIdle, S!vars, S!store, S!caches, S!mio, S!worker, S!locals, aworker

\* A write of a Bucket: its controller reference is set, or goes.
LEMMA OwnerStep ==
  ASSUME OperatorInv, BP!TypeOK', NEW b \in Buckets, NEW new, new # None => Refers(new),
         bucket' = [bucket EXCEPT ![b] = new], AccountIdle,
         UNCHANGED <<uids, bucketCache, secret, secretCache>>
  PROVE  [S!Next]_(S!vars)
<1> DEFINE o == IF new = None THEN None ELSE new.owner
<1>1. /\ bucket \in [Buckets -> ObjectOrNone(BucketObject)]
      /\ o \in ObjectOrNone(OwnerRef)
  <2>1. bucket \in [Buckets -> ObjectOrNone(BucketObject)]
    BY BucketTypes DEF OperatorInv
  <2>2. bucket' \in [Buckets -> ObjectOrNone(BucketObject)]
    BY DEF BP!TypeOK, BP!ObjectsOK, BP!ObjectOrNone, ObjectOrNone, BP!BucketObject,
       BucketObject, BP!BucketSpec, BucketSpec, BP!OwnerRef, OwnerRef, BP!BucketConditions,
       BucketConditions
  <2>3. new \in ObjectOrNone(BucketObject)
    BY <2>1, <2>2
  <2>q. QED BY <2>1, <2>3 DEF ObjectOrNone, BucketObject
<1>2. Owners(bucket)' = [Owners(bucket) EXCEPT ![b] = o]
  BY <1>1 DEF Owners
<1>3. UNCHANGED <<Owners(bucketCache), Credentials(secret), Credentials(secretCache)>>
  BY DEF Owners, Credentials
<1>4. CASE o = Owners(bucket)[b]
  <2>1. Owners(bucket)' = Owners(bucket)
    BY <1>2, <1>4 DEF Owners
  <2>q. QED BY <1>3, <2>1, UnseenByAccounts
<1>5. CASE o # Owners(bucket)[b] /\ o = None
  <2>1. S!ReleaseBucket(b)
    BY <1>2, <1>3, <1>5 DEF S!ReleaseBucket, AccountIdle, S!caches, S!mio, S!worker, S!locals, aworker
  <2>q. QED BY <2>1 DEF S!Next, S!Environment
<1>6. CASE o # Owners(bucket)[b] /\ o # None
  <2>1. o \in OwnerRef /\ o.uid \in 1 .. uids
    BY <1>1, <1>6 DEF Refers, Given, ObjectOrNone
  <2>2. o = [account |-> o.account, uid |-> o.uid] /\ o.account \in Accounts
    BY <2>1 DEF OwnerRef
  <2>3. S!AdoptBucket(b, o.account)
    BY <1>2, <1>3, <1>6, <2>1, <2>2
       DEF S!AdoptBucket, AccountIdle, S!caches, S!mio, S!worker, S!locals, aworker
  <2>q. QED BY <2>2, <2>3 DEF S!Next, S!Environment
<1>q. QED BY <1>4, <1>5, <1>6

\* A Bucket that asks for its account gets one.
LEMMA MadeAccount ==
  ASSUME OperatorInv, BucketSide, AccountMade
  PROVE  LET a == obj.spec.serviceAccount
             p == obj.spec.provider IN
         /\ a \in Accounts /\ p \in Providers
         /\ uids < MaxUid /\ account[a] = None
         /\ account' = [account EXCEPT ![a] = S!NewAccount(uids + 1, p)]
         /\ \A q \in Providers : users[<<q, AccountName[a]>>] = None
         /\ provider[p] = "usable"
<1> DEFINE a == obj.spec.serviceAccount
<1> DEFINE p == obj.spec.provider
<1>1. uids' # uids
  BY BucketTypes DEF AccountMade, OperatorInv
<1>2. /\ pc = "account" /\ a \in Accounts /\ p \in Providers
      /\ \A q \in Providers : users[<<q, AccountName[a]>>] = None
      /\ provider[p] = "usable"
      /\ Seen(account)' = [Seen(account) EXCEPT ![a] = B!NewAccount(uids', p)]
  <2>1. /\ pc = "account" /\ a # None /\ provider[p] = "usable"
        /\ a \notin {c \in Accounts : \E q \in Providers : users[<<q, AccountName[c]>>] # None}
        /\ Seen(account)' = [Seen(account) EXCEPT ![a] = B!NewAccount(uids', p)]
    BY <1>1 DEF AccountMade, B!CreateAccount
  <2>2. a \in Accounts
    BY <2>1, BucketTypes DEF OperatorInv, BucketObject, BucketSpec
  <2>3. p \in Providers
    BY <2>1 DEF OperatorInv, BP!TypeOK, BP!WorkerOK, BP!Complete
  <2>q. QED BY <2>1, <2>2, <2>3
<1>3. /\ uids < MaxUid /\ account[a] = None
      /\ account' = [account EXCEPT ![a] = S!NewAccount(uids + 1, p)]
  <2>1. CASE UNCHANGED account
    <3>1. Seen(account)'[a] # None
      <4>1. B!NewAccount(uids', p) \in AccountObject
        BY <1>2, BucketTypes DEF B!NewAccount, AccountObject, AccountMade, OperatorInv
      <4>2. Seen(account)'[a] = B!NewAccount(uids', p)
        BY <1>2 DEF Seen
      <4>q. QED BY <4>1, <4>2, ConstantsOK
    <3>2. Seen(account)[a] = None
      BY <1>1 DEF AccountMade, B!CreateAccount
    <3>q. QED BY <2>1, <3>1, <3>2 DEF Seen
  <2>q. QED BY <2>1 DEF BucketSide
<1>q. QED BY <1>2, <1>3

LEMMA MadeStep ==
  ASSUME OperatorInv, BucketSide, AccountMade, UNCHANGED <<bucketCache, secretCache, provider>>
  PROVE  [S!Next]_(S!vars)
<1> DEFINE a == obj.spec.serviceAccount
<1>1. UNCHANGED <<Owners(bucket), Owners(bucketCache), Credentials(secret), Credentials(secretCache)>>
  BY DEF Owners, Credentials, AccountMade
<1>2. S!CreateAccount(a)
  BY <1>1, MadeAccount DEF S!CreateAccount, AccountMade, BucketSide, S!caches, S!mio, S!worker,
     S!locals, aworker
<1>q. QED BY <1>2, MadeAccount DEF S!Next, S!Environment

\* A secret that is no account's it does not see.
LEMMA SecretUnseen ==
  ASSUME OperatorInv, NEW s, NEW x, secret' = [secret EXCEPT ![s] = x],
         \A a \in Accounts : SaSecret[a] # s
  PROVE  UNCHANGED Credentials(secret)
BY BucketTypes, ConstantsOK DEF Credentials, OperatorInv, B!ConstantsOK

\* The Bucket side leaves the accounts alone where the Bucket controller does.
LEMMA BucketSideKeeps ==
  ASSUME OperatorInv, BucketSide, UNCHANGED <<Seen(account), uids>>
  PROVE  UNCHANGED account
<1>1. ASSUME NEW a, account[a] = None, NEW new, account' = [account EXCEPT ![a] = new],
             a \in Accounts, new \in S!AccountObject
      PROVE  FALSE
  <2>1. Seen(account)'[a] \in AccountObject
    BY <1>1, AccountTypes, ConstantsOK DEF Seen, OperatorInv, NewAccount, AccountObject, S!AccountObject,
       S!NoneIsNoObject
  <2>2. Seen(account)[a] = None
    BY <1>1 DEF Seen
  <2>q. QED BY <2>1, <2>2, ConstantsOK
<1>2. ASSUME pc = "account", obj.spec.serviceAccount # None
      PROVE  /\ obj.spec.serviceAccount \in Accounts
             /\ S!NewAccount(uids + 1, obj.spec.provider) \in S!AccountObject
  <2>1. obj.spec.serviceAccount \in Accounts /\ obj.spec.provider \in Providers /\ uids \in Nat
    BY <1>2, BucketTypes DEF OperatorInv, BP!TypeOK, BP!WorkerOK, BP!Complete, BucketObject, BucketSpec
  <2>2. <<>> \in Seq([type: S!Types, status: BOOLEAN])
    OBVIOUS
  <2>q. QED BY <2>1, <2>2 DEF S!NewAccount, S!AccountObject
<1>q. QED BY <1>1, <1>2 DEF BucketSide

LEMMA BucketEffectForAccounts ==
  ASSUME OperatorInv, BP!TypeOK', BucketSide, BucketEffect
  PROVE  [S!Next]_(S!vars)
<1>1. UNCHANGED <<bucketCache, secretCache, provider, accountCache, users, canned, aworker, gc>>
  BY DEF BucketSide, BucketEffect
<1>2. CASE BucketWrite
  <2>1. UNCHANGED <<secret, uids>> /\ AccountIdle
    BY <1>1, <1>2, BucketSideKeeps DEF BucketWrite, AccountIdle
  <2>q. QED BY <1>1, <1>2, <2>1, OwnerStep DEF BucketWrite
<1>3. CASE SecretWrite \/ NoWrite
  <2>1. UNCHANGED <<bucket, uids>> /\ AccountIdle
    BY <1>1, <1>3, BucketSideKeeps DEF SecretWrite, NoWrite, AccountIdle
  <2>2. UNCHANGED Credentials(secret)
    BY <1>3, SecretUnseen DEF SecretWrite, NoWrite, Credentials
  <2>3. UNCHANGED <<Owners(bucket), Owners(bucketCache), Credentials(secretCache)>>
    BY <1>1, <2>1 DEF Owners, Credentials
  <2>q. QED BY <2>1, <2>2, <2>3, UnseenByAccounts
<1>4. CASE AccountMade
  BY <1>1, <1>4, MadeStep
<1>q. QED BY <1>2, <1>3, <1>4 DEF BucketEffect

\* A Bucket asks for the secret that is named after it and has no owner yet.
LEMMA CreatedRefers ==
  ASSUME NEW b \in Buckets, B!CreateBucket(b)
  PROVE  \E o : bucket' = [bucket EXCEPT ![b] = o] /\ Refers(o)
<1>1. PICK request \in B!Requests(b) : \E spec \in B!Defaulted(b, request) :
        bucket' = [bucket EXCEPT ![b] = B!NewBucket(spec)]
  BY DEF B!CreateBucket
<1>2. PICK spec \in B!Defaulted(b, request) : bucket' = [bucket EXCEPT ![b] = B!NewBucket(spec)]
  BY <1>1
<1>3. spec.secretName = DefaultSecret[b]
  BY <1>2 DEF B!Requests, B!Defaulted, B!Or
<1>4. Refers(B!NewBucket(spec))
  BY <1>3, ConstantsOK DEF Refers, B!NewBucket, B!ConstantsOK
<1>q. QED BY <1>2, <1>4

LEMMA DeletedRefers ==
  ASSUME OperatorInv, NEW b \in Buckets, B!DeleteBucket(b)
  PROVE  \E o : bucket' = [bucket EXCEPT ![b] = o] /\ (o # None => Refers(o))
<1>1. bucket[b] \in BucketObject /\ Refers(bucket[b])
  BY BucketTypes DEF B!DeleteBucket, OperatorInv, TiesInv, BucketsInv, ObjectOrNone
<1>2. Refers([bucket[b] EXCEPT !.deleting = TRUE])
  BY <1>1, RefersUpdates
<1>q. QED BY <1>2 DEF B!DeleteBucket

\* Users and Kubernetes.  The -sa secret of an account goes when the account is
\* gone, not before, as nothing else controls it.
LEMMA ClusterForAccounts ==
  ASSUME OperatorInv, BP!TypeOK', Cluster
  PROVE  [S!Next]_(S!vars)
<1>1. CASE \E b \in Buckets : B!CreateBucket(b) \/ B!DeleteBucket(b)
  <2>1. PICK b \in Buckets : B!CreateBucket(b) \/ B!DeleteBucket(b)
    BY <1>1
  <2>2. PICK o : bucket' = [bucket EXCEPT ![b] = o] /\ (o # None => Refers(o))
    BY <2>1, CreatedRefers, DeletedRefers
  <2>3. AccountIdle /\ UNCHANGED <<uids, bucketCache, secret, secretCache>>
    BY <2>1 DEF Cluster, AccountIdle, B!CreateBucket, B!DeleteBucket, B!caches, B!world
  <2>q. QED BY <2>2, <2>3, OwnerStep
<1>2. CASE \E s \in Secrets : B!CollectSecret(s)
  <2>1. PICK s \in Secrets : B!CollectSecret(s)
    BY <1>2
  <2>2. AccountIdle /\ UNCHANGED <<uids, bucket, bucketCache, secretCache>>
    BY <2>1 DEF Cluster, AccountIdle, B!CollectSecret, B!caches, B!world
  <2>3. UNCHANGED <<Owners(bucket), Owners(bucketCache), Credentials(secretCache)>>
    BY <2>2 DEF Owners, Credentials
  <2>4. CASE \A a \in Accounts : SaSecret[a] # s
    BY <2>1, <2>2, <2>3, <2>4, SecretUnseen, UnseenByAccounts DEF B!CollectSecret
  <2>5. ASSUME NEW a \in Accounts, SaSecret[a] = s PROVE [S!Next]_(S!vars)
    <3>1. secret[s] # None /\ secret[s].owner = a /\ secret[s].key # None
      BY <2>1, <2>5 DEF B!CollectSecret, OperatorInv, TiesInv, SecretsInv
    <3>2. account[a] = None
      <4>1. a \notin Buckets /\ Seen(account)[a] = None
        BY <2>1, <3>1, ConstantsOK DEF B!CollectSecret, B!ConstantsOK
      <4>2. account[a] # None => Seen(account)[a] \in AccountObject
        BY AccountTypes DEF Seen, NewAccount, AccountObject, S!AccountObject, ObjectOrNone, OperatorInv
      <4>q. QED BY <4>1, <4>2, ConstantsOK
    <3>3. Credentials(secret)' = [Credentials(secret) EXCEPT ![a] = None]
      BY <2>1, <2>5, BucketTypes, ConstantsOK
         DEF B!CollectSecret, Credentials, OperatorInv, B!ConstantsOK
    <3>4. Credentials(secret)[a] # None
      BY <2>5, <3>1 DEF Credentials
    <3>5. S!LoseSecret(a)
      BY <2>2, <2>3, <3>2, <3>3, <3>4
         DEF S!LoseSecret, AccountIdle, S!caches, S!mio, S!worker, S!locals, aworker
    <3>q. QED BY <3>5 DEF S!Next, S!Environment
  <2>q. QED BY <2>4, <2>5
<1>q. QED BY <1>1, <1>2 DEF Cluster

LEMMA InformersForAccounts ==
  ASSUME OperatorInv, Informers
  PROVE  [S!Next]_(S!vars)
<1>1. ASSUME NEW a \in Accounts, SyncAccount(a) PROVE [S!Next]_(S!vars)
  BY <1>1 DEF SyncAccount, S!Next, S!Informers
<1>2. ASSUME NEW b \in Buckets, SyncBucket(b) PROVE [S!Next]_(S!vars)
  <2>1. AccountIdle /\ UNCHANGED <<uids, bucket, secret, secretCache>>
    BY <1>2 DEF SyncBucket, Others, AccountIdle, B!SyncBucket
  <2>2. UNCHANGED <<Owners(bucket), Credentials(secret), Credentials(secretCache)>>
    BY <2>1 DEF Owners, Credentials
  <2>3. Owners(bucketCache)' = [Owners(bucketCache) EXCEPT ![b] = Owners(bucket)[b]]
    BY <1>2, BucketTypes DEF SyncBucket, B!SyncBucket, Owners, OperatorInv
  <2>4. CASE Owners(bucketCache)[b] = Owners(bucket)[b]
    BY <2>1, <2>2, <2>3, <2>4, UnseenByAccounts DEF Owners
  <2>5. CASE Owners(bucketCache)[b] # Owners(bucket)[b]
    <3>1. S!SyncBucket(b)
      BY <2>1, <2>2, <2>3, <2>5
         DEF S!SyncBucket, AccountIdle, S!store, S!mio, S!worker, S!locals, aworker
    <3>q. QED BY <3>1 DEF S!Next, S!Informers
  <2>q. QED BY <2>4, <2>5
<1>3. ASSUME NEW s \in Secrets, SyncSecret(s) PROVE [S!Next]_(S!vars)
  <2>1. /\ AccountIdle /\ UNCHANGED <<uids, bucket, bucketCache, secret>>
        /\ secretCache' = [secretCache EXCEPT ![s] = secret[s]]
    BY <1>3 DEF SyncSecret, Others, AccountIdle, B!SyncSecret
  <2>2. UNCHANGED <<Owners(bucket), Owners(bucketCache), Credentials(secret)>>
    BY <2>1 DEF Owners, Credentials
  <2>3. CASE UNCHANGED Credentials(secretCache)
    BY <2>1, <2>2, <2>3, UnseenByAccounts
  <2>4. ASSUME NEW a \in Accounts, SaSecret[a] = s, ~UNCHANGED Credentials(secretCache)
        PROVE  [S!Next]_(S!vars)
    <3>1. Credentials(secretCache)' = [Credentials(secretCache) EXCEPT ![a] = Credentials(secret)[a]]
      BY <2>1, <2>4, BucketTypes, ConstantsOK DEF Credentials, OperatorInv, B!ConstantsOK
    <3>2. Credentials(secretCache)[a] # Credentials(secret)[a]
      BY <2>4, <3>1 DEF Credentials
    <3>3. S!SyncSecret(a)
      BY <2>1, <2>2, <3>1, <3>2
         DEF S!SyncSecret, AccountIdle, S!store, S!mio, S!worker, S!locals, aworker
    <3>q. QED BY <3>3 DEF S!Next, S!Informers
  <2>5. CASE \A a \in Accounts : SaSecret[a] # s
    BY <2>1, <2>3, <2>5 DEF Credentials
  <2>q. QED BY <2>3, <2>4, <2>5
<1>q. QED BY <1>1, <1>2, <1>3 DEF Informers

\* What a step of the Bucket controller comes to.
LEMMA BucketControllerEffect ==
  ASSUME OperatorInv, BucketWork \/ \E b \in Buckets : BucketStart(b)
  PROVE  BucketSide /\ BucketEffect
BY BucketStartEffect, BucketWorkEffect DEF BucketWork, BucketStart

LEMMA NextForAccounts ==
  ASSUME OperatorInv, [Next]_vars
  PROVE  [S!Next]_(S!vars)
<1>1. BP!TypeOK'
  BY NextBucketTypes
<1>2. CASE BucketWork \/ \E b \in Buckets : BucketStart(b)
  BY <1>1, <1>2, BucketControllerEffect, BucketEffectForAccounts
<1>3. CASE AccountWork \/ Collector \/ \E a \in Accounts : AccountStart(a)
  BY <1>3 DEF AccountWork, Collector, AccountStart, S!Next, S!Controller
<1>4. CASE UNCHANGED vars
  BY <1>4 DEF vars, S!vars, S!store, S!caches, S!mio, S!worker, S!locals, aworker, Owners, Credentials
<1>q. QED BY <1>1, <1>2, <1>3, <1>4, ClusterForAccounts, InformersForAccounts DEF Next

LEMMA NextAccountTypes ==
  ASSUME OperatorInv, [Next]_vars
  PROVE  SP!Typed' /\ SP!OrphanInv'
<1>1. [SP!Next]_(SP!vars)
  BY NextForAccounts, SameAccounts
<1>2. "provider" \notin {"buckets"}
  OBVIOUS
<1>q. QED BY <1>1, <1>2, AccountConstants, SP!NextTyped, SP!NextOrphan
     DEF OperatorInv, SP!ConstantsOK, SP!NoneIsNoObject

-----------------------------------------------------------------------------
(* What the account controller does to accounts and their secrets.         *)

\* No account is made, and those that stay are the same.
UidsStay == \A a \in Accounts : account'[a] # None => /\ account[a] # None
                                                      /\ account'[a].uid = account[a].uid

LEMMA AccountWriteTies ==
  ASSUME OperatorInv, apc # "idle", NEW new, NEW ok, NEW ko, NEW mem,
         new # None => new.uid = aobj.uid, mem.uid = aobj.uid,
         S!Write(new, ok, ko, mem)
  PROVE  UidsStay /\ VersionInv'
<1>1. acur \in Accounts /\ account \in [Accounts -> ObjectOrNone(S!AccountObject)]
  BY AccountTypes DEF OperatorInv
<1>2. CASE afresh /\ account' = [account EXCEPT ![acur] = new] /\ S!Continue(ok, TRUE, new)
  <2>1. account[acur] # None /\ account[acur].uid = aobj.uid
    BY <1>2, AccountAtWork DEF OperatorInv, TiesInv, VersionInv
  <2>2. UidsStay
    BY <1>1, <1>2, <2>1 DEF UidsStay
  <2>3. VersionInv'
    BY <1>1, <1>2 DEF VersionInv, S!Continue, S!Finish
  <2>q. QED BY <2>2, <2>3
<1>3. CASE UNCHANGED account /\ S!Continue(ko, afresh, mem)
  BY <1>3 DEF UidsStay, VersionInv, S!Continue, S!Finish, OperatorInv, TiesInv
<1>q. QED BY <1>2, <1>3 DEF S!Write

LEMMA AccountWorkTies ==
  ASSUME OperatorInv, S!Work
  PROVE  UidsStay /\ VersionInv'
<1>1. apc # "idle"
  BY DEF S!Work, S!DropSecret, S!RemoveUser, S!DropFinalizer, S!MarkCreating, S!CheckUser, S!AddUser,
     S!CheckKeys, S!DropKeys, S!AddKey, S!SaveKey, S!SaveSecretName, S!UndoSecret, S!FindBuckets,
     S!MarkPending, S!ClearPending, S!EnsurePolicies, S!SetPolicy, S!SetReady, S!RecordError
<1>2. ASSUME UNCHANGED account,
             \/ S!Finish
             \/ UNCHANGED <<acur, afresh>> /\ aobj'.uid = aobj.uid
      PROVE  UidsStay /\ VersionInv'
  BY <1>1, <1>2 DEF UidsStay, VersionInv, S!Finish, OperatorInv, TiesInv
<1>3. \A c : [aobj EXCEPT !.conditions = c].uid = aobj.uid
  OBVIOUS
<1>4. CASE S!DropFinalizer \/ S!MarkCreating \/ S!SaveSecretName \/ S!MarkPending \/ S!ClearPending
           \/ S!SetReady \/ S!RecordError
  BY <1>1, <1>3, <1>4, AccountWriteTies
     DEF S!DropFinalizer, S!MarkCreating, S!SaveSecretName, S!MarkPending, S!ClearPending, S!SetReady,
         S!RecordError, S!With
<1>5. CASE S!DropSecret \/ S!RemoveUser \/ S!CheckUser \/ S!AddUser \/ S!CheckKeys \/ S!DropKeys
           \/ S!AddKey \/ S!FindBuckets \/ S!EnsurePolicies \/ S!SetPolicy
  BY <1>2, <1>5 DEF S!DropSecret, S!RemoveUser, S!CheckUser, S!AddUser, S!CheckKeys, S!DropKeys, S!AddKey,
     S!FindBuckets, S!EnsurePolicies, S!SetPolicy, S!Goto, S!Continue, S!worker, S!locals, S!store
<1>6. CASE S!SaveKey \/ S!UndoSecret
  <2>1. [aobj EXCEPT !.secretName = TRUE].uid = aobj.uid
    OBVIOUS
  <2>q. QED BY <1>2, <1>6, <2>1 DEF S!SaveKey, S!UndoSecret, S!Goto, S!Continue
<1>q. QED BY <1>4, <1>5, <1>6 DEF S!Work

LEMMA AccountStartTies ==
  ASSUME OperatorInv, NEW a \in Accounts, S!Start(a)
  PROVE  UidsStay /\ VersionInv'
<1>1. ASSUME NEW new, new.uid = accountCache[a].uid, S!Begin(a), S!WriteAndReturn(a, new)
      PROVE  UidsStay /\ VersionInv'
  BY <1>1, AccountTypes
     DEF S!Begin, S!WriteAndReturn, S!worker, S!locals, UidsStay, VersionInv, OperatorInv
<1>2. \A c : [accountCache[a] EXCEPT !.conditions = c].uid = accountCache[a].uid
  OBVIOUS
<1>3. CASE S!MarkDeleting(a)
  BY <1>1, <1>2, <1>3 DEF S!MarkDeleting, S!With
<1>4. CASE S!AddFinalizer(a)
  <2>1. [accountCache[a] EXCEPT !.finalizer = TRUE].uid = accountCache[a].uid
    OBVIOUS
  <2>q. QED BY <1>1, <1>4, <2>1 DEF S!AddFinalizer
<1>5. CASE S!StartDeletion(a) \/ S!StartReconcile(a)
  BY <1>5 DEF S!StartDeletion, S!StartReconcile, S!Load, S!store, UidsStay, VersionInv
<1>q. QED BY <1>3, <1>4, <1>5 DEF S!Start

LEMMA CollectorTies ==
  ASSUME OperatorInv, S!Collector
  PROVE  UidsStay /\ VersionInv'
<1> DEFINE a == gc.account
<1>1. account \in [Accounts -> ObjectOrNone(S!AccountObject)] /\ (apc # "idle" => acur \in Accounts)
  BY AccountTypes DEF OperatorInv
<1>2. ASSUME gc # None, NEW new, account' = [account EXCEPT ![a] = new],
             new # None => account[a] # None /\ new.uid = account[a].uid,
             account' # account => S!OutdateWorker(a),
             account' = account => S!OutdateWorker(a) \/ UNCHANGED aworker
      PROVE  UidsStay /\ VersionInv'
  <2>1. a \in Accounts
    BY <1>2, AccountTypes DEF OperatorInv
  <2>2. UidsStay
    BY <1>1, <1>2, <2>1 DEF UidsStay
  <2>3. UNCHANGED <<apc, acur, aobj>> /\ (afresh' => afresh /\ (acur = a => account' = account))
    <3>1. CASE S!OutdateWorker(a)
      BY <3>1 DEF S!OutdateWorker
    <3>2. CASE UNCHANGED aworker /\ account' = account
      BY <3>2 DEF aworker
    <3>q. QED BY <1>2, <3>1, <3>2
  <2>4. VersionInv'
    BY <1>1, <1>2, <2>1, <2>3 DEF VersionInv, OperatorInv, TiesInv
  <2>q. QED BY <2>2, <2>4
<1>3. CASE UNCHANGED <<account, aworker>>
  BY <1>3 DEF UidsStay, VersionInv, OperatorInv, TiesInv, aworker
<1>4. CASE \E c \in Accounts : S!GcTake(c)
  BY <1>3, <1>4 DEF S!GcTake, S!store, S!worker, S!locals, aworker
<1>5. CASE S!GcMark
  <2>1. CASE gc.fresh /\ account' = [account EXCEPT ![a] = S!With(gc.obj, "Deleting", TRUE)]
    <3>1. account[a] = gc.obj /\ gc.obj # None
      BY <1>5, <2>1, AccountTypes, AccountAtWork, ConstantsOK DEF OperatorInv, S!GcMark, S!NoneIsNoObject
    <3>2. S!With(gc.obj, "Deleting", TRUE).uid = gc.obj.uid
      BY DEF S!With
    <3>3. S!OutdateWorker(a)
      BY <1>5, <2>1 DEF S!GcMark
    <3>q. QED BY <1>2, <1>5, <2>1, <3>1, <3>2, <3>3 DEF S!GcMark
  <2>2. CASE UNCHANGED <<account, S!worker>>
    BY <1>3, <2>2 DEF S!worker, S!locals, aworker
  <2>q. QED BY <1>5, <2>1, <2>2 DEF S!GcMark
<1>6. CASE S!GcDelete
  <2>1. S!Deleted(account[a]) # None =>
          account[a] # None /\ S!Deleted(account[a]).uid = account[a].uid
    BY DEF S!Deleted
  <2>q. QED BY <1>2, <1>6, <2>1 DEF S!GcDelete, S!worker, S!locals, aworker
<1>q. QED BY <1>4, <1>5, <1>6 DEF S!Collector

\* What is written to a secret is written to that of the account at work.
LEMMA AccountSecretTies ==
  ASSUME OperatorInv, AccountSide
  PROVE  SecretsInv'
<1>1. apc \in {"saveKey", "undoSecret", "dropSecret"} => acur \in Accounts
  BY AccountTypes DEF OperatorInv
<1>2. CASE UNCHANGED secret
  BY <1>2 DEF SecretsInv, OperatorInv, TiesInv
<1>3. CASE apc = "saveKey" /\ secret' = [secret EXCEPT ![SaSecret[acur]] = NewSecret(acur, akey)]
  <2>1. akey # None
    BY <1>3, AccountTypes, ConstantsOK DEF OperatorInv, B!ConstantsOK
  <2>q. QED BY <1>1, <1>3, <2>1, BucketTypes, ConstantsOK
     DEF SecretsInv, OperatorInv, TiesInv, NewSecret, B!ConstantsOK
<1>4. CASE apc \in {"undoSecret", "dropSecret"} /\ secret' = [secret EXCEPT ![SaSecret[acur]] = None]
  BY <1>1, <1>4, BucketTypes, ConstantsOK DEF SecretsInv, OperatorInv, TiesInv, B!ConstantsOK
<1>q. QED BY <1>2, <1>3, <1>4 DEF AccountSide

\* Accounts and their UIDs stay what the rest of the invariant says they are.
LEMMA SameUids ==
  ASSUME OperatorInv, UidsStay, UNCHANGED <<uids, accountCache, bucket, bucketCache, worker>>
  PROVE  UidsInv' /\ BucketsInv' /\ WorkerInv'
<1>1. UidsInv'
  BY DEF OperatorInv, TiesInv, UidsInv, UidsStay, Given
<1>2. BucketsInv' /\ WorkerInv'
  BY DEF OperatorInv, TiesInv, BucketsInv, WorkerInv, Refers, Given, worker
<1>q. QED BY <1>1, <1>2

LEMMA AccountTies ==
  ASSUME OperatorInv, AccountWork \/ Collector \/ \E a \in Accounts : AccountStart(a)
  PROVE  TiesInv'
<1>1. UidsStay /\ VersionInv'
  BY AccountWorkTies, AccountStartTies, CollectorTies DEF AccountWork, Collector, AccountStart
<1>2. AccountSide /\ UNCHANGED <<bucket, bucketCache, worker>>
  BY DEF AccountWork, Collector, AccountStart, AccountSide
<1>3. UNCHANGED <<uids, accountCache>>
  BY DEF AccountWork, Collector, AccountStart, S!Work, S!Collector, S!Start,
     S!DropSecret, S!RemoveUser, S!DropFinalizer, S!MarkCreating, S!CheckUser, S!AddUser,
     S!CheckKeys, S!DropKeys, S!AddKey, S!SaveKey, S!SaveSecretName, S!UndoSecret, S!FindBuckets,
     S!MarkPending, S!ClearPending, S!EnsurePolicies, S!SetPolicy, S!SetReady, S!RecordError,
     S!GcTake, S!GcMark, S!GcDelete, S!MarkDeleting, S!StartDeletion, S!AddFinalizer,
     S!StartReconcile, S!WriteAndReturn, S!store, S!caches
<1>q. QED BY <1>1, <1>2, <1>3, AccountSecretTies, SameUids DEF TiesInv

-----------------------------------------------------------------------------
(* The invariant is inductive.                                             *)

LEMMA BucketsStay ==
  ASSUME OperatorInv, BucketSide, BucketEffect
  PROVE  BucketsInv'
<1>1. uids \in Nat /\ uids' \in Nat /\ uids <= uids'
  BY BucketTypes DEF OperatorInv, BucketEffect, BucketWrite, SecretWrite, AccountMade, NoWrite
<1>2. ASSUME NEW b \in Buckets, bucketCache'[b] # None PROVE Refers(bucketCache[b])'
  <2>1. Refers(bucketCache[b]) /\ bucketCache' = bucketCache
    BY <1>2 DEF BucketEffect, OperatorInv, TiesInv, BucketsInv
  <2>q. QED BY <1>1, <2>1, RefersStays
<1>3. ASSUME NEW b \in Buckets, bucket'[b] # None PROVE Refers(bucket[b])'
  <2>1. Refers(bucket'[b])
    <3>1. CASE UNCHANGED bucket
      BY <1>3, <3>1 DEF OperatorInv, TiesInv, BucketsInv
    <3>2. CASE BucketWrite
      BY <1>3, <3>2, BucketTypes DEF BucketWrite, OperatorInv, TiesInv, BucketsInv
    <3>q. QED BY <3>1, <3>2 DEF BucketEffect, SecretWrite, AccountMade, NoWrite
  <2>q. QED BY <1>1, <2>1 DEF Refers, Given
<1>q. QED BY <1>2, <1>3 DEF BucketsInv

LEMMA BucketTies ==
  ASSUME OperatorInv, BucketWork \/ \E b \in Buckets : BucketStart(b)
  PROVE  TiesInv'
<1>1. BucketSide /\ BucketEffect
  BY BucketControllerEffect
<1>2. /\ WorkerInv' /\ UNCHANGED <<accountCache, aworker>>
      /\ BucketsInv'
  BY <1>1, BucketsStay DEF BucketEffect, BucketSide
<1>3. SecretsInv'
  <2>1. \A a \in Accounts : secret'[SaSecret[a]] = secret[SaSecret[a]]
    BY <1>1, BucketTypes, ConstantsOK
       DEF BucketEffect, BucketWrite, SecretWrite, AccountMade, NoWrite, OperatorInv, B!ConstantsOK
  <2>q. QED BY <2>1 DEF SecretsInv, OperatorInv, TiesInv
<1>4. UidsInv' /\ VersionInv'
  <2>1. CASE AccountMade
    <3> DEFINE a == obj.spec.serviceAccount
    <3>1. /\ a \in Accounts /\ uids < MaxUid /\ account[a] = None
          /\ account' = [account EXCEPT ![a] = S!NewAccount(uids + 1, obj.spec.provider)]
      BY <1>1, <2>1, MadeAccount
    <3>2. uids \in Nat /\ uids' = uids + 1 /\ MaxUid \in Nat
      BY <2>1, BucketTypes, ConstantsOK DEF AccountMade, OperatorInv, S!ConstantsOK
    <3>3. UidsInv'
      <4>1. account'[a].uid = uids + 1 /\ \A c \in Accounts : c # a => account'[c] = account[c]
        BY <3>1, AccountTypes DEF S!NewAccount, OperatorInv
      <4>2. uids + 1 \in 1 .. uids'
        BY <3>2
      <4>3. \A c \in Accounts : account'[c] # None => account'[c].uid \in 1 .. uids'
        <5>1. ASSUME NEW c \in Accounts, account'[c] # None, c # a PROVE Given(account[c].uid)
          BY <4>1, <5>1 DEF UidsInv, OperatorInv, TiesInv
        <5>q. QED BY <3>2, <4>1, <4>2, <5>1 DEF Given
      <4>4. \A c \in Accounts : accountCache'[c] # None => accountCache'[c].uid \in 1 .. uids'
        <5>1. \A c \in Accounts : accountCache[c] # None => Given(accountCache[c].uid)
          BY DEF UidsInv, OperatorInv, TiesInv
        <5>q. QED BY <1>2, <3>2, <5>1 DEF Given
      <4>q. QED BY <3>1, <3>2, <4>3, <4>4 DEF UidsInv, Given
    <3>4. VersionInv'
      <4>1. apc # "idle" /\ afresh => acur # a
        BY <3>1, AccountAtWork DEF OperatorInv
      <4>q. QED BY <1>2, <3>1, <4>1 DEF VersionInv, OperatorInv, TiesInv, aworker
    <3>q. QED BY <3>3, <3>4
  <2>2. CASE BucketWrite \/ SecretWrite \/ NoWrite
    <3>1. UNCHANGED <<account, uids>>
      BY <1>1, <2>2, BucketSideKeeps DEF BucketWrite, SecretWrite, NoWrite
    <3>q. QED BY <1>2, <3>1 DEF UidsInv, VersionInv, OperatorInv, TiesInv, aworker, Given
  <2>q. QED BY <1>1, <2>1, <2>2 DEF BucketEffect
<1>q. QED BY <1>2, <1>3, <1>4 DEF TiesInv

LEMMA ClusterTies ==
  ASSUME OperatorInv, Cluster
  PROVE  TiesInv'
<1>1. /\ UNCHANGED <<account, accountCache, uids, bucketCache, aworker, pc, obj, ref>>
      /\ UidsInv' /\ WorkerInv' /\ VersionInv'
  <2>1. UNCHANGED <<account, accountCache, uids, bucketCache, aworker, pc, obj, ref>>
    BY DEF Cluster, B!CreateBucket, B!DeleteBucket, B!CollectSecret, B!caches, B!worker, B!Outdate
  <2>q. QED BY <2>1 DEF UidsInv, WorkerInv, VersionInv, Refers, Given, OperatorInv, TiesInv, aworker
<1>2. CASE \E b \in Buckets : B!CreateBucket(b) \/ B!DeleteBucket(b)
  <2>1. PICK b \in Buckets : B!CreateBucket(b) \/ B!DeleteBucket(b)
    BY <1>2
  <2>2. PICK o : bucket' = [bucket EXCEPT ![b] = o] /\ (o # None => Refers(o))
    BY <2>1, CreatedRefers, DeletedRefers
  <2>3. UNCHANGED secret
    BY <2>1 DEF B!CreateBucket, B!DeleteBucket
  <2>4. BucketsInv'
    BY <1>1, <2>2, BucketTypes DEF BucketsInv, Refers, Given, OperatorInv, TiesInv
  <2>q. QED BY <1>1, <2>3, <2>4 DEF TiesInv, SecretsInv, OperatorInv
<1>3. CASE \E s \in Secrets : B!CollectSecret(s)
  <2>1. PICK s \in Secrets : secret' = [secret EXCEPT ![s] = None] /\ UNCHANGED bucket
    BY <1>3 DEF B!CollectSecret
  <2>2. SecretsInv'
    BY <2>1, BucketTypes DEF SecretsInv, OperatorInv, TiesInv
  <2>3. BucketsInv'
    BY <1>1, <2>1 DEF BucketsInv, Refers, Given, OperatorInv, TiesInv
  <2>q. QED BY <1>1, <2>2, <2>3 DEF TiesInv
<1>q. QED BY <1>2, <1>3 DEF Cluster

LEMMA InformersTies ==
  ASSUME OperatorInv, Informers
  PROVE  TiesInv'
<1>1. UNCHANGED Others /\ WorkerInv' /\ SecretsInv' /\ VersionInv'
  <2>1. UNCHANGED Others
    BY DEF Informers, SyncBucket, SyncSecret, SyncAccount
  <2>q. QED BY <2>1 DEF Others, WorkerInv, SecretsInv, VersionInv, Refers, Given, OperatorInv, TiesInv,
            worker, aworker
<1>2. BucketsInv'
  <2>1. UNCHANGED bucketCache \/ \E b \in Buckets : bucketCache' = [bucketCache EXCEPT ![b] = bucket[b]]
    BY DEF Informers, SyncBucket, SyncSecret, SyncAccount, B!SyncBucket, B!SyncSecret
  <2>q. QED BY <1>1, <2>1, BucketTypes DEF Others, BucketsInv, Refers, Given, OperatorInv, TiesInv
<1>3. UidsInv'
  <2>1. \/ UNCHANGED accountCache
        \/ \E a \in Accounts : accountCache' = [accountCache EXCEPT ![a] = account[a]]
    BY DEF Informers, SyncBucket, SyncSecret, SyncAccount, S!SyncAccount
  <2>q. QED BY <1>1, <2>1, AccountTypes DEF Others, UidsInv, Given, OperatorInv, TiesInv
<1>q. QED BY <1>1, <1>2, <1>3 DEF TiesInv

LEMMA NextInvariant ==
  ASSUME OperatorInv, [Next]_vars
  PROVE  OperatorInv'
<1>1. CASE UNCHANGED vars
  <2>1. TiesInv'
    BY <1>1 DEF OperatorInv, TiesInv, UidsInv, BucketsInv, WorkerInv, SecretsInv, VersionInv, Refers,
       Given, vars, worker, aworker
  <2>q. QED BY <2>1, NextBucketTypes, NextAccountTypes DEF OperatorInv
<1>2. CASE Next
  <2>1. TiesInv'
    BY <1>2, BucketTies, AccountTies, ClusterTies, InformersTies DEF Next
  <2>q. QED BY <2>1, NextBucketTypes, NextAccountTypes DEF OperatorInv
<1>q. QED BY <1>1, <1>2

LEMMA InitInvariant == Init => OperatorInv
<1> SUFFICES ASSUME Init PROVE OperatorInv
  OBVIOUS
<1>1. BP!TypeOK
  BY SameBuckets, BucketConstants, BP!InitTyped DEF Init, BP!ConstantsOK
<1>2. SP!Typed /\ SP!OrphanInv
  BY SameAccounts, AccountConstants, SP!InitTyped, SP!InitOrphan
     DEF Init, SP!ConstantsOK, SP!NoneIsNoObject
<1>3. TiesInv
  BY ConstantsOK DEF Init, TiesInv, UidsInv, BucketsInv, WorkerInv, SecretsInv, VersionInv, B!Init,
     B!ConstantsOK, S!ConstantsOK
<1>q. QED BY <1>1, <1>2, <1>3 DEF OperatorInv

-----------------------------------------------------------------------------
(* Theorems.                                                               *)

\* The account controller, the collector and Kubernetes' garbage collection do
\* nothing the Bucket reconciler's module does not expect of its surroundings:
\* an account keeps its UID and provider as long as it exists, and credentials
\* are published and withdrawn only in the -sa secret of their account.
THEOREM AccountsForBuckets == Spec => ViewB
<1>1. OperatorInv /\ [Next]_vars => OperatorInv' /\ [B!Next]_(B!vars)
  BY NextInvariant, NextForBuckets
<1>q. QED BY <1>1, InitInvariant, PTL DEF Spec, ViewB

\* Nor do the Bucket reconciler and the users anything the account controller's
\* module does not expect: accounts are made with a UID of their own, controller
\* references name accounts that have existed, and the -sa secret of an account
\* is left alone until the account is gone.
THEOREM BucketsForAccounts == Spec => ViewS
<1>1. OperatorInv /\ [Next]_vars => OperatorInv' /\ [S!Next]_(S!vars)
  BY NextInvariant, NextForAccounts
<1>q. QED BY <1>1, InitInvariant, PTL DEF Spec, ViewS

\* So both controllers behave, together, as their modules say.
LEMMA BothBehave == Spec => BP!Spec /\ SP!Spec
<1>1. Init => BP!Init /\ SP!Init
  BY SameBuckets, SameAccounts DEF Init
<1>2. OperatorInv /\ [Next]_vars => OperatorInv' /\ [BP!Next]_(BP!vars) /\ [SP!Next]_(SP!vars)
  BY NextInvariant, NextForBuckets, NextForAccounts, SameBuckets, SameAccounts
<1>q. QED BY <1>1, <1>2, InitInvariant, PTL DEF Spec, BP!Spec, SP!Spec

\* What is shown of each controller alone holds of the operator as a whole: no
\* status is Ready against the facts, a MinIO user has one pair of credentials,
\* an account that holds it, and only policies that exist.
THEOREM SafeTogether ==
  Spec => [](/\ B!StatusHonest /\ S!StatusHonest
             /\ S!OneKey /\ S!NoOrphanUser /\ S!PoliciesExist)
<1>1. BP!Spec => []BP!StatusHonest
  BY BucketConstants, BP!HonestStatus DEF BP!ConstantsOK
<1>2. /\ SP!Spec => []SP!StatusHonest
      /\ SP!Spec => []SP!OneKey
      /\ SP!Spec => []SP!PoliciesExist
  BY AccountConstants, SP!HonestStatus, SP!OneKeyAtMost, SP!GrantedPoliciesExist
     DEF SP!ConstantsOK, SP!NoneIsNoObject
<1>3. SP!Spec => []SP!NoOrphanUser
  <2>1. "provider" \notin {"buckets"}
    OBVIOUS
  <2>q. QED BY <2>1, AccountConstants, SP!NoUserOutlives DEF SP!ConstantsOK, SP!NoneIsNoObject
<1>4. BP!StatusHonest => B!StatusHonest
  BY DEF BP!StatusHonest, B!StatusHonest, BP!Exists, B!Exists, BP!Honest, B!Honest, BP!IsTrue, B!IsTrue,
     BP!OwnerRef, B!OwnerRef
<1>5. SP!StatusHonest => S!StatusHonest
  BY DEF SP!StatusHonest, S!StatusHonest, SP!Exists, S!Exists, SP!IsTrue, S!IsTrue
<1>6. SP!OneKey => S!OneKey
  BY DEF SP!OneKey, S!OneKey, SP!Users, S!Users, SP!Cardinality, S!Cardinality
<1>7. SP!PoliciesExist => S!PoliciesExist
  BY DEF SP!PoliciesExist, S!PoliciesExist, SP!Users, S!Users
<1>8. SP!NoOrphanUser => S!NoOrphanUser
  BY DEF SP!NoOrphanUser, S!NoOrphanUser, SP!Exists, S!Exists, SP!Users, S!Users
<1>q. QED BY <1>1, <1>2, <1>3, <1>4, <1>5, <1>6, <1>7, <1>8, BothBehave, PTL


\* A Bucket of a name of its own that is wanted and has an endpoint has its own
\* MinIO bucket, whatever its account and that account's owner go through.
THEOREM EndpointsTogether ==
  ASSUME B!OwnPlaces
  PROVE  Spec => []B!EndpointOwned
<1>1. BP!OwnPlaces /\ "api" \notin {}
  BY DEF B!OwnPlaces, BP!OwnPlaces
<1>2. BP!Spec => []BP!EndpointOwned
  BY <1>1, BucketConstants, BP!EndpointsTrue DEF BP!ConstantsOK
<1>3. BP!EndpointOwned => B!EndpointOwned
  BY DEF BP!EndpointOwned, B!EndpointOwned, BP!Exists, B!Exists, BP!Wanted, B!Wanted, BP!Place, B!Place
<1>q. QED BY <1>2, <1>3, BothBehave, PTL

\* No step of the Bucket worker takes a secret from another Bucket, or from an
\* account: in the one cluster both write secrets to, credentials are safe.
THEOREM SecretsTogether == Spec => B!SecretsNotSeized
<1>1. BP!Spec => BP!SecretsNotSeized
  BY BucketConstants, BP!SecretsKept DEF BP!ConstantsOK
<1> DEFINE Kept == \A s \in Secrets :
                     /\ pc' # pc
                     /\ secret[s] # None /\ secret[s].owner \notin {None, cur}
                     => secret'[s] \in {secret[s], None}
<1>2. [Kept]_(BP!vars) => [Kept]_(B!vars)
  BY DEF BP!vars, B!vars, BP!store, B!store, BP!caches, B!caches, BP!world, B!world, BP!worker,
     B!worker
<1>q. QED BY <1>1, <1>2, BothBehave, PTL DEF BP!SecretsNotSeized, B!SecretsNotSeized
=============================================================================
