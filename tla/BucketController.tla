-------------------------- MODULE BucketController --------------------------
(***************************************************************************)
(* The Bucket reconciler (controllers/bucket_controller.go) against the    *)
(* API server, its informer caches and MinIO.                              *)
(*                                                                         *)
(* The controller runs one worker.  Reconcile is cut at its remote calls:  *)
(* an action is one call to the API server or to MinIO together with the   *)
(* cache reads and the local code before it, so that everything else in    *)
(* the cluster may happen between two calls.  Reads go to the caches,      *)
(* which lag behind the store by any amount; writes go to the store, which *)
(* refuses an update whose base is no longer the stored object.            *)
(*                                                                         *)
(* The work queue is not kept: a key may be reconciled at any time, as     *)
(* events, start-up lists, retries and the periodic resync make it happen. *)
(***************************************************************************)
EXTENDS Objects

CONSTANTS
  BucketNames,     \* MinIO bucket names
  NameOf,          \* NameOf[b]: metadata.name of Bucket b, its namespace dropped
  SecretsOf,       \* SecretsOf[b]: secrets of b's namespace a user may name
  AccountsOf,      \* AccountsOf[b]: accounts of b's namespace a user may name
  SaSecret,        \* SaSecret[a]: the Secret named a.name + "-sa"
  DefaultSecret,   \* DefaultSecret[b]: the Secret named b.name + "-bucket-credentials"
  DefaultAccount,  \* DefaultAccount[b]: the account named as b
  Annotated,       \* providers with the is-default-provider annotation
  Foreign,         \* maker of a MinIO bucket the operator knows nothing of
  ReclaimPolicies, \* the reclaim policies users ask for
  Webhooks,        \* TRUE iff the admission webhooks are installed
  Faults,          \* what may go wrong: "api", "minio", "crash"
  Env,             \* what the environment does besides creating Buckets
  MaxUid           \* bound: accounts created in a behaviour

FaultKinds == {"api", "minio", "crash"}
EnvKinds == {"edit", "delete", "foreign", "secrets", "rotate", "accounts",
             "provider", "users"}

ASSUME ConstantsOK ==
  /\ None \notin Buckets \cup Accounts \cup Secrets \cup Providers \cup Keys \cup BOOLEAN
  /\ None \notin BucketObject
  /\ Buckets \cap Accounts = {}
  /\ Foreign \notin Buckets \cup {None}
  /\ NameOf \in [Buckets -> BucketNames]
  /\ SecretsOf \in [Buckets -> SUBSET Secrets]
  /\ AccountsOf \in [Buckets -> SUBSET Accounts]
  /\ SaSecret \in [Accounts -> Secrets]
  /\ DefaultSecret \in [Buckets -> Secrets]
  /\ DefaultAccount \in [Buckets -> Accounts]
  /\ Annotated \subseteq Providers
  /\ ReclaimPolicies \subseteq {"Delete", "Retain"}
  /\ Webhooks \in BOOLEAN
  /\ Faults \subseteq FaultKinds
  /\ Env \subseteq EnvKinds
  /\ MaxUid \in Nat

VARIABLES
  bucket, account, secret,                \* the objects in the API server
  bucketCache, accountCache, secretCache, \* the same as the informers show them
  uids,        \* UIDs given to accounts so far
  provider,    \* providers as the informers show them: "none", "broken", "usable"
  userExists,  \* accounts whose MinIO user exists
  minio,       \* minio[<<p, n>>]: who made the MinIO bucket n of provider p
  pc,          \* the worker's next remote call, "idle" between two keys
  cur,         \* the key it works on
  fresh,       \* TRUE iff its resource version of cur is still the stored one
  obj,         \* cur as it is in the worker's memory
  ref          \* the controller reference it wants cur to have

store  == <<bucket, account, secret, uids>>
caches == <<bucketCache, accountCache, secretCache>>
world  == <<provider, userExists>>
worker == <<pc, cur, fresh, obj, ref>>
vars   == <<store, caches, world, minio, worker>>

Labels == {"idle", "unfinalize", "remove", "account", "own", "bucket", "make",
           "endpoint", "undoBucket", "oldSecret", "secret", "saveSecret",
           "undoSecret", "ready", "fail"}

Makers == Buckets \cup {Foreign, None}

Init ==
  /\ bucket = [b \in Buckets |-> None] /\ bucketCache = bucket
  /\ account = [a \in Accounts |-> None] /\ accountCache = account
  /\ secret = [s \in Secrets |-> None] /\ secretCache = secret
  /\ uids = 0
  /\ provider = [p \in Providers |-> "usable"]
  /\ userExists = {}
  /\ minio = [k \in Providers \X BucketNames |-> None]
  /\ pc = "idle"
  /\ cur = None /\ fresh = FALSE /\ obj = None /\ ref = None

-----------------------------------------------------------------------------
(* The worker's steps.                                                     *)

\* Mutated: the object of the last key is left behind.
Finish_NoReset == /\ pc' = "idle"
                  /\ cur' = None /\ fresh' = FALSE /\ ref' = None
                  /\ UNCHANGED obj

Finish == /\ pc' = "idle"
          /\ cur' = None /\ fresh' = FALSE /\ obj' = None /\ ref' = None

\* Take up key b as the cache shows it, and go on at label l.
Load(b, l, r) == /\ pc' = l
                 /\ cur' = b
                 /\ fresh' = (bucketCache[b] = bucket[b])
                 /\ obj' = bucketCache[b]
                 /\ ref' = r

\* Go on at label l with the object o in memory.
Continue(l, f, o) == IF l = "idle"
                     THEN Finish
                     ELSE /\ pc' = l
                          /\ fresh' = f /\ obj' = o
                          /\ UNCHANGED <<cur, ref>>

\* Go on at label l with the object in memory as it is.
Goto(l) == Continue(l, fresh, obj)

\* The validating webhook on an update: the provider is kept and exists.
ValidateUpdate(old, new) ==
  Webhooks => /\ old.spec.provider \in {None, new.spec.provider}
              /\ new.spec.provider # None
              /\ provider[new.spec.provider] # "none"

\* An Update or a Status().Update of cur to new: accepted when the worker's
\* version is the stored one and admission agrees.  It goes on at ok with the
\* stored object, at ko with mem in memory; under "api" it may also be refused
\* for no reason, or applied and its answer lost.
Write(new, admitted, ok, ko, mem) ==
  \/ /\ fresh /\ admitted
     /\ bucket' = [bucket EXCEPT ![cur] = new]
     /\ \/ Continue(ok, TRUE, new)
        \/ "api" \in Faults /\ Continue(ko, FALSE, mem)
  \/ /\ ~(fresh /\ admitted) \/ "api" \in Faults
     /\ UNCHANGED bucket
     /\ Continue(ko, fresh, mem)

\* A write that is the last call of a Reconcile and needs nothing but the
\* cached object.  When it is refused nothing changes and the key is retried.
WriteAndReturn(b, new, admitted) ==
  /\ bucketCache[b] = bucket[b] /\ admitted
  /\ bucket' = [bucket EXCEPT ![b] = new]
  /\ UNCHANGED <<account, secret, uids, caches, world, minio, worker>>

\* Mutated: a Bucket under deletion is never taken up.
Begin_Alive(b) == pc = "idle" /\ bucketCache[b] # None /\ ~bucketCache[b].deleting

Begin(b) == pc = "idle" /\ bucketCache[b] # None

\* The key of cur's MinIO bucket.
Place(o, b) == <<o.spec.provider, NameOf[b]>>

-----------------------------------------------------------------------------
(* Deletion: reconcileDeletion, then the finalizer is dropped.             *)

MarkDeleting(b) ==
  LET o == bucketCache[b] IN
  /\ Begin(b) /\ o.deleting
  /\ ~IsTrue(o.conditions, "Deleting")
  /\ WriteAndReturn(b, [o EXCEPT !.conditions =
                          SetCondition(o.conditions, "Deleting", TRUE)], TRUE)

ProviderOf(o) == IF o.spec.provider = None THEN "none" ELSE provider[o.spec.provider]

\* A missing provider skips the removal; one whose client cannot be built
\* returns an error, which changes nothing.
StartDeletion(b) ==
  LET o == bucketCache[b] IN
  /\ Begin(b) /\ o.deleting
  /\ IsTrue(o.conditions, "Deleting")
  /\ ProviderOf(o) # "broken"
  /\ Load(b, IF ProviderOf(o) = "usable" /\ o.spec.reclaimPolicy = "Delete"
             THEN "remove" ELSE "unfinalize", None)
  /\ UNCHANGED <<store, caches, world, minio>>

\* Mutated: the error of the removal is ignored.
RemoveMinioBucket_ErrorIgnored ==
  LET k == Place(obj, cur) IN
  /\ pc = "remove"
  /\ minio' \in {minio, [minio EXCEPT ![k] = None]}
  /\ Goto("unfinalize")
  /\ UNCHANGED <<store, caches, world>>

\* RemoveBucketWithOptions with ForceDelete; MinIO answers NoSuchBucket, an
\* error, when there is no such bucket.
RemoveMinioBucket ==
  LET k == Place(obj, cur) IN
  /\ pc = "remove"
  /\ \/ /\ minio[k] # None
        /\ minio' = [minio EXCEPT ![k] = None]
        /\ \/ Goto("unfinalize")
           \/ "minio" \in Faults /\ Finish
     \/ /\ minio[k] = None \/ "minio" \in Faults
        /\ UNCHANGED minio
        /\ Finish
  /\ UNCHANGED <<store, caches, world>>

\* RemoveFinalizer and Update: a deleted object without finalizers is gone.
DropFinalizer ==
  /\ pc = "unfinalize"
  /\ Write(None, ValidateUpdate(bucket[cur], obj), "idle", "idle", obj)
  /\ UNCHANGED <<account, secret, uids, caches, world, minio>>

-----------------------------------------------------------------------------
(* Preparation: finalizer, missing spec fields, first condition.           *)

AddFinalizer(b) ==
  LET o == bucketCache[b] IN
  /\ Begin(b) /\ ~o.deleting /\ ~o.finalizer
  /\ WriteAndReturn(b, [o EXCEPT !.finalizer = TRUE], ValidateUpdate(o, o))

\* Mutated: the finalizer is not waited for.
Prepared_Unheld(b) == Begin(b) /\ ~bucketCache[b].deleting

Prepared(b) == Begin(b) /\ ~bucketCache[b].deleting /\ bucketCache[b].finalizer

DefaultProvider == {p \in Annotated : provider[p] # "none"}

SetProvider(b) ==
  LET o == bucketCache[b] IN
  /\ Prepared(b) /\ o.spec.provider = None
  /\ \E p \in DefaultProvider :
       LET new == [o EXCEPT !.spec.provider = p] IN
       WriteAndReturn(b, new, ValidateUpdate(o, new))

NoDefaultProvider(b) ==
  /\ Prepared(b) /\ bucketCache[b].spec.provider = None
  /\ DefaultProvider = {}
  /\ Load(b, "fail", None)
  /\ UNCHANGED <<store, caches, world, minio>>

SetSecretName(b) ==
  LET o == bucketCache[b]
      new == [o EXCEPT !.spec.secretName = DefaultSecret[b]] IN
  /\ Prepared(b) /\ o.spec.provider # None /\ o.spec.secretName = None
  /\ WriteAndReturn(b, new, ValidateUpdate(o, new))

Specified(b) == /\ Prepared(b)
                /\ bucketCache[b].spec.provider # None
                /\ bucketCache[b].spec.secretName # None

MarkCreating(b) ==
  LET o == bucketCache[b] IN
  /\ Specified(b) /\ o.conditions = NoConditions
  /\ WriteAndReturn(b, [o EXCEPT !.conditions =
                          SetCondition(o.conditions, "Creating", TRUE)], TRUE)

-----------------------------------------------------------------------------
(* Provider and account: the first calls of a full reconciliation.         *)

Reconcilable(b) == Specified(b) /\ bucketCache[b].conditions # NoConditions

ProviderInvalid(b) ==
  /\ Reconcilable(b)
  /\ ProviderOf(bucketCache[b]) # "usable"
  /\ Load(b, "fail", None)
  /\ UNCHANGED <<store, caches, world, minio>>

AccountSeen(o) == IF o.spec.serviceAccount = None
                  THEN None ELSE accountCache[o.spec.serviceAccount]

AccountMissing(b) ==
  /\ Reconcilable(b)
  /\ ProviderOf(bucketCache[b]) = "usable"
  /\ AccountSeen(bucketCache[b]) = None
  /\ Load(b, "account", None)
  /\ UNCHANGED <<store, caches, world, minio>>

\* ForceControllerReference: any other controller reference is replaced.
AccountFound(b) ==
  LET o == bucketCache[b]
      r == [account |-> o.spec.serviceAccount, uid |-> AccountSeen(o).uid] IN
  /\ Reconcilable(b)
  /\ ProviderOf(o) = "usable"
  /\ AccountSeen(o) # None
  /\ Load(b, IF o.owner = r THEN "bucket" ELSE "own", r)
  /\ UNCHANGED <<store, caches, world, minio>>

\* Mutated: the reference is taken before the account has its UID.
CreateAccount_RefFirst ==
  LET a == obj.spec.serviceAccount IN
  /\ pc = "account" /\ a # None /\ account[a] = None
  /\ uids' = uids + 1
  /\ account' = [account EXCEPT ![a] = NewAccount(uids', obj.spec.provider)]
  /\ pc' = "own" /\ ref' = [account |-> a, uid |-> 0]
  /\ UNCHANGED <<cur, fresh, obj, bucket, secret, caches, world, minio>>

\* Create of the account; its webhook refuses one whose MinIO user exists.
CreateAccount ==
  LET a == obj.spec.serviceAccount
      free == /\ a # None
              /\ account[a] = None
              /\ Webhooks => a \notin userExists /\ provider[obj.spec.provider] = "usable"
  IN
  /\ pc = "account"
  /\ \/ /\ free
        /\ uids' = uids + 1
        /\ account' = [account EXCEPT ![a] = NewAccount(uids', obj.spec.provider)]
        /\ \/ /\ pc' = "own"
              /\ ref' = [account |-> a, uid |-> uids']
              /\ UNCHANGED <<cur, fresh, obj>>
           \/ "api" \in Faults /\ Goto("fail")
     \/ /\ ~free \/ "api" \in Faults
        /\ UNCHANGED <<account, uids>>
        /\ Goto("fail")
  /\ UNCHANGED <<bucket, secret, caches, world, minio>>

SetOwner ==
  /\ pc = "own"
  /\ Write([obj EXCEPT !.owner = ref], ValidateUpdate(bucket[cur], obj), "idle", "fail", obj)
  /\ UNCHANGED <<account, secret, uids, caches, world, minio>>

-----------------------------------------------------------------------------
(* reconcileBucket: the MinIO bucket and the endpoint in the status.       *)

\* The first call of reconcileSecret: Delete of the secret the status names
\* when the specification names another one.
SecretStep == IF obj.secretName \notin {None, obj.spec.secretName}
              THEN "oldSecret" ELSE "secret"

\* Mutated: a bucket that exists is adopted, whoever made it.
CheckMinioBucket_Adopts ==
  LET k == Place(obj, cur) IN
  /\ pc = "bucket"
  /\ \/ minio[k] = None /\ Goto("make")
     \/ minio[k] # None /\ obj.endpoint /\ Goto(SecretStep)
     \/ minio[k] # None /\ ~obj.endpoint /\ Goto("endpoint")
  /\ UNCHANGED <<store, caches, world, minio>>

CheckMinioBucket ==
  LET k == Place(obj, cur) IN
  /\ pc = "bucket"
  /\ \/ minio[k] = None /\ Goto("make")
     \/ minio[k] # None /\ obj.endpoint /\ Goto(SecretStep)
     \/ minio[k] # None /\ ~obj.endpoint /\ Goto("fail")
     \/ "minio" \in Faults /\ Goto("fail")
  /\ UNCHANGED <<store, caches, world, minio>>

\* Mutated: a failed creation is undone.
MakeMinioBucket_UndoneOnFailure ==
  LET k == Place(obj, cur) IN
  /\ pc = "make"
  /\ \/ /\ minio[k] = None
        /\ minio' = [minio EXCEPT ![k] = cur]
        /\ Goto("endpoint")
     \/ /\ minio[k] # None
        /\ UNCHANGED minio
        /\ Goto("undoBucket")
  /\ UNCHANGED <<store, caches, world>>

MakeMinioBucket ==
  LET k == Place(obj, cur) IN
  /\ pc = "make"
  /\ \/ /\ minio[k] = None
        /\ minio' = [minio EXCEPT ![k] = cur]
        /\ \/ Goto("endpoint")
           \/ "minio" \in Faults /\ Goto("fail")
     \/ /\ minio[k] # None \/ "minio" \in Faults
        /\ UNCHANGED minio
        /\ Goto("fail")
  /\ UNCHANGED <<store, caches, world>>

SaveEndpoint ==
  LET new == [obj EXCEPT !.endpoint = TRUE] IN
  /\ pc = "endpoint"
  /\ Write(new, TRUE, "idle", "undoBucket", new)
  /\ UNCHANGED <<account, secret, uids, caches, world, minio>>

\* RemoveBucket without ForceDelete, its error combined with the first one.
UndoMinioBucket ==
  LET k == Place(obj, cur) IN
  /\ pc = "undoBucket"
  /\ \/ minio' = [minio EXCEPT ![k] = None]
     \/ "minio" \in Faults /\ UNCHANGED minio
  /\ Goto("fail")
  /\ UNCHANGED <<store, caches, world>>

-----------------------------------------------------------------------------
(* reconcileSecret: the access secret.                                     *)

DeleteOldSecret ==
  /\ pc = "oldSecret"
  /\ \/ /\ secret' = [secret EXCEPT ![obj.secretName] = None]
        /\ \/ Goto("secret")
           \/ "api" \in Faults /\ Goto("fail")
     \/ /\ "api" \in Faults
        /\ UNCHANGED secret
        /\ Goto("fail")
  /\ UNCHANGED <<bucket, account, uids, caches, world, minio>>

SeenSecret == secretCache[obj.spec.secretName]
SeenKeys == secretCache[SaSecret[obj.spec.serviceAccount]]


\* A Reconcile whose Bucket is already Ready has nothing left to write.
ReadyStep == IF IsTrue(obj.conditions, "Ready") THEN "idle" ELSE "ready"

AwaitKeys ==
  /\ pc = "secret" /\ SeenKeys = None
  /\ Finish
  /\ UNCHANGED <<store, caches, world, minio>>

\* Mutated: a secret is taken over from its controller.
ControlledByOther_Never(s) == FALSE

\* SetControllerReference refuses a secret that has another controller.
ControlledByOther(s) == s # None /\ s.owner \notin {None, cur}

SecretTaken ==
  /\ pc = "secret" /\ SeenKeys # None
  /\ ControlledByOther(SeenSecret)
  /\ Goto("fail")
  /\ UNCHANGED <<store, caches, world, minio>>

UpdateSecret ==
  LET s == obj.spec.secretName IN
  /\ pc = "secret" /\ SeenKeys # None
  /\ SeenSecret # None /\ ~ControlledByOther(SeenSecret)
  /\ \/ /\ secret[s] = SeenSecret
        /\ secret' = [secret EXCEPT ![s] = NewSecret(cur, SeenKeys.key)]
        /\ \/ Goto(ReadyStep)
           \/ "api" \in Faults /\ Goto("fail")
     \/ /\ secret[s] # SeenSecret \/ "api" \in Faults
        /\ UNCHANGED secret
        /\ Goto("fail")
  /\ UNCHANGED <<bucket, account, uids, caches, world, minio>>

CreateSecret ==
  LET s == obj.spec.secretName IN
  /\ pc = "secret" /\ SeenKeys # None
  /\ SeenSecret = None
  /\ \/ /\ secret[s] = None
        /\ secret' = [secret EXCEPT ![s] = NewSecret(cur, SeenKeys.key)]
        /\ \/ Continue("saveSecret", fresh, [obj EXCEPT !.secretName = s])
           \/ "api" \in Faults /\ Goto("fail")
     \/ /\ secret[s] # None \/ "api" \in Faults
        /\ UNCHANGED secret
        /\ Goto("fail")
  /\ UNCHANGED <<bucket, account, uids, caches, world, minio>>

SaveSecretName ==
  /\ pc = "saveSecret"
  /\ Write(obj, TRUE, ReadyStep, "undoSecret", obj)
  /\ UNCHANGED <<account, secret, uids, caches, world, minio>>

UndoSecret ==
  /\ pc = "undoSecret"
  /\ \/ secret' = [secret EXCEPT ![obj.spec.secretName] = None]
     \/ "api" \in Faults /\ UNCHANGED secret
  /\ Goto("fail")
  /\ UNCHANGED <<bucket, account, uids, caches, world, minio>>

-----------------------------------------------------------------------------
(* The outcome in the conditions.                                          *)

\* Mutated: only the condition Creating is removed.
SetReady_ErrorKept ==
  LET new == [obj EXCEPT !.conditions =
                SetCondition(RemoveCondition(@, "Creating"), "Ready", TRUE)] IN
  /\ pc = "ready"
  /\ Write(new, TRUE, "idle", "idle", new)
  /\ UNCHANGED <<account, secret, uids, caches, world, minio>>

SetReady ==
  LET cleared == RemoveCondition(RemoveCondition(obj.conditions, "Creating"), "Error")
      new == [obj EXCEPT !.conditions = SetCondition(cleared, "Ready", TRUE)] IN
  /\ pc = "ready"
  /\ Write(new, TRUE, "idle", "idle", new)
  /\ UNCHANGED <<account, secret, uids, caches, world, minio>>

\* r.err: the error is recorded in whatever the object in memory has become.
RecordError ==
  LET new == [obj EXCEPT !.conditions =
                SetCondition(SetCondition(obj.conditions, "Ready", FALSE), "Error", TRUE)] IN
  /\ pc = "fail"
  /\ Write(new, TRUE, "idle", "idle", new)
  /\ UNCHANGED <<account, secret, uids, caches, world, minio>>

\* The process dies and a new leader starts: what was in memory is lost.
Crash ==
  /\ "crash" \in Faults
  /\ pc # "idle"
  /\ Finish
  /\ UNCHANGED <<store, caches, world, minio>>

Start(b) ==
  \/ MarkDeleting(b) \/ StartDeletion(b)
  \/ AddFinalizer(b) \/ SetProvider(b) \/ NoDefaultProvider(b) \/ SetSecretName(b)
  \/ MarkCreating(b) \/ ProviderInvalid(b) \/ AccountMissing(b) \/ AccountFound(b)

Work ==
  \/ RemoveMinioBucket \/ DropFinalizer
  \/ CreateAccount \/ SetOwner
  \/ CheckMinioBucket \/ MakeMinioBucket \/ SaveEndpoint \/ UndoMinioBucket
  \/ DeleteOldSecret \/ AwaitKeys \/ SecretTaken \/ UpdateSecret \/ CreateSecret
  \/ SaveSecretName \/ UndoSecret
  \/ SetReady \/ RecordError

Controller == (\E b \in Buckets : Start(b)) \/ Work \/ Crash

-----------------------------------------------------------------------------
(* Informers: a cache catches up with one object of the store.             *)

SyncBucket(b) ==
  /\ bucketCache[b] # bucket[b]
  /\ bucketCache' = [bucketCache EXCEPT ![b] = bucket[b]]
  /\ UNCHANGED <<store, accountCache, secretCache, world, minio, worker>>

SyncAccount(a) ==
  /\ accountCache[a] # account[a]
  /\ accountCache' = [accountCache EXCEPT ![a] = account[a]]
  /\ UNCHANGED <<store, bucketCache, secretCache, world, minio, worker>>

SyncSecret(s) ==
  /\ secretCache[s] # secret[s]
  /\ secretCache' = [secretCache EXCEPT ![s] = secret[s]]
  /\ UNCHANGED <<store, bucketCache, accountCache, world, minio, worker>>

Informers == \/ \E b \in Buckets : SyncBucket(b)
             \/ \E a \in Accounts : SyncAccount(a)
             \/ \E s \in Secrets : SyncSecret(s)

-----------------------------------------------------------------------------
(* Users, through the defaulting and validating webhooks of Buckets.       *)

Requests(b) == [provider: Providers \cup {None},
                serviceAccount: AccountsOf[b] \cup {None},
                secretName: SecretsOf[b] \cup {None},
                reclaimPolicy: ReclaimPolicies]

Or(x, y) == IF x = None THEN y ELSE x

\* Specifications that Default may make of a request; none when it needs a
\* default provider and there is none.
Defaulted(b, spec) ==
  IF ~Webhooks THEN {spec}
  ELSE {[spec EXCEPT !.provider = p,
                     !.serviceAccount = Or(spec.serviceAccount, DefaultAccount[b]),
                     !.secretName = Or(spec.secretName, DefaultSecret[b])] :
        p \in IF spec.provider = None THEN DefaultProvider ELSE {spec.provider}}

ValidateCreate(spec) == Webhooks => provider[spec.provider] # "none"

\* A write by somebody else makes the worker's version of b an old one.
Outdate(b) == /\ fresh' = (fresh /\ cur # b)
              /\ UNCHANGED <<pc, cur, obj, ref>>

CreateBucket(b) ==
  /\ bucket[b] = None
  /\ \E request \in Requests(b) : \E spec \in Defaulted(b, request) :
       /\ ValidateCreate(spec)
       /\ bucket' = [bucket EXCEPT ![b] = NewBucket(spec)]
  /\ UNCHANGED <<account, secret, uids, caches, world, minio, worker>>

EditBucket(b) ==
  /\ "edit" \in Env
  /\ bucket[b] # None
  /\ \E request \in Requests(b) : \E spec \in Defaulted(b, request) :
       LET new == [bucket[b] EXCEPT !.spec = spec] IN
       /\ new # bucket[b] /\ ValidateUpdate(bucket[b], new)
       /\ bucket' = [bucket EXCEPT ![b] = new]
  /\ Outdate(b)
  /\ UNCHANGED <<account, secret, uids, caches, world, minio>>

\* By a user, or by the garbage collector when the owning account is gone.
DeleteBucket(b) ==
  /\ "delete" \in Env
  /\ bucket[b] # None /\ ~bucket[b].deleting
  /\ bucket' = [bucket EXCEPT ![b] = IF bucket[b].finalizer
                                     THEN [bucket[b] EXCEPT !.deleting = TRUE]
                                     ELSE None]
  /\ Outdate(b)
  /\ UNCHANGED <<account, secret, uids, caches, world, minio>>

\* Only secrets that carry the service account label are protected.
UserSecret(s) ==
  /\ "secrets" \in Env
  /\ \/ secret[s] = None /\ secret' = [secret EXCEPT ![s] = NewSecret(None, None)]
     \/ /\ secret[s] # None /\ secret[s].owner \notin Accounts
        /\ secret' = [secret EXCEPT ![s] = None]
  /\ UNCHANGED <<bucket, account, uids, caches, world, minio, worker>>

-----------------------------------------------------------------------------
(* The rest of the cluster.  The account controller is in a module of its  *)
(* own; here it publishes, withdraws and replaces credentials.             *)

PublishKeys(a) ==
  LET s == SaSecret[a] IN
  /\ account[a] # None /\ secret[s] = None
  /\ \E k \in Keys : secret' = [secret EXCEPT ![s] = NewSecret(a, k)]
  /\ UNCHANGED <<bucket, account, uids, caches, world, minio, worker>>

WithdrawKeys(a) ==
  LET s == SaSecret[a] IN
  /\ "rotate" \in Env
  /\ secret[s] # None /\ secret[s].owner = a
  /\ secret' = [secret EXCEPT ![s] = None]
  /\ UNCHANGED <<bucket, account, uids, caches, world, minio, worker>>

AccountGone(a) ==
  /\ "accounts" \in Env
  /\ account[a] # None /\ uids < MaxUid
  /\ account' = [account EXCEPT ![a] = None]
  /\ UNCHANGED <<bucket, secret, uids, caches, world, minio, worker>>

\* A MinIO user is that of every account of its name, whatever the namespace.
MinioUsers ==
  /\ "users" \in Env
  /\ userExists' \in SUBSET Accounts
  /\ UNCHANGED <<store, caches, provider, minio, worker>>

CollectSecret(s) ==
  /\ secret[s] # None
  /\ \/ secret[s].owner \in Buckets /\ bucket[secret[s].owner] = None
     \/ secret[s].owner \in Accounts /\ account[secret[s].owner] = None
  /\ secret' = [secret EXCEPT ![s] = None]
  /\ UNCHANGED <<bucket, account, uids, caches, world, minio, worker>>

ProviderChanges(p) ==
  /\ "provider" \in Env
  /\ \E st \in {"none", "broken", "usable"} \ {provider[p]} :
       provider' = [provider EXCEPT ![p] = st]
  /\ UNCHANGED <<store, caches, userExists, minio, worker>>

\* Other users of MinIO make buckets and remove the ones they made.
ForeignBucket(k) ==
  /\ "foreign" \in Env
  /\ \/ minio[k] = None /\ minio' = [minio EXCEPT ![k] = Foreign]
     \/ minio[k] = Foreign /\ minio' = [minio EXCEPT ![k] = None]
  /\ UNCHANGED <<store, caches, world, worker>>

Environment ==
  \/ \E b \in Buckets : CreateBucket(b) \/ EditBucket(b) \/ DeleteBucket(b)
  \/ \E s \in Secrets : UserSecret(s) \/ CollectSecret(s)
  \/ \E a \in Accounts : PublishKeys(a) \/ WithdrawKeys(a) \/ AccountGone(a)
  \/ MinioUsers
  \/ \E p \in Providers : ProviderChanges(p)
  \/ \E k \in Providers \X BucketNames : ForeignBucket(k)

Next == Controller \/ Informers \/ Environment

Spec == Init /\ [][Next]_vars

(***************************************************************************)
(* Fairness.  The worker finishes what it has taken up; a Bucket that      *)
(* stays in the cache is taken up again and again (retries of the rate     *)
(* limited queue, events of the Bucket and its secrets, the resync); the   *)
(* informers catch up; the account controller publishes credentials.       *)
(***************************************************************************)
Fairness ==
  /\ WF_vars(Work)
  /\ \A b \in Buckets : SF_vars(Start(b)) /\ WF_vars(SyncBucket(b))
  /\ \A a \in Accounts : WF_vars(SyncAccount(a)) /\ WF_vars(PublishKeys(a))
  /\ \A s \in Secrets : WF_vars(SyncSecret(s))

FairSpec == Spec /\ Fairness

-----------------------------------------------------------------------------
(* Properties.                                                             *)

\* The parts of the type invariant: API objects, what lies outside, the worker.
ObjectsOK ==
  /\ bucket \in [Buckets -> ObjectOrNone(BucketObject)]
  /\ bucketCache \in [Buckets -> ObjectOrNone(BucketObject)]
  /\ account \in [Accounts -> ObjectOrNone(AccountObject)]
  /\ accountCache \in [Accounts -> ObjectOrNone(AccountObject)]
  /\ secret \in [Secrets -> ObjectOrNone(SecretObject)]
  /\ secretCache \in [Secrets -> ObjectOrNone(SecretObject)]
  /\ uids \in Nat

WorldOK ==
  /\ provider \in [Providers -> {"none", "broken", "usable"}]
  /\ userExists \subseteq Accounts
  /\ minio \in [Providers \X BucketNames -> Makers]

\* What the specification of a Bucket at work at label l is known to name.
Complete(l, o) ==
  /\ l \notin {"unfinalize", "remove", "fail"} =>
       o.spec.provider \in Providers /\ o.spec.secretName \in Secrets
  /\ l \notin {"unfinalize", "remove", "fail", "account"} =>
       o.spec.serviceAccount \in Accounts

WorkerOK ==
  /\ pc \in Labels
  /\ fresh \in BOOLEAN
  /\ ref \in ObjectOrNone(OwnerRef)
  /\ IF pc = "idle" THEN cur = None /\ obj = None
                    ELSE cur \in Buckets /\ obj \in BucketObject /\ Complete(pc, obj)

\* Every variable holds a value the API objects, MinIO and the worker can hold,
\* and the worker holds a Bucket, with the references its next call needs,
\* exactly between taking it up and finishing.
TypeOK == ObjectsOK /\ WorldOK /\ WorkerOK

Exists(b) == bucket[b] # None
Wanted(b) == Exists(b) /\ ~bucket[b].deleting
Ready(b) == Exists(b) /\ IsTrue(bucket[b].conditions, "Ready")

\* A Bucket is Ready only with its endpoint recorded and no standing error,
\* and its endpoint is recorded only under the finalizer and the controller
\* reference that make its removal orderly: whatever calls fail or interleave.
Honest(o) ==
  /\ IsTrue(o.conditions, "Ready") => o.endpoint /\ ~IsTrue(o.conditions, "Error")
  /\ o.endpoint => o.finalizer /\ o.owner \in OwnerRef

StatusHonest == \A b \in Buckets : Exists(b) => Honest(bucket[b])

\* The endpoint in the status of a Bucket that is not being deleted means that
\* the MinIO bucket of that name exists and was made for this very Bucket: the
\* making, the recording and the undoing in reconcileBucket never disagree.
EndpointOwned ==
  \A b \in Buckets : Wanted(b) /\ bucket[b].endpoint =>
    minio[Place(bucket[b], b)] = b

\* The abstract life of a Bucket, what its user asks for, and its data.
LifeOf(o) ==
  IF o = None THEN "absent"
  ELSE IF o.deleting THEN "going"
  ELSE IF ~o.finalizer THEN "new"
  ELSE IF IsTrue(o.conditions, "Ready") THEN "ready"
  ELSE IF o.endpoint THEN "made" ELSE "held"

TermsOf(o) == IF o = None THEN None
              ELSE [policy |-> o.spec.reclaimPolicy, home |-> o.spec.provider]

DataOf(b) == {p \in Providers : minio[<<p, NameOf[b]>>] = b}

\* Each Bucket has one place in MinIO all its life, and has it for itself: no
\* Bucket of another namespace has its name.
OwnPlaces == /\ \A b, c \in Buckets : NameOf[b] = NameOf[c] => b = c
             /\ Webhooks \/ "edit" \notin Env

Steady == OwnPlaces /\ Webhooks /\ "provider" \notin Env
Alone  == OwnPlaces /\ ("api" \notin Faults \/ "foreign" \notin Env)

life  == [b \in Buckets |-> LifeOf(bucket[b])]
terms == [b \in Buckets |-> TermsOf(bucket[b])]
data  == [b \in Buckets |-> DataOf(b)]

Life == INSTANCE BucketLife WITH Homes <- Providers

\* The controller implements the life BucketLife promises: no step of it, of a
\* call that fails or of anybody else takes the finalizer from a Bucket that is
\* wanted, makes data for one that is gone, leaves data of policy Delete behind
\* or takes away that of a Bucket that is Ready or was retained.
LifeKept == Life!Spec

\* But for a deletion, the operator removes no MinIO bucket other than the one
\* the Bucket at work has just made: the undoing of a creation never touches a
\* bucket of another Bucket or of another user of MinIO.
OnlyOwnUndone ==
  [][\A k \in Providers \X BucketNames :
       pc' # pc /\ pc # "remove" /\ minio'[k] # minio[k]
       => minio[k] \in {None, cur}]_vars

\* The worker never puts its credentials into a secret that another Bucket or
\* an account controls at that moment, however old its caches are.
SecretsNotSeized ==
  [][\A s \in Secrets :
       /\ pc' # pc
       /\ secret[s] # None /\ secret[s].owner \notin {None, cur}
       => secret'[s] \in {secret[s], None}]_vars

\* A Bucket that stays wanted, and whose specification and account credentials
\* settle, becomes Ready for good, with a secret that carries the credentials.
\* What an earlier Bucket of the name retained would be in its way.
AccountKey(b) ==
  LET s == SaSecret[bucket[b].spec.serviceAccount] IN
  IF secret[s] = None THEN None ELSE secret[s].key

AccessSecret(b) ==
  LET s == secret[bucket[b].spec.secretName] IN
  s # None /\ s.owner = b /\ s.key = AccountKey(b)

Settled(b) == Wanted(b) /\ AccountKey(b) # None

SpecKept(b) == Exists(b) /\ Exists(b)' => bucket'[b].spec = bucket[b].spec

KeyKept(b) == Exists(b) /\ Exists(b)' => AccountKey(b)' = AccountKey(b)


\* A Bucket that is being deleted goes away once users stop editing it: every
\* edit makes the version old under which the finalizer is to be dropped.
DeletionEnds ==
  \A b \in Buckets :
    <>[][SpecKept(b)]_vars => ((Exists(b) /\ bucket[b].deleting) ~> ~Exists(b))

-----------------------------------------------------------------------------
(* What the repository says of the program and the program does not do.    *)

\* bucket_controller.go:350: without its provider the deletion of the MinIO
\* bucket is skipped.  No Bucket stays under deletion for want of a provider.
DeletionWithoutProvider ==
  \A b \in Buckets :
    ~<>[](Exists(b) /\ bucket[b].deleting /\ ProviderOf(bucket[b]) = "none")
=============================================================================
