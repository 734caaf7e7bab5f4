------------------------------ MODULE Objects ------------------------------
(***************************************************************************)
(* The Kubernetes objects the operator reads and writes, reduced to the    *)
(* fields its control flow depends on, and the two operators of            *)
(* k8s.io/apimachinery/pkg/api/meta it edits conditions with.              *)
(*                                                                         *)
(* An object name stands for a namespace/name pair.  The phase of a status *)
(* is left out: every write sets it next to a condition and nothing reads  *)
(* it.  Labels, messages, reasons and timestamps are left out as well.     *)
(***************************************************************************)
EXTENDS Naturals

CONSTANTS
  Buckets,      \* Bucket objects
  Accounts,     \* BucketServiceAccount objects
  Secrets,      \* Secret objects
  Providers,    \* BucketProvider objects
  Keys,         \* MinIO service account credentials
  None          \* an object that does not exist, a field that is not set

(***************************************************************************)
(* Conditions of a Bucket: a map from type to status.  Only membership     *)
(* and status are ever tested, so their order is abstracted away.          *)
(***************************************************************************)
BucketConditions == {"Creating", "Ready", "Error", "Deleting"}

NoConditions == [t \in BucketConditions |-> None]

SetCondition(conditions, type, status) == [conditions EXCEPT ![type] = status]

RemoveCondition(conditions, type) == [conditions EXCEPT ![type] = None]

IsTrue(conditions, type) == conditions[type] = TRUE

(***************************************************************************)
(* metadata, spec and status of a Bucket.  finalizer is the presence of    *)
(* the finalizer, deleting that of the deletion timestamp, owner the       *)
(* controller reference: the account and the UID it had.                   *)
(***************************************************************************)
OwnerRef == [account: Accounts, uid: Nat]

BucketSpec == [provider: Providers \cup {None},
               serviceAccount: Accounts \cup {None},
               secretName: Secrets \cup {None},
               reclaimPolicy: {"Delete", "Retain"}]

BucketObject == [deleting: BOOLEAN,
                 finalizer: BOOLEAN,
                 owner: OwnerRef \cup {None},
                 spec: BucketSpec,
                 endpoint: BOOLEAN,
                 secretName: Secrets \cup {None},
                 conditions: [BucketConditions -> BOOLEAN \cup {None}]]

NewBucket(spec) == [deleting   |-> FALSE,
                    finalizer  |-> FALSE,
                    owner      |-> None,
                    spec       |-> spec,
                    endpoint   |-> FALSE,
                    secretName |-> None,
                    conditions |-> NoConditions]

(***************************************************************************)
(* A Secret: the Bucket or account that controls it and the credentials it *)
(* holds.  The rest of an access secret is a function of its Bucket.       *)
(***************************************************************************)
SecretObject == [owner: Buckets \cup Accounts \cup {None},
                 key: Keys \cup {None}]

NewSecret(owner, key) == [owner |-> owner, key |-> key]

(***************************************************************************)
(* A BucketServiceAccount, identified by the UID the API server gave it.   *)
(***************************************************************************)
AccountObject == [uid: Nat, provider: Providers]

NewAccount(uid, provider) == [uid |-> uid, provider |-> provider]

ObjectOrNone(T) == T \cup {None}
=============================================================================
