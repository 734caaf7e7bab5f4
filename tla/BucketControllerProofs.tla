----------------------- MODULE BucketControllerProofs -----------------------
(***************************************************************************)
(* Theorems about the Bucket controller, for any numbers of Buckets,       *)
(* accounts, secrets, providers and credentials.                           *)
(***************************************************************************)
EXTENDS BucketController, TLAPS

-----------------------------------------------------------------------------
(* What the operators on conditions return.                                *)

ConditionMap == [BucketConditions -> BOOLEAN \cup {None}]

\* meta.SetStatusCondition gives a type its status and leaves the others.
LEMMA SetConditionMap ==
  ASSUME NEW c \in ConditionMap, NEW t \in BucketConditions, NEW st \in BOOLEAN
  PROVE  /\ SetCondition(c, t, st) \in ConditionMap
         /\ SetCondition(c, t, st)[t] = st
         /\ \A u \in BucketConditions \ {t} : SetCondition(c, t, st)[u] = c[u]
BY DEF SetCondition, ConditionMap

\* meta.RemoveStatusCondition unsets a type and leaves the others.
LEMMA RemoveConditionMap ==
  ASSUME NEW c \in ConditionMap, NEW t \in BucketConditions
  PROVE  /\ RemoveCondition(c, t) \in ConditionMap
         /\ RemoveCondition(c, t)[t] = None
         /\ \A u \in BucketConditions \ {t} : RemoveCondition(c, t)[u] = c[u]
BY DEF RemoveCondition, ConditionMap

-----------------------------------------------------------------------------
(* Types.                                                                  *)

\* Each write the controller makes of a Bucket is a Bucket again.
LEMMA BucketUpdates ==
  ASSUME NEW o \in BucketObject
  PROVE  /\ [o EXCEPT !.finalizer = TRUE] \in BucketObject
         /\ [o EXCEPT !.deleting = TRUE] \in BucketObject
         /\ [o EXCEPT !.endpoint = TRUE] \in BucketObject
         /\ \A r \in ObjectOrNone(OwnerRef) : [o EXCEPT !.owner = r] \in BucketObject
         /\ \A s \in Secrets : [o EXCEPT !.secretName = s] \in BucketObject
         /\ \A sp \in BucketSpec : [o EXCEPT !.spec = sp] \in BucketObject
         /\ \A p \in Providers : [o EXCEPT !.spec.provider = p] \in BucketObject
         /\ \A s \in Secrets : [o EXCEPT !.spec.secretName = s] \in BucketObject
         /\ \A c \in ConditionMap : [o EXCEPT !.conditions = c] \in BucketObject
         /\ o.conditions \in ConditionMap
BY DEF BucketObject, BucketSpec, ConditionMap, ObjectOrNone

LEMMA FinishTyped == Finish => WorkerOK'
BY DEF Finish, WorkerOK, Labels, ObjectOrNone

LEMMA ContinueTyped ==
  ASSUME WorkerOK, pc # "idle", NEW l \in Labels, NEW f \in BOOLEAN,
         NEW o, l # "idle" => o \in BucketObject /\ Complete(l, o),
         Continue(l, f, o)
  PROVE  WorkerOK'
BY FinishTyped DEF Continue, WorkerOK

LEMMA WriteTyped ==
  ASSUME TypeOK, pc # "idle", NEW new \in ObjectOrNone(BucketObject),
         NEW admitted, NEW ok \in Labels, NEW ko \in Labels,
         NEW mem \in BucketObject,
         ok # "idle" => new \in BucketObject /\ Complete(ok, new),
         ko # "idle" => Complete(ko, mem),
         Write(new, admitted, ok, ko, mem)
  PROVE  bucket' \in [Buckets -> ObjectOrNone(BucketObject)] /\ WorkerOK'
<1>1. bucket' \in [Buckets -> ObjectOrNone(BucketObject)]
  BY DEF Write, TypeOK, ObjectsOK, WorkerOK
<1>2. WorkerOK'
  <2>1. CASE Continue(ok, TRUE, new)
    BY <2>1, ContinueTyped DEF TypeOK
  <2>2. CASE Continue(ko, FALSE, mem)
    BY <2>2, ContinueTyped DEF TypeOK
  <2>3. CASE Continue(ko, fresh, mem)
    BY <2>3, ContinueTyped DEF TypeOK, WorkerOK
  <2>q. QED BY <2>1, <2>2, <2>3 DEF Write
<1>q. QED BY <1>1, <1>2

LEMMA WriteAndReturnTyped ==
  ASSUME TypeOK, NEW b \in Buckets, NEW new \in BucketObject, NEW admitted,
         WriteAndReturn(b, new, admitted)
  PROVE  TypeOK'
<1>1. ObjectsOK'
  BY DEF WriteAndReturn, TypeOK, ObjectsOK, ObjectOrNone, caches
<1>2. WorldOK' /\ WorkerOK'
  BY DEF WriteAndReturn, TypeOK, WorldOK, WorkerOK, world, worker
<1>q. QED BY <1>1, <1>2 DEF TypeOK

\* Taking up a key brings a Bucket of the cache into the worker's memory.
LEMMA LoadTyped ==
  ASSUME TypeOK, NEW b \in Buckets, Begin(b),
         NEW l \in Labels \ {"idle"}, NEW r \in ObjectOrNone(OwnerRef),
         Complete(l, bucketCache[b]),
         Load(b, l, r), UNCHANGED <<store, caches, world, minio>>
  PROVE  TypeOK'
<1>1. ObjectsOK' /\ WorldOK'
  BY DEF TypeOK, ObjectsOK, WorldOK, store, caches, world
<1>2. WorkerOK'
  BY DEF Load, Begin, TypeOK, ObjectsOK, WorkerOK, ObjectOrNone
<1>q. QED BY <1>1, <1>2 DEF TypeOK

LEMMA StartTyped ==
  ASSUME TypeOK, NEW b \in Buckets, Start(b)
  PROVE  TypeOK'
<1> DEFINE o == bucketCache[b]
<1> USE ConstantsOK
<1>o. o \in BucketObject
  BY DEF Start, MarkDeleting, StartDeletion, AddFinalizer, SetProvider,
         NoDefaultProvider, SetSecretName, MarkCreating, ProviderInvalid,
         AccountMissing, AccountFound, Reconcilable, Specified, Prepared, Begin,
         TypeOK, ObjectsOK, ObjectOrNone
<1>1. CASE MarkDeleting(b)
  <2>1. [o EXCEPT !.conditions = SetCondition(o.conditions, "Deleting", TRUE)] \in BucketObject
    BY <1>o, BucketUpdates, SetConditionMap DEF BucketConditions
  <2>q. QED BY <1>1, <2>1, WriteAndReturnTyped DEF MarkDeleting
<1>f. \A l \in {"unfinalize", "remove", "fail"} : Complete(l, o)
  BY DEF Complete
<1>c. Specified(b) => Complete("account", o)
  BY <1>o DEF Specified, Complete, BucketObject, BucketSpec
<1>2. CASE StartDeletion(b)
  BY <1>2, <1>f, LoadTyped DEF StartDeletion, Labels, ObjectOrNone
<1>3. CASE AddFinalizer(b)
  BY <1>3, <1>o, BucketUpdates, WriteAndReturnTyped DEF AddFinalizer
<1>4. CASE SetProvider(b)
  <2>1. PICK p \in DefaultProvider :
          LET new == [o EXCEPT !.spec.provider = p] IN
          WriteAndReturn(b, new, ValidateUpdate(o, new))
    BY <1>4 DEF SetProvider
  <2>2. p \in Providers
    BY DEF DefaultProvider, ConstantsOK
  <2>q. QED BY <2>1, <2>2, <1>o, BucketUpdates, WriteAndReturnTyped
<1>5. CASE SetSecretName(b)
  <2>1. DefaultSecret[b] \in Secrets
    BY DEF ConstantsOK
  <2>q. QED BY <1>5, <2>1, <1>o, BucketUpdates, WriteAndReturnTyped DEF SetSecretName
<1>6. CASE MarkCreating(b)
  <2>1. [o EXCEPT !.conditions = SetCondition(o.conditions, "Creating", TRUE)] \in BucketObject
    BY <1>o, BucketUpdates, SetConditionMap DEF BucketConditions
  <2>q. QED BY <1>6, <2>1, WriteAndReturnTyped DEF MarkCreating
<1>7. CASE NoDefaultProvider(b)
  BY <1>7, <1>f, LoadTyped DEF NoDefaultProvider, Prepared, Labels, ObjectOrNone
<1>8. CASE ProviderInvalid(b)
  BY <1>8, <1>f, LoadTyped DEF ProviderInvalid, Reconcilable, Specified, Prepared, Labels, ObjectOrNone
<1>9. CASE AccountMissing(b)
  BY <1>9, <1>c, LoadTyped DEF AccountMissing, Reconcilable, Specified, Prepared, Labels, ObjectOrNone
<1>10. CASE AccountFound(b)
  <2> DEFINE a == o.spec.serviceAccount
             r == [account |-> a, uid |-> AccountSeen(o).uid]
  <2>1. Begin(b) /\ AccountSeen(o) # None /\ Load(b, IF o.owner = r THEN "bucket" ELSE "own", r)
    BY <1>10 DEF AccountFound, Reconcilable, Specified, Prepared
  <2>2. a \in Accounts /\ AccountSeen(o) = accountCache[a]
    BY <2>1, <1>o DEF AccountSeen, BucketObject, BucketSpec
  <2>3. AccountSeen(o) \in AccountObject
    BY <2>1, <2>2 DEF TypeOK, ObjectsOK, ObjectOrNone
  <2>4. r \in ObjectOrNone(OwnerRef)
    BY <2>2, <2>3 DEF AccountObject, OwnerRef, ObjectOrNone
  <2>5. (IF o.owner = r THEN "bucket" ELSE "own") \in Labels \ {"idle"}
    BY DEF Labels
  <2>6. UNCHANGED <<store, caches, world, minio>> /\ Specified(b)
    BY <1>10 DEF AccountFound, Reconcilable
  <2>7. \A l : Complete(l, o)
    BY <2>2, <2>6, <1>c DEF Complete
  <2> HIDE DEF r
  <2>q. QED BY <2>1, <2>4, <2>5, <2>6, <2>7, LoadTyped
<1>q. QED BY <1>1, <1>2, <1>3, <1>4, <1>5, <1>6, <1>7, <1>8, <1>9, <1>10 DEF Start

\* A step that writes only MinIO or secrets and goes to another label.
LEMMA GotoTyped ==
  ASSUME WorkerOK, pc # "idle", NEW l \in Labels,
         l # "idle" => Complete(l, obj), Goto(l)
  PROVE  WorkerOK'
BY ContinueTyped DEF Goto, WorkerOK

LEMMA WorkTyped ==
  ASSUME TypeOK, Work
  PROVE  TypeOK'
<1> USE ConstantsOK
<1>pc. pc # "idle"
  BY DEF Work, RemoveMinioBucket, DropFinalizer, CreateAccount, SetOwner,
         CheckMinioBucket, MakeMinioBucket, SaveEndpoint, UndoMinioBucket,
         DeleteOldSecret, AwaitKeys, SecretTaken, UpdateSecret, CreateSecret,
         SaveSecretName, UndoSecret, SetReady, RecordError
<1>o. cur \in Buckets /\ obj \in BucketObject /\ WorkerOK
  BY <1>pc DEF TypeOK, WorkerOK
<1>f. \A l \in {"unfinalize", "remove", "fail"} : Complete(l, obj)
  BY DEF Complete
<1>c. pc \notin {"unfinalize", "remove", "fail", "account"} =>
        /\ \A l : Complete(l, obj)
        /\ obj.spec.provider \in Providers
        /\ obj.spec.secretName \in Secrets
        /\ obj.spec.serviceAccount \in Accounts
        /\ SaSecret[obj.spec.serviceAccount] \in Secrets
  BY <1>pc DEF TypeOK, WorkerOK, Complete, ConstantsOK
<1>k. Place(obj, cur) \in (Providers \cup {None}) \X BucketNames
  BY <1>o DEF Place, BucketObject, BucketSpec, ConstantsOK
<1>l. /\ SecretStep \in Labels /\ ReadyStep \in Labels
      /\ {"idle", "unfinalize", "remove", "account", "own", "bucket", "make",
          "endpoint", "undoBucket", "oldSecret", "secret", "saveSecret",
          "undoSecret", "ready", "fail"} = Labels
  BY DEF SecretStep, ReadyStep, Labels
<1>1. CASE RemoveMinioBucket
  <2>1. ObjectsOK'
    BY <1>1 DEF RemoveMinioBucket, TypeOK, ObjectsOK, store, caches
  <2>2. WorldOK'
    BY <1>1, <1>k DEF RemoveMinioBucket, TypeOK, WorldOK, Makers, world
  <2>3. WorkerOK'
    BY <1>1, <1>pc, <1>o, <1>l, <1>f, <1>c, GotoTyped, FinishTyped DEF RemoveMinioBucket
  <2>q. QED BY <2>1, <2>2, <2>3 DEF TypeOK
<1>2. CASE DropFinalizer
  <2>1. bucket' \in [Buckets -> ObjectOrNone(BucketObject)] /\ WorkerOK'
    BY <1>2, <1>pc, <1>o, <1>l, <1>f, <1>c, WriteTyped DEF DropFinalizer, ObjectOrNone
  <2>q. QED BY <1>2, <2>1 DEF DropFinalizer, TypeOK, ObjectsOK, WorldOK, caches, world
<1>3. CASE CreateAccount
  <2> DEFINE a == obj.spec.serviceAccount
  <2>1. WorkerOK'
    <3>1. CASE pc' = "own" /\ ref' = [account |-> a, uid |-> uids'] /\ uids' = uids + 1
               /\ a # None /\ UNCHANGED <<cur, fresh, obj>>
      <4>1. ref' \in OwnerRef
        BY <3>1, <1>o DEF OwnerRef, BucketObject, BucketSpec, TypeOK, ObjectsOK
      <4>2. Complete("own", obj)
        BY <3>1, <1>3, <1>pc, <1>o DEF CreateAccount, WorkerOK, Complete, BucketObject, BucketSpec
      <4>q. QED BY <3>1, <4>1, <4>2, <1>o, <1>pc DEF WorkerOK, Labels, ObjectOrNone
    <3>2. CASE Goto("fail")
      BY <3>2, <1>pc, <1>o, <1>l, <1>f, <1>c, GotoTyped
    <3>q. QED BY <1>3, <3>1, <3>2 DEF CreateAccount
  <2>2. ObjectsOK'
    <3>0. obj.spec.provider \in Providers
      BY <1>3, <1>pc, <1>o DEF CreateAccount, WorkerOK, Complete
    <3>1. CASE a # None /\ uids' = uids + 1
               /\ account' = [account EXCEPT ![a] = NewAccount(uids', obj.spec.provider)]
      BY <3>0, <3>1, <1>3, <1>o DEF CreateAccount, TypeOK, ObjectsOK, NewAccount, AccountObject,
           ObjectOrNone, BucketObject, BucketSpec, caches
    <3>2. CASE UNCHANGED <<account, uids>>
      BY <3>2, <1>3 DEF CreateAccount, TypeOK, ObjectsOK, caches
    <3>q. QED BY <1>3, <3>1, <3>2 DEF CreateAccount
  <2>3. WorldOK'
    BY <1>3 DEF CreateAccount, TypeOK, WorldOK, world
  <2>q. QED BY <2>1, <2>2, <2>3 DEF TypeOK
<1>4. CASE SetOwner
  <2>1. [obj EXCEPT !.owner = ref] \in BucketObject
    BY <1>o, BucketUpdates DEF WorkerOK
  <2>2. bucket' \in [Buckets -> ObjectOrNone(BucketObject)] /\ WorkerOK'
    BY <1>4, <2>1, <1>pc, <1>o, <1>l, <1>f, <1>c, WriteTyped DEF SetOwner, ObjectOrNone
  <2>q. QED BY <1>4, <2>2 DEF SetOwner, TypeOK, ObjectsOK, WorldOK, caches, world
<1>5. CASE CheckMinioBucket
  <2>1. WorkerOK'
    BY <1>5, <1>pc, <1>o, <1>l, <1>f, <1>c, GotoTyped DEF CheckMinioBucket
  <2>q. QED BY <1>5, <2>1 DEF CheckMinioBucket, TypeOK, ObjectsOK, WorldOK, store, caches, world
<1>6. CASE MakeMinioBucket
  <2>1. WorldOK'
    BY <1>6, <1>o DEF MakeMinioBucket, TypeOK, WorldOK, Makers, world
  <2>2. WorkerOK'
    BY <1>6, <1>pc, <1>o, <1>l, <1>f, <1>c, GotoTyped DEF MakeMinioBucket
  <2>q. QED BY <1>6, <2>1, <2>2 DEF MakeMinioBucket, TypeOK, ObjectsOK, store, caches
<1>7. CASE SaveEndpoint
  <2> DEFINE new == [obj EXCEPT !.endpoint = TRUE]
  <2>1. new \in BucketObject
    BY <1>o, BucketUpdates
  <2>2. pc = "endpoint" /\ Complete("undoBucket", new)
    BY <1>7, <1>o, <1>c DEF SaveEndpoint, Complete, BucketObject
  <2>3. bucket' \in [Buckets -> ObjectOrNone(BucketObject)] /\ WorkerOK'
    BY <1>7, <2>1, <2>2, <1>pc, <1>o, <1>l, WriteTyped DEF SaveEndpoint, ObjectOrNone
  <2>q. QED BY <1>7, <2>3 DEF SaveEndpoint, TypeOK, ObjectsOK, WorldOK, caches, world
<1>8. CASE UndoMinioBucket
  <2>1. WorldOK'
    BY <1>8 DEF UndoMinioBucket, TypeOK, WorldOK, Makers, world
  <2>2. WorkerOK'
    BY <1>8, <1>pc, <1>o, <1>l, <1>f, <1>c, GotoTyped DEF UndoMinioBucket
  <2>q. QED BY <1>8, <2>1, <2>2 DEF UndoMinioBucket, TypeOK, ObjectsOK, store, caches
<1>9. pc = "secret" /\ SeenKeys # None => NewSecret(cur, SeenKeys.key) \in SecretObject
  <2>1. pc = "secret" /\ SeenKeys # None => SeenKeys \in SecretObject
    BY <1>c DEF SeenKeys, TypeOK, ObjectsOK, ObjectOrNone
  <2>q. QED BY <2>1, <1>o DEF NewSecret, SecretObject
<1>s. ASSUME secret' \in [Secrets -> ObjectOrNone(SecretObject)], WorkerOK',
             UNCHANGED <<bucket, account, uids, caches, world, minio>>
      PROVE  TypeOK'
  BY <1>s DEF TypeOK, ObjectsOK, WorldOK, caches, world
<1>10. CASE DeleteOldSecret
  <2>1. secret' \in [Secrets -> ObjectOrNone(SecretObject)]
    BY <1>10 DEF DeleteOldSecret, TypeOK, ObjectsOK, ObjectOrNone
  <2>2. WorkerOK'
    BY <1>10, <1>pc, <1>o, <1>l, <1>f, <1>c, GotoTyped DEF DeleteOldSecret
  <2>q. QED BY <1>10, <2>1, <2>2, <1>s DEF DeleteOldSecret
<1>11. CASE AwaitKeys
  BY <1>11, FinishTyped DEF AwaitKeys, TypeOK, ObjectsOK, WorldOK, store, caches, world
<1>12. CASE SecretTaken
  <2>1. WorkerOK'
    BY <1>12, <1>pc, <1>o, <1>l, <1>f, <1>c, GotoTyped DEF SecretTaken
  <2>q. QED BY <1>12, <2>1 DEF SecretTaken, TypeOK, ObjectsOK, WorldOK, store, caches, world
<1>13. CASE UpdateSecret
  <2>1. secret' \in [Secrets -> ObjectOrNone(SecretObject)]
    BY <1>13, <1>9 DEF UpdateSecret, TypeOK, ObjectsOK, ObjectOrNone
  <2>2. WorkerOK'
    BY <1>13, <1>pc, <1>o, <1>l, <1>f, <1>c, GotoTyped DEF UpdateSecret
  <2>q. QED BY <1>13, <2>1, <2>2, <1>s DEF UpdateSecret
<1>14. CASE CreateSecret
  <2>1. secret' \in [Secrets -> ObjectOrNone(SecretObject)]
    BY <1>14, <1>9 DEF CreateSecret, TypeOK, ObjectsOK, ObjectOrNone
  <2> DEFINE new == [obj EXCEPT !.secretName = obj.spec.secretName]
  <2>2. pc = "secret" /\ new \in BucketObject /\ Complete("saveSecret", new)
    BY <1>14, <1>o, <1>c, BucketUpdates DEF CreateSecret, Complete, BucketObject
  <2>3. WorkerOK'
    <3>1. CASE Continue("saveSecret", fresh, new)
      BY <3>1, <2>2, <1>pc, <1>o, <1>l, ContinueTyped DEF WorkerOK
    <3>2. CASE Goto("fail")
      BY <3>2, <1>pc, <1>o, <1>l, <1>f, GotoTyped
    <3>q. QED BY <1>14, <3>1, <3>2 DEF CreateSecret
  <2>q. QED BY <1>14, <2>1, <2>3, <1>s DEF CreateSecret
<1>15. CASE SaveSecretName
  <2>1. bucket' \in [Buckets -> ObjectOrNone(BucketObject)] /\ WorkerOK'
    BY <1>15, <1>pc, <1>o, <1>l, <1>c, WriteTyped DEF SaveSecretName, ObjectOrNone
  <2>q. QED BY <1>15, <2>1 DEF SaveSecretName, TypeOK, ObjectsOK, WorldOK, caches, world
<1>16. CASE UndoSecret
  <2>1. secret' \in [Secrets -> ObjectOrNone(SecretObject)]
    BY <1>16 DEF UndoSecret, TypeOK, ObjectsOK, ObjectOrNone
  <2>2. WorkerOK'
    BY <1>16, <1>pc, <1>o, <1>l, <1>f, GotoTyped DEF UndoSecret
  <2>q. QED BY <1>16, <2>1, <2>2, <1>s DEF UndoSecret
<1>17. CASE SetReady
  <2> DEFINE c == SetCondition(RemoveCondition(RemoveCondition(obj.conditions, "Creating"),
                                               "Error"), "Ready", TRUE)
  <2>1. c \in ConditionMap
    BY <1>o, BucketUpdates, SetConditionMap, RemoveConditionMap DEF BucketConditions
  <2>2. [obj EXCEPT !.conditions = c] \in BucketObject
    BY <2>1, <1>o, BucketUpdates
  <2>3. bucket' \in [Buckets -> ObjectOrNone(BucketObject)] /\ WorkerOK'
    BY <1>17, <2>2, <1>pc, <1>o, <1>l, WriteTyped DEF SetReady, ObjectOrNone
  <2>q. QED BY <1>17, <2>3 DEF SetReady, TypeOK, ObjectsOK, WorldOK, caches, world
<1>18. CASE RecordError
  <2> DEFINE c == SetCondition(SetCondition(obj.conditions, "Ready", FALSE), "Error", TRUE)
  <2>1. c \in ConditionMap
    BY <1>o, BucketUpdates, SetConditionMap DEF BucketConditions
  <2>2. [obj EXCEPT !.conditions = c] \in BucketObject
    BY <2>1, <1>o, BucketUpdates
  <2>3. bucket' \in [Buckets -> ObjectOrNone(BucketObject)] /\ WorkerOK'
    BY <1>18, <2>2, <1>pc, <1>o, <1>l, WriteTyped DEF RecordError, ObjectOrNone
  <2>q. QED BY <1>18, <2>3 DEF RecordError, TypeOK, ObjectsOK, WorldOK, caches, world
<1>q. QED BY <1>1, <1>2, <1>3, <1>4, <1>5, <1>6, <1>7, <1>8, <1>10, <1>11, <1>12, <1>13,
             <1>14, <1>15, <1>16, <1>17, <1>18 DEF Work

LEMMA InformersTyped ==
  ASSUME TypeOK, Informers
  PROVE  TypeOK'
BY DEF Informers, SyncBucket, SyncAccount, SyncSecret, TypeOK, ObjectsOK, WorldOK,
       WorkerOK, Complete, store, world, worker

\* Whatever a user asks for, the webhook makes a specification of it.
LEMMA DefaultedSpec ==
  ASSUME NEW b \in Buckets, NEW request \in Requests(b), NEW spec \in Defaulted(b, request)
  PROVE  spec \in BucketSpec
<1>1. request \in BucketSpec
  BY ConstantsOK DEF Requests, BucketSpec
<1>2. DefaultProvider \subseteq Providers /\ DefaultAccount[b] \in Accounts
      /\ DefaultSecret[b] \in Secrets
  BY ConstantsOK DEF DefaultProvider
<1>3. CASE Webhooks
  <2>1. PICK p \in Providers \cup {None} :
          spec = [request EXCEPT !.provider = p,
                     !.serviceAccount = Or(request.serviceAccount, DefaultAccount[b]),
                     !.secretName = Or(request.secretName, DefaultSecret[b])]
    BY <1>1, <1>2, <1>3 DEF Defaulted, BucketSpec
  <2>2. /\ Or(request.serviceAccount, DefaultAccount[b]) \in Accounts \cup {None}
        /\ Or(request.secretName, DefaultSecret[b]) \in Secrets \cup {None}
    BY <1>1, <1>2 DEF Or, BucketSpec
  <2>q. QED BY <1>1, <2>1, <2>2 DEF BucketSpec
<1>4. CASE ~Webhooks
  BY <1>1, <1>4 DEF Defaulted
<1>q. QED BY <1>3, <1>4

LEMMA EnvironmentTyped ==
  ASSUME TypeOK, Environment
  PROVE  TypeOK'
<1> USE ConstantsOK
<1>b. ASSUME bucket' \in [Buckets -> ObjectOrNone(BucketObject)], WorkerOK',
             UNCHANGED <<account, secret, uids, caches, world, minio>>
      PROVE  TypeOK'
  BY <1>b DEF TypeOK, ObjectsOK, WorldOK, caches, world
<1>s. ASSUME secret' \in [Secrets -> ObjectOrNone(SecretObject)],
             UNCHANGED <<bucket, account, uids, caches, world, minio, worker>>
      PROVE  TypeOK'
  BY <1>s DEF TypeOK, ObjectsOK, WorldOK, WorkerOK, Complete, caches, world, worker
<1>w. ASSUME WorldOK', UNCHANGED <<store, caches, worker>>
      PROVE  TypeOK'
  BY <1>w DEF TypeOK, ObjectsOK, WorkerOK, Complete, store, caches, worker
<1>1. ASSUME NEW b \in Buckets, CreateBucket(b) \/ EditBucket(b) \/ DeleteBucket(b)
      PROVE  TypeOK'
  <2>1. CASE CreateBucket(b)
    <3>0. PICK request \in Requests(b) : \E spec \in Defaulted(b, request) :
            bucket' = [bucket EXCEPT ![b] = NewBucket(spec)]
      BY <2>1 DEF CreateBucket
    <3>1. PICK spec \in Defaulted(b, request) :
            bucket' = [bucket EXCEPT ![b] = NewBucket(spec)]
      BY <3>0
    <3>2. NewBucket(spec) \in BucketObject
      BY <3>1, DefaultedSpec DEF NewBucket, BucketObject, NoConditions, ObjectOrNone
    <3>3. bucket' \in [Buckets -> ObjectOrNone(BucketObject)]
      BY <3>1, <3>2 DEF TypeOK, ObjectsOK, ObjectOrNone
    <3>4. WorkerOK'
      BY <2>1 DEF CreateBucket, TypeOK, WorkerOK, Complete, worker
    <3>q. QED BY <2>1, <3>3, <3>4, <1>b DEF CreateBucket
  <2>2. Outdate(b) => WorkerOK'
    BY DEF Outdate, TypeOK, WorkerOK, Complete
  <2>3. CASE EditBucket(b)
    <3>0. PICK request \in Requests(b) : \E spec \in Defaulted(b, request) :
            bucket' = [bucket EXCEPT ![b] = [bucket[b] EXCEPT !.spec = spec]]
      BY <2>3 DEF EditBucket
    <3>1. PICK spec \in Defaulted(b, request) :
            bucket' = [bucket EXCEPT ![b] = [bucket[b] EXCEPT !.spec = spec]]
      BY <3>0
    <3>2. bucket[b] \in BucketObject
      BY <2>3 DEF EditBucket, TypeOK, ObjectsOK, ObjectOrNone
    <3>3. [bucket[b] EXCEPT !.spec = spec] \in BucketObject
      BY <3>1, <3>2, DefaultedSpec, BucketUpdates
    <3>4. bucket' \in [Buckets -> ObjectOrNone(BucketObject)]
      BY <3>1, <3>3 DEF TypeOK, ObjectsOK, ObjectOrNone
    <3>q. QED BY <2>2, <2>3, <3>4, <1>b DEF EditBucket
  <2>4. CASE DeleteBucket(b)
    <3>1. bucket[b] \in BucketObject
      BY <2>4 DEF DeleteBucket, TypeOK, ObjectsOK, ObjectOrNone
    <3>2. [bucket[b] EXCEPT !.deleting = TRUE] \in BucketObject
      BY <3>1, BucketUpdates
    <3>3. bucket' \in [Buckets -> ObjectOrNone(BucketObject)]
      BY <2>4, <3>2 DEF DeleteBucket, TypeOK, ObjectsOK, ObjectOrNone
    <3>q. QED BY <2>2, <2>4, <3>3, <1>b DEF DeleteBucket
  <2>q. QED BY <1>1, <2>1, <2>3, <2>4
<1>2. ASSUME NEW s \in Secrets, UserSecret(s) \/ CollectSecret(s)
      PROVE  TypeOK'
  <2>1. NewSecret(None, None) \in SecretObject
    BY DEF NewSecret, SecretObject
  <2>2. secret' \in [Secrets -> ObjectOrNone(SecretObject)]
    BY <1>2, <2>1 DEF UserSecret, CollectSecret, TypeOK, ObjectsOK, ObjectOrNone
  <2>q. QED BY <1>2, <2>2, <1>s DEF UserSecret, CollectSecret
<1>3. ASSUME NEW a \in Accounts, PublishKeys(a) \/ WithdrawKeys(a)
      PROVE  TypeOK'
  <2>1. \A k \in Keys : NewSecret(a, k) \in SecretObject
    BY DEF NewSecret, SecretObject
  <2>2. secret' \in [Secrets -> ObjectOrNone(SecretObject)]
    BY <1>3, <2>1 DEF PublishKeys, WithdrawKeys, TypeOK, ObjectsOK, ObjectOrNone
  <2>q. QED BY <1>3, <2>2, <1>s DEF PublishKeys, WithdrawKeys
<1>4. ASSUME NEW a \in Accounts, AccountGone(a)
      PROVE  TypeOK'
  BY <1>4 DEF AccountGone, TypeOK, ObjectsOK, WorldOK, WorkerOK, Complete, ObjectOrNone,
              caches, world, worker
<1>5. ASSUME MinioUsers
      PROVE  TypeOK'
  BY <1>5, <1>w DEF MinioUsers, TypeOK, WorldOK
<1>6. ASSUME NEW p \in Providers, ProviderChanges(p)
      PROVE  TypeOK'
  BY <1>6, <1>w DEF ProviderChanges, TypeOK, WorldOK
<1>7. ASSUME NEW k \in Providers \X BucketNames, ForeignBucket(k)
      PROVE  TypeOK'
  <2>1. WorldOK'
    BY <1>7 DEF ForeignBucket, TypeOK, WorldOK, Makers, world
  <2>q. QED BY <1>7, <2>1, <1>w DEF ForeignBucket
<1>q. QED BY <1>1, <1>2, <1>3, <1>4, <1>5, <1>6, <1>7 DEF Environment

LEMMA InitTyped == Init => TypeOK
<1> SUFFICES ASSUME Init PROVE TypeOK
  OBVIOUS
<1>1. ObjectsOK
  BY DEF Init, ObjectsOK, ObjectOrNone
<1>2. WorldOK
  BY DEF Init, WorldOK, Makers
<1>3. WorkerOK
  BY DEF Init, WorkerOK, Labels, ObjectOrNone
<1>q. QED BY <1>1, <1>2, <1>3 DEF TypeOK

LEMMA NextTyped == TypeOK /\ [Next]_vars => TypeOK'
<1> SUFFICES ASSUME TypeOK, [Next]_vars PROVE TypeOK'
  OBVIOUS
<1>1. CASE \E b \in Buckets : Start(b)
  BY <1>1, StartTyped
<1>2. CASE Work
  BY <1>2, WorkTyped
<1>3. CASE Crash
  BY <1>3, FinishTyped DEF Crash, TypeOK, ObjectsOK, WorldOK, store, caches, world
<1>4. CASE Informers
  BY <1>4, InformersTyped
<1>5. CASE Environment
  BY <1>5, EnvironmentTyped
<1>6. CASE UNCHANGED vars
  BY <1>6 DEF TypeOK, ObjectsOK, WorldOK, WorkerOK, Complete, vars, store, caches, world, worker
<1>q. QED BY <1>1, <1>2, <1>3, <1>4, <1>5, <1>6 DEF Next, Controller

\* Whatever fails and however steps interleave, every object stays one the API
\* server can hold, and the worker never calls MinIO or the API server for a
\* Bucket whose specification lacks what the call needs.
THEOREM TypeCorrect == Spec => []TypeOK
BY InitTyped, NextTyped, PTL DEF Spec

-----------------------------------------------------------------------------
(* StatusHonest.  It is not inductive: the status the worker is about to   *)
(* write depends on what it has read and done before.  HonestAt says what  *)
(* the Bucket in memory has by then, call by call.                         *)

HonestAt(l, o) ==
  /\ Honest(o)
  /\ l \notin {"unfinalize", "remove", "fail"} => o.finalizer
  /\ l \notin {"unfinalize", "remove", "fail", "account", "own"} => o.owner \in OwnerRef
  /\ l \in {"oldSecret", "secret", "saveSecret", "undoSecret", "ready"} => o.endpoint

HonestWorker == /\ pc # "idle" => HonestAt(pc, obj)
                /\ pc = "own" => ref \in OwnerRef

HonestObjects(store_) == \A b \in Buckets : store_[b] # None => Honest(store_[b])

HonestInv == HonestObjects(bucket) /\ HonestObjects(bucketCache) /\ HonestWorker

\* Leaves of Honest: what each kind of write keeps of it.
LEMMA HonestUpdates ==
  ASSUME NEW o \in BucketObject, Honest(o)
  PROVE  /\ Honest([o EXCEPT !.finalizer = TRUE])
         /\ Honest([o EXCEPT !.deleting = TRUE])
         /\ \A r \in OwnerRef : Honest([o EXCEPT !.owner = r])
         /\ \A s \in Secrets : Honest([o EXCEPT !.secretName = s])
         /\ \A sp \in BucketSpec : Honest([o EXCEPT !.spec = sp])
         /\ \A p \in Providers : Honest([o EXCEPT !.spec.provider = p])
         /\ \A s \in Secrets : Honest([o EXCEPT !.spec.secretName = s])
         /\ o.finalizer /\ o.owner \in OwnerRef => Honest([o EXCEPT !.endpoint = TRUE])
BY DEF Honest, BucketObject, BucketSpec, IsTrue

\* A change of conditions is honest when Ready comes with the endpoint and
\* without the error.
LEMMA HonestConditions ==
  ASSUME NEW o \in BucketObject, Honest(o), NEW c \in ConditionMap,
         c["Ready"] = TRUE => o.endpoint /\ c["Error"] # TRUE
  PROVE  Honest([o EXCEPT !.conditions = c])
BY DEF Honest, BucketObject, IsTrue

LEMMA HonestContinue ==
  ASSUME pc # "idle", HonestWorker, NEW l, NEW f, NEW o,
         l # "idle" => HonestAt(l, o), l # "own", Continue(l, f, o)
  PROVE  HonestWorker'
BY DEF Continue, Finish, HonestWorker, HonestAt, Honest

LEMMA HonestGoto ==
  ASSUME pc # "idle", HonestInv, NEW l, l # "idle" => HonestAt(l, obj), l # "own",
         Goto(l), UNCHANGED <<bucket, bucketCache>>
  PROVE  HonestInv'
BY HonestContinue DEF Goto, HonestInv, HonestObjects, Honest

LEMMA HonestWrite ==
  ASSUME TypeOK, HonestInv, pc # "idle", NEW new, new = None \/ Honest(new),
         NEW admitted, NEW ok, NEW ko, NEW mem,
         ok # "idle" => HonestAt(ok, new), ok # "own",
         ko # "idle" => HonestAt(ko, mem), ko # "own",
         Write(new, admitted, ok, ko, mem), UNCHANGED bucketCache
  PROVE  HonestInv'
<1>1. HonestWorker'
  BY HonestContinue DEF Write, HonestInv
<1>2. HonestObjects(bucket)'
  BY DEF Write, HonestInv, HonestObjects, Honest, TypeOK, ObjectsOK, WorkerOK
<1>3. HonestObjects(bucketCache)'
  BY DEF HonestInv, HonestObjects, Honest
<1>q. QED BY <1>1, <1>2, <1>3 DEF HonestInv

LEMMA HonestReturn ==
  ASSUME TypeOK, HonestInv, NEW b \in Buckets, NEW new, Honest(new), NEW admitted,
         WriteAndReturn(b, new, admitted)
  PROVE  HonestInv'
<1>1. HonestObjects(bucket)'
  BY DEF WriteAndReturn, HonestInv, HonestObjects, Honest, TypeOK, ObjectsOK
<1>2. HonestObjects(bucketCache)' /\ HonestWorker'
  BY DEF WriteAndReturn, HonestInv, HonestObjects, HonestWorker, HonestAt, Honest, caches, worker
<1>q. QED BY <1>1, <1>2 DEF HonestInv

LEMMA HonestLoad ==
  ASSUME HonestInv, NEW b \in Buckets, NEW l, HonestAt(l, bucketCache[b]), NEW r,
         l = "own" => r \in OwnerRef, Load(b, l, r), UNCHANGED <<bucket, bucketCache>>
  PROVE  HonestInv'
BY DEF Load, HonestInv, HonestObjects, HonestWorker, HonestAt, Honest

LEMMA StartHonest ==
  ASSUME TypeOK, HonestInv, NEW b \in Buckets, Start(b)
  PROVE  HonestInv'
<1> DEFINE o == bucketCache[b]
<1> USE ConstantsOK
<1>o. o \in BucketObject /\ Honest(o)
  BY DEF Start, MarkDeleting, StartDeletion, AddFinalizer, SetProvider,
         NoDefaultProvider, SetSecretName, MarkCreating, ProviderInvalid,
         AccountMissing, AccountFound, Reconcilable, Specified, Prepared, Begin,
         TypeOK, ObjectsOK, ObjectOrNone, HonestInv, HonestObjects
<1>f. \A l \in {"unfinalize", "remove", "fail"} : HonestAt(l, o)
  BY <1>o DEF HonestAt
<1>m. ASSUME NEW t \in {"Creating", "Deleting"}
      PROVE  Honest([o EXCEPT !.conditions = SetCondition(o.conditions, t, TRUE)])
  <2> DEFINE c == SetCondition(o.conditions, t, TRUE)
  <2>0. o.conditions \in ConditionMap
    BY <1>o, BucketUpdates
  <2>1. /\ c \in ConditionMap
        /\ c["Ready"] = o.conditions["Ready"]
        /\ c["Error"] = o.conditions["Error"]
    BY <2>0 DEF SetCondition, ConditionMap, BucketConditions
  <2>2. c["Ready"] = TRUE => o.endpoint /\ c["Error"] # TRUE
    BY <2>1, <1>o DEF Honest, IsTrue
  <2>q. QED BY <1>o, <2>1, <2>2, HonestConditions
<1>1. CASE MarkDeleting(b)
  BY <1>1, <1>m, HonestReturn DEF MarkDeleting
<1>2. CASE StartDeletion(b)
  BY <1>2, <1>f, HonestLoad DEF StartDeletion, store, caches
<1>3. CASE AddFinalizer(b)
  BY <1>3, <1>o, HonestUpdates, HonestReturn DEF AddFinalizer
<1>4. CASE SetProvider(b)
  <2>1. PICK p \in DefaultProvider :
          LET new == [o EXCEPT !.spec.provider = p] IN
          WriteAndReturn(b, new, ValidateUpdate(o, new))
    BY <1>4 DEF SetProvider
  <2>2. p \in Providers
    BY DEF DefaultProvider
  <2>q. QED BY <2>1, <2>2, <1>o, HonestUpdates, HonestReturn
<1>5. CASE SetSecretName(b)
  <2>1. DefaultSecret[b] \in Secrets
    OBVIOUS
  <2>q. QED BY <1>5, <2>1, <1>o, HonestUpdates, HonestReturn DEF SetSecretName
<1>6. CASE MarkCreating(b)
  BY <1>6, <1>m, HonestReturn DEF MarkCreating
<1>7. CASE NoDefaultProvider(b)
  BY <1>7, <1>f, HonestLoad DEF NoDefaultProvider, store, caches
<1>8. CASE ProviderInvalid(b)
  BY <1>8, <1>f, HonestLoad DEF ProviderInvalid, store, caches
<1>9. CASE AccountMissing(b)
  <2>1. HonestAt("account", o)
    BY <1>9, <1>o DEF AccountMissing, Reconcilable, Specified, Prepared, HonestAt
  <2>q. QED BY <1>9, <2>1, HonestLoad DEF AccountMissing, store, caches
<1>10. CASE AccountFound(b)
  <2> DEFINE a == o.spec.serviceAccount
             r == [account |-> a, uid |-> AccountSeen(o).uid]
             l == IF o.owner = r THEN "bucket" ELSE "own"
  <2>1. o.finalizer /\ AccountSeen(o) # None /\ Load(b, l, r) /\ UNCHANGED <<bucket, bucketCache>>
    BY <1>10 DEF AccountFound, Reconcilable, Specified, Prepared, store, caches
  <2>2. a \in Accounts /\ AccountSeen(o) = accountCache[a]
    BY <2>1, <1>o DEF AccountSeen, BucketObject, BucketSpec
  <2>3. AccountSeen(o) \in AccountObject
    BY <2>1, <2>2 DEF TypeOK, ObjectsOK, ObjectOrNone
  <2>4. r \in OwnerRef
    BY <2>2, <2>3 DEF AccountObject, OwnerRef
  <2>5. HonestAt(l, o)
    BY <2>1, <2>4, <1>o DEF HonestAt
  <2> HIDE DEF r, l
  <2>q. QED BY <2>1, <2>4, <2>5, HonestLoad
<1>q. QED BY <1>1, <1>2, <1>3, <1>4, <1>5, <1>6, <1>7, <1>8, <1>9, <1>10 DEF Start

LEMMA WorkHonest ==
  ASSUME TypeOK, HonestInv, Work
  PROVE  HonestInv'
<1> USE ConstantsOK
<1>pc. pc # "idle"
  BY DEF Work, RemoveMinioBucket, DropFinalizer, CreateAccount, SetOwner,
         CheckMinioBucket, MakeMinioBucket, SaveEndpoint, UndoMinioBucket,
         DeleteOldSecret, AwaitKeys, SecretTaken, UpdateSecret, CreateSecret,
         SaveSecretName, UndoSecret, SetReady, RecordError
<1>o. cur \in Buckets /\ obj \in BucketObject /\ HonestAt(pc, obj) /\ Honest(obj)
  BY <1>pc DEF TypeOK, WorkerOK, HonestInv, HonestWorker, HonestAt
<1>f. HonestAt("fail", obj) /\ HonestAt("unfinalize", obj)
  BY <1>o DEF HonestAt
<1>b. pc \in {"bucket", "make", "endpoint", "undoBucket"} =>
        \A l \in {"bucket", "make", "endpoint", "undoBucket"} : HonestAt(l, obj)
  BY <1>o DEF HonestAt
<1>e. /\ obj.finalizer /\ obj.owner \in OwnerRef /\ obj.endpoint =>
           \A l : HonestAt(l, obj)
      /\ pc \in {"oldSecret", "secret", "saveSecret", "undoSecret", "ready"} =>
           obj.finalizer /\ obj.owner \in OwnerRef /\ obj.endpoint
  BY <1>o DEF HonestAt
<1>1. CASE RemoveMinioBucket
  BY <1>1, <1>f, <1>pc, HonestGoto DEF RemoveMinioBucket, Goto, Continue, store, caches
<1>2. CASE DropFinalizer
  BY <1>2, <1>pc, HonestWrite DEF DropFinalizer, caches
<1>3. CASE CreateAccount
  <2>1. CASE Goto("fail")
    BY <1>3, <2>1, <1>f, <1>pc, HonestGoto DEF CreateAccount, caches
  <2>2. CASE pc' = "own" /\ UNCHANGED <<cur, fresh, obj>> /\ uids' = uids + 1
             /\ ref' = [account |-> obj.spec.serviceAccount, uid |-> uids']
    <3>1. pc = "account" /\ obj.spec.serviceAccount \in Accounts
      BY <1>3, <2>2, <1>pc, <1>o DEF CreateAccount, Goto, Continue, BucketObject, BucketSpec
    <3>2. ref' \in OwnerRef
      BY <2>2, <3>1 DEF OwnerRef, TypeOK, ObjectsOK
    <3>3. HonestAt("own", obj)
      BY <1>o, <3>1 DEF HonestAt
    <3>q. QED BY <1>3, <2>2, <3>2, <3>3 DEF CreateAccount, HonestInv, HonestObjects,
                 HonestWorker, HonestAt, Honest, caches
  <2>q. QED BY <1>3, <2>1, <2>2 DEF CreateAccount
<1>4. CASE SetOwner
  BY <1>4, <1>f, <1>pc, <1>o, HonestUpdates, HonestWrite DEF SetOwner, HonestInv, HonestWorker, caches
<1>5. CASE CheckMinioBucket
  <2>1. obj.endpoint => HonestAt(SecretStep, obj)
    BY <1>5, <1>o, <1>e DEF CheckMinioBucket, HonestAt
  <2>2. SecretStep \notin {"own", "idle"}
    BY DEF SecretStep
  <2>q. QED BY <1>5, <2>1, <2>2, <1>b, <1>f, <1>pc, HonestGoto DEF CheckMinioBucket, store, caches
<1>6. CASE MakeMinioBucket
  BY <1>6, <1>b, <1>f, <1>pc, HonestGoto DEF MakeMinioBucket, store, caches
<1>7. CASE SaveEndpoint
  <2> DEFINE new == [obj EXCEPT !.endpoint = TRUE]
  <2>1. obj.finalizer /\ obj.owner \in OwnerRef
    BY <1>7, <1>o DEF SaveEndpoint, HonestAt
  <2>2. Honest(new)
    BY <2>1, <1>o, HonestUpdates
  <2>3. HonestAt("undoBucket", new)
    BY <2>1, <2>2, <1>o DEF HonestAt, BucketObject
  <2>q. QED BY <1>7, <2>2, <2>3, <1>pc, HonestWrite DEF SaveEndpoint, caches
<1>8. CASE UndoMinioBucket
  BY <1>8, <1>f, <1>pc, HonestGoto DEF UndoMinioBucket, store, caches
<1>9. CASE DeleteOldSecret
  BY <1>9, <1>e, <1>f, <1>pc, HonestGoto DEF DeleteOldSecret, caches
<1>10. CASE AwaitKeys
  BY <1>10 DEF AwaitKeys, Finish, HonestInv, HonestObjects, HonestWorker, Honest, store, caches
<1>11. CASE SecretTaken
  BY <1>11, <1>f, <1>pc, HonestGoto DEF SecretTaken, store, caches
<1>r. ReadyStep # "own"
  BY DEF ReadyStep
<1>12. CASE UpdateSecret
  BY <1>12, <1>r, <1>e, <1>f, <1>pc, HonestGoto DEF UpdateSecret, caches
<1>13. CASE CreateSecret
  <2> DEFINE new == [obj EXCEPT !.secretName = obj.spec.secretName]
  <2>1. CASE Goto("fail")
    BY <1>13, <2>1, <1>f, <1>pc, HonestGoto DEF CreateSecret, caches
  <2>2. CASE Continue("saveSecret", fresh, new)
    <3>1. obj.finalizer /\ obj.owner \in OwnerRef /\ obj.endpoint /\ obj.spec.secretName \in Secrets
      BY <1>13, <1>e, <1>pc DEF CreateSecret, TypeOK, WorkerOK, Complete
    <3>2. HonestAt("saveSecret", new)
      BY <3>1, <1>o, HonestUpdates DEF HonestAt, BucketObject
    <3>3. HonestWorker'
      BY <2>2, <3>2, <1>pc, HonestContinue DEF HonestInv
    <3>q. QED BY <1>13, <3>3 DEF CreateSecret, HonestInv, HonestObjects, Honest, caches
  <2>q. QED BY <1>13, <2>1, <2>2 DEF CreateSecret
<1>14. CASE SaveSecretName
  BY <1>14, <1>r, <1>e, <1>o, <1>pc, HonestWrite DEF SaveSecretName, caches
<1>15. CASE UndoSecret
  BY <1>15, <1>f, <1>pc, HonestGoto DEF UndoSecret, caches
<1>16. CASE SetReady
  <2> DEFINE c == SetCondition(RemoveCondition(RemoveCondition(obj.conditions, "Creating"),
                                               "Error"), "Ready", TRUE)
  <2>0. obj.conditions \in ConditionMap
    BY <1>o, BucketUpdates
  <2>1. c \in ConditionMap /\ c["Error"] = None
    BY <2>0 DEF SetCondition, RemoveCondition, ConditionMap, BucketConditions
  <2>2. obj.endpoint
    BY <1>16, <1>e DEF SetReady
  <2>3. Honest([obj EXCEPT !.conditions = c])
    BY <2>1, <2>2, <1>o, HonestConditions
  <2>q. QED BY <1>16, <2>3, <1>pc, HonestWrite DEF SetReady, caches
<1>17. CASE RecordError
  <2> DEFINE c == SetCondition(SetCondition(obj.conditions, "Ready", FALSE), "Error", TRUE)
  <2>0. obj.conditions \in ConditionMap
    BY <1>o, BucketUpdates
  <2>1. c \in ConditionMap /\ c["Ready"] = FALSE
    BY <2>0 DEF SetCondition, ConditionMap, BucketConditions
  <2>2. Honest([obj EXCEPT !.conditions = c])
    BY <2>1, <1>o, HonestConditions
  <2>q. QED BY <1>17, <2>2, <1>pc, HonestWrite DEF RecordError, caches
<1>q. QED BY <1>1, <1>2, <1>3, <1>4, <1>5, <1>6, <1>7, <1>8, <1>9, <1>10, <1>11, <1>12,
             <1>13, <1>14, <1>15, <1>16, <1>17 DEF Work

LEMMA EnvironmentHonest ==
  ASSUME TypeOK, HonestInv, Environment
  PROVE  HonestInv'
<1>1. ASSUME HonestObjects(bucket)', UNCHANGED <<bucketCache, pc, obj, ref>>
      PROVE  HonestInv'
  BY <1>1 DEF HonestInv, HonestObjects, HonestWorker, HonestAt, Honest
<1>2. CASE \E b \in Buckets : CreateBucket(b)
  <2>1. PICK b \in Buckets : CreateBucket(b)
    BY <1>2
  <2>2. PICK spec : bucket' = [bucket EXCEPT ![b] = NewBucket(spec)]
    BY <2>1 DEF CreateBucket
  <2>3. Honest(NewBucket(spec))
    BY ConstantsOK DEF Honest, NewBucket, NoConditions, IsTrue, BucketConditions
  <2>4. HonestObjects(bucket)'
    BY <2>2, <2>3 DEF HonestInv, HonestObjects, Honest, TypeOK, ObjectsOK
  <2>q. QED BY <2>1, <2>4, <1>1 DEF CreateBucket, caches, worker
<1>3. CASE \E b \in Buckets : EditBucket(b)
  <2>1. PICK b \in Buckets : EditBucket(b)
    BY <1>3
  <2>2. PICK request \in Requests(b) : \E spec \in Defaulted(b, request) :
          bucket' = [bucket EXCEPT ![b] = [bucket[b] EXCEPT !.spec = spec]]
    BY <2>1 DEF EditBucket
  <2>3. PICK spec \in Defaulted(b, request) :
          bucket' = [bucket EXCEPT ![b] = [bucket[b] EXCEPT !.spec = spec]]
    BY <2>2
  <2>4. spec \in BucketSpec
    BY <2>1, DefaultedSpec
  <2>5. bucket[b] \in BucketObject /\ Honest(bucket[b])
    BY <2>1 DEF EditBucket, TypeOK, ObjectsOK, ObjectOrNone, HonestInv, HonestObjects
  <2>6. Honest([bucket[b] EXCEPT !.spec = spec])
    BY <2>4, <2>5, HonestUpdates
  <2>7. HonestObjects(bucket)'
    BY <2>3, <2>6 DEF HonestInv, HonestObjects, Honest, TypeOK, ObjectsOK
  <2>q. QED BY <2>1, <2>7, <1>1 DEF EditBucket, Outdate, caches
<1>4. CASE \E b \in Buckets : DeleteBucket(b)
  <2>1. PICK b \in Buckets : DeleteBucket(b)
    BY <1>4
  <2>2. bucket[b] \in BucketObject /\ Honest(bucket[b])
    BY <2>1 DEF DeleteBucket, TypeOK, ObjectsOK, ObjectOrNone, HonestInv, HonestObjects
  <2>3. Honest([bucket[b] EXCEPT !.deleting = TRUE])
    BY <2>2, HonestUpdates
  <2>4. HonestObjects(bucket)'
    BY <2>1, <2>3 DEF DeleteBucket, HonestInv, HonestObjects, Honest, TypeOK, ObjectsOK
  <2>q. QED BY <2>1, <2>4, <1>1 DEF DeleteBucket, Outdate, caches
<1>5. CASE UNCHANGED <<bucket, bucketCache, worker>>
  BY <1>5 DEF HonestInv, HonestObjects, HonestWorker, HonestAt, Honest, worker
<1>q. QED
  BY <1>2, <1>3, <1>4, <1>5 DEF Environment, UserSecret, CollectSecret, PublishKeys,
     WithdrawKeys, AccountGone, MinioUsers, ProviderChanges, ForeignBucket, store, caches

LEMMA InformersHonest ==
  ASSUME TypeOK, HonestInv, Informers
  PROVE  HonestInv'
BY DEF Informers, SyncBucket, SyncAccount, SyncSecret, TypeOK, ObjectsOK, HonestInv,
       HonestObjects, HonestWorker, HonestAt, Honest, store, worker

LEMMA NextHonest == TypeOK /\ HonestInv /\ [Next]_vars => HonestInv'
<1> SUFFICES ASSUME TypeOK, HonestInv, [Next]_vars PROVE HonestInv'
  OBVIOUS
<1>1. CASE \E b \in Buckets : Start(b)
  BY <1>1, StartHonest
<1>2. CASE Work
  BY <1>2, WorkHonest
<1>3. CASE Crash
  BY <1>3 DEF Crash, Finish, HonestInv, HonestObjects, HonestWorker, Honest, store, caches
<1>4. CASE Informers
  BY <1>4, InformersHonest
<1>5. CASE Environment
  BY <1>5, EnvironmentHonest
<1>6. CASE UNCHANGED vars
  BY <1>6 DEF HonestInv, HonestObjects, HonestWorker, HonestAt, Honest, vars, store, caches, worker
<1>q. QED BY <1>1, <1>2, <1>3, <1>4, <1>5, <1>6 DEF Next, Controller

\* In every cluster, whatever calls fail, are lost or interleave: a Bucket is
\* Ready only with its endpoint and without a standing error, and has an endpoint
\* only under the finalizer and a controller reference.
THEOREM HonestStatus == Spec => []StatusHonest
<1>1. Init => HonestInv
  BY DEF Init, HonestInv, HonestObjects, HonestWorker
<1>2. HonestInv => StatusHonest
  BY DEF HonestInv, HonestObjects, StatusHonest, Exists
<1>q. QED BY <1>1, <1>2, NextHonest, TypeCorrect, PTL DEF Spec
=============================================================================
