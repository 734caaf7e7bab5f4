-------------------------- MODULE BucketLifeProofs --------------------------
(***************************************************************************)
(* Theorems about what the Bucket controller does to MinIO buckets and     *)
(* secrets, and that it implements BucketLife.                             *)
(*                                                                         *)
(* LifeInv relates the three places that hold a Bucket, the store, the     *)
(* cache and the worker's memory, to each other and to MinIO.              *)
(***************************************************************************)
EXTENDS BucketControllerProofs

-----------------------------------------------------------------------------
(* The inductive invariant: the objects.                                   *)

Held(b) == bucket[b] # None /\ bucket[b].finalizer

\* What is so of a Bucket in the store, in the cache and in memory.
Formed(o) ==
  /\ o.deleting => o.finalizer
  /\ Webhooks => o.spec.provider # None
  /\ OwnPlaces /\ o.endpoint => o.spec.provider # None

\* o, an object of b under the finalizer, has been stored at some time.  Either
\* it is still the same Bucket that is stored, held all the time, or o was
\* released and b is gone or a new one, not held yet.
Follows(o, b) ==
  \/ /\ Held(b)
     /\ o.deleting => bucket[b].deleting
     /\ OwnPlaces => o.spec.provider \in {None, bucket[b].spec.provider}
  \/ o.deleting /\ ~Held(b)

StoreInv == \A b \in Buckets : bucket[b] # None => Formed(bucket[b])

CacheInv ==
  \A b \in Buckets : bucketCache[b] # None =>
    /\ Formed(bucketCache[b])
    /\ bucketCache[b].finalizer => Follows(bucketCache[b], b)

NamesInv == \A k \in Providers \X BucketNames :
              minio[k] \in Buckets => NameOf[minio[k]] = k[2]

NoForeign == "foreign" \notin Env => \A k \in Providers \X BucketNames : minio[k] # Foreign

\* Nothing is left of the data that should have gone with o.
Clean(o, b) == o.spec.reclaimPolicy = "Retain" \/ minio[Place(o, b)] # b

SteadyInv ==
  Steady =>
    /\ \A p \in Providers : provider[p] = "usable"
    /\ \A b \in Buckets : bucketCache[b] # None /\ bucketCache[b].deleting /\ ~Held(b)
                            => Clean(bucketCache[b], b)

EndpointInv == OwnPlaces /\ "api" \notin Faults => EndpointOwned

\* A Ready Bucket has its data, so that the worker never makes it anew.
ReadyInv == Alone => \A b \in Buckets : Wanted(b) /\ Ready(b) => minio[Place(bucket[b], b)] = b

ObjectsInv == /\ StoreInv /\ CacheInv /\ NamesInv /\ NoForeign
              /\ SteadyInv /\ EndpointInv /\ ReadyInv

-----------------------------------------------------------------------------
(* What the worker knows of the object o it holds when its next call is l, *)
(* f being TRUE iff its version of it is the stored one.                   *)

Removing == {"remove", "unfinalize"}
Making == {"endpoint", "undoBucket"}
Past == {"oldSecret", "secret", "saveSecret", "undoSecret", "ready"}

\* The fields the worker changes in memory before it has stored them are left out.
Agrees(o, p) ==
  /\ p.deleting = o.deleting /\ p.finalizer = o.finalizer
  /\ p.spec = o.spec /\ p.conditions = o.conditions

Stored(l, o) ==
  /\ bucket[cur] # None
  /\ Agrees(o, bucket[cur])
  /\ bucket[cur].endpoint => o.endpoint
  /\ l \notin {"undoBucket", "fail"} => bucket[cur].endpoint = o.endpoint
  /\ l \in Removing => bucketCache[cur] = o /\ bucket[cur] = o

Known(l, f, o) ==
  /\ o.finalizer /\ Formed(o) /\ Follows(o, cur)
  /\ o.deleting <=> l \in Removing
  /\ l = "remove" => o.spec.provider # None /\ o.spec.reclaimPolicy = "Delete"
  /\ f => Stored(l, o)

\* What the worker is about to record, or to undo, it has made.
MadeAt(l, o) == l \in Making => minio[Place(o, cur)] = cur

SteadyAt(l, o) ==
  Steady => /\ l = "remove" /\ ~Held(cur) => Clean(o, cur)
            /\ l = "unfinalize" => Clean(o, cur)

\* Without api faults a refused write is one of an old version.
EndpointAt(l, f, o) ==
  OwnPlaces /\ "api" \notin Faults =>
    /\ l \in Making => ~(Wanted(cur) /\ bucket[cur].endpoint)
    /\ l \in {"undoBucket", "fail"} /\ f => bucket[cur].endpoint = o.endpoint

ReadyAt(l, o) ==
  Alone => /\ l \in Making => ~(Wanted(cur) /\ Ready(cur))
           /\ "foreign" \notin Env /\ l \in Past => minio[Place(o, cur)] = cur

At(l, f, o) == /\ Known(l, f, o) /\ MadeAt(l, o) /\ SteadyAt(l, o)
               /\ EndpointAt(l, f, o) /\ ReadyAt(l, o)

WorkerInv == pc # "idle" => At(pc, fresh, obj)

LifeInv == ObjectsInv /\ WorkerInv

-----------------------------------------------------------------------------
(* Steps that end a reconciliation, or begin one.                          *)

LEMMA IdleWorker == pc' = "idle" => WorkerInv'
BY DEF WorkerInv

LEMMA PlaceTyped ==
  ASSUME NEW o \in BucketObject, NEW b \in Buckets, o.spec.provider # None
  PROVE  Place(o, b) \in Providers \X BucketNames
BY ConstantsOK DEF Place, BucketObject, BucketSpec

\* What a write of b keeps: the new object goes on from the stored one.
GoesOn(o, new) ==
  /\ new.deleting = o.deleting
  /\ o.finalizer => new.finalizer
  /\ OwnPlaces => o.spec.provider \in {None, new.spec.provider}
  /\ Formed(new)

\* The objects after a write of b that goes on from what was stored.
LEMMA WriteObjects ==
  ASSUME TypeOK, HonestInv, ObjectsInv, NEW b \in Buckets,
         NEW new \in BucketObject, bucket[b] # None, GoesOn(bucket[b], new),
         Held(b) \/ ~new.finalizer \/ bucketCache[b] = bucket[b],
         OwnPlaces /\ "api" \notin Faults /\ ~new.deleting /\ new.endpoint
           => minio[Place(new, b)] = b,
         Alone /\ ~new.deleting /\ IsTrue(new.conditions, "Ready")
           => minio[Place(new, b)] = b,
         bucket' = [bucket EXCEPT ![b] = new],
         UNCHANGED <<bucketCache, provider, minio>>
  PROVE  ObjectsInv'
<1> USE DEF ObjectsInv
<1>t. bucket'[b] = new /\ \A c \in Buckets \ {b} : bucket'[c] = bucket[c]
  BY DEF TypeOK, ObjectsOK
<1>n. new # None
  BY <1>t, ConstantsOK DEF BucketObject
<1>1. StoreInv'
  BY <1>t DEF StoreInv, Formed, GoesOn
<1>h. \A c \in Buckets : Held(c) => Held(c)'
  BY <1>t, <1>n DEF Held, GoesOn
<1>2. CacheInv'
  <2> SUFFICES ASSUME NEW c \in Buckets, bucketCache[c] # None
               PROVE  Formed(bucketCache[c]) /\ (bucketCache[c].finalizer => Follows(bucketCache[c], c)')
    BY DEF CacheInv, Formed, Follows
  <2>1. Formed(bucketCache[c]) /\ (bucketCache[c].finalizer => Follows(bucketCache[c], c))
    BY DEF CacheInv
  <2>2. CASE c # b
    BY <2>1, <2>2, <1>t DEF Follows, Held
  <2>3. CASE c = b
    BY <2>1, <2>3, <1>t, <1>n DEF Follows, Held, GoesOn
  <2>q. QED BY <2>2, <2>3
<1>3. NamesInv' /\ NoForeign'
  BY DEF NamesInv, NoForeign
<1>4. SteadyInv'
  BY <1>h DEF SteadyInv, Clean, Place
<1>5. EndpointInv'
  BY <1>t DEF EndpointInv, EndpointOwned, Wanted, Exists, Place
<1>6. ReadyInv'
  BY <1>t DEF ReadyInv, Wanted, Ready, Exists, Place
<1>q. QED BY <1>1, <1>2, <1>3, <1>4, <1>5, <1>6

LEMMA ReturnLife ==
  ASSUME TypeOK, HonestInv, LifeInv, NEW b \in Buckets, Begin(b),
         NEW new \in BucketObject, NEW admitted, WriteAndReturn(b, new, admitted),
         GoesOn(bucketCache[b], new), new.endpoint = bucketCache[b].endpoint,
         IsTrue(new.conditions, "Ready") => IsTrue(bucketCache[b].conditions, "Ready")
  PROVE  LifeInv'
<1> DEFINE o == bucketCache[b]
<1>1. /\ bucket[b] = o /\ o # None /\ bucket' = [bucket EXCEPT ![b] = new]
      /\ UNCHANGED <<bucketCache, provider, minio>> /\ pc' = "idle"
  BY DEF WriteAndReturn, Begin, caches, world, worker
<1>2. o \in BucketObject /\ Honest(o) /\ Formed(o)
  BY <1>1 DEF TypeOK, ObjectsOK, ObjectOrNone, HonestInv, HonestObjects, LifeInv, ObjectsInv, CacheInv
<1>3. ASSUME OwnPlaces, new.endpoint
      PROVE  Place(new, b) = Place(o, b)
  BY <1>2, <1>3 DEF Place, GoesOn, Formed
<1>4. OwnPlaces /\ "api" \notin Faults /\ ~new.deleting /\ new.endpoint => minio[Place(new, b)] = b
  BY <1>1, <1>3 DEF LifeInv, ObjectsInv, EndpointInv, EndpointOwned, Wanted, Exists, GoesOn
<1>5. Alone /\ ~new.deleting /\ IsTrue(new.conditions, "Ready") => minio[Place(new, b)] = b
  <2>1. IsTrue(new.conditions, "Ready") => new.endpoint
    BY <1>2 DEF Honest
  <2>q. QED
    BY <1>1, <1>3, <2>1 DEF LifeInv, ObjectsInv, ReadyInv, Wanted, Ready, Exists, GoesOn, Alone
<1>6. ObjectsInv'
  BY <1>1, <1>4, <1>5, WriteObjects DEF LifeInv
<1>q. QED BY <1>1, <1>6, IdleWorker DEF LifeInv

LEMMA LoadLife ==
  ASSUME TypeOK, HonestInv, LifeInv, NEW b \in Buckets, Begin(b),
         NEW l, NEW r, Load(b, l, r), UNCHANGED <<store, caches, world, minio>>,
         bucketCache[b].finalizer, bucketCache[b].deleting <=> l \in Removing,
         l = "remove" => /\ bucketCache[b].spec.provider # None
                         /\ bucketCache[b].spec.reclaimPolicy = "Delete",
         l \notin Making \cup Past,
         Steady /\ l = "unfinalize" => Clean(bucketCache[b], b)
  PROVE  LifeInv'
<1> DEFINE o == bucketCache[b]
<1>1. UNCHANGED <<bucket, bucketCache, provider, minio>>
  BY DEF store, caches, world
<1>2. pc' = l /\ cur' = b /\ fresh' = (o = bucket[b]) /\ obj' = o /\ o # None
  BY DEF Load, Begin
<1>3. ObjectsInv'
  BY <1>1 DEF LifeInv, ObjectsInv, StoreInv, CacheInv, NamesInv, NoForeign, SteadyInv,
     EndpointInv, ReadyInv, Formed, Follows, Held, Clean, Place, EndpointOwned, Wanted, Ready, Exists
<1>4. Known(pc, fresh, obj)'
  <2>1. Formed(o) /\ Follows(o, b)
    BY <1>2 DEF LifeInv, ObjectsInv, CacheInv
  <2>2. (fresh => Stored(pc, obj))'
    BY <1>1, <1>2 DEF Stored, Agrees
  <2>q. QED BY <1>1, <1>2, <2>1, <2>2 DEF Known, Formed, Follows, Held
<1>5. SteadyAt(pc, obj)'
  BY <1>1, <1>2 DEF LifeInv, ObjectsInv, SteadyInv, SteadyAt, Clean, Place, Held, Removing
<1>6. MadeAt(pc, obj)' /\ EndpointAt(pc, fresh, obj)' /\ ReadyAt(pc, obj)'
  BY <1>1, <1>2 DEF MadeAt, EndpointAt, ReadyAt
<1>q. QED BY <1>3, <1>4, <1>5, <1>6 DEF LifeInv, WorkerInv, At

LEMMA StartLife ==
  ASSUME TypeOK, HonestInv, LifeInv, NEW b \in Buckets, Start(b)
  PROVE  LifeInv'
<1> DEFINE o == bucketCache[b]
<1> USE ConstantsOK
<1>b. Begin(b)
  BY DEF Start, MarkDeleting, StartDeletion, AddFinalizer, SetProvider,
         NoDefaultProvider, SetSecretName, MarkCreating, ProviderInvalid,
         AccountMissing, AccountFound, Reconcilable, Specified, Prepared
<1>o. o \in BucketObject /\ Formed(o) /\ Honest(o)
  BY <1>b DEF Begin, TypeOK, ObjectsOK, ObjectOrNone, LifeInv, ObjectsInv, CacheInv,
     HonestInv, HonestObjects
<1>m. ASSUME NEW t \in {"Creating", "Deleting"},
             WriteAndReturn(b, [o EXCEPT !.conditions = SetCondition(o.conditions, t, TRUE)], TRUE)
      PROVE  LifeInv'
  <2> DEFINE c == SetCondition(o.conditions, t, TRUE)
             new == [o EXCEPT !.conditions = c]
  <2>0. o.conditions \in ConditionMap
    BY <1>o, BucketUpdates
  <2>1. c \in ConditionMap /\ c["Ready"] = o.conditions["Ready"]
    BY <2>0 DEF SetCondition, ConditionMap, BucketConditions
  <2>2. new \in BucketObject
    BY <1>o, <2>1, BucketUpdates
  <2>3. /\ new.deleting = o.deleting /\ new.finalizer = o.finalizer /\ new.spec = o.spec
        /\ new.endpoint = o.endpoint /\ new.conditions = c
    BY <1>o DEF BucketObject
  <2>4. GoesOn(o, new)
    BY <1>o, <2>3 DEF GoesOn, Formed
  <2>q. QED BY <1>b, <1>m, <2>1, <2>2, <2>3, <2>4, ReturnLife DEF IsTrue
<1>1. CASE MarkDeleting(b)
  BY <1>1, <1>m DEF MarkDeleting
<1>2. CASE StartDeletion(b)
  <2> DEFINE l == IF ProviderOf(o) = "usable" /\ o.spec.reclaimPolicy = "Delete"
                  THEN "remove" ELSE "unfinalize"
  <2>1. /\ o.deleting /\ Load(b, l, None) /\ UNCHANGED <<store, caches, world, minio>>
        /\ o.finalizer /\ l \in Removing
    BY <1>2, <1>o DEF StartDeletion, Formed, Removing
  <2>2. l = "remove" => o.spec.provider # None /\ o.spec.reclaimPolicy = "Delete"
    BY DEF ProviderOf
  <2>3. Steady /\ l = "unfinalize" => Clean(o, b)
    BY <1>o DEF Steady, LifeInv, ObjectsInv, SteadyInv, ProviderOf, Clean, Formed, BucketObject, BucketSpec
  <2>4. l \notin Making \cup Past
    BY DEF Making, Past
  <2> HIDE DEF l
  <2>q. QED BY <1>b, <2>1, <2>2, <2>3, <2>4, LoadLife
<1>l. ASSUME Prepared(b), NEW l \in {"fail", "account", "bucket", "own"}, NEW r, Load(b, l, r),
             UNCHANGED <<store, caches, world, minio>>
      PROVE  LifeInv'
  BY <1>b, <1>l, LoadLife DEF Prepared, Removing, Making, Past
<1>3. CASE AddFinalizer(b)
  <2> DEFINE new == [o EXCEPT !.finalizer = TRUE]
  <2>1. new \in BucketObject
    BY <1>o, BucketUpdates
  <2>2. /\ new.deleting = o.deleting /\ new.finalizer /\ new.spec = o.spec
        /\ new.endpoint = o.endpoint /\ new.conditions = o.conditions
    BY <1>o DEF BucketObject
  <2>3. GoesOn(o, new)
    BY <1>o, <2>2 DEF GoesOn, Formed
  <2>q. QED BY <1>b, <1>3, <2>1, <2>2, <2>3, ReturnLife DEF AddFinalizer
<1>4. CASE SetProvider(b)
  <2>1. PICK p \in DefaultProvider :
          LET new == [o EXCEPT !.spec.provider = p] IN
          WriteAndReturn(b, new, ValidateUpdate(o, new))
    BY <1>4 DEF SetProvider
  <2> DEFINE new == [o EXCEPT !.spec.provider = p]
  <2>2. p \in Providers /\ o.spec.provider = None /\ new \in BucketObject
    BY <1>4, <1>o, BucketUpdates DEF SetProvider, DefaultProvider
  <2>3. /\ new.deleting = o.deleting /\ new.finalizer = o.finalizer /\ new.spec.provider = p
        /\ new.endpoint = o.endpoint /\ new.conditions = o.conditions
    BY <1>o DEF BucketObject, BucketSpec
  <2>4. GoesOn(o, new)
    BY <1>o, <2>2, <2>3 DEF GoesOn, Formed
  <2>q. QED BY <1>b, <2>1, <2>2, <2>3, <2>4, ReturnLife
<1>5. CASE SetSecretName(b)
  <2> DEFINE new == [o EXCEPT !.spec.secretName = DefaultSecret[b]]
  <2>1. new \in BucketObject
    BY <1>o, BucketUpdates
  <2>2. /\ new.deleting = o.deleting /\ new.finalizer = o.finalizer
        /\ new.spec.provider = o.spec.provider
        /\ new.endpoint = o.endpoint /\ new.conditions = o.conditions
    BY <1>o DEF BucketObject, BucketSpec
  <2>3. GoesOn(o, new)
    BY <1>o, <2>2 DEF GoesOn, Formed
  <2>q. QED BY <1>b, <1>5, <2>1, <2>2, <2>3, ReturnLife DEF SetSecretName
<1>6. CASE MarkCreating(b)
  BY <1>6, <1>m DEF MarkCreating
<1>7. CASE NoDefaultProvider(b)
  BY <1>7, <1>l DEF NoDefaultProvider
<1>8. CASE ProviderInvalid(b)
  BY <1>8, <1>l DEF ProviderInvalid, Reconcilable, Specified
<1>9. CASE AccountMissing(b)
  BY <1>9, <1>l DEF AccountMissing, Reconcilable, Specified
<1>10. CASE AccountFound(b)
  <2> DEFINE r == [account |-> o.spec.serviceAccount, uid |-> AccountSeen(o).uid]
             l == IF o.owner = r THEN "bucket" ELSE "own"
  <2>1. Prepared(b) /\ Load(b, l, r) /\ UNCHANGED <<store, caches, world, minio>>
    BY <1>10 DEF AccountFound, Reconcilable, Specified
  <2>2. l \in {"bucket", "own"}
    OBVIOUS
  <2> HIDE DEF l, r
  <2>q. QED BY <2>1, <2>2, <1>l
<1>q. QED BY <1>1, <1>2, <1>3, <1>4, <1>5, <1>6, <1>7, <1>8, <1>9, <1>10 DEF Start

-----------------------------------------------------------------------------
(* The worker's steps.                                                     *)

\* A step that leaves the Buckets and MinIO alone.
LEMMA QuietLife ==
  ASSUME LifeInv, UNCHANGED <<bucket, bucketCache, provider, minio>>,
         pc' = "idle" \/ (cur' = cur /\ At(pc', fresh', obj'))
  PROVE  LifeInv'
<1>1. ObjectsInv'
  BY DEF LifeInv, ObjectsInv, StoreInv, CacheInv, NamesInv, NoForeign, SteadyInv,
     EndpointInv, ReadyInv, Formed, Follows, Held, Clean, Place, EndpointOwned, Wanted, Ready, Exists
<1>2. CASE cur' = cur /\ At(pc', fresh', obj')
  <2>1. Known(pc, fresh, obj)'
    BY <1>2 DEF At, Known, Formed, Follows, Held, Stored, Agrees
  <2>2. MadeAt(pc, obj)' /\ SteadyAt(pc, obj)'
    BY <1>2 DEF At, MadeAt, SteadyAt, Held, Clean, Place
  <2>3. EndpointAt(pc, fresh, obj)' /\ ReadyAt(pc, obj)'
    BY <1>2 DEF At, EndpointAt, ReadyAt, Wanted, Ready, Exists, Place
  <2>q. QED BY <1>1, <2>1, <2>2, <2>3 DEF LifeInv, WorkerInv, At
<1>q. QED BY <1>1, <1>2, IdleWorker DEF LifeInv

LEMMA ContinueLife ==
  ASSUME LifeInv, NEW l, NEW f, NEW o, l # "idle" => At(l, f, o), Continue(l, f, o),
         UNCHANGED <<bucket, bucketCache, provider, minio>>
  PROVE  LifeInv'
BY QuietLife DEF Continue, Finish

\* From one call to the next.
LEMMA MoveAt ==
  ASSUME NEW l \in Labels \ (Removing \cup Making), NEW f, NEW o, NEW n \in Labels,
         At(n, f, o), n \notin Removing \cup {"undoBucket", "fail"},
         l \in Past => n \in Past \/ minio[Place(o, cur)] = cur
                       \/ ~(Alone /\ "foreign" \notin Env)
  PROVE  At(l, f, o)
BY DEF At, Known, Stored, MadeAt, SteadyAt, EndpointAt, ReadyAt, Removing, Making, Past

LEMMA FailAt ==
  ASSUME NEW f, NEW o, NEW n \in Labels \ (Removing \cup {"fail"}), At(n, f, o)
  PROVE  At("fail", f, o)
BY DEF At, Known, Stored, MadeAt, SteadyAt, EndpointAt, ReadyAt, Removing, Making, Past

\* The worker at work on a Bucket that is wanted.
LEMMA AliveWorker ==
  ASSUME TypeOK, WorkerInv, pc \notin Removing \cup {"idle"}
  PROVE  /\ cur \in Buckets /\ obj \in BucketObject /\ At(pc, fresh, obj) /\ pc \in Labels
         /\ ~obj.deleting /\ obj.finalizer /\ Formed(obj) /\ Held(cur)
         /\ bucket[cur] \in BucketObject
         /\ OwnPlaces => obj.spec.provider \in {None, bucket[cur].spec.provider}
         /\ fresh => Agrees(obj, bucket[cur])
         /\ fresh /\ pc \notin {"undoBucket", "fail"} => bucket[cur].endpoint = obj.endpoint
<1>1. cur \in Buckets /\ obj \in BucketObject /\ At(pc, fresh, obj) /\ pc \in Labels
  BY DEF TypeOK, WorkerOK, WorkerInv
<1>2. ~obj.deleting /\ obj.finalizer /\ Formed(obj) /\ Follows(obj, cur)
  BY <1>1 DEF At, Known
<1>3. Held(cur) /\ (OwnPlaces => obj.spec.provider \in {None, bucket[cur].spec.provider})
  BY <1>2 DEF Follows
<1>4. bucket[cur] \in BucketObject
  BY <1>1, <1>3 DEF Held, TypeOK, ObjectsOK, ObjectOrNone
<1>q. QED BY <1>1, <1>2, <1>3, <1>4 DEF At, Known, Stored

\* What the worker has at its next call l, holding o, when new is what it has
\* just written.
Written(l, f, o, new) ==
  /\ l \in Labels \ Removing
  /\ ~o.deleting /\ o.finalizer /\ Formed(o)
  /\ o.spec = new.spec
  /\ f => o = new
  /\ MadeAt(l, o)
  /\ l \in Making => "api" \in Faults /\ (Alone => ~IsTrue(new.conditions, "Ready"))
  /\ Alone /\ "foreign" \notin Env /\ l \in Past => minio[Place(o, cur)] = cur

\* The MinIO bucket new tells of is there.
Told(new) ==
  /\ OwnPlaces /\ "api" \notin Faults /\ new.endpoint => minio[Place(new, cur)] = cur
  /\ Alone /\ IsTrue(new.conditions, "Ready") => minio[Place(new, cur)] = cur

LEMMA AcceptedLife ==
  ASSUME TypeOK, HonestInv, LifeInv, pc \notin Removing \cup {"idle"},
         NEW new \in BucketObject, GoesOn(bucket[cur], new), Told(new),
         NEW l, NEW f \in BOOLEAN, NEW o, l # "idle" => Written(l, f, o, new), Continue(l, f, o),
         bucket' = [bucket EXCEPT ![cur] = new],
         UNCHANGED <<bucketCache, provider, minio>>
  PROVE  LifeInv'
<1>1. cur \in Buckets /\ Held(cur)
  BY AliveWorker DEF LifeInv
<1>2. ObjectsInv'
  BY <1>1, WriteObjects DEF LifeInv, Told, Held
<1>3. ASSUME l # "idle"
      PROVE  WorkerInv'
  <2>1. pc' = l /\ fresh' = f /\ obj' = o /\ cur' = cur /\ Written(l, f, o, new)
    BY <1>3 DEF Continue
  <2>2. bucket'[cur] = new /\ new # None /\ new.finalizer
    BY <1>1, ConstantsOK DEF TypeOK, ObjectsOK, GoesOn, Held
  <2>3. Known(pc, fresh, obj)'
    BY <2>1, <2>2 DEF Written, Known, Formed, Follows, Held, Stored, Agrees, Removing
  <2>4. MadeAt(pc, obj)' /\ SteadyAt(pc, obj)'
    BY <2>1 DEF Written, MadeAt, SteadyAt, Place, Removing
  <2>5. EndpointAt(pc, fresh, obj)' /\ ReadyAt(pc, obj)'
    BY <2>1, <2>2 DEF Written, EndpointAt, ReadyAt, Wanted, Ready, Exists, Place
  <2>q. QED BY <2>3, <2>4, <2>5 DEF WorkerInv, At
<1>4. ASSUME l = "idle"
      PROVE  WorkerInv'
  BY <1>4, IdleWorker DEF Continue, Finish
<1>q. QED BY <1>2, <1>3, <1>4 DEF LifeInv

\* A write that repeats what the stored object tells.
LEMMA SameTold ==
  ASSUME TypeOK, HonestInv, LifeInv, pc \notin Removing \cup {"idle"}, fresh, NEW new,
         new.spec = bucket[cur].spec, new.endpoint => bucket[cur].endpoint,
         IsTrue(new.conditions, "Ready") => IsTrue(bucket[cur].conditions, "Ready")
  PROVE  Told(new)
<1>1. cur \in Buckets /\ Held(cur) /\ Wanted(cur)
  BY AliveWorker DEF LifeInv, Agrees, Held, Wanted, Exists
<1>2. Place(new, cur) = Place(bucket[cur], cur)
  BY DEF Place
<1>q. QED BY <1>1, <1>2 DEF Told, LifeInv, ObjectsInv, EndpointInv, EndpointOwned, ReadyInv,
             Ready, Exists, Held

LEMMA WriteLife ==
  ASSUME TypeOK, HonestInv, LifeInv, pc \notin Removing \cup {"idle"},
         NEW new \in BucketObject, NEW admitted, NEW ok, NEW ko, NEW mem,
         Write(new, admitted, ok, ko, mem), UNCHANGED <<bucketCache, provider, minio>>,
         fresh /\ admitted => GoesOn(bucket[cur], new) /\ Told(new),
         fresh /\ ok # "idle" => Written(ok, TRUE, new, new),
         fresh /\ "api" \in Faults /\ ko # "idle" => Written(ko, FALSE, mem, new),
         (fresh /\ admitted => "api" \in Faults) /\ ko # "idle" => At(ko, fresh, mem)
  PROVE  LifeInv'
<1>1. CASE bucket' = [bucket EXCEPT ![cur] = new] /\ fresh /\ admitted /\ Continue(ok, TRUE, new)
  BY <1>1, AcceptedLife
<1>2. CASE /\ bucket' = [bucket EXCEPT ![cur] = new] /\ fresh /\ admitted
           /\ "api" \in Faults /\ Continue(ko, FALSE, mem)
  BY <1>2, AcceptedLife
<1>3. CASE /\ ~(fresh /\ admitted) \/ "api" \in Faults
           /\ UNCHANGED bucket /\ Continue(ko, fresh, mem)
  BY <1>3, ContinueLife
<1>q. QED BY <1>1, <1>2, <1>3 DEF Write

\* Where the data of a Bucket that has, or had, some is.
LEMMA StoredPlace ==
  ASSUME TypeOK, ObjectsInv, OwnPlaces, NEW b \in Buckets, Exists(b), bucket[b].endpoint
  PROVE  Place(bucket[b], b) \in Providers \X BucketNames
<1>1. bucket[b] \in BucketObject /\ Formed(bucket[b])
  BY DEF Exists, TypeOK, ObjectsOK, ObjectOrNone, ObjectsInv, StoreInv
<1>q. QED BY <1>1, PlaceTyped DEF Formed

LEMMA CachedPlace ==
  ASSUME TypeOK, ObjectsInv, Webhooks, NEW b \in Buckets, bucketCache[b] # None
  PROVE  Place(bucketCache[b], b) \in Providers \X BucketNames
<1>1. bucketCache[b] \in BucketObject /\ Formed(bucketCache[b])
  BY DEF TypeOK, ObjectsOK, ObjectOrNone, ObjectsInv, CacheInv
<1>q. QED BY <1>1, PlaceTyped DEF Formed

\* What a MinIO bucket that goes away leaves of the rest.
LEMMA LoseObjects ==
  ASSUME TypeOK, HonestInv, ObjectsInv, NEW k \in Providers \X BucketNames,
         minio' = [minio EXCEPT ![k] = None], UNCHANGED <<bucket, bucketCache, provider>>,
         OwnPlaces /\ "api" \notin Faults =>
           \A b \in Buckets : Wanted(b) /\ bucket[b].endpoint => Place(bucket[b], b) # k,
         Alone => \A b \in Buckets : Wanted(b) /\ Ready(b) => Place(bucket[b], b) # k
  PROVE  ObjectsInv'
<1>1. StoreInv' /\ CacheInv'
  BY DEF ObjectsInv, StoreInv, CacheInv, Formed, Follows, Held
<1>2. /\ minio'[k] = None /\ \A j \in Providers \X BucketNames : j # k => minio'[j] = minio[j]
      /\ \A j \in Providers \X BucketNames : minio'[j] \in {None, minio[j]}
  BY DEF TypeOK, WorldOK
<1>3. NamesInv' /\ NoForeign'
  BY <1>2, ConstantsOK DEF ObjectsInv, NamesInv, NoForeign
<1>4. SteadyInv'
  <2> SUFFICES ASSUME Steady, NEW b \in Buckets, bucketCache[b] # None, ~Held(b),
                      bucketCache[b].deleting, bucketCache[b].spec.reclaimPolicy # "Retain"
               PROVE  minio'[Place(bucketCache[b], b)] # b
    BY DEF ObjectsInv, SteadyInv, Clean, Held, Place
  <2>1. Place(bucketCache[b], b) \in Providers \X BucketNames
    BY CachedPlace DEF Steady
  <2>2. minio[Place(bucketCache[b], b)] # b
    BY DEF ObjectsInv, SteadyInv, Clean
  <2>q. QED BY <1>2, <2>1, <2>2, ConstantsOK
<1>5. EndpointInv'
  <2> SUFFICES ASSUME OwnPlaces, "api" \notin Faults, NEW b \in Buckets,
                      Wanted(b), bucket[b].endpoint
               PROVE  minio'[Place(bucket[b], b)] = b
    BY DEF EndpointInv, EndpointOwned, Wanted, Exists, Place
  <2>1. Exists(b) /\ minio[Place(bucket[b], b)] = b
    BY DEF ObjectsInv, EndpointInv, EndpointOwned, Wanted
  <2>q. QED BY <1>2, <2>1, StoredPlace
<1>6. ReadyInv'
  <2> SUFFICES ASSUME Alone, NEW b \in Buckets, Wanted(b), Ready(b)
               PROVE  minio'[Place(bucket[b], b)] = b
    BY DEF ReadyInv, Wanted, Ready, Exists, Place
  <2>1. Exists(b) /\ minio[Place(bucket[b], b)] = b
    BY DEF ObjectsInv, ReadyInv, Wanted
  <2>2. bucket[b].endpoint
    BY <2>1 DEF Ready, Exists, Honest, HonestInv, HonestObjects
  <2>q. QED BY <1>2, <2>1, <2>2, StoredPlace DEF Alone
<1>q. QED BY <1>1, <1>3, <1>4, <1>5, <1>6 DEF ObjectsInv

LEMMA RemoveMinioBucketLife ==
  ASSUME TypeOK, HonestInv, LifeInv, RemoveMinioBucket
  PROVE  LifeInv'
<1> DEFINE k == Place(obj, cur)
<1>1. /\ cur \in Buckets /\ obj \in BucketObject /\ At("remove", fresh, obj)
      /\ pc = "remove" /\ UNCHANGED <<bucket, bucketCache, provider>>
  BY DEF RemoveMinioBucket, LifeInv, WorkerInv, TypeOK, WorkerOK, store, caches, world
<1>2. obj.deleting /\ obj.finalizer /\ obj.spec.provider # None /\ Formed(obj) /\ Follows(obj, cur)
  BY <1>1 DEF At, Known, Removing
<1>3. k \in Providers \X BucketNames /\ k[2] = NameOf[cur]
  BY <1>1, <1>2, PlaceTyped DEF Place
<1>4. ~(Wanted(cur) /\ bucket[cur].endpoint) /\ ~(Wanted(cur) /\ Ready(cur))
  <2>1. bucket[cur] # None => Honest(bucket[cur])
    BY <1>1 DEF HonestInv, HonestObjects
  <2>q. QED BY <2>1, <1>2 DEF Follows, Held, Wanted, Ready, Exists, Honest
<1>5. ASSUME minio' = [minio EXCEPT ![k] = None]
      PROVE  ObjectsInv'
  <2>1. ASSUME OwnPlaces, NEW b \in Buckets, b # cur
        PROVE  Place(bucket[b], b) # k
    BY <1>1, <1>3, <2>1 DEF OwnPlaces, Place
  <2> HIDE DEF k
  <2>q. QED BY <1>1, <1>3, <1>4, <1>5, <2>1, LoseObjects DEF LifeInv, Alone
<1>6. ASSUME minio' = [minio EXCEPT ![k] = None], Goto("unfinalize")
      PROVE  LifeInv'
  <2>1. pc' = "unfinalize" /\ fresh' = fresh /\ obj' = obj /\ cur' = cur
    BY <1>6 DEF Goto, Continue
  <2>2. minio'[k] # cur
    BY <1>1, <1>3, <1>6, ConstantsOK DEF TypeOK, WorldOK
  <2>3. Known(pc, fresh, obj)'
    BY <1>1, <2>1 DEF At, Known, Formed, Follows, Held, Stored, Agrees, Removing
  <2>4. MadeAt(pc, obj)' /\ SteadyAt(pc, obj)'
    BY <2>1, <2>2 DEF MadeAt, SteadyAt, Making, Clean, Place
  <2>5. EndpointAt(pc, fresh, obj)' /\ ReadyAt(pc, obj)'
    BY <2>1 DEF EndpointAt, ReadyAt, Making, Past
  <2>q. QED BY <1>5, <1>6, <2>3, <2>4, <2>5 DEF LifeInv, WorkerInv, At
<1>7. ASSUME minio' = [minio EXCEPT ![k] = None], Finish
      PROVE  LifeInv'
  BY <1>5, <1>7, IdleWorker DEF LifeInv, Finish
<1>8. ASSUME UNCHANGED minio, Finish
      PROVE  LifeInv'
  BY <1>1, <1>8, QuietLife DEF Finish
<1>q. QED BY <1>6, <1>7, <1>8 DEF RemoveMinioBucket

LEMMA UndoMinioBucketLife ==
  ASSUME TypeOK, HonestInv, LifeInv, UndoMinioBucket
  PROVE  LifeInv'
<1> DEFINE k == Place(obj, cur)
<1>1. /\ pc = "undoBucket" /\ UNCHANGED <<bucket, bucketCache, provider>> /\ Goto("fail")
      /\ minio' = [minio EXCEPT ![k] = None] \/ UNCHANGED minio
  BY DEF UndoMinioBucket, store, caches, world
<1>2. cur \in Buckets /\ obj \in BucketObject /\ At("undoBucket", fresh, obj)
  BY <1>1, AliveWorker DEF LifeInv, Removing
<1>3. k \in Providers \X BucketNames /\ k[2] = NameOf[cur] /\ minio[k] = cur
  BY <1>1, <1>2, ConstantsOK DEF Place, TypeOK, WorkerOK, Complete, At, MadeAt, Making
<1>4. At("fail", fresh, obj)
  BY <1>2, FailAt DEF Labels, Removing
<1>5. CASE UNCHANGED minio
  BY <1>1, <1>4, <1>5, ContinueLife DEF Goto
<1>6. CASE minio' = [minio EXCEPT ![k] = None]
  <2>1. /\ OwnPlaces /\ "api" \notin Faults => ~(Wanted(cur) /\ bucket[cur].endpoint)
        /\ Alone => ~(Wanted(cur) /\ Ready(cur))
    BY <1>2 DEF At, EndpointAt, ReadyAt, Making
  <2>2. ASSUME OwnPlaces, NEW b \in Buckets, b # cur
        PROVE  Place(bucket[b], b) # k
    BY <1>2, <1>3, <2>2 DEF OwnPlaces, Place
  <2>3. ObjectsInv'
    <3> HIDE DEF k
    <3>q. QED BY <1>1, <1>2, <1>3, <1>6, <2>1, <2>2, LoseObjects DEF LifeInv, Alone
  <2>4. pc' = "fail" /\ fresh' = fresh /\ obj' = obj /\ cur' = cur
    BY <1>1 DEF Goto, Continue
  <2>5. Known(pc, fresh, obj)'
    BY <1>1, <1>4, <2>4 DEF At, Known, Formed, Follows, Held, Stored, Agrees, Removing
  <2>6. MadeAt(pc, obj)' /\ SteadyAt(pc, obj)' /\ EndpointAt(pc, fresh, obj)' /\ ReadyAt(pc, obj)'
    BY <1>1, <1>4, <2>4 DEF At, MadeAt, SteadyAt, EndpointAt, ReadyAt, Making, Past
  <2>q. QED BY <2>3, <2>5, <2>6 DEF LifeInv, WorkerInv, At
<1>q. QED BY <1>1, <1>5, <1>6

\* Nothing tells of a MinIO bucket that is not there.
LEMMA NotTold ==
  ASSUME TypeOK, HonestInv, LifeInv, pc \notin Removing \cup {"idle"},
         obj.spec.provider # None, minio[Place(obj, cur)] # cur
  PROVE  /\ OwnPlaces /\ "api" \notin Faults => ~(Wanted(cur) /\ bucket[cur].endpoint)
         /\ Alone => ~(Wanted(cur) /\ Ready(cur))
<1>1. cur \in Buckets /\ (OwnPlaces => obj.spec.provider \in {None, bucket[cur].spec.provider})
  BY AliveWorker DEF LifeInv
<1>2. OwnPlaces => Place(bucket[cur], cur) = Place(obj, cur)
  BY <1>1 DEF Place
<1>q. QED BY <1>1, <1>2 DEF LifeInv, ObjectsInv, EndpointInv, EndpointOwned, ReadyInv, Alone

LEMMA MakeMinioBucketLife ==
  ASSUME TypeOK, HonestInv, LifeInv, MakeMinioBucket
  PROVE  LifeInv'
<1> DEFINE k == Place(obj, cur)
<1>1. pc = "make" /\ UNCHANGED <<bucket, bucketCache, provider>>
  BY DEF MakeMinioBucket, store, caches, world
<1>2. /\ cur \in Buckets /\ obj \in BucketObject /\ At("make", fresh, obj) /\ Held(cur)
      /\ obj.spec.provider # None /\ pc \notin Removing \cup {"idle"}
  BY <1>1, AliveWorker, ConstantsOK DEF LifeInv, Removing, TypeOK, WorkerOK, Complete
<1>3. k \in Providers \X BucketNames /\ k[2] = NameOf[cur]
  BY <1>2, PlaceTyped DEF Place
<1>4. At("fail", fresh, obj)
  BY <1>2, FailAt DEF Labels, Removing
<1>5. ASSUME minio[k] = None, minio' = [minio EXCEPT ![k] = cur]
      PROVE  ObjectsInv'
  <2>1. /\ minio'[k] = cur /\ \A j \in Providers \X BucketNames : j # k => minio'[j] = minio[j]
        /\ \A b \in Buckets, j \in Providers \X BucketNames : minio[j] = b => minio'[j] = b
    BY <1>3, <1>5, ConstantsOK DEF TypeOK, WorldOK
  <2>2. StoreInv' /\ CacheInv'
    BY <1>1 DEF LifeInv, ObjectsInv, StoreInv, CacheInv, Formed, Follows, Held
  <2>3. NamesInv' /\ NoForeign'
    BY <1>2, <1>3, <2>1, ConstantsOK DEF LifeInv, ObjectsInv, NamesInv, NoForeign
  <2>4. SteadyInv'
    <3> SUFFICES ASSUME Steady, NEW b \in Buckets, bucketCache[b] # None, ~Held(b),
                        bucketCache[b].deleting, bucketCache[b].spec.reclaimPolicy # "Retain"
                 PROVE  minio'[Place(bucketCache[b], b)] # b
      BY <1>1 DEF LifeInv, ObjectsInv, SteadyInv, Clean, Held, Place
    <3>1. b # cur /\ minio[Place(bucketCache[b], b)] # b
      BY <1>2 DEF LifeInv, ObjectsInv, SteadyInv, Clean
    <3>2. Place(bucketCache[b], b) \in Providers \X BucketNames
      BY CachedPlace DEF LifeInv, Steady
    <3>q. QED BY <2>1, <3>1, <3>2
  <2>5. EndpointInv'
    <3> SUFFICES ASSUME OwnPlaces, "api" \notin Faults, NEW b \in Buckets,
                        Wanted(b), bucket[b].endpoint
                 PROVE  minio'[Place(bucket[b], b)] = b
      BY <1>1 DEF EndpointInv, EndpointOwned, Wanted, Exists, Place
    <3>1. Exists(b) /\ minio[Place(bucket[b], b)] = b
      BY DEF LifeInv, ObjectsInv, EndpointInv, EndpointOwned, Wanted
    <3>q. QED BY <2>1, <3>1, StoredPlace DEF LifeInv
  <2>6. ReadyInv'
    <3> SUFFICES ASSUME Alone, NEW b \in Buckets, Wanted(b), Ready(b)
                 PROVE  minio'[Place(bucket[b], b)] = b
      BY <1>1 DEF ReadyInv, Wanted, Ready, Exists, Place
    <3>1. Exists(b) /\ minio[Place(bucket[b], b)] = b
      BY DEF LifeInv, ObjectsInv, ReadyInv, Wanted
    <3>2. bucket[b].endpoint
      BY <3>1 DEF Ready, Exists, Honest, HonestInv, HonestObjects
    <3>q. QED BY <2>1, <3>1, <3>2, StoredPlace DEF LifeInv, Alone
  <2>q. QED BY <2>2, <2>3, <2>4, <2>5, <2>6 DEF ObjectsInv
<1>6. ASSUME minio[k] = None, minio' = [minio EXCEPT ![k] = cur], Goto("endpoint")
      PROVE  LifeInv'
  <2>1. pc' = "endpoint" /\ fresh' = fresh /\ obj' = obj /\ cur' = cur
    BY <1>6 DEF Goto, Continue
  <2>2. minio'[k] = cur /\ minio[k] # cur
    BY <1>2, <1>3, <1>6, ConstantsOK DEF TypeOK, WorldOK
  <2>3. Known(pc, fresh, obj)'
    BY <1>1, <1>2, <2>1 DEF At, Known, Formed, Follows, Held, Stored, Agrees, Removing
  <2>4. MadeAt(pc, obj)' /\ SteadyAt(pc, obj)'
    BY <2>1, <2>2 DEF MadeAt, SteadyAt, Place
  <2>5. EndpointAt(pc, fresh, obj)' /\ ReadyAt(pc, obj)'
    BY <1>1, <1>2, <2>1, <2>2, NotTold DEF EndpointAt, ReadyAt, Past, Wanted, Ready, Exists
  <2>q. QED BY <1>5, <1>6, <2>3, <2>4, <2>5 DEF LifeInv, WorkerInv, At
<1>7. ASSUME minio[k] = None, minio' = [minio EXCEPT ![k] = cur], Goto("fail")
      PROVE  LifeInv'
  <2>1. pc' = "fail" /\ fresh' = fresh /\ obj' = obj /\ cur' = cur
    BY <1>7 DEF Goto, Continue
  <2>2. Known(pc, fresh, obj)'
    BY <1>1, <1>4, <2>1 DEF At, Known, Formed, Follows, Held, Stored, Agrees, Removing
  <2>3. MadeAt(pc, obj)' /\ SteadyAt(pc, obj)' /\ EndpointAt(pc, fresh, obj)' /\ ReadyAt(pc, obj)'
    BY <1>1, <1>4, <2>1 DEF At, MadeAt, SteadyAt, EndpointAt, ReadyAt, Making, Past
  <2>q. QED BY <1>5, <1>7, <2>2, <2>3 DEF LifeInv, WorkerInv, At
<1>8. ASSUME UNCHANGED minio, Goto("fail")
      PROVE  LifeInv'
  BY <1>1, <1>4, <1>8, ContinueLife DEF Goto
<1>q. QED BY <1>6, <1>7, <1>8 DEF MakeMinioBucket

LEMMA CheckMinioBucketLife ==
  ASSUME TypeOK, HonestInv, LifeInv, CheckMinioBucket
  PROVE  LifeInv'
<1> DEFINE k == Place(obj, cur)
<1>1. pc = "bucket" /\ UNCHANGED <<bucket, bucketCache, provider, minio>>
  BY DEF CheckMinioBucket, store, caches, world
<1>2. cur \in Buckets /\ obj \in BucketObject /\ At("bucket", fresh, obj)
  BY <1>1, AliveWorker DEF LifeInv, Removing
<1>3. k \in Providers \X BucketNames /\ k[2] = NameOf[cur]
  BY <1>1, <1>2, ConstantsOK DEF Place, TypeOK, WorkerOK, Complete
<1>4. At("fail", fresh, obj) /\ At("make", fresh, obj)
  BY <1>2, MoveAt DEF Labels, Removing, Making, Past
<1>5. ASSUME minio[k] # None
      PROVE  At(SecretStep, fresh, obj)
  <2>1. ASSUME Alone, "foreign" \notin Env
        PROVE  minio[k] = cur
    <3>1. minio[k] \in Buckets
      BY <1>3, <1>5, <2>1 DEF TypeOK, WorldOK, Makers, LifeInv, ObjectsInv, NoForeign
    <3>q. QED BY <1>2, <1>3, <2>1, <3>1 DEF LifeInv, ObjectsInv, NamesInv, Alone, OwnPlaces
  <2>2. SecretStep \in {"oldSecret", "secret"}
    BY DEF SecretStep
  <2> HIDE DEF k
  <2>q. QED BY <1>2, <2>1, <2>2, MoveAt DEF Labels, Removing, Making, Past, k
<1>6. SecretStep # "idle"
  BY DEF SecretStep
<1>q. QED BY <1>1, <1>4, <1>5, <1>6, ContinueLife DEF CheckMinioBucket, Goto

LEMMA SetOwnerLife ==
  ASSUME TypeOK, HonestInv, LifeInv, SetOwner
  PROVE  LifeInv'
<1> DEFINE new == [obj EXCEPT !.owner = ref]
<1>1. pc = "own" /\ UNCHANGED <<bucketCache, provider, minio>> /\ pc \notin Removing \cup {"idle"}
  BY DEF SetOwner, caches, world, Removing
<1>2. /\ obj \in BucketObject /\ At("own", fresh, obj)
      /\ new \in BucketObject
  BY <1>1, AliveWorker, BucketUpdates DEF LifeInv, TypeOK, WorkerOK
<1>3. /\ new.deleting = obj.deleting /\ new.finalizer = obj.finalizer /\ new.spec = obj.spec
      /\ new.endpoint = obj.endpoint /\ new.conditions = obj.conditions
  BY <1>2 DEF BucketObject
<1>4. ASSUME fresh
      PROVE  GoesOn(bucket[cur], new) /\ Told(new)
  BY <1>1, <1>3, <1>4, AliveWorker, SameTold DEF LifeInv, GoesOn, Formed, Agrees
<1>5. Written("fail", FALSE, obj, new)
  BY <1>1, <1>3, AliveWorker DEF LifeInv, Written, MadeAt, Labels, Removing, Making, Past
<1>6. At("fail", fresh, obj)
  BY <1>2, FailAt DEF Labels, Removing
<1>7. Write(new, ValidateUpdate(bucket[cur], obj), "idle", "fail", obj)
  BY DEF SetOwner
<1> HIDE DEF new
<1>q. QED BY <1>1, <1>2, <1>4, <1>5, <1>6, <1>7, WriteLife

LEMMA SaveEndpointLife ==
  ASSUME TypeOK, HonestInv, LifeInv, SaveEndpoint
  PROVE  LifeInv'
<1> DEFINE new == [obj EXCEPT !.endpoint = TRUE]
<1>1. /\ pc = "endpoint" /\ UNCHANGED <<bucketCache, provider, minio>>
      /\ pc \notin Removing \cup {"idle"}
      /\ Write(new, TRUE, "idle", "undoBucket", new)
  BY DEF SaveEndpoint, caches, world, Removing
<1>2. /\ obj \in BucketObject /\ At("endpoint", fresh, obj) /\ new \in BucketObject
      /\ obj.spec.provider # None /\ minio[Place(obj, cur)] = cur
  BY <1>1, AliveWorker, BucketUpdates, ConstantsOK
     DEF LifeInv, TypeOK, WorkerOK, Complete, At, MadeAt, Making
<1>3. /\ new.deleting = obj.deleting /\ new.finalizer = obj.finalizer /\ new.spec = obj.spec
      /\ new.endpoint /\ new.conditions = obj.conditions
  BY <1>2 DEF BucketObject
<1>4. ~new.deleting /\ new.finalizer /\ Formed(new) /\ minio[Place(new, cur)] = cur
  BY <1>1, <1>2, <1>3, AliveWorker DEF LifeInv, Formed, Place
<1>5. ASSUME fresh
      PROVE  GoesOn(bucket[cur], new) /\ Told(new)
  BY <1>1, <1>3, <1>4, <1>5, AliveWorker DEF LifeInv, GoesOn, Agrees, Told
<1>6. ASSUME fresh, "api" \in Faults
      PROVE  Written("undoBucket", FALSE, new, new)
  <2>1. Alone => ~IsTrue(new.conditions, "Ready")
    BY <1>1, <1>2, <1>3, <1>6, AliveWorker
       DEF LifeInv, At, ReadyAt, Making, Agrees, Wanted, Ready, Exists, Held
  <2>q. QED BY <1>4, <1>6, <2>1 DEF Written, MadeAt, Labels, Removing, Making, Past
<1>7. ASSUME fresh => "api" \in Faults
      PROVE  At("undoBucket", fresh, new)
  <2>1. Known("undoBucket", fresh, new)
    BY <1>1, <1>2, <1>3, <1>4, AliveWorker
       DEF LifeInv, Known, Follows, Held, Stored, Agrees, Removing
  <2>2. MadeAt("undoBucket", new) /\ SteadyAt("undoBucket", new)
    BY <1>4 DEF MadeAt, SteadyAt
  <2>3. EndpointAt("undoBucket", fresh, new) /\ ReadyAt("undoBucket", new)
    BY <1>2, <1>7 DEF At, EndpointAt, ReadyAt, Making, Past
  <2>q. QED BY <2>1, <2>2, <2>3 DEF At
<1> HIDE DEF new
<1>q. QED BY <1>1, <1>2, <1>5, <1>6, <1>7, WriteLife

LEMMA SaveSecretNameLife ==
  ASSUME TypeOK, HonestInv, LifeInv, SaveSecretName
  PROVE  LifeInv'
<1>1. /\ pc = "saveSecret" /\ UNCHANGED <<bucketCache, provider, minio>>
      /\ pc \notin Removing \cup {"idle"}
      /\ Write(obj, TRUE, ReadyStep, "undoSecret", obj)
  BY DEF SaveSecretName, caches, world, Removing
<1>2. obj \in BucketObject /\ At("saveSecret", fresh, obj)
  BY <1>1, AliveWorker DEF LifeInv
<1>3. ASSUME fresh
      PROVE  GoesOn(bucket[cur], obj) /\ Told(obj)
  BY <1>1, <1>3, AliveWorker, SameTold DEF LifeInv, GoesOn, Agrees
<1>4. \A l \in {"ready", "undoSecret"}, f \in BOOLEAN : Written(l, f, obj, obj)
  BY <1>1, <1>2, AliveWorker
     DEF LifeInv, Written, MadeAt, At, ReadyAt, Labels, Removing, Making, Past
<1>5. At("undoSecret", fresh, obj)
  BY <1>2, MoveAt DEF Labels, Removing, Making, Past
<1>6. ReadyStep \in {"idle", "ready"}
  BY DEF ReadyStep
<1>q. QED BY <1>1, <1>2, <1>3, <1>4, <1>5, <1>6, WriteLife

LEMMA SetReadyLife ==
  ASSUME TypeOK, HonestInv, LifeInv, SetReady
  PROVE  LifeInv'
<1> DEFINE c == SetCondition(RemoveCondition(RemoveCondition(obj.conditions, "Creating"),
                                             "Error"), "Ready", TRUE)
           new == [obj EXCEPT !.conditions = c]
<1>1. /\ pc = "ready" /\ UNCHANGED <<bucketCache, provider, minio>>
      /\ pc \notin Removing \cup {"idle"} /\ Write(new, TRUE, "idle", "idle", new)
  BY DEF SetReady, caches, world, Removing
<1>2. obj \in BucketObject /\ At("ready", fresh, obj) /\ HonestAt("ready", obj)
  BY <1>1, AliveWorker DEF LifeInv, HonestInv, HonestWorker
<1>3. c \in ConditionMap
  BY <1>2, BucketUpdates, SetConditionMap, RemoveConditionMap DEF BucketConditions
<1>4. new \in BucketObject
  BY <1>2, <1>3, BucketUpdates
<1>5. /\ new.deleting = obj.deleting /\ new.finalizer = obj.finalizer /\ new.spec = obj.spec
      /\ new.endpoint = obj.endpoint
  BY <1>2 DEF BucketObject
<1>6. ASSUME fresh
      PROVE  GoesOn(bucket[cur], new) /\ Told(new)
  <2>1. /\ cur \in Buckets /\ Wanted(cur) /\ bucket[cur].endpoint /\ new.endpoint
        /\ Place(new, cur) = Place(bucket[cur], cur) /\ Place(new, cur) = Place(obj, cur)
    BY <1>1, <1>2, <1>5, <1>6, AliveWorker
       DEF LifeInv, HonestAt, Agrees, Wanted, Exists, Held, Place
  <2>2. OwnPlaces /\ "api" \notin Faults => minio[Place(new, cur)] = cur
    BY <2>1 DEF LifeInv, ObjectsInv, EndpointInv, EndpointOwned
  <2>3. Alone => minio[Place(new, cur)] = cur
    BY <1>2, <2>1, <2>2 DEF At, ReadyAt, Past, Alone
  <2>q. QED BY <1>1, <1>5, <1>6, <2>2, <2>3, AliveWorker DEF LifeInv, GoesOn, Formed, Agrees, Told
<1> HIDE DEF new
<1>q. QED BY <1>1, <1>4, <1>6, WriteLife

LEMMA RecordErrorLife ==
  ASSUME TypeOK, HonestInv, LifeInv, RecordError
  PROVE  LifeInv'
<1> DEFINE c == SetCondition(SetCondition(obj.conditions, "Ready", FALSE), "Error", TRUE)
           new == [obj EXCEPT !.conditions = c]
<1>1. /\ pc = "fail" /\ UNCHANGED <<bucketCache, provider, minio>>
      /\ pc \notin Removing \cup {"idle"} /\ Write(new, TRUE, "idle", "idle", new)
  BY DEF RecordError, caches, world, Removing
<1>2. obj \in BucketObject /\ At("fail", fresh, obj)
  BY <1>1, AliveWorker DEF LifeInv
<1>3. c \in ConditionMap /\ c["Ready"] = FALSE
  <2>1. obj.conditions \in ConditionMap
    BY <1>2, BucketUpdates
  <2>q. QED BY <2>1 DEF SetCondition, ConditionMap, BucketConditions
<1>4. new \in BucketObject
  BY <1>2, <1>3, BucketUpdates
<1>5. /\ new.deleting = obj.deleting /\ new.finalizer = obj.finalizer /\ new.spec = obj.spec
      /\ new.endpoint = obj.endpoint /\ ~IsTrue(new.conditions, "Ready")
  BY <1>2, <1>3 DEF BucketObject, IsTrue
<1>6. ASSUME fresh
      PROVE  GoesOn(bucket[cur], new) /\ Told(new)
  <2>1. /\ cur \in Buckets /\ Wanted(cur) /\ Place(new, cur) = Place(bucket[cur], cur)
    BY <1>1, <1>2, <1>5, <1>6, AliveWorker DEF LifeInv, Agrees, Wanted, Exists, Held, Place
  <2>2. OwnPlaces /\ "api" \notin Faults /\ new.endpoint => minio[Place(new, cur)] = cur
    BY <1>2, <1>5, <1>6, <2>1
       DEF At, EndpointAt, LifeInv, ObjectsInv, EndpointInv, EndpointOwned
  <2>q. QED BY <1>1, <1>5, <1>6, <2>2, AliveWorker DEF LifeInv, GoesOn, Formed, Agrees, Told
<1> HIDE DEF new
<1>q. QED BY <1>1, <1>4, <1>6, WriteLife

LEMMA DropFinalizerLife ==
  ASSUME TypeOK, HonestInv, LifeInv, DropFinalizer
  PROVE  LifeInv'
<1>1. /\ pc = "unfinalize" /\ UNCHANGED <<bucketCache, provider, minio>> /\ pc' = "idle"
      /\ UNCHANGED bucket \/ (fresh /\ bucket' = [bucket EXCEPT ![cur] = None])
  BY DEF DropFinalizer, Write, Continue, Finish, caches, world
<1>2. cur \in Buckets /\ At("unfinalize", fresh, obj)
  BY <1>1 DEF LifeInv, WorkerInv, TypeOK, WorkerOK
<1>3. CASE UNCHANGED bucket
  BY <1>1, <1>3, QuietLife
<1>4. CASE fresh /\ bucket' = [bucket EXCEPT ![cur] = None]
  <2>1. /\ bucketCache[cur] = obj /\ obj.deleting /\ (Steady => Clean(obj, cur))
    BY <1>2, <1>4 DEF At, Known, Stored, SteadyAt, Removing
  <2>2. bucket'[cur] = None /\ \A b \in Buckets \ {cur} : bucket'[b] = bucket[b]
    BY <1>2, <1>4 DEF TypeOK, ObjectsOK
  <2>3. StoreInv' /\ CacheInv' /\ NamesInv' /\ NoForeign'
    BY <1>1, <2>1, <2>2
       DEF LifeInv, ObjectsInv, StoreInv, CacheInv, NamesInv, NoForeign, Formed, Follows, Held
  <2>4. SteadyInv'
    BY <1>1, <2>1, <2>2 DEF LifeInv, ObjectsInv, SteadyInv, Clean, Held, Place
  <2>5. EndpointInv' /\ ReadyInv'
    BY <1>1, <2>2
       DEF LifeInv, ObjectsInv, EndpointInv, EndpointOwned, ReadyInv, Wanted, Ready, Exists, Place
  <2>q. QED BY <1>1, <2>3, <2>4, <2>5, IdleWorker DEF LifeInv, ObjectsInv
<1>q. QED BY <1>1, <1>3, <1>4

LEMMA WorkLife ==
  ASSUME TypeOK, HonestInv, LifeInv, Work
  PROVE  LifeInv'
<1>r. RemoveMinioBucket \/ DropFinalizer \/ SetOwner \/ CheckMinioBucket \/ MakeMinioBucket
        \/ SaveEndpoint \/ UndoMinioBucket \/ SaveSecretName \/ SetReady \/ RecordError
      => LifeInv'
  BY RemoveMinioBucketLife, DropFinalizerLife, SetOwnerLife, CheckMinioBucketLife,
     MakeMinioBucketLife, SaveEndpointLife, UndoMinioBucketLife, SaveSecretNameLife,
     SetReadyLife, RecordErrorLife
<1>a. pc \in {"account", "oldSecret", "secret", "undoSecret"} =>
        obj \in BucketObject /\ At(pc, fresh, obj) /\ At("fail", fresh, obj)
  BY AliveWorker, FailAt DEF LifeInv, Removing, Labels
<1>p. pc \in {"oldSecret", "secret"} => At("secret", fresh, obj) /\ At("ready", fresh, obj)
  BY <1>a, MoveAt DEF Labels, Removing, Making, Past
<1>1. CASE CreateAccount
  <2>1. pc = "account" /\ UNCHANGED <<bucket, bucketCache, provider, minio>>
    BY <1>1 DEF CreateAccount, caches, world
  <2>2. At("own", fresh, obj)
    BY <1>a, <2>1, MoveAt DEF Labels, Removing, Making, Past
  <2>3. CASE pc' = "own" /\ UNCHANGED <<cur, fresh, obj>>
    BY <2>1, <2>2, <2>3, QuietLife
  <2>4. CASE Goto("fail")
    BY <1>a, <2>1, <2>4, ContinueLife DEF Goto
  <2>q. QED BY <1>1, <2>3, <2>4 DEF CreateAccount
<1>2. CASE DeleteOldSecret
  <2>1. pc = "oldSecret" /\ UNCHANGED <<bucket, bucketCache, provider, minio>>
        /\ (Goto("secret") \/ Goto("fail"))
    BY <1>2 DEF DeleteOldSecret, caches, world
  <2>q. QED BY <1>a, <1>p, <2>1, ContinueLife DEF Goto
<1>3. CASE AwaitKeys
  BY <1>3, QuietLife DEF AwaitKeys, Finish, store, caches, world
<1>4. CASE SecretTaken \/ UpdateSecret
  <2>1. pc = "secret" /\ UNCHANGED <<bucket, bucketCache, provider, minio>>
        /\ (Goto(ReadyStep) \/ Goto("fail"))
    BY <1>4 DEF SecretTaken, UpdateSecret, store, caches, world
  <2>2. ReadyStep \in {"idle", "ready"}
    BY DEF ReadyStep
  <2>q. QED BY <1>a, <1>p, <2>1, <2>2, ContinueLife DEF Goto
<1>5. CASE CreateSecret
  <2> DEFINE new == [obj EXCEPT !.secretName = obj.spec.secretName]
  <2>1. pc = "secret" /\ UNCHANGED <<bucket, bucketCache, provider, minio>>
        /\ (Continue("saveSecret", fresh, new) \/ Goto("fail"))
    BY <1>5 DEF CreateSecret, caches, world
  <2>2. At("saveSecret", fresh, obj)
    BY <1>a, <2>1, MoveAt DEF Labels, Removing, Making, Past
  <2>3. /\ new.deleting = obj.deleting /\ new.finalizer = obj.finalizer /\ new.spec = obj.spec
        /\ new.endpoint = obj.endpoint /\ new.conditions = obj.conditions
    BY <1>a, <2>1 DEF BucketObject
  <2> HIDE DEF new
  <2>4. At("saveSecret", fresh, new)
    BY <2>2, <2>3 DEF At, Known, Formed, Follows, Stored, Agrees, MadeAt, SteadyAt, EndpointAt,
       ReadyAt, Place, Removing, Making, Past
  <2>q. QED BY <1>a, <2>1, <2>4, ContinueLife DEF Goto
<1>6. CASE UndoSecret
  <2>1. pc = "undoSecret" /\ UNCHANGED <<bucket, bucketCache, provider, minio>> /\ Goto("fail")
    BY <1>6 DEF UndoSecret, caches, world
  <2>q. QED BY <1>a, <2>1, ContinueLife DEF Goto
<1>q. QED BY <1>r, <1>1, <1>2, <1>3, <1>4, <1>5, <1>6 DEF Work

LEMMA InformersLife ==
  ASSUME TypeOK, HonestInv, LifeInv, Informers
  PROVE  LifeInv'
<1>1. ASSUME NEW b \in Buckets, SyncBucket(b)
      PROVE  LifeInv'
  <2>1. /\ bucketCache[b] # bucket[b]
        /\ bucketCache'[b] = bucket[b] /\ \A c \in Buckets \ {b} : bucketCache'[c] = bucketCache[c]
        /\ UNCHANGED <<bucket, provider, minio, pc, cur, fresh, obj>>
    BY <1>1 DEF SyncBucket, store, world, worker, TypeOK, ObjectsOK
  <2>2. StoreInv' /\ NamesInv' /\ NoForeign' /\ EndpointInv' /\ ReadyInv'
    BY <2>1 DEF LifeInv, ObjectsInv, StoreInv, NamesInv, NoForeign, EndpointInv, EndpointOwned,
       ReadyInv, Formed, Wanted, Ready, Exists, Place
  <2>3. CacheInv'
    BY <2>1 DEF LifeInv, ObjectsInv, StoreInv, CacheInv, Formed, Follows, Held
  <2>4. SteadyInv'
    BY <2>1 DEF LifeInv, ObjectsInv, StoreInv, SteadyInv, Formed, Held, Clean, Place
  <2>5. ASSUME pc # "idle"
        PROVE  At(pc, fresh, obj)'
    <3>1. At(pc, fresh, obj) /\ cur \in Buckets
      BY <2>5 DEF LifeInv, WorkerInv, TypeOK, WorkerOK
    <3>2. Known(pc, fresh, obj)'
      BY <2>1, <3>1 DEF At, Known, Formed, Follows, Held, Stored, Agrees
    <3>3. MadeAt(pc, obj)' /\ SteadyAt(pc, obj)'
      BY <2>1, <3>1 DEF At, MadeAt, SteadyAt, Held, Clean, Place
    <3>4. EndpointAt(pc, fresh, obj)' /\ ReadyAt(pc, obj)'
      BY <2>1, <3>1 DEF At, EndpointAt, ReadyAt, Wanted, Ready, Exists, Place
    <3>q. QED BY <3>2, <3>3, <3>4 DEF At
  <2>q. QED BY <2>1, <2>2, <2>3, <2>4, <2>5 DEF LifeInv, ObjectsInv, WorkerInv
<1>2. ASSUME UNCHANGED <<bucket, bucketCache, provider, minio, worker>>
      PROVE  LifeInv'
  BY <1>2, QuietLife DEF worker, LifeInv, WorkerInv
<1>q. QED BY <1>1, <1>2 DEF Informers, SyncAccount, SyncSecret, store, world

-----------------------------------------------------------------------------
(* Steps of the others.                                                    *)

\* What the worker knows outlives a write of b by a user.
LEMMA OthersWrite ==
  ASSUME TypeOK, LifeInv, ObjectsInv', NEW b \in Buckets, NEW new,
         bucket' = [bucket EXCEPT ![b] = new],
         UNCHANGED <<bucketCache, provider, minio, pc, cur, obj>>,
         fresh' => fresh /\ cur # b,
         Held(b) <=> new # None /\ new.finalizer,
         Held(b) => /\ bucket[b].deleting => new.deleting
                    /\ OwnPlaces => bucket[b].spec.provider \in {None, new.spec.provider},
         new # None /\ ~new.deleting =>
           /\ new.endpoint => Wanted(b) /\ bucket[b].endpoint
           /\ IsTrue(new.conditions, "Ready") => Wanted(b) /\ Ready(b)
  PROVE  LifeInv'
<1>1. bucket'[b] = new /\ \A c \in Buckets \ {b} : bucket'[c] = bucket[c]
  BY DEF TypeOK, ObjectsOK
<1>2. ASSUME pc # "idle"
      PROVE  At(pc, fresh, obj)'
  <2>1. At(pc, fresh, obj) /\ cur \in Buckets
    BY <1>2 DEF LifeInv, WorkerInv, TypeOK, WorkerOK
  <2>2. (fresh => Stored(pc, obj))'
    BY <1>1, <2>1 DEF At, Known, Stored, Agrees
  <2>3. Held(cur)' <=> Held(cur)
    BY <1>1, <2>1 DEF Held
  <2>4. Follows(obj, cur)'
    BY <1>1, <2>1, <2>3 DEF At, Known, Follows
  <2>5. Known(pc, fresh, obj)'
    BY <2>1, <2>2, <2>4 DEF At, Known, Formed
  <2>6. MadeAt(pc, obj)' /\ SteadyAt(pc, obj)'
    BY <2>1, <2>3 DEF At, MadeAt, SteadyAt, Clean, Place
  <2>7. EndpointAt(pc, fresh, obj)'
    BY <1>1, <2>1 DEF At, EndpointAt, Wanted, Exists
  <2>8. ReadyAt(pc, obj)'
    BY <1>1, <2>1 DEF At, ReadyAt, Wanted, Ready, Exists, Place
  <2>q. QED BY <2>5, <2>6, <2>7, <2>8 DEF At
<1>q. QED BY <1>2 DEF LifeInv, WorkerInv

LEMMA CreateBucketLife ==
  ASSUME TypeOK, HonestInv, LifeInv, NEW b \in Buckets, CreateBucket(b)
  PROVE  LifeInv'
<1>1. PICK request \in Requests(b) : \E spec \in Defaulted(b, request) :
        bucket' = [bucket EXCEPT ![b] = NewBucket(spec)]
  BY DEF CreateBucket
<1>2. PICK spec \in Defaulted(b, request) : bucket' = [bucket EXCEPT ![b] = NewBucket(spec)]
  BY <1>1
<1> DEFINE new == NewBucket(spec)
<1>3. /\ bucket[b] = None /\ bucket'[b] = new /\ \A c \in Buckets \ {b} : bucket'[c] = bucket[c]
      /\ UNCHANGED <<bucketCache, provider, minio, pc, cur, fresh, obj>>
  BY <1>2 DEF CreateBucket, caches, world, worker, TypeOK, ObjectsOK
<1>4. /\ ~new.deleting /\ ~new.finalizer /\ ~new.endpoint /\ new.spec = spec
      /\ ~IsTrue(new.conditions, "Ready") /\ new # None
  <2>1. new.conditions["Ready"] = None
    BY DEF NewBucket, NoConditions, BucketConditions
  <2>2. spec \in BucketSpec
    BY <1>2, DefaultedSpec
  <2>3. new \in BucketObject
    BY <2>2 DEF NewBucket, BucketObject, NoConditions
  <2>q. QED BY <2>1, <2>3, ConstantsOK DEF NewBucket, IsTrue
<1>5. Formed(new)
  <2>1. Webhooks => spec.provider # None
    <3>1. request \in BucketSpec
      BY ConstantsOK DEF Requests, BucketSpec
    <3>2. ASSUME Webhooks
          PROVE  \E p \in Providers : spec.provider = p
      <4>1. PICK p \in IF request.provider = None THEN DefaultProvider ELSE {request.provider} :
              spec = [request EXCEPT !.provider = p,
                        !.serviceAccount = Or(request.serviceAccount, DefaultAccount[b]),
                        !.secretName = Or(request.secretName, DefaultSecret[b])]
        BY <1>2, <3>2 DEF Defaulted
      <4>2. p \in Providers
        BY <3>1, ConstantsOK DEF DefaultProvider, BucketSpec
      <4>q. QED BY <3>1, <4>1, <4>2 DEF BucketSpec
    <3>q. QED BY <3>2, ConstantsOK
  <2>q. QED BY <1>4, <2>1 DEF Formed
<1> HIDE DEF new
<1>6. ObjectsInv'
  <2>1. StoreInv'
    BY <1>3, <1>5 DEF LifeInv, ObjectsInv, StoreInv, Formed
  <2>2. CacheInv'
    BY <1>3, <1>4 DEF LifeInv, ObjectsInv, CacheInv, Formed, Follows, Held
  <2>3. NamesInv' /\ NoForeign'
    BY <1>3 DEF LifeInv, ObjectsInv, NamesInv, NoForeign
  <2>4. SteadyInv'
    BY <1>3, <1>4 DEF LifeInv, ObjectsInv, SteadyInv, Clean, Held, Place
  <2>5. EndpointInv' /\ ReadyInv'
    BY <1>3, <1>4
       DEF LifeInv, ObjectsInv, EndpointInv, EndpointOwned, ReadyInv, Wanted, Ready, Exists, Place
  <2>q. QED BY <2>1, <2>2, <2>3, <2>4, <2>5 DEF ObjectsInv
<1>7. ASSUME pc # "idle", fresh
      PROVE  cur # b
  BY <1>3, <1>7 DEF LifeInv, WorkerInv, At, Known, Stored
<1>8. CASE pc = "idle"
  BY <1>3, <1>6, <1>8, IdleWorker DEF LifeInv
<1>9. CASE pc # "idle"
  <2>1. bucket' = [bucket EXCEPT ![b] = new]
    BY <1>2 DEF new
  <2>q. QED BY <1>3, <1>4, <1>6, <1>7, <1>9, <2>1, OthersWrite DEF Held
<1>q. QED BY <1>8, <1>9

LEMMA EditBucketLife ==
  ASSUME TypeOK, HonestInv, LifeInv, NEW b \in Buckets, EditBucket(b)
  PROVE  LifeInv'
<1>1. PICK request \in Requests(b) : \E spec \in Defaulted(b, request) :
        /\ bucket' = [bucket EXCEPT ![b] = [bucket[b] EXCEPT !.spec = spec]]
        /\ ValidateUpdate(bucket[b], [bucket[b] EXCEPT !.spec = spec])
  BY DEF EditBucket
<1>2. PICK spec \in Defaulted(b, request) :
        /\ bucket' = [bucket EXCEPT ![b] = [bucket[b] EXCEPT !.spec = spec]]
        /\ ValidateUpdate(bucket[b], [bucket[b] EXCEPT !.spec = spec])
  BY <1>1
<1> DEFINE new == [bucket[b] EXCEPT !.spec = spec]
<1>3. /\ bucket[b] # None /\ "edit" \in Env
      /\ UNCHANGED <<bucketCache, provider, minio, pc, cur, obj>> /\ fresh' = (fresh /\ cur # b)
  BY DEF EditBucket, Outdate, caches, world
<1>4. bucket[b] \in BucketObject /\ Formed(bucket[b]) /\ Honest(bucket[b])
  BY <1>3 DEF TypeOK, ObjectsOK, ObjectOrNone, LifeInv, ObjectsInv, StoreInv, HonestInv, HonestObjects
<1>5. spec \in BucketSpec
  BY <1>2, DefaultedSpec
<1>6. new \in BucketObject /\ new # None
  <2>1. new \in BucketObject
    BY <1>4, <1>5, BucketUpdates
  <2> HIDE DEF new
  <2>q. QED BY <2>1, ConstantsOK
<1>7. /\ new.deleting = bucket[b].deleting /\ new.finalizer = bucket[b].finalizer
      /\ new.spec = spec /\ new.endpoint = bucket[b].endpoint
      /\ new.conditions = bucket[b].conditions
  BY <1>4 DEF BucketObject
<1>8. Webhooks => new.spec.provider # None /\ bucket[b].spec.provider \in {None, new.spec.provider}
  BY <1>2 DEF ValidateUpdate
<1> HIDE DEF new
<1>9. GoesOn(bucket[b], new)
  BY <1>3, <1>4, <1>7, <1>8 DEF GoesOn, Formed, OwnPlaces
<1>10. ASSUME OwnPlaces, ~new.deleting, new.endpoint \/ Ready(b)
       PROVE  Wanted(b) /\ bucket[b].endpoint /\ Place(new, b) = Place(bucket[b], b)
  <2>1. Wanted(b) /\ bucket[b].endpoint
    BY <1>3, <1>4, <1>7, <1>10 DEF Wanted, Ready, Exists, Honest
  <2>q. QED BY <1>4, <1>9, <1>10, <2>1 DEF GoesOn, Formed, Place
<1>11. ObjectsInv'
  <2>1. OwnPlaces /\ "api" \notin Faults /\ ~new.deleting /\ new.endpoint => minio[Place(new, b)] = b
    BY <1>10 DEF LifeInv, ObjectsInv, EndpointInv, EndpointOwned
  <2>2. Alone /\ ~new.deleting /\ IsTrue(new.conditions, "Ready") => minio[Place(new, b)] = b
    BY <1>3, <1>7, <1>10 DEF LifeInv, ObjectsInv, ReadyInv, Ready, Exists, Alone
  <2>3. bucket' = [bucket EXCEPT ![b] = new] /\ (Held(b) \/ ~new.finalizer)
    BY <1>2, <1>3, <1>7 DEF new, Held
  <2>q. QED BY <1>3, <1>6, <1>9, <2>1, <2>2, <2>3, WriteObjects DEF LifeInv
<1>12. bucket' = [bucket EXCEPT ![b] = new]
  BY <1>2 DEF new
<1>q. QED BY <1>3, <1>6, <1>7, <1>9, <1>11, <1>12, OthersWrite DEF GoesOn, Held, Wanted, Ready, Exists

LEMMA DeleteBucketLife ==
  ASSUME TypeOK, HonestInv, LifeInv, NEW b \in Buckets, DeleteBucket(b)
  PROVE  LifeInv'
<1> DEFINE new == IF bucket[b].finalizer THEN [bucket[b] EXCEPT !.deleting = TRUE] ELSE None
<1>1. /\ bucket[b] # None /\ ~bucket[b].deleting /\ bucket' = [bucket EXCEPT ![b] = new]
      /\ UNCHANGED <<bucketCache, provider, minio, pc, cur, obj>> /\ fresh' = (fresh /\ cur # b)
  BY DEF DeleteBucket, Outdate, caches, world
<1>2. bucket[b] \in BucketObject /\ Formed(bucket[b])
  BY <1>1 DEF TypeOK, ObjectsOK, ObjectOrNone, LifeInv, ObjectsInv, StoreInv
<1>3. IF Held(b)
      THEN /\ new # None /\ new.deleting /\ new.finalizer
           /\ new.spec = bucket[b].spec /\ new.endpoint = bucket[b].endpoint
      ELSE new = None
  <2>1. CASE bucket[b].finalizer
    <3>1. new \in BucketObject
      BY <1>2, <2>1, BucketUpdates
    <3>2. new.deleting /\ new.finalizer
          /\ new.spec = bucket[b].spec /\ new.endpoint = bucket[b].endpoint
      BY <1>2, <2>1 DEF BucketObject
    <3>q. QED BY <1>1, <2>1, <3>1, <3>2, ConstantsOK DEF Held
  <2>2. CASE ~bucket[b].finalizer
    BY <2>2 DEF Held
  <2>q. QED BY <2>1, <2>2
<1>4. bucket'[b] = new /\ \A c \in Buckets \ {b} : bucket'[c] = bucket[c]
  BY <1>1 DEF TypeOK, ObjectsOK
<1> HIDE DEF new
<1>5. ObjectsInv'
  <2>1. StoreInv'
    BY <1>2, <1>3, <1>4 DEF LifeInv, ObjectsInv, StoreInv, Formed
  <2>2. \A c \in Buckets : Held(c)' <=> Held(c)
    BY <1>3, <1>4 DEF Held
  <2>3. CacheInv'
    BY <1>1, <1>3, <1>4, <2>2 DEF LifeInv, ObjectsInv, CacheInv, Formed, Follows
  <2>4. NamesInv' /\ NoForeign'
    BY <1>1 DEF LifeInv, ObjectsInv, NamesInv, NoForeign
  <2>5. SteadyInv'
    BY <1>1, <2>2 DEF LifeInv, ObjectsInv, SteadyInv, Clean, Place
  <2>6. EndpointInv' /\ ReadyInv'
    BY <1>1, <1>3, <1>4
       DEF LifeInv, ObjectsInv, EndpointInv, EndpointOwned, ReadyInv, Wanted, Ready, Exists, Place
  <2>q. QED BY <2>1, <2>3, <2>4, <2>5, <2>6 DEF ObjectsInv
<1>q. QED BY <1>1, <1>3, <1>5, OthersWrite

LEMMA ForeignBucketLife ==
  ASSUME TypeOK, HonestInv, LifeInv, NEW k \in Providers \X BucketNames, ForeignBucket(k)
  PROVE  LifeInv'
<1>1. /\ UNCHANGED <<bucket, bucketCache, provider, pc, cur, fresh, obj>> /\ "foreign" \in Env
  BY DEF ForeignBucket, store, caches, world, worker
<1>2. \A j \in Providers \X BucketNames :
        /\ minio'[j] \in {minio[j], None, Foreign}
        /\ \A b \in Buckets : minio'[j] = b <=> minio[j] = b
  BY ConstantsOK DEF ForeignBucket, TypeOK, WorldOK
<1>3. StoreInv' /\ CacheInv' /\ NoForeign'
  BY <1>1 DEF LifeInv, ObjectsInv, StoreInv, CacheInv, NoForeign, Formed, Follows, Held
<1>4. NamesInv'
  BY <1>2, ConstantsOK DEF LifeInv, ObjectsInv, NamesInv
<1>5. SteadyInv'
  <2> SUFFICES ASSUME Steady, NEW b \in Buckets, bucketCache[b] # None, ~Held(b),
                      bucketCache[b].deleting, bucketCache[b].spec.reclaimPolicy # "Retain"
               PROVE  minio'[Place(bucketCache[b], b)] # b
    BY <1>1 DEF LifeInv, ObjectsInv, SteadyInv, Clean, Held, Place
  <2>1. minio[Place(bucketCache[b], b)] # b
    BY DEF LifeInv, ObjectsInv, SteadyInv, Clean
  <2>q. QED BY <1>2, <2>1, CachedPlace DEF LifeInv, Steady
<1>6. EndpointInv'
  <2> SUFFICES ASSUME OwnPlaces, "api" \notin Faults, NEW b \in Buckets,
                      Wanted(b), bucket[b].endpoint
               PROVE  minio'[Place(bucket[b], b)] = b
    BY <1>1 DEF EndpointInv, EndpointOwned, Wanted, Exists, Place
  <2>1. Exists(b) /\ minio[Place(bucket[b], b)] = b
    BY DEF LifeInv, ObjectsInv, EndpointInv, EndpointOwned, Wanted
  <2>q. QED BY <1>2, <2>1, StoredPlace DEF LifeInv
<1>7. ReadyInv'
  <2> SUFFICES ASSUME Alone, NEW b \in Buckets, Wanted(b), Ready(b)
               PROVE  minio'[Place(bucket[b], b)] = b
    BY <1>1 DEF ReadyInv, Wanted, Ready, Exists, Place
  <2>1. Exists(b) /\ minio[Place(bucket[b], b)] = b
    BY DEF LifeInv, ObjectsInv, ReadyInv, Wanted
  <2>2. bucket[b].endpoint
    BY <2>1 DEF Ready, Exists, Honest, HonestInv, HonestObjects
  <2>q. QED BY <1>2, <2>1, <2>2, StoredPlace DEF LifeInv, Alone
<1>8. ASSUME pc # "idle"
      PROVE  At(pc, fresh, obj)'
  <2>1. At(pc, fresh, obj) /\ cur \in Buckets /\ obj \in BucketObject /\ Complete(pc, obj)
    BY <1>8 DEF LifeInv, WorkerInv, TypeOK, WorkerOK
  <2>2. pc \in Making \/ Webhooks => Place(obj, cur) \in Providers \X BucketNames
    <3>1. pc \in Making \/ Webhooks => obj.spec.provider # None
      BY <2>1, ConstantsOK DEF Complete, Making, At, Known, Formed
    <3>q. QED BY <2>1, <3>1, PlaceTyped
  <2>3. Known(pc, fresh, obj)'
    BY <1>1, <2>1 DEF At, Known, Formed, Follows, Held, Stored, Agrees
  <2>4. MadeAt(pc, obj)'
    BY <1>1, <1>2, <2>1, <2>2 DEF At, MadeAt, Place
  <2>5. SteadyAt(pc, obj)'
    BY <1>1, <1>2, <2>1, <2>2 DEF At, SteadyAt, Steady, Held, Clean, Place
  <2>6. EndpointAt(pc, fresh, obj)' /\ ReadyAt(pc, obj)'
    BY <1>1, <2>1 DEF At, EndpointAt, ReadyAt, Wanted, Ready, Exists
  <2>q. QED BY <2>3, <2>4, <2>5, <2>6 DEF At
<1>q. QED BY <1>1, <1>3, <1>4, <1>5, <1>6, <1>7, <1>8 DEF LifeInv, ObjectsInv, WorkerInv

LEMMA ProviderChangesLife ==
  ASSUME TypeOK, LifeInv, NEW p \in Providers, ProviderChanges(p)
  PROVE  LifeInv'
<1>1. UNCHANGED <<bucket, bucketCache, minio, pc, cur, fresh, obj>> /\ ~Steady
  BY DEF ProviderChanges, Steady, store, caches, worker
<1>2. ObjectsInv'
  BY <1>1 DEF LifeInv, ObjectsInv, StoreInv, CacheInv, NamesInv, NoForeign, SteadyInv,
     EndpointInv, ReadyInv, Formed, Follows, Held, Place, EndpointOwned, Wanted, Ready, Exists
<1>3. At(pc, fresh, obj) => At(pc, fresh, obj)'
  <2>1. Known(pc, fresh, obj) => Known(pc, fresh, obj)'
    BY <1>1 DEF Known, Formed, Follows, Held, Stored, Agrees
  <2>2. MadeAt(pc, obj) => MadeAt(pc, obj)'
    BY <1>1 DEF MadeAt, Place
  <2>3. SteadyAt(pc, obj)'
    BY <1>1 DEF SteadyAt
  <2>4. EndpointAt(pc, fresh, obj) /\ ReadyAt(pc, obj) => EndpointAt(pc, fresh, obj)' /\ ReadyAt(pc, obj)'
    BY <1>1 DEF EndpointAt, ReadyAt, Wanted, Ready, Exists, Place
  <2>q. QED BY <2>1, <2>2, <2>3, <2>4 DEF At
<1>q. QED BY <1>1, <1>2, <1>3 DEF LifeInv, WorkerInv

LEMMA NextLife == TypeOK /\ HonestInv /\ LifeInv /\ [Next]_vars => LifeInv'
<1> SUFFICES ASSUME TypeOK, HonestInv, LifeInv, [Next]_vars PROVE LifeInv'
  OBVIOUS
<1>1. CASE \E b \in Buckets : Start(b)
  BY <1>1, StartLife
<1>2. CASE Work
  BY <1>2, WorkLife
<1>3. CASE Crash
  BY <1>3, QuietLife DEF Crash, Finish, store, caches, world
<1>4. CASE Informers
  BY <1>4, InformersLife
<1>5. CASE \E b \in Buckets : CreateBucket(b) \/ EditBucket(b) \/ DeleteBucket(b)
  BY <1>5, CreateBucketLife, EditBucketLife, DeleteBucketLife
<1>6. CASE \E p \in Providers : ProviderChanges(p)
  BY <1>6, ProviderChangesLife
<1>7. CASE \E k \in Providers \X BucketNames : ForeignBucket(k)
  BY <1>7, ForeignBucketLife
<1>8. CASE UNCHANGED <<bucket, bucketCache, provider, minio, worker>>
  BY <1>8, QuietLife DEF worker, LifeInv, WorkerInv
<1>9. ASSUME Environment
      PROVE  \/ \E b \in Buckets : CreateBucket(b) \/ EditBucket(b) \/ DeleteBucket(b)
             \/ \E p \in Providers : ProviderChanges(p)
             \/ \E k \in Providers \X BucketNames : ForeignBucket(k)
             \/ UNCHANGED <<bucket, bucketCache, provider, minio, worker>>
  BY <1>9 DEF Environment, UserSecret, CollectSecret, PublishKeys, WithdrawKeys, AccountGone,
     MinioUsers, store, caches, world
<1>10. CASE UNCHANGED vars
  BY <1>8, <1>10 DEF vars, store, caches, world
<1>q. QED BY <1>1, <1>2, <1>3, <1>4, <1>5, <1>6, <1>7, <1>8, <1>9, <1>10 DEF Next, Controller

LEMMA InitLife == Init => LifeInv
<1> SUFFICES ASSUME Init PROVE LifeInv
  OBVIOUS
<1>1. /\ \A b \in Buckets : bucket[b] = None /\ bucketCache[b] = None
      /\ \A k \in Providers \X BucketNames : minio[k] = None
      /\ \A p \in Providers : provider[p] = "usable"
      /\ pc = "idle"
  BY DEF Init
<1>q. QED BY <1>1, ConstantsOK DEF LifeInv, ObjectsInv, StoreInv, CacheInv, NamesInv, NoForeign, SteadyInv,
     EndpointInv, EndpointOwned, ReadyInv, Wanted, Exists, WorkerInv

LEMMA AllInv == Spec => [](TypeOK /\ HonestInv /\ LifeInv)
<1>1. Init => HonestInv
  BY DEF Init, HonestInv, HonestObjects, HonestWorker
<1>q. QED BY <1>1, InitTyped, InitLife, NextTyped, NextHonest, NextLife, PTL DEF Spec

-----------------------------------------------------------------------------
(* Theorems.                                                               *)

\* Unless an answer of the API server is lost, or Buckets share a place, a
\* Bucket that is wanted and has an endpoint in its status has its own MinIO
\* bucket, however calls to MinIO fail and steps interleave.
THEOREM EndpointsTrue ==
  ASSUME OwnPlaces, "api" \notin Faults
  PROVE  Spec => []EndpointOwned
<1>1. LifeInv => EndpointOwned
  BY DEF LifeInv, ObjectsInv, EndpointInv
<1>q. QED BY <1>1, AllInv, PTL

\* In every cluster, the undoing of a creation removes what it has made.
THEOREM UndoneIsOwn == Spec => OnlyOwnUndone
<1> DEFINE Own == \A k \in Providers \X BucketNames :
                    pc' # pc /\ pc # "remove" /\ minio'[k] # minio[k]
                    => minio[k] \in {None, cur}
<1>1. TypeOK /\ LifeInv /\ [Next]_vars => Own
  <2> SUFFICES ASSUME TypeOK, LifeInv, [Next]_vars, NEW k \in Providers \X BucketNames,
                      pc' # pc, pc # "remove", minio'[k] # minio[k]
               PROVE  minio[k] \in {None, cur}
    OBVIOUS
  <2>1. MakeMinioBucket \/ UndoMinioBucket
    BY DEF Next, Controller, Start, MarkDeleting, StartDeletion, AddFinalizer, SetProvider,
       NoDefaultProvider, SetSecretName, MarkCreating, ProviderInvalid, AccountMissing,
       AccountFound, WriteAndReturn, Work, RemoveMinioBucket, DropFinalizer, CreateAccount,
       SetOwner, CheckMinioBucket, SaveEndpoint, DeleteOldSecret, AwaitKeys, SecretTaken,
       UpdateSecret, CreateSecret, SaveSecretName, UndoSecret, SetReady, RecordError, Crash,
       Informers, SyncBucket, SyncAccount, SyncSecret, Environment, CreateBucket, EditBucket,
       DeleteBucket, Outdate, UserSecret, CollectSecret, PublishKeys, WithdrawKeys, AccountGone,
       MinioUsers, ProviderChanges, ForeignBucket, vars, worker
  <2>2. CASE MakeMinioBucket
    BY <2>2 DEF MakeMinioBucket, TypeOK, WorldOK
  <2>3. CASE UndoMinioBucket
    <3>1. k = Place(obj, cur)
      BY <2>3 DEF UndoMinioBucket, TypeOK, WorldOK
    <3>2. At("undoBucket", fresh, obj)
      BY <2>3 DEF UndoMinioBucket, LifeInv, WorkerInv
    <3>q. QED BY <3>1, <3>2 DEF At, MadeAt, Making
  <2>q. QED BY <2>1, <2>2, <2>3
<1>q. QED BY <1>1, AllInv, PTL DEF Spec, OnlyOwnUndone

\* In every cluster, whatever the caches show, a secret that another Bucket or
\* an account controls when the worker writes keeps what it holds or goes away.
THEOREM SecretsKept == Spec => SecretsNotSeized
<1> DEFINE Kept == \A s \in Secrets :
                     /\ pc' # pc
                     /\ secret[s] # None /\ secret[s].owner \notin {None, cur}
                     => secret'[s] \in {secret[s], None}
<1>1. TypeOK /\ [Next]_vars => Kept
  <2> SUFFICES ASSUME TypeOK, [Next]_vars, NEW s \in Secrets, pc' # pc,
                      secret[s] # None, secret[s].owner \notin {None, cur}
               PROVE  secret'[s] \in {secret[s], None}
    OBVIOUS
  <2>1. DeleteOldSecret \/ UpdateSecret \/ CreateSecret \/ UndoSecret \/ UNCHANGED secret
    BY DEF Next, Controller, Start, MarkDeleting, StartDeletion, AddFinalizer, SetProvider,
       NoDefaultProvider, SetSecretName, MarkCreating, ProviderInvalid, AccountMissing,
       AccountFound, WriteAndReturn, Work, RemoveMinioBucket, DropFinalizer, CreateAccount,
       SetOwner, CheckMinioBucket, MakeMinioBucket, UndoMinioBucket, SaveEndpoint, AwaitKeys,
       SecretTaken, SaveSecretName, SetReady, RecordError, Crash,
       Informers, SyncBucket, SyncAccount, SyncSecret, Environment, CreateBucket, EditBucket,
       DeleteBucket, Outdate, UserSecret, CollectSecret, PublishKeys, WithdrawKeys, AccountGone,
       MinioUsers, ProviderChanges, ForeignBucket, vars, store, worker
  <2>2. CASE DeleteOldSecret \/ UndoSecret
    BY <2>2 DEF DeleteOldSecret, UndoSecret, TypeOK, ObjectsOK
  <2>3. CASE UpdateSecret
    BY <2>3 DEF UpdateSecret, ControlledByOther, TypeOK, ObjectsOK
  <2>4. CASE CreateSecret
    BY <2>4 DEF CreateSecret, TypeOK, ObjectsOK
  <2>q. QED BY <2>1, <2>2, <2>3, <2>4
<1>q. QED BY <1>1, TypeCorrect, PTL DEF Spec, SecretsNotSeized

-----------------------------------------------------------------------------
(* The refinement of BucketLife, step by step.                             *)

LEMMA SameLife ==
  ASSUME UNCHANGED <<bucket, minio>>
  PROVE  UNCHANGED <<life, terms, data>>
BY DEF life, terms, data, DataOf

\* A write of one Bucket, seen from BucketLife.
LEMMA WriteLifeOf ==
  ASSUME TypeOK, NEW b \in Buckets, NEW new, bucket' = [bucket EXCEPT ![b] = new],
         UNCHANGED minio
  PROVE  /\ life[b] = LifeOf(bucket[b]) /\ terms[b] = TermsOf(bucket[b]) /\ data[b] = DataOf(b)
         /\ life' = [life EXCEPT ![b] = LifeOf(new)]
         /\ terms' = [terms EXCEPT ![b] = TermsOf(new)]
         /\ UNCHANGED data
BY DEF life, terms, data, DataOf, TypeOK, ObjectsOK

\* A write that shows nothing of itself.
LEMMA SilentWrite ==
  ASSUME TypeOK, NEW b \in Buckets, NEW new, bucket' = [bucket EXCEPT ![b] = new],
         UNCHANGED minio, LifeOf(new) = LifeOf(bucket[b]), TermsOf(new) = TermsOf(bucket[b])
  PROVE  UNCHANGED <<life, terms, data>>
<1>1. /\ life[b] = LifeOf(bucket[b]) /\ terms[b] = TermsOf(bucket[b])
      /\ life' = [life EXCEPT ![b] = LifeOf(new)]
      /\ terms' = [terms EXCEPT ![b] = TermsOf(new)]
      /\ UNCHANGED data
  BY WriteLifeOf
<1>q. QED BY <1>1 DEF life, terms

\* A change of what the life of b is, its terms being kept.
LEMMA TurnLife ==
  ASSUME TypeOK, NEW b \in Buckets, NEW new, bucket' = [bucket EXCEPT ![b] = new],
         UNCHANGED minio, TermsOf(new) = TermsOf(bucket[b]),
         NEW from, LifeOf(bucket[b]) \in from
  PROVE  Life!Turn(b, from, LifeOf(new)) /\ UNCHANGED terms
<1>1. /\ life[b] = LifeOf(bucket[b]) /\ terms[b] = TermsOf(bucket[b])
      /\ life' = [life EXCEPT ![b] = LifeOf(new)]
      /\ terms' = [terms EXCEPT ![b] = TermsOf(new)]
      /\ UNCHANGED data
  BY WriteLifeOf
<1>2. UNCHANGED terms
  BY <1>1 DEF terms
<1>q. QED BY <1>1, <1>2 DEF Life!Turn

LEMMA TermsTyped ==
  ASSUME NEW o \in BucketObject
  PROVE  TermsOf(o) \in Life!Terms /\ TermsOf(o).home = o.spec.provider
         /\ TermsOf(o).policy = o.spec.reclaimPolicy
BY ConstantsOK DEF TermsOf, Life!Terms, BucketObject, BucketSpec

\* An edit of the terms.
LEMMA EditLife ==
  ASSUME TypeOK, NEW b \in Buckets, NEW new \in BucketObject, bucket[b] \in BucketObject,
         bucket' = [bucket EXCEPT ![b] = new], UNCHANGED minio,
         LifeOf(new) = LifeOf(bucket[b]),
         Steady => new.spec.provider = bucket[b].spec.provider
  PROVE  Life!Edit(b)
<1>1. /\ life[b] = LifeOf(bucket[b]) /\ terms[b] = TermsOf(bucket[b])
      /\ life' = [life EXCEPT ![b] = LifeOf(new)]
      /\ terms' = [terms EXCEPT ![b] = TermsOf(new)]
      /\ UNCHANGED data
  BY WriteLifeOf
<1>2. UNCHANGED life
  BY <1>1 DEF life
<1>3. life[b] # "absent"
  BY <1>1, ConstantsOK DEF LifeOf
<1>q. QED BY <1>1, <1>2, <1>3, TermsTyped DEF Life!Edit

LifeStep == Life!Next \/ UNCHANGED <<life, terms, data>>

LEMMA StartStep ==
  ASSUME TypeOK, HonestInv, LifeInv, NEW b \in Buckets, Start(b)
  PROVE  LifeStep
<1> DEFINE o == bucketCache[b]
<1>b. Begin(b)
  BY DEF Start, MarkDeleting, StartDeletion, AddFinalizer, SetProvider,
         NoDefaultProvider, SetSecretName, MarkCreating, ProviderInvalid,
         AccountMissing, AccountFound, Reconcilable, Specified, Prepared
<1>o. o \in BucketObject /\ o # None /\ Formed(o) /\ Honest(o)
  BY <1>b DEF Begin, TypeOK, ObjectsOK, ObjectOrNone, LifeInv, ObjectsInv, CacheInv,
     HonestInv, HonestObjects
<1>w. ASSUME NEW new, NEW admitted, WriteAndReturn(b, new, admitted)
      PROVE  bucket[b] = o /\ bucket' = [bucket EXCEPT ![b] = new] /\ UNCHANGED minio
  BY <1>w DEF WriteAndReturn
<1>s. ASSUME NEW new \in BucketObject, NEW admitted, WriteAndReturn(b, new, admitted),
             new.deleting = o.deleting, new.finalizer = o.finalizer, new.endpoint = o.endpoint,
             IsTrue(new.conditions, "Ready") <=> IsTrue(o.conditions, "Ready"),
             new.spec.provider = o.spec.provider,
             new.spec.reclaimPolicy = o.spec.reclaimPolicy
      PROVE  LifeStep
  <2>1. new # None
    BY ConstantsOK
  <2>2. LifeOf(new) = LifeOf(o) /\ TermsOf(new) = TermsOf(o)
    BY <1>s, <1>o, <2>1 DEF LifeOf, TermsOf
  <2>q. QED BY <1>s, <1>w, <2>2, SilentWrite DEF LifeStep
<1>m. ASSUME NEW t \in {"Creating", "Deleting"},
             WriteAndReturn(b, [o EXCEPT !.conditions = SetCondition(o.conditions, t, TRUE)], TRUE)
      PROVE  LifeStep
  <2> DEFINE c == SetCondition(o.conditions, t, TRUE)
             new == [o EXCEPT !.conditions = c]
  <2>0. o.conditions \in ConditionMap
    BY <1>o, BucketUpdates
  <2>1. c \in ConditionMap /\ c["Ready"] = o.conditions["Ready"]
    BY <2>0 DEF SetCondition, ConditionMap, BucketConditions
  <2>2. new \in BucketObject
    BY <1>o, <2>1, BucketUpdates
  <2>3. /\ new.deleting = o.deleting /\ new.finalizer = o.finalizer /\ new.spec = o.spec
        /\ new.endpoint = o.endpoint /\ new.conditions = c
    BY <1>o DEF BucketObject
  <2>q. QED BY <1>m, <2>1, <2>2, <2>3, <1>s DEF IsTrue
<1>l. CASE UNCHANGED <<store, caches, world, minio>>
  BY <1>l, SameLife DEF store, LifeStep
<1>1. CASE MarkDeleting(b) \/ MarkCreating(b)
  BY <1>1, <1>m DEF MarkDeleting, MarkCreating
<1>2. CASE AddFinalizer(b)
  <2> DEFINE new == [o EXCEPT !.finalizer = TRUE]
  <2>1. ~o.deleting /\ ~o.finalizer /\ WriteAndReturn(b, new, ValidateUpdate(o, o))
    BY <1>2 DEF AddFinalizer
  <2>2. new \in BucketObject /\ ~o.endpoint /\ ~IsTrue(o.conditions, "Ready")
    BY <1>o, <2>1, BucketUpdates DEF Honest
  <2>3. /\ new.deleting = o.deleting /\ new.finalizer /\ new.spec = o.spec
        /\ new.endpoint = o.endpoint /\ new.conditions = o.conditions
    BY <1>o DEF BucketObject
  <2> HIDE DEF new
  <2>4. new # None
    BY <2>2, ConstantsOK
  <2>5. LifeOf(o) = "new" /\ LifeOf(new) = "held" /\ TermsOf(new) = TermsOf(o)
    BY <1>o, <2>1, <2>2, <2>3, <2>4 DEF LifeOf, TermsOf
  <2>6. Life!Turn(b, {"new"}, "held") /\ UNCHANGED terms
    <3>1. Life!Turn(b, {"new"}, LifeOf(new)) /\ UNCHANGED terms
      BY <2>1, <2>5, <1>w, TurnLife
    <3>q. QED BY <3>1, <2>5
  <2>q. QED BY <2>6 DEF LifeStep, Life!Next, Life!Hold
<1>3. CASE SetProvider(b)
  <2>1. PICK p \in DefaultProvider :
          LET new == [o EXCEPT !.spec.provider = p] IN
          WriteAndReturn(b, new, ValidateUpdate(o, new))
    BY <1>3 DEF SetProvider
  <2> DEFINE new == [o EXCEPT !.spec.provider = p]
  <2>2. p \in Providers /\ o.spec.provider = None
    BY <1>3, ConstantsOK DEF SetProvider, DefaultProvider
  <2>3. new \in BucketObject
    BY <1>o, <2>2, BucketUpdates
  <2>4. /\ new.deleting = o.deleting /\ new.finalizer = o.finalizer
        /\ new.endpoint = o.endpoint /\ new.conditions = o.conditions
    BY <1>o DEF BucketObject, BucketSpec
  <2>5. WriteAndReturn(b, new, ValidateUpdate(o, new))
    BY <2>1
  <2>6. ~Steady
    BY <1>o, <2>2 DEF Steady, Formed
  <2> HIDE DEF new
  <2>7. new # None
    BY <2>3, ConstantsOK
  <2>8. LifeOf(new) = LifeOf(o)
    BY <1>o, <2>4, <2>7 DEF LifeOf
  <2>9. Life!Edit(b)
    BY <1>o, <1>w, <2>3, <2>5, <2>6, <2>8, EditLife
  <2>q. QED BY <2>9 DEF LifeStep, Life!Next
<1>4. CASE SetSecretName(b)
  <2> DEFINE new == [o EXCEPT !.spec.secretName = DefaultSecret[b]]
  <2>1. DefaultSecret[b] \in Secrets
    BY ConstantsOK
  <2>2. new \in BucketObject
    BY <1>o, <2>1, BucketUpdates
  <2>3. /\ new.deleting = o.deleting /\ new.finalizer = o.finalizer
        /\ new.spec.provider = o.spec.provider /\ new.spec.reclaimPolicy = o.spec.reclaimPolicy
        /\ new.endpoint = o.endpoint /\ new.conditions = o.conditions
    BY <1>o DEF BucketObject, BucketSpec
  <2>4. WriteAndReturn(b, new, ValidateUpdate(o, new))
    BY <1>4 DEF SetSecretName
  <2>q. QED BY <2>2, <2>3, <2>4, <1>s
<1>q. QED
  BY <1>l, <1>1, <1>2, <1>3, <1>4
  DEF Start, StartDeletion, NoDefaultProvider, ProviderInvalid, AccountMissing, AccountFound

\* A write of the worker's, which is refused or finds the object it knows.
LEMMA WorkerWriteStep ==
  ASSUME TypeOK, HonestInv, LifeInv, pc \notin Removing \cup {"idle"},
         NEW new \in BucketObject, NEW admitted, NEW ok, NEW ko, NEW mem,
         Write(new, admitted, ok, ko, mem), UNCHANGED minio,
         new.deleting = obj.deleting, new.finalizer = obj.finalizer, new.spec = obj.spec,
         fresh => /\ bucket[cur].endpoint => new.endpoint
                  /\ IsTrue(new.conditions, "Ready") =>
                       new.endpoint /\ (bucket[cur].endpoint \/ Ready(cur))
  PROVE  LifeStep
<1>1. CASE UNCHANGED bucket
  BY <1>1, SameLife DEF LifeStep
<1>2. CASE fresh /\ bucket' = [bucket EXCEPT ![cur] = new]
  <2>1. /\ cur \in Buckets /\ bucket[cur] \in BucketObject /\ Held(cur)
        /\ ~new.deleting /\ new.finalizer
    BY AliveWorker DEF LifeInv
  <2>2. new # None /\ bucket[cur] # None /\ Honest(bucket[cur])
    BY <2>1, ConstantsOK DEF Held, HonestInv, HonestObjects
  <2>3. TermsOf(new) = TermsOf(bucket[cur]) /\ ~bucket[cur].deleting /\ bucket[cur].finalizer
    BY <1>2, <2>2, AliveWorker DEF LifeInv, Agrees, TermsOf
  <2> DEFINE from == LifeOf(bucket[cur])
             to == LifeOf(new)
  <2>4. \/ from = to
        \/ from = "held" /\ to = "made"
        \/ from = "made" /\ to = "ready"
        \/ from = "ready" /\ to = "made"
    BY <1>2, <2>1, <2>2, <2>3 DEF LifeOf, Honest, Ready, Exists
  <2>5. CASE from = to
    BY <1>2, <2>1, <2>3, <2>5, SilentWrite DEF LifeStep
  <2>6. ASSUME NEW f, from = f
        PROVE  Life!Turn(cur, {f}, to) /\ UNCHANGED terms
    <3>1. LifeOf(bucket[cur]) \in {f}
      BY <2>6
    <3>q. QED BY <1>2, <2>1, <2>3, <3>1, TurnLife
  <2> HIDE DEF from, to
  <2>7. CASE from # to
    BY <2>1, <2>4, <2>6, <2>7 DEF LifeStep, Life!Next, Life!Record, Life!Ready, Life!Fail
  <2>q. QED BY <2>5, <2>7
<1>q. QED BY <1>1, <1>2 DEF Write

LEMMA DropFinalizerStep ==
  ASSUME TypeOK, HonestInv, LifeInv, DropFinalizer
  PROVE  LifeStep
<1>1. /\ pc = "unfinalize" /\ UNCHANGED minio
      /\ UNCHANGED bucket \/ (fresh /\ bucket' = [bucket EXCEPT ![cur] = None])
  BY DEF DropFinalizer, Write
<1>2. cur \in Buckets /\ At("unfinalize", fresh, obj) /\ obj \in BucketObject
  BY <1>1 DEF LifeInv, WorkerInv, TypeOK, WorkerOK
<1>3. CASE UNCHANGED bucket
  BY <1>1, <1>3, SameLife DEF LifeStep
<1>4. CASE fresh /\ bucket' = [bucket EXCEPT ![cur] = None]
  <2>1. bucket[cur] = obj /\ obj # None /\ obj.deleting /\ (Steady => Clean(obj, cur))
    BY <1>2, <1>4, ConstantsOK DEF At, Known, Stored, SteadyAt, Removing
  <2>2. life[cur] = "going" /\ terms[cur] = TermsOf(obj) /\ data[cur] = DataOf(cur)
    BY <1>2, <2>1 DEF life, terms, data, LifeOf
  <2>3. LifeOf(None) = "absent" /\ TermsOf(None) = None
    BY DEF LifeOf, TermsOf
  <2>4. /\ life' = [life EXCEPT ![cur] = "absent"] /\ terms' = [terms EXCEPT ![cur] = None]
        /\ UNCHANGED data
    <3>1. /\ life' = [life EXCEPT ![cur] = LifeOf(None)]
          /\ terms' = [terms EXCEPT ![cur] = TermsOf(None)]
          /\ UNCHANGED data
      BY <1>1, <1>2, <1>4, WriteLifeOf
    <3>q. QED BY <3>1, <2>3
  <2>5. Steady => terms[cur].policy = "Retain" \/ terms[cur].home \notin data[cur]
    BY <1>2, <2>1, <2>2, TermsTyped DEF Clean, DataOf, Place
  <2>q. QED BY <1>2, <2>2, <2>4, <2>5 DEF LifeStep, Life!Next, Life!Release, Life!Turn
<1>q. QED BY <1>1, <1>3, <1>4

\* A MinIO bucket that goes away, seen from BucketLife.
LEMMA LoseStep ==
  ASSUME TypeOK, NEW p \in Providers, NEW n \in BucketNames,
         minio' = [minio EXCEPT ![<<p, n>>] = None], UNCHANGED bucket,
         NamesInv,
         \A b \in Buckets : minio[<<p, n>>] = b =>
           /\ Steady => life[b] \notin {"absent", "new"} /\ p = terms[b].home
           /\ Alone => life[b] # "ready"
  PROVE  LifeStep
<1>1. UNCHANGED <<life, terms>>
  BY DEF life, terms
<1>2. ASSUME NEW b \in Buckets, minio[<<p, n>>] # b
      PROVE  data'[b] = data[b]
  BY <1>2, ConstantsOK DEF data, DataOf, TypeOK, WorldOK
<1>3. CASE minio[<<p, n>>] \notin Buckets
  BY <1>1, <1>2, <1>3 DEF LifeStep, data
<1>4. CASE minio[<<p, n>>] \in Buckets
  <2> DEFINE b == minio[<<p, n>>]
  <2>1. NameOf[b] = n
    BY <1>4 DEF NamesInv
  <2>2. p \in data[b] /\ data'[b] = data[b] \ {p}
    BY <1>4, <2>1, ConstantsOK DEF data, DataOf, TypeOK, WorldOK
  <2> HIDE DEF b
  <2>3. data' = [data EXCEPT ![b] = @ \ {p}]
    <3>1. data' = [c \in Buckets |-> IF c = b THEN data[c] \ {p} ELSE data[c]]
      BY <1>2, <2>2 DEF b, data
    <3>q. QED BY <3>1 DEF data
  <2>4. Life!Lose(b, p)
    BY <1>1, <1>4, <2>2, <2>3 DEF Life!Lose, b
  <2>q. QED BY <1>4, <2>4 DEF LifeStep, Life!Next, b
<1>q. QED BY <1>3, <1>4

LEMMA RemoveMinioBucketStep ==
  ASSUME TypeOK, HonestInv, LifeInv, RemoveMinioBucket
  PROVE  LifeStep
<1>1. /\ pc = "remove" /\ UNCHANGED bucket
      /\ UNCHANGED minio \/ minio' = [minio EXCEPT ![Place(obj, cur)] = None]
  BY DEF RemoveMinioBucket, store
<1>2. /\ cur \in Buckets /\ obj \in BucketObject /\ At("remove", fresh, obj)
      /\ obj.deleting /\ obj.finalizer /\ Follows(obj, cur)
      /\ obj.spec.provider # None /\ obj.spec.reclaimPolicy = "Delete"
  BY <1>1 DEF LifeInv, WorkerInv, TypeOK, WorkerOK, At, Known, Removing
<1> DEFINE p == obj.spec.provider
           n == NameOf[cur]
<1>3. p \in Providers /\ n \in BucketNames /\ Place(obj, cur) = <<p, n>>
  BY <1>2, ConstantsOK DEF BucketObject, BucketSpec, Place
<1>4. ASSUME NEW b \in Buckets, minio[<<p, n>>] = b, OwnPlaces
      PROVE  b = cur
  <2>1. NameOf[b] = n
    BY <1>3, <1>4 DEF LifeInv, ObjectsInv, NamesInv
  <2>q. QED BY <1>2, <1>4, <2>1 DEF OwnPlaces
<1>5. ASSUME minio[<<p, n>>] = cur, Steady
      PROVE  Held(cur) /\ bucket[cur].deleting /\ p = bucket[cur].spec.provider
  <2>1. Held(cur)
    BY <1>2, <1>3, <1>5 DEF At, SteadyAt, Clean
  <2>q. QED BY <1>2, <1>5, <2>1 DEF Follows, Steady
<1>6. life[cur] # "ready"
  <2>1. bucket[cur] # None => Honest(bucket[cur])
    BY <1>2 DEF HonestInv, HonestObjects
  <2>q. QED BY <1>2, <2>1 DEF life, LifeOf, Follows, Held, Honest
<1>7. Steady /\ minio[<<p, n>>] = cur => life[cur] \notin {"absent", "new"} /\ p = terms[cur].home
  BY <1>2, <1>5 DEF life, terms, LifeOf, TermsOf, Held
<1>8. CASE UNCHANGED minio
  BY <1>1, <1>8, SameLife DEF LifeStep
<1>9. CASE minio' = [minio EXCEPT ![<<p, n>>] = None]
  <2> HIDE DEF p, n
  <2>1. ASSUME NEW b \in Buckets, minio[<<p, n>>] = b
        PROVE  /\ Steady => life[b] \notin {"absent", "new"} /\ p = terms[b].home
               /\ Alone => life[b] # "ready"
    BY <1>4, <1>6, <1>7, <2>1 DEF Steady, Alone
  <2>q. QED BY <1>1, <1>3, <1>9, <2>1, LoseStep DEF LifeInv, ObjectsInv
<1>q. QED BY <1>1, <1>3, <1>8, <1>9

LEMMA UndoMinioBucketStep ==
  ASSUME TypeOK, HonestInv, LifeInv, UndoMinioBucket
  PROVE  LifeStep
<1>1. /\ pc = "undoBucket" /\ UNCHANGED bucket
      /\ UNCHANGED minio \/ minio' = [minio EXCEPT ![Place(obj, cur)] = None]
  BY DEF UndoMinioBucket, store
<1>2. /\ cur \in Buckets /\ At("undoBucket", fresh, obj) /\ Held(cur)
      /\ OwnPlaces => obj.spec.provider \in {None, bucket[cur].spec.provider}
      /\ obj.spec.provider \in Providers
  BY <1>1, AliveWorker DEF LifeInv, Removing, TypeOK, WorkerOK, Complete
<1> DEFINE p == obj.spec.provider
           n == NameOf[cur]
<1>3. p \in Providers /\ p # None /\ n \in BucketNames /\ Place(obj, cur) = <<p, n>>
  BY <1>2, ConstantsOK DEF Place
<1>4. minio[<<p, n>>] = cur /\ (Alone => ~(Wanted(cur) /\ Ready(cur)))
  BY <1>2, <1>3 DEF At, MadeAt, ReadyAt, Making
<1>5. life[cur] \notin {"absent", "new"} /\ (Alone => life[cur] # "ready")
  BY <1>2, <1>4 DEF life, LifeOf, Held, Wanted, Ready, Exists
<1>6. Steady => p = terms[cur].home
  BY <1>2, <1>3 DEF terms, TermsOf, Held, Steady
<1>7. CASE UNCHANGED minio
  BY <1>1, <1>7, SameLife DEF LifeStep
<1>8. CASE minio' = [minio EXCEPT ![<<p, n>>] = None]
  <2> HIDE DEF p, n
  <2>1. ASSUME NEW b \in Buckets, minio[<<p, n>>] = b
        PROVE  /\ Steady => life[b] \notin {"absent", "new"} /\ p = terms[b].home
               /\ Alone => life[b] # "ready"
    BY <1>4, <1>5, <1>6, <2>1
  <2>q. QED BY <1>1, <1>3, <1>8, <2>1, LoseStep DEF LifeInv, ObjectsInv
<1>q. QED BY <1>1, <1>3, <1>7, <1>8

LEMMA MakeMinioBucketStep ==
  ASSUME TypeOK, HonestInv, LifeInv, MakeMinioBucket
  PROVE  LifeStep
<1>1. /\ pc = "make" /\ UNCHANGED bucket
      /\ \/ UNCHANGED minio
         \/ minio[Place(obj, cur)] = None /\ minio' = [minio EXCEPT ![Place(obj, cur)] = cur]
  BY DEF MakeMinioBucket, store
<1>2. /\ cur \in Buckets /\ Held(cur)
      /\ OwnPlaces => obj.spec.provider \in {None, bucket[cur].spec.provider}
      /\ obj.spec.provider \in Providers
  BY <1>1, AliveWorker DEF LifeInv, Removing, TypeOK, WorkerOK, Complete
<1> DEFINE p == obj.spec.provider
           n == NameOf[cur]
<1>3. p \in Providers /\ p # None /\ n \in BucketNames /\ Place(obj, cur) = <<p, n>>
  BY <1>2, ConstantsOK DEF Place
<1>4. CASE UNCHANGED minio
  BY <1>1, <1>4, SameLife DEF LifeStep
<1>5. CASE minio[<<p, n>>] = None /\ minio' = [minio EXCEPT ![<<p, n>>] = cur]
  <2>1. life[cur] \notin {"absent", "new"} /\ (Steady => p = terms[cur].home)
    BY <1>2, <1>3 DEF life, LifeOf, terms, TermsOf, Held, Steady
  <2>2. ASSUME NEW b \in Buckets, b # cur
        PROVE  data'[b] = data[b]
    BY <1>2, <1>3, <1>5, <2>2, ConstantsOK DEF data, DataOf, TypeOK, WorldOK
  <2>3. p \notin data[cur] /\ data'[cur] = data[cur] \cup {p}
    <3>1. minio'[<<p, n>>] = cur /\ minio[<<p, n>>] # cur
      BY <1>2, <1>3, <1>5, ConstantsOK DEF TypeOK, WorldOK
    <3>2. \A q \in Providers : q # p => minio'[<<q, n>>] = minio[<<q, n>>]
      BY <1>3, <1>5 DEF TypeOK, WorldOK
    <3>q. QED BY <1>2, <1>3, <3>1, <3>2 DEF data, DataOf
  <2> HIDE DEF p, n
  <2>4. data' = [data EXCEPT ![cur] = @ \cup {p}]
    <3>1. data' = [c \in Buckets |-> IF c = cur THEN data[c] \cup {p} ELSE data[c]]
      BY <2>2, <2>3 DEF data
    <3>q. QED BY <3>1 DEF data
  <2>5. UNCHANGED <<life, terms>>
    BY <1>1 DEF life, terms
  <2>6. Life!Make(cur, p)
    BY <2>1, <2>3, <2>4, <2>5 DEF Life!Make
  <2>q. QED BY <1>2, <1>3, <2>6 DEF LifeStep, Life!Next
<1>q. QED BY <1>1, <1>3, <1>4, <1>5

LEMMA WorkStep ==
  ASSUME TypeOK, HonestInv, LifeInv, Work
  PROVE  LifeStep
<1>p. SetOwner \/ SaveEndpoint \/ SaveSecretName \/ SetReady \/ RecordError =>
        /\ pc \notin Removing \cup {"idle"}
        /\ cur \in Buckets /\ obj \in BucketObject /\ UNCHANGED minio
        /\ fresh => Agrees(obj, bucket[cur]) /\ (bucket[cur].endpoint => obj.endpoint)
        /\ Exists(cur) /\ Honest(obj)
  <2>1. SetOwner \/ SaveEndpoint \/ SaveSecretName \/ SetReady \/ RecordError =>
          pc \notin Removing \cup {"idle"}
    BY DEF SetOwner, SaveEndpoint, SaveSecretName, SetReady, RecordError, Removing
  <2>q. QED
    BY <2>1, AliveWorker
    DEF LifeInv, SetOwner, SaveEndpoint, SaveSecretName, SetReady, RecordError, At, Known, Stored,
        HonestInv, HonestWorker, HonestAt, Held, Exists
<1>1. CASE SetOwner
  <2> DEFINE new == [obj EXCEPT !.owner = ref]
  <2>1. new \in BucketObject
    BY <1>p, <1>1, BucketUpdates DEF TypeOK, WorkerOK
  <2>2. /\ new.deleting = obj.deleting /\ new.finalizer = obj.finalizer /\ new.spec = obj.spec
        /\ new.endpoint = obj.endpoint /\ new.conditions = obj.conditions
    BY <1>p, <1>1 DEF BucketObject
  <2>3. Write(new, ValidateUpdate(bucket[cur], obj), "idle", "fail", obj)
    BY <1>1 DEF SetOwner
  <2> HIDE DEF new
  <2>q. QED BY <1>p, <1>1, <2>1, <2>2, <2>3, WorkerWriteStep DEF Agrees, Ready, Exists, Honest
<1>2. CASE SaveEndpoint
  <2> DEFINE new == [obj EXCEPT !.endpoint = TRUE]
  <2>1. new \in BucketObject
    BY <1>p, <1>2, BucketUpdates
  <2>2. /\ new.deleting = obj.deleting /\ new.finalizer = obj.finalizer /\ new.spec = obj.spec
        /\ new.endpoint /\ new.conditions = obj.conditions
    BY <1>p, <1>2 DEF BucketObject
  <2>3. Write(new, TRUE, "idle", "undoBucket", new)
    BY <1>2 DEF SaveEndpoint
  <2> HIDE DEF new
  <2>q. QED BY <1>p, <1>2, <2>1, <2>2, <2>3, WorkerWriteStep DEF Agrees, Ready, Exists
<1>3. CASE SaveSecretName
  BY <1>p, <1>3, WorkerWriteStep DEF SaveSecretName, Agrees, Ready, Exists, Honest
<1>4. CASE SetReady
  <2> DEFINE c == SetCondition(RemoveCondition(RemoveCondition(obj.conditions, "Creating"),
                                               "Error"), "Ready", TRUE)
             new == [obj EXCEPT !.conditions = c]
  <2>1. c \in ConditionMap
    BY <1>p, <1>4, BucketUpdates, SetConditionMap, RemoveConditionMap DEF BucketConditions
  <2>2. new \in BucketObject
    BY <1>p, <1>4, <2>1, BucketUpdates
  <2>3. /\ new.deleting = obj.deleting /\ new.finalizer = obj.finalizer /\ new.spec = obj.spec
        /\ new.endpoint = obj.endpoint
    BY <1>p, <1>4 DEF BucketObject
  <2>4. Write(new, TRUE, "idle", "idle", new)
    BY <1>4 DEF SetReady
  <2>5. obj.endpoint /\ (fresh => bucket[cur].endpoint)
    <3>1. pc = "ready"
      BY <1>4 DEF SetReady
    <3>q. QED BY <1>p, <1>4, <3>1, AliveWorker DEF LifeInv, HonestInv, HonestWorker, HonestAt
  <2> HIDE DEF new
  <2>q. QED BY <1>p, <1>4, <2>2, <2>3, <2>4, <2>5, WorkerWriteStep
<1>5. CASE RecordError
  <2> DEFINE c == SetCondition(SetCondition(obj.conditions, "Ready", FALSE), "Error", TRUE)
             new == [obj EXCEPT !.conditions = c]
  <2>1. c \in ConditionMap /\ c["Ready"] = FALSE
    <3>1. obj.conditions \in ConditionMap
      BY <1>p, <1>5, BucketUpdates
    <3>q. QED BY <3>1 DEF SetCondition, ConditionMap, BucketConditions
  <2>2. new \in BucketObject
    BY <1>p, <1>5, <2>1, BucketUpdates
  <2>3. /\ new.deleting = obj.deleting /\ new.finalizer = obj.finalizer /\ new.spec = obj.spec
        /\ new.endpoint = obj.endpoint /\ ~IsTrue(new.conditions, "Ready")
    BY <1>p, <1>5, <2>1 DEF BucketObject, IsTrue
  <2>4. Write(new, TRUE, "idle", "idle", new)
    BY <1>5 DEF RecordError
  <2> HIDE DEF new
  <2>q. QED BY <1>p, <1>5, <2>2, <2>3, <2>4, WorkerWriteStep
<1>6. CASE RemoveMinioBucket \/ DropFinalizer \/ MakeMinioBucket \/ UndoMinioBucket
  BY <1>6, RemoveMinioBucketStep, DropFinalizerStep, MakeMinioBucketStep, UndoMinioBucketStep
<1>7. CASE \/ CreateAccount \/ CheckMinioBucket \/ DeleteOldSecret \/ AwaitKeys \/ SecretTaken
           \/ UpdateSecret \/ CreateSecret \/ UndoSecret
  BY <1>7, SameLife DEF CreateAccount, CheckMinioBucket, DeleteOldSecret, AwaitKeys, SecretTaken,
     UpdateSecret, CreateSecret, UndoSecret, store, LifeStep
<1>q. QED BY <1>1, <1>2, <1>3, <1>4, <1>5, <1>6, <1>7 DEF Work

LEMMA UsersStep ==
  ASSUME TypeOK, HonestInv, LifeInv, NEW b \in Buckets,
         CreateBucket(b) \/ EditBucket(b) \/ DeleteBucket(b)
  PROVE  LifeStep
<1>m. UNCHANGED minio
  BY DEF CreateBucket, EditBucket, DeleteBucket
<1>1. CASE CreateBucket(b)
  <2>1. PICK request \in Requests(b) : \E spec \in Defaulted(b, request) :
          bucket' = [bucket EXCEPT ![b] = NewBucket(spec)]
    BY <1>1 DEF CreateBucket
  <2>2. PICK spec \in Defaulted(b, request) : bucket' = [bucket EXCEPT ![b] = NewBucket(spec)]
    BY <2>1
  <2> DEFINE new == NewBucket(spec)
  <2>3. new \in BucketObject /\ ~new.deleting /\ ~new.finalizer
    BY DefaultedSpec DEF NewBucket, BucketObject, NoConditions
  <2> HIDE DEF new
  <2>4. bucket' = [bucket EXCEPT ![b] = new] /\ bucket[b] = None /\ new # None
    BY <1>1, <2>2, <2>3, ConstantsOK DEF CreateBucket, new
  <2>5. LifeOf(bucket[b]) = "absent" /\ LifeOf(new) = "new"
    BY <2>3, <2>4 DEF LifeOf
  <2>6. /\ life[b] = LifeOf(bucket[b])
        /\ life' = [life EXCEPT ![b] = LifeOf(new)]
        /\ terms' = [terms EXCEPT ![b] = TermsOf(new)]
        /\ UNCHANGED data
    BY <1>m, <2>4, WriteLifeOf
  <2>7. TermsOf(new) \in Life!Terms
    BY <2>3, TermsTyped
  <2>q. QED BY <2>5, <2>6, <2>7 DEF LifeStep, Life!Next, Life!Create, Life!Turn
<1>2. CASE EditBucket(b)
  <2>1. PICK request \in Requests(b) : \E spec \in Defaulted(b, request) :
          /\ bucket' = [bucket EXCEPT ![b] = [bucket[b] EXCEPT !.spec = spec]]
          /\ ValidateUpdate(bucket[b], [bucket[b] EXCEPT !.spec = spec])
    BY <1>2 DEF EditBucket
  <2>2. PICK spec \in Defaulted(b, request) :
          /\ bucket' = [bucket EXCEPT ![b] = [bucket[b] EXCEPT !.spec = spec]]
          /\ ValidateUpdate(bucket[b], [bucket[b] EXCEPT !.spec = spec])
    BY <2>1
  <2> DEFINE new == [bucket[b] EXCEPT !.spec = spec]
  <2>3. bucket[b] # None /\ bucket[b] \in BucketObject /\ Formed(bucket[b])
    BY <1>2 DEF EditBucket, TypeOK, ObjectsOK, ObjectOrNone, LifeInv, ObjectsInv, StoreInv
  <2>4. new \in BucketObject
    BY <2>3, DefaultedSpec, BucketUpdates
  <2>5. /\ new.deleting = bucket[b].deleting /\ new.finalizer = bucket[b].finalizer
        /\ new.spec = spec /\ new.endpoint = bucket[b].endpoint
        /\ new.conditions = bucket[b].conditions
    BY <2>3 DEF BucketObject
  <2>6. Webhooks => bucket[b].spec.provider \in {None, new.spec.provider}
    BY <2>2 DEF ValidateUpdate
  <2>7. bucket' = [bucket EXCEPT ![b] = new]
    BY <2>2
  <2> HIDE DEF new
  <2>8. new # None
    BY <2>4, ConstantsOK
  <2>9. LifeOf(new) = LifeOf(bucket[b])
    BY <2>3, <2>5, <2>8 DEF LifeOf
  <2>10. Steady => new.spec.provider = bucket[b].spec.provider
    BY <2>3, <2>6 DEF Steady, Formed
  <2>11. Life!Edit(b)
    BY <1>m, <2>3, <2>4, <2>7, <2>9, <2>10, EditLife
  <2>q. QED BY <2>11 DEF LifeStep, Life!Next
<1>3. CASE DeleteBucket(b)
  <2>1. bucket[b] # None /\ ~bucket[b].deleting /\ bucket[b] \in BucketObject
    BY <1>3 DEF DeleteBucket, TypeOK, ObjectsOK, ObjectOrNone
  <2>2. CASE bucket[b].finalizer
    <3> DEFINE new == [bucket[b] EXCEPT !.deleting = TRUE]
    <3>1. new \in BucketObject
      BY <2>1, BucketUpdates
    <3>2. new.deleting /\ new.spec = bucket[b].spec
      BY <2>1 DEF BucketObject
    <3>3. bucket' = [bucket EXCEPT ![b] = new]
      BY <1>3, <2>2 DEF DeleteBucket
    <3> HIDE DEF new
    <3>4. new # None
      BY <3>1, ConstantsOK
    <3>5. /\ LifeOf(new) = "going" /\ LifeOf(bucket[b]) \in {"held", "made", "ready"}
          /\ TermsOf(new) = TermsOf(bucket[b])
      BY <2>1, <2>2, <3>2, <3>4 DEF LifeOf, TermsOf
    <3>6. Life!Turn(b, {"held", "made", "ready"}, LifeOf(new)) /\ UNCHANGED terms
      BY <1>m, <3>3, <3>5, TurnLife
    <3>q. QED BY <3>5, <3>6 DEF LifeStep, Life!Next, Life!Delete
  <2>3. CASE ~bucket[b].finalizer
    <3>1. bucket' = [bucket EXCEPT ![b] = None]
      BY <1>3, <2>3 DEF DeleteBucket
    <3>2. LifeOf(None) = "absent" /\ TermsOf(None) = None /\ LifeOf(bucket[b]) = "new"
      BY <2>1, <2>3 DEF LifeOf, TermsOf
    <3>3. /\ life[b] = LifeOf(bucket[b])
          /\ life' = [life EXCEPT ![b] = LifeOf(None)]
          /\ terms' = [terms EXCEPT ![b] = TermsOf(None)]
          /\ UNCHANGED data
      BY <1>m, <3>1, WriteLifeOf
    <3>4. life' = [life EXCEPT ![b] = "absent"] /\ terms' = [terms EXCEPT ![b] = None]
      BY <3>2, <3>3
    <3>q. QED BY <3>2, <3>3, <3>4 DEF LifeStep, Life!Next, Life!Delete, Life!Turn
  <2>q. QED BY <2>2, <2>3
<1>q. QED BY <1>1, <1>2, <1>3

LEMMA ForeignBucketStep ==
  ASSUME TypeOK, NEW k \in Providers \X BucketNames, ForeignBucket(k)
  PROVE  LifeStep
<1>1. UNCHANGED <<life, terms>>
  BY DEF ForeignBucket, store, life, terms
<1>2. \A b \in Buckets, j \in Providers \X BucketNames : minio'[j] = b <=> minio[j] = b
  BY ConstantsOK DEF ForeignBucket, TypeOK, WorldOK
<1>3. UNCHANGED data
  BY <1>2, ConstantsOK DEF data, DataOf
<1>q. QED BY <1>1, <1>3 DEF LifeStep

LEMMA NextStep == TypeOK /\ HonestInv /\ LifeInv /\ [Next]_vars => LifeStep
<1> SUFFICES ASSUME TypeOK, HonestInv, LifeInv, [Next]_vars PROVE LifeStep
  OBVIOUS
<1>1. CASE \E b \in Buckets : Start(b)
  BY <1>1, StartStep
<1>2. CASE Work
  BY <1>2, WorkStep
<1>3. CASE \E b \in Buckets : CreateBucket(b) \/ EditBucket(b) \/ DeleteBucket(b)
  BY <1>3, UsersStep
<1>4. CASE \E k \in Providers \X BucketNames : ForeignBucket(k)
  BY <1>4, ForeignBucketStep
<1>5. CASE UNCHANGED <<bucket, minio>>
  BY <1>5, SameLife DEF LifeStep
<1>6. CASE Crash \/ Informers \/ UNCHANGED vars
  BY <1>5, <1>6 DEF Crash, Informers, SyncBucket, SyncAccount, SyncSecret, vars, store
<1>7. CASE Environment
  BY <1>3, <1>4, <1>5, <1>7 DEF Environment, UserSecret, CollectSecret, PublishKeys, WithdrawKeys,
     AccountGone, MinioUsers, ProviderChanges, store
<1>q. QED BY <1>1, <1>2, <1>6, <1>7 DEF Next, Controller

\* In every cluster the controller implements the life BucketLife promises.
THEOREM LifeImplemented == Spec => LifeKept
<1>1. Init => Life!Init
  <2> SUFFICES ASSUME Init PROVE Life!Init
    OBVIOUS
  <2>1. \A b \in Buckets : bucket[b] = None
    BY DEF Init
  <2>2. \A b \in Buckets, p \in Providers : minio[<<p, NameOf[b]>>] # b
    BY ConstantsOK DEF Init
  <2>3. life = [b \in Buckets |-> "absent"] /\ terms = [b \in Buckets |-> None]
    BY <2>1 DEF life, terms, LifeOf, TermsOf
  <2>4. data = [b \in Buckets |-> {}]
    BY <2>2 DEF data, DataOf
  <2>q. QED BY <2>3, <2>4 DEF Life!Init
<1>2. TypeOK /\ HonestInv /\ LifeInv /\ [Next]_vars => [Life!Next]_(Life!vars)
  BY NextStep DEF LifeStep, Life!vars
<1>q. QED BY <1>1, <1>2, AllInv, PTL DEF Spec, LifeKept, Life!Spec
=============================================================================
