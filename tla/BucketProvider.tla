--------------------------- MODULE BucketProvider ---------------------------
(***************************************************************************)
(* The BucketProvider reconciler (controllers/bucketprovider_controller.go) *)
(* and the webhook on providers (controllers/bucketprovider_webhook.go).   *)
(*                                                                         *)
(* Unlike the other controllers this one neither watches the secrets it    *)
(* reads nor retries a probe that failed, so its work queue is kept: a key *)
(* is in it after an event of its provider, a refused write, a start of    *)
(* the manager or a resync of the informers.                               *)
(*                                                                         *)
(* A provider refers to an access key and a secret key.  cred[p] is what   *)
(* the two references of p lead to: "missing" without the secret or the    *)
(* key in it, "empty", "wrong" or "right" as MinIO finds the pair.         *)
(***************************************************************************)
EXTENDS Naturals

CONSTANTS
  Providers,   \* BucketProvider objects, all of the cluster
  None,        \* an object that does not exist
  Creds,       \* what the references of a provider may lead to
  Webhooks,    \* TRUE iff the admission webhook is installed
  Faults       \* what may go wrong: "api", "crash"

ASSUME ConstantsOK ==
  /\ None \notin Providers
  /\ Creds \subseteq {"missing", "empty", "wrong", "right"} /\ "right" \in Creds
  /\ Webhooks \in BOOLEAN
  /\ Faults \subseteq {"api", "crash"}

VARIABLES
  prov, cred,            \* providers and credentials in the API server
  provCache, credCache,  \* the same as the informers show them
  up,                    \* TRUE iff MinIO answers
  queue,                 \* keys to reconcile
  pc,                    \* the worker's next step, "idle" between two keys
  cur, fresh, obj,       \* its key, whether its version is the stored one, its copy
  access                 \* what the reference to the access key led to

store  == <<prov, cred>>
caches == <<provCache, credCache>>
worker == <<pc, cur, fresh, obj, access>>
vars   == <<store, caches, up, queue, worker>>

(***************************************************************************)
(* A condition of a provider is TRUE or absent.  An endpoint is "bad" when *)
(* no client can be made for it: it is empty or starts with a scheme.      *)
(***************************************************************************)
ProviderObject == [endpoint: {"good", "bad"},
                   annotated: BOOLEAN,
                   conditions: SUBSET {"Creating", "Ready", "Error"}]

ASSUME NoneIsNoObject == None \notin ProviderObject

Init ==
  /\ prov = [p \in Providers |-> None] /\ provCache = prov
  /\ cred = [p \in Providers |-> "right"] /\ credCache = cred
  /\ up = TRUE
  /\ queue = {}
  /\ pc = "idle" /\ cur = None /\ fresh = FALSE /\ obj = None /\ access = None

-----------------------------------------------------------------------------
(* Reconcile.                                                              *)

\* Mutated: the object of the last key is left behind.
Finish_NoReset == pc' = "idle" /\ cur' = None /\ fresh' = FALSE /\ UNCHANGED <<obj, access>>

Finish == pc' = "idle" /\ cur' = None /\ fresh' = FALSE /\ obj' = None /\ access' = None

Goto(l) == pc' = l /\ UNCHANGED <<cur, fresh, obj, access>>

Begin(p) == pc = "idle" /\ p \in queue

\* Mutated: no optimistic lock.
StatusUpdate_Blind(new) ==
  /\ prov[cur] # None
  /\ prov' = [prov EXCEPT ![cur].conditions = new.conditions]
  /\ UNCHANGED queue

\* Status().Update of cur, the last call of a Reconcile: a refusal is returned,
\* which puts the key back.
StatusUpdate(new) ==
  \/ /\ fresh
     /\ prov' = [prov EXCEPT ![cur] = new]
     /\ queue' \in {queue} \cup (IF "api" \in Faults THEN {queue \cup {cur}} ELSE {})
  \/ /\ ~fresh \/ "api" \in Faults
     /\ UNCHANGED prov
     /\ queue' = queue \cup {cur}

\* The provider is gone.
Skip(p) ==
  /\ Begin(p) /\ provCache[p] = None
  /\ queue' = queue \ {p}
  /\ UNCHANGED <<store, caches, up, worker>>

\* A provider with no condition; when the write is refused the key stays.
MarkCreating(p) ==
  /\ Begin(p) /\ provCache[p] # None /\ provCache[p].conditions = {}
  /\ prov[p] = provCache[p]
  /\ prov' = [prov EXCEPT ![p].conditions = {"Creating"}]
  /\ queue' = queue \ {p}
  /\ UNCHANGED <<cred, caches, up, worker>>

\* newClient fetches the access key, then the secret key, from the cache ...
FetchAccessKey(p) ==
  /\ Begin(p) /\ provCache[p] # None /\ provCache[p].conditions # {}
  /\ queue' = queue \ {p}
  /\ pc' = IF credCache[p] = "missing" THEN "fail" ELSE "secretKey"
  /\ cur' = p /\ fresh' = (prov[p] = provCache[p]) /\ obj' = provCache[p]
  /\ access' = credCache[p]
  /\ UNCHANGED <<store, caches, up>>

\* ... and makes a client of them; halves of two pairs are no pair.
FetchSecretKey ==
  /\ pc = "secretKey"
  /\ IF credCache[cur] = "missing" \/ obj.endpoint = "bad"
     THEN Goto("fail")
     ELSE /\ pc' = "list"
          /\ access' = IF credCache[cur] = access THEN access ELSE "wrong"
          /\ UNCHANGED <<cur, fresh, obj>>
  /\ UNCHANGED <<store, caches, up, queue>>

\* Mutated: a provider whose list of buckets fails is left as it is.
ListBuckets_ErrorDropped ==
  /\ pc = "list"
  /\ IF up /\ access = "right" /\ "Ready" \notin obj.conditions THEN Goto("ready") ELSE Finish
  /\ UNCHANGED <<store, caches, up, queue>>

ListBuckets ==
  /\ pc = "list"
  /\ \/ /\ ~up \/ access # "right"
        /\ Goto("fail")
     \/ /\ up /\ access = "right"
        /\ IF "Ready" \in obj.conditions THEN Finish ELSE Goto("ready")
  /\ UNCHANGED <<store, caches, up, queue>>

\* Error and Creating stay.
SetReady ==
  /\ pc = "ready"
  /\ StatusUpdate([obj EXCEPT !.conditions = @ \cup {"Ready"}])
  /\ Finish
  /\ UNCHANGED <<cred, caches, up>>

\* A failed probe is not an error of Reconcile: it is not retried.
RecordError ==
  /\ pc = "fail"
  /\ StatusUpdate([obj EXCEPT !.conditions = (@ \ {"Ready"}) \cup {"Error"}])
  /\ Finish
  /\ UNCHANGED <<cred, caches, up>>

\* The process dies; the manager that starts lists every provider.
Crash ==
  /\ "crash" \in Faults
  /\ Finish
  /\ queue' = {p \in Providers : provCache[p] # None}
  /\ UNCHANGED <<store, caches, up>>

Take(p) == Skip(p) \/ MarkCreating(p) \/ FetchAccessKey(p)
Work == FetchSecretKey \/ ListBuckets \/ SetReady \/ RecordError

-----------------------------------------------------------------------------
(* Informers: only providers are watched for this controller.              *)

SyncProvider(p) ==
  /\ provCache[p] # prov[p]
  /\ provCache' = [provCache EXCEPT ![p] = prov[p]]
  /\ queue' = queue \cup {p}
  /\ UNCHANGED <<store, credCache, up, worker>>

SyncCred(p) ==
  /\ credCache[p] # cred[p]
  /\ credCache' = [credCache EXCEPT ![p] = cred[p]]
  /\ UNCHANGED <<store, provCache, up, queue, worker>>

\* Every ten hours the informer hands out what it holds once more.
Resync ==
  /\ queue' = queue \cup {p \in Providers : provCache[p] # None}
  /\ UNCHANGED <<store, caches, up, worker>>

-----------------------------------------------------------------------------
(* Administrators, through the webhook.                                    *)

\* The default a webhook sees is the first of the list, in any order.
MayBeDefault(p) ==
  \/ \A q \in Providers : provCache[q] # None => ~provCache[q].annotated
  \/ provCache[p] # None /\ provCache[p].annotated

Validate(p, o) ==
  Webhooks => /\ MayBeDefault(p)
              /\ o.endpoint = "good"
              /\ credCache[p] \notin {"missing", "empty"}

\* A write by somebody else makes the worker's version of p an old one.
Outdate(p) == fresh' = (fresh /\ cur # p) /\ UNCHANGED <<pc, cur, obj, access>>

CreateProvider(p) ==
  /\ prov[p] = None
  /\ \E e \in {"good", "bad"}, d \in BOOLEAN :
       LET new == [endpoint |-> e, annotated |-> d, conditions |-> {}] IN
       /\ Validate(p, new)
       /\ prov' = [prov EXCEPT ![p] = new]
  /\ UNCHANGED <<cred, caches, up, queue, worker>>

\* ValidateUpdate is called with the old object and the new one, and looks at
\* the first.
EditProvider(p) ==
  /\ prov[p] # None /\ Validate(p, prov[p])
  /\ \E e \in {"good", "bad"}, d \in BOOLEAN :
       LET new == [prov[p] EXCEPT !.endpoint = e, !.annotated = d] IN
       /\ new # prov[p]
       /\ prov' = [prov EXCEPT ![p] = new]
  /\ Outdate(p)
  /\ UNCHANGED <<cred, caches, up, queue>>

\* ValidateDelete is not registered, and providers have no finalizer.
DeleteProvider(p) ==
  /\ prov[p] # None
  /\ prov' = [prov EXCEPT ![p] = None]
  /\ Outdate(p)
  /\ UNCHANGED <<cred, caches, up, queue>>

ChangeSecret(p) ==
  /\ \E c \in Creds \ {cred[p]} : cred' = [cred EXCEPT ![p] = c]
  /\ UNCHANGED <<prov, caches, up, queue, worker>>

MinioUpDown == up' = ~up /\ UNCHANGED <<store, caches, queue, worker>>

Next ==
  \/ \E p \in Providers : Take(p) \/ SyncProvider(p) \/ SyncCred(p)
                          \/ CreateProvider(p) \/ EditProvider(p) \/ DeleteProvider(p)
                          \/ ChangeSecret(p)
  \/ Work \/ Crash \/ Resync \/ MinioUpDown

Spec == Init /\ [][Next]_vars

(***************************************************************************)
(* Fairness: the worker takes every key and finishes what it has taken up, *)
(* the informers catch up and resync.  Crashes and refused writes may come *)
(* again and again, but do not hit the same call each time.                *)
(***************************************************************************)
Fairness ==
  /\ WF_vars(Work) /\ WF_vars(Resync)
  /\ SF_vars(FetchSecretKey) /\ SF_vars(ListBuckets)
  /\ SF_vars((SetReady \/ RecordError) /\ prov' # prov)
  /\ \A p \in Providers : SF_vars(Take(p)) /\ WF_vars(SyncProvider(p)) /\ WF_vars(SyncCred(p))

FairSpec == Spec /\ Fairness

-----------------------------------------------------------------------------
(* Properties.                                                             *)

\* Every variable holds a value the API objects and the worker can hold, and
\* the worker holds a provider exactly between taking it up and finishing.
TypeOK ==
  /\ prov \in [Providers -> ProviderObject \cup {None}]
  /\ provCache \in [Providers -> ProviderObject \cup {None}]
  /\ cred \in [Providers -> Creds] /\ credCache \in [Providers -> Creds]
  /\ up \in BOOLEAN
  /\ queue \subseteq Providers
  /\ pc \in {"idle", "secretKey", "list", "ready", "fail"}
  /\ fresh \in BOOLEAN
  /\ IF pc = "idle" THEN cur = None /\ obj = None
                    ELSE cur \in Providers /\ obj \in ProviderObject

Exists(p) == prov[p] # None
Has(p, t) == Exists(p) /\ t \in prov[p].conditions
Usable(p) == prov[p].endpoint = "good" /\ cred[p] = "right" /\ up

\* Neither p but for its status, nor its credentials, nor MinIO change.
Kept(p) ==
  /\ Exists(p) = Exists(p)'
  /\ Exists(p) => [prov[p] EXCEPT !.conditions = {}] = [prov'[p] EXCEPT !.conditions = {}]
  /\ cred'[p] = cred[p] /\ up' = up

\* A provider turns Ready only at an endpoint a client was made for: one edited
\* between the probe of ListBuckets and the write of its outcome does not
\* inherit the verdict on the endpoint it had before.
ReadyWhereProbed ==
  [][\A p \in Providers : ~Has(p, "Ready") /\ Has(p, "Ready")' =>
       prov'[p].endpoint = "good"]_vars

\* The status follows the provider: once a provider, its secrets and MinIO
\* settle it is Ready for good if it is usable, and in error and not Ready if it
\* is not, although its secrets are not watched and a failed probe not retried.
StatusFollows ==
  \A p \in Providers :
    <>[][Kept(p)]_vars =>
      <>[](Exists(p) => /\ Has(p, "Ready") = Usable(p)
                        /\ ~Usable(p) => Has(p, "Error"))

=============================================================================
