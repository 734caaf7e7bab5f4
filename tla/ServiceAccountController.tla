---------------------- MODULE ServiceAccountController ----------------------
(***************************************************************************)
(* The BucketServiceAccount reconciler and its garbage collector           *)
(* (controllers/bucketserviceaccount_controller.go) against the API        *)
(* server, its informer caches and MinIO.                                  *)
(*                                                                         *)
(* One worker reconciles accounts; a second goroutine, the collector,      *)
(* deletes those no Bucket uses.  Both are cut at their remote calls as in *)
(* BucketController, and both read the same caches.  Of a Bucket only its  *)
(* controller reference matters, of a Secret its credentials.  The clock   *)
(* of the collector is left out: a minute may have passed at any time.     *)
(***************************************************************************)
EXTENDS Naturals, Sequences, FiniteSets

CONSTANTS
  Accounts,     \* BucketServiceAccount objects
  Buckets,      \* Bucket objects, no two of one name
  Providers,    \* BucketProvider objects
  Keys,         \* MinIO service account credentials
  None,         \* an object that does not exist, a field that is not set
  Names,        \* metadata.names of accounts, which name their MinIO users
  NameOf,       \* NameOf[a]: metadata.name of account a, its namespace dropped
  Webhooks,     \* TRUE iff the admission webhooks are installed
  Faults,       \* what may go wrong: "api", "minio", "crash"
  Env,          \* what the environment does besides creating accounts
  MaxUid        \* bound: accounts created in a behaviour

ASSUME ConstantsOK ==
  /\ None \notin Accounts \cup Buckets \cup Providers \cup Keys
  /\ NameOf \in [Accounts -> Names]
  /\ Webhooks \in BOOLEAN
  /\ Faults \subseteq {"api", "minio", "crash"}
  /\ Env \subseteq {"delete", "buckets", "secrets", "provider"}
  /\ MaxUid \in Nat

VARIABLES
  account, secret, owner,                \* accounts, their secrets' credentials,
                                         \* the controller references of Buckets
  accountCache, secretCache, ownerCache, \* the same as the informers show them
  uids,       \* UIDs given to accounts so far
  provider,   \* providers as the informers show them: "none", "broken", "usable"
  users,      \* users[<<p, n>>]: the policies and credentials of a MinIO user
  canned,     \* canned policies of each provider: the Buckets they are for
  pc,         \* the worker's next remote call, "idle" between two keys
  cur,        \* the key it works on
  fresh,      \* TRUE iff its resource version of cur is still the stored one
  obj,        \* cur as it is in the worker's memory
  old,        \* credentials it has yet to delete
  key,        \* credentials it has just been given
  want,       \* the Buckets it lists under cur
  gc          \* the account the collector holds: None, or its next call, the
              \* account, as it was listed, and whether that is still so

store  == <<account, secret, owner, uids>>
caches == <<accountCache, secretCache, ownerCache>>
mio    == <<users, canned>>
locals == <<old, key, want>>
worker == <<pc, cur, fresh, obj, locals>>
vars   == <<store, caches, provider, mio, worker, gc>>

Types == {"Creating", "Ready", "Error", "Deleting", "DeletionPending"}

AccountObject == [uid: Nat,
                  provider: Providers,
                  deleting: BOOLEAN,
                  finalizer: BOOLEAN,
                  secretName: BOOLEAN,
                  conditions: Seq([type: Types, status: BOOLEAN])]

NewAccount(uid, p) == [uid |-> uid, provider |-> p, deleting |-> FALSE, finalizer |-> FALSE,
                       secretName |-> FALSE, conditions |-> <<>>]

Users == Providers \X Names
UserObject == [policies: SUBSET Buckets, keys: SUBSET Keys]

ASSUME NoneIsNoObject == None \notin AccountObject /\ None \notin UserObject

Init ==
  /\ account = [a \in Accounts |-> None] /\ accountCache = account
  /\ secret = [a \in Accounts |-> None] /\ secretCache = secret
  /\ owner = [b \in Buckets |-> None] /\ ownerCache = owner
  /\ uids = 0
  /\ provider = [p \in Providers |-> "usable"]
  /\ users = [u \in Users |-> None]
  /\ canned = [p \in Providers |-> {}]
  /\ pc = "idle" /\ cur = None /\ fresh = FALSE /\ obj = None
  /\ old = {} /\ key = None /\ want = {}
  /\ gc = None

-----------------------------------------------------------------------------
(* Conditions in the order of the status: the collector looks at the last. *)

HasType(conditions, t) == \E i \in DOMAIN conditions : conditions[i].type = t

IsTrue(conditions, t) ==
  \E i \in DOMAIN conditions : conditions[i] = [type |-> t, status |-> TRUE]

SetCondition(conditions, t, st) ==
  LET c == [type |-> t, status |-> st] IN
  IF HasType(conditions, t)
  THEN [i \in DOMAIN conditions |-> IF conditions[i].type = t THEN c ELSE conditions[i]]
  ELSE Append(conditions, c)

RemoveCondition(conditions, t) ==
  IF HasType(conditions, t)
  THEN LET at == CHOOSE i \in DOMAIN conditions : conditions[i].type = t IN
       [i \in 1 .. Len(conditions) - 1 |-> conditions[IF i < at THEN i ELSE i + 1]]
  ELSE conditions

With(o, t, st) == [o EXCEPT !.conditions = SetCondition(o.conditions, t, st)]

-----------------------------------------------------------------------------
(* The worker's steps.                                                     *)

\* Mutated: the object of the last key is left behind.
Finish_NoReset == /\ pc' = "idle"
                  /\ cur' = None /\ fresh' = FALSE /\ old' = {} /\ key' = None
                  /\ UNCHANGED <<obj, want>>

Finish == /\ pc' = "idle"
          /\ cur' = None /\ fresh' = FALSE /\ obj' = None
          /\ old' = {} /\ key' = None /\ want' = {}

Load(a, l) == /\ pc' = l
              /\ cur' = a
              /\ fresh' = (accountCache[a] = account[a])
              /\ obj' = accountCache[a]
              /\ UNCHANGED locals

Continue(l, f, o) == IF l = "idle"
                     THEN Finish
                     ELSE /\ pc' = l
                          /\ fresh' = f /\ obj' = o
                          /\ UNCHANGED <<cur, locals>>

Goto(l) == Continue(l, fresh, obj)

\* A write of account a by somebody else makes the versions others hold old.
OutdateWorker(a) == /\ fresh' = (fresh /\ cur # a)
                    /\ UNCHANGED <<pc, cur, obj, locals>>

Outdated(a) == IF gc # None /\ gc.account = a THEN [gc EXCEPT !.fresh = FALSE] ELSE gc

\* An Update or a Status().Update of cur to new, as in BucketController.
Write(new, ok, ko, mem) ==
  \/ /\ fresh
     /\ account' = [account EXCEPT ![cur] = new]
     /\ gc' = Outdated(cur)
     /\ \/ Continue(ok, TRUE, new)
        \/ "api" \in Faults /\ Continue(ko, FALSE, mem)
  \/ /\ ~fresh \/ "api" \in Faults
     /\ UNCHANGED <<account, gc>>
     /\ Continue(ko, fresh, mem)

\* A write that is the last call of a Reconcile.
WriteAndReturn(a, new) ==
  /\ accountCache[a] = account[a] /\ account[a] # new
  /\ account' = [account EXCEPT ![a] = new]
  /\ gc' = Outdated(a)
  /\ UNCHANGED <<secret, owner, uids, caches, provider, mio, worker>>

Begin(a) == pc = "idle" /\ accountCache[a] # None

User == <<obj.provider, NameOf[cur]>>

-----------------------------------------------------------------------------
(* Deletion.                                                               *)

MarkDeleting(a) ==
  /\ Begin(a) /\ accountCache[a].deleting
  /\ ~IsTrue(accountCache[a].conditions, "Deleting")
  /\ WriteAndReturn(a, With(accountCache[a], "Deleting", TRUE))

StartDeletion(a) ==
  LET o == accountCache[a] IN
  /\ Begin(a) /\ o.deleting
  /\ IsTrue(o.conditions, "Deleting")
  /\ provider[o.provider] # "broken"
  /\ Load(a, IF provider[o.provider] = "none" THEN "unfinalize" ELSE "dropSecret")
  /\ UNCHANGED <<store, caches, provider, mio, gc>>

DropSecret ==
  /\ pc = "dropSecret"
  /\ \/ /\ secret' = [secret EXCEPT ![cur] = None]
        /\ \/ Goto("removeUser")
           \/ "api" \in Faults /\ Finish
     \/ "api" \in Faults /\ UNCHANGED secret /\ Finish
  /\ UNCHANGED <<account, owner, uids, caches, provider, mio, gc>>

\* Mutated: any error of RemoveUser is taken for a missing user.
RemoveUser_ErrorIgnored ==
  /\ pc = "removeUser"
  /\ users' \in {users, [users EXCEPT ![User] = None]}
  /\ Goto("unfinalize")
  /\ UNCHANGED <<store, caches, provider, canned, gc>>

\* Mutated: a missing user is an error.
RemoveUser_MissingFails ==
  /\ pc = "removeUser"
  /\ users' = [users EXCEPT ![User] = None]
  /\ IF users[User] = None THEN Finish ELSE Goto("unfinalize")
  /\ UNCHANGED <<store, caches, provider, canned, gc>>

\* RemoveUser takes the credentials of the user with it; no such user is fine.
RemoveUser ==
  /\ pc = "removeUser"
  /\ \/ /\ users' = [users EXCEPT ![User] = None]
        /\ \/ Goto("unfinalize")
           \/ "minio" \in Faults /\ Finish
     \/ "minio" \in Faults /\ UNCHANGED users /\ Finish
  /\ UNCHANGED <<store, caches, provider, canned, gc>>

DropFinalizer ==
  /\ pc = "unfinalize"
  /\ Write(None, "idle", "idle", obj)
  /\ UNCHANGED <<secret, owner, uids, caches, provider, mio>>

-----------------------------------------------------------------------------
(* Finalizer, first condition, MinIO user.                                 *)

AddFinalizer(a) ==
  LET o == accountCache[a] IN
  /\ Begin(a) /\ ~o.deleting /\ ~o.finalizer
  /\ WriteAndReturn(a, [o EXCEPT !.finalizer = TRUE])

\* Mutated: the finalizer is not waited for.
StartReconcile_Unheld(a) ==
  LET o == accountCache[a] IN
  /\ Begin(a) /\ ~o.deleting
  /\ Load(a, IF o.conditions = <<>> THEN "creating" ELSE "user")
  /\ UNCHANGED <<store, caches, provider, mio, gc>>

StartReconcile(a) ==
  LET o == accountCache[a] IN
  /\ Begin(a) /\ ~o.deleting /\ o.finalizer
  /\ Load(a, IF o.conditions = <<>> THEN "creating" ELSE "user")
  /\ UNCHANGED <<store, caches, provider, mio, gc>>

MarkCreating ==
  /\ pc = "creating"
  /\ Write(With(obj, "Creating", TRUE), "user", "idle", obj)
  /\ UNCHANGED <<secret, owner, uids, caches, provider, mio>>

\* Get of the provider, newClient, ListUsers.
CheckUser ==
  /\ pc = "user"
  /\ \/ provider[obj.provider] # "usable" /\ Goto("fail")
     \/ /\ provider[obj.provider] = "usable"
        /\ \/ Goto(IF users[User] # None THEN "keys" ELSE "addUser")
           \/ "minio" \in Faults /\ Goto("fail")
  /\ UNCHANGED <<store, caches, provider, mio, gc>>

AddUser ==
  /\ pc = "addUser"
  /\ \/ /\ users' = [users EXCEPT ![User] = [policies |-> {}, keys |-> {}]]
        /\ \/ Goto("keys")
           \/ "minio" \in Faults /\ Goto("fail")
     \/ "minio" \in Faults /\ UNCHANGED users /\ Goto("fail")
  /\ UNCHANGED <<store, caches, provider, canned, gc>>

-----------------------------------------------------------------------------
(* reconcileServiceAccount: credentials and the secret that holds them.    *)

KeysInUse == UNION {users[u].keys : u \in {v \in Users : users[v] # None}}
             \cup {secret[a] : a \in Accounts} \cup {secretCache[a] : a \in Accounts}

\* Mutated: earlier credentials are left alone.
CheckKeys_KeepsOld ==
  /\ pc = "keys"
  /\ Goto(IF secretCache[cur] # None THEN "policies" ELSE "addKey")
  /\ UNCHANGED <<store, caches, provider, mio, gc>>

\* An existing secret is taken as it is; otherwise ListServiceAccounts.
CheckKeys ==
  /\ pc = "keys"
  /\ \/ secretCache[cur] # None /\ Goto("policies")
     \/ /\ secretCache[cur] = None
        /\ \/ /\ pc' = IF users[User].keys = {} THEN "addKey" ELSE "dropKeys"
              /\ old' = users[User].keys
              /\ UNCHANGED <<cur, fresh, obj, key, want>>
           \/ "minio" \in Faults /\ Goto("fail")
  /\ UNCHANGED <<store, caches, provider, mio, gc>>

\* DeleteServiceAccount of each of them.
DropKeys ==
  /\ pc = "dropKeys"
  /\ \/ \E k \in old :
          /\ users' = [users EXCEPT ![User].keys = @ \ {k}]
          /\ \/ /\ old' = old \ {k}
                /\ pc' = IF old' = {} THEN "addKey" ELSE "dropKeys"
                /\ UNCHANGED <<cur, fresh, obj, key, want>>
             \/ "minio" \in Faults /\ Goto("fail")
     \/ "minio" \in Faults /\ UNCHANGED users /\ Goto("fail")
  /\ UNCHANGED <<store, caches, provider, canned, gc>>

\* AddServiceAccount: MinIO makes up credentials never used before.
AddKey ==
  /\ pc = "addKey"
  /\ \/ \E k \in Keys \ KeysInUse :
          /\ users' = [users EXCEPT ![User].keys = @ \cup {k}]
          /\ \/ /\ pc' = "saveKey" /\ key' = k
                /\ UNCHANGED <<cur, fresh, obj, old, want>>
             \/ "minio" \in Faults /\ Goto("fail")
     \/ "minio" \in Faults /\ UNCHANGED users /\ Goto("fail")
  /\ UNCHANGED <<store, caches, provider, canned, gc>>

\* Create of the secret.  On failure the code calls DeleteServiceAccount with
\* the user's name, which is no access key: MinIO refuses, nothing is undone.
SaveKey ==
  /\ pc = "saveKey"
  /\ \/ /\ secret[cur] = None
        /\ secret' = [secret EXCEPT ![cur] = key]
        /\ \/ Continue("saveName", fresh, [obj EXCEPT !.secretName = TRUE])
           \/ "api" \in Faults /\ Goto("fail")
     \/ /\ secret[cur] # None \/ "api" \in Faults
        /\ UNCHANGED secret
        /\ Goto("fail")
  /\ UNCHANGED <<account, owner, uids, caches, provider, mio, gc>>

SaveSecretName ==
  /\ pc = "saveName"
  /\ Write(obj, "idle", "undoSecret", obj)
  /\ UNCHANGED <<secret, owner, uids, caches, provider, mio>>

UndoSecret ==
  /\ pc = "undoSecret"
  /\ \/ secret' = [secret EXCEPT ![cur] = None]
     \/ "api" \in Faults /\ UNCHANGED secret
  /\ Goto("fail")
  /\ UNCHANGED <<account, owner, uids, caches, provider, mio, gc>>

-----------------------------------------------------------------------------
(* reconcilePolicies.                                                      *)

\* List by the index ownerKey: the owner's name, its namespace not compared.
Listed(a) == {b \in Buckets : ownerCache[b] # None
                              /\ NameOf[ownerCache[b].account] = NameOf[a]}

FindBuckets ==
  LET pending == IsTrue(obj.conditions, "DeletionPending") IN
  /\ pc = "policies"
  /\ want' = Listed(cur)
  /\ pc' = IF want' = {} THEN IF pending THEN "setPolicy" ELSE "pending"
           ELSE IF pending THEN "unpend" ELSE "canned"
  /\ UNCHANGED <<cur, fresh, obj, old, key>>
  /\ UNCHANGED <<store, caches, provider, mio, gc>>

MarkPending ==
  LET new == With(obj, "DeletionPending", TRUE) IN
  /\ pc = "pending"
  /\ Write(new, "idle", "fail", new)
  /\ UNCHANGED <<secret, owner, uids, caches, provider, mio>>

ClearPending ==
  LET new == [obj EXCEPT !.conditions = RemoveCondition(@, "DeletionPending")] IN
  /\ pc = "unpend"
  /\ Write(new, "canned", "fail", new)
  /\ UNCHANGED <<secret, owner, uids, caches, provider, mio>>

\* Mutated: the user is given policies nobody has created.
EnsurePolicies_Skipped ==
  /\ pc = "canned" /\ Goto("setPolicy")
  /\ UNCHANGED <<store, caches, provider, mio, gc>>


\* ListCannedPolicies and AddCannedPolicy, Bucket by Bucket.
EnsurePolicies ==
  LET missing == want \ canned[obj.provider] IN
  /\ pc = "canned"
  /\ \/ missing = {} /\ UNCHANGED canned /\ Goto("setPolicy")
     \/ \E b \in missing :
          /\ canned' = [canned EXCEPT ![obj.provider] = @ \cup {b}]
          /\ UNCHANGED worker
     \/ "minio" \in Faults /\ UNCHANGED canned /\ Goto("fail")
  /\ UNCHANGED <<store, caches, provider, users, gc>>

ReadyStep == IF \/ IsTrue(obj.conditions, "Ready")
                \/ IsTrue(obj.conditions, "DeletionPending")
             THEN "idle" ELSE "ready"

SetPolicy ==
  /\ pc = "setPolicy"
  /\ \/ /\ users[User] # None
        /\ users' = [users EXCEPT ![User].policies = want]
        /\ \/ Goto(ReadyStep)
           \/ "minio" \in Faults /\ Goto("fail")
     \/ /\ users[User] = None \/ "minio" \in Faults
        /\ UNCHANGED users
        /\ Goto("fail")
  /\ UNCHANGED <<store, caches, provider, canned, gc>>

-----------------------------------------------------------------------------
(* The outcome in the conditions.                                          *)

\* Mutated: only the condition Creating is removed.
SetReady_ErrorKept ==
  LET new == [obj EXCEPT !.conditions =
                SetCondition(RemoveCondition(@, "Creating"), "Ready", TRUE)] IN
  /\ pc = "ready"
  /\ Write(new, "idle", "idle", new)
  /\ UNCHANGED <<secret, owner, uids, caches, provider, mio>>

SetReady ==
  LET cleared == RemoveCondition(RemoveCondition(obj.conditions, "Creating"), "Error")
      new == [obj EXCEPT !.conditions = SetCondition(cleared, "Ready", TRUE)] IN
  /\ pc = "ready"
  /\ Write(new, "idle", "idle", new)
  /\ UNCHANGED <<secret, owner, uids, caches, provider, mio>>

RecordError ==
  LET new == With(With(obj, "Ready", FALSE), "Error", TRUE) IN
  /\ pc = "fail"
  /\ Write(new, "idle", "idle", new)
  /\ UNCHANGED <<secret, owner, uids, caches, provider, mio>>

\* The process dies, with its worker and its collector.
Crash ==
  /\ "crash" \in Faults
  /\ pc # "idle" \/ gc # None
  /\ Finish
  /\ gc' = None
  /\ UNCHANGED <<store, caches, provider, mio>>

Start(a) == \/ MarkDeleting(a) \/ StartDeletion(a)
            \/ AddFinalizer(a) \/ StartReconcile(a)

Work ==
  \/ DropSecret \/ RemoveUser \/ DropFinalizer
  \/ MarkCreating \/ CheckUser \/ AddUser
  \/ CheckKeys \/ DropKeys \/ AddKey \/ SaveKey \/ SaveSecretName \/ UndoSecret
  \/ FindBuckets \/ MarkPending \/ ClearPending \/ EnsurePolicies \/ SetPolicy
  \/ SetReady \/ RecordError

-----------------------------------------------------------------------------
(* The collector: every account in the cache that it finds due is marked   *)
(* and deleted.  Due is what the last condition says, its status ignored.  *)

Due(conditions) ==
  /\ conditions # <<>>
  /\ conditions[Len(conditions)].type \in {"DeletionPending", "Deleting"}

GcTake(a) ==
  LET o == accountCache[a] IN
  /\ gc = None
  /\ o # None /\ Due(o.conditions)
  /\ gc' = [account |-> a, obj |-> o, fresh |-> o = account[a],
            call |-> IF IsTrue(o.conditions, "Deleting") THEN "delete" ELSE "mark"]
  /\ UNCHANGED <<store, caches, provider, mio, worker>>

GcMark ==
  /\ gc # None /\ gc.call = "mark"
  /\ \/ /\ gc.fresh
        /\ account' = [account EXCEPT ![gc.account] = With(gc.obj, "Deleting", TRUE)]
        /\ \/ gc' = [gc EXCEPT !.call = "delete", !.obj = account'[gc.account]]
           \/ "api" \in Faults /\ gc' = None
        /\ OutdateWorker(gc.account)
     \/ /\ ~gc.fresh \/ "api" \in Faults
        /\ gc' = None
        /\ UNCHANGED <<account, worker>>
  /\ UNCHANGED <<secret, owner, uids, caches, provider, mio>>

\* What a Delete makes of an account: gone, or under deletion until it has no
\* finalizer.  The Delete names the account and nothing else.
Deleted(o) == IF o # None /\ o.finalizer THEN [o EXCEPT !.deleting = TRUE] ELSE None

GcDelete ==
  LET a == gc.account IN
  /\ gc # None /\ gc.call = "delete"
  /\ gc' = None
  /\ \/ /\ account' = [account EXCEPT ![a] = Deleted(account[a])]
        /\ IF account' = account THEN UNCHANGED worker ELSE OutdateWorker(a)
     \/ "api" \in Faults /\ UNCHANGED <<account, worker>>
  /\ UNCHANGED <<secret, owner, uids, caches, provider, mio>>

Collector == (\E a \in Accounts : GcTake(a)) \/ GcMark \/ GcDelete

-----------------------------------------------------------------------------
(* Informers.                                                              *)

SyncAccount(a) ==
  /\ accountCache[a] # account[a]
  /\ accountCache' = [accountCache EXCEPT ![a] = account[a]]
  /\ UNCHANGED <<store, secretCache, ownerCache, provider, mio, worker, gc>>

SyncSecret(a) ==
  /\ secretCache[a] # secret[a]
  /\ secretCache' = [secretCache EXCEPT ![a] = secret[a]]
  /\ UNCHANGED <<store, accountCache, ownerCache, provider, mio, worker, gc>>

SyncBucket(b) ==
  /\ ownerCache[b] # owner[b]
  /\ ownerCache' = [ownerCache EXCEPT ![b] = owner[b]]
  /\ UNCHANGED <<store, accountCache, secretCache, provider, mio, worker, gc>>

Informers == \/ \E a \in Accounts : SyncAccount(a) \/ SyncSecret(a)
             \/ \E b \in Buckets : SyncBucket(b)

-----------------------------------------------------------------------------
(* The rest of the cluster.                                                *)

\* By the Bucket controller, for a Bucket that names a missing account; the
\* webhook refuses an account whose MinIO user exists.
CreateAccount(a) ==
  /\ account[a] = None /\ uids < MaxUid
  /\ uids' = uids + 1
  /\ \E p \in Providers :
       /\ Webhooks => provider[p] = "usable" /\ users[<<p, NameOf[a]>>] = None
       /\ account' = [account EXCEPT ![a] = NewAccount(uids', p)]
  /\ UNCHANGED <<secret, owner, caches, provider, mio, worker, gc>>

\* By kube-system's controllers, or by anybody when there is no webhook.
DeleteAccount(a) ==
  /\ "delete" \in Env
  /\ account[a] # None /\ ~account[a].deleting
  /\ account' = [account EXCEPT ![a] = Deleted(account[a])]
  /\ gc' = Outdated(a)
  /\ OutdateWorker(a)
  /\ UNCHANGED <<secret, owner, uids, caches, provider, mio>>

\* The Bucket controller sets the controller reference of a Bucket to the
\* account it has created or found in the cache, which may be gone by then.
AdoptBucket(b, a) ==
  /\ "buckets" \in Env
  /\ \E u \in 1..uids :
       LET ref == [account |-> a, uid |-> u] IN
       /\ owner[b] # ref
       /\ owner' = [owner EXCEPT ![b] = ref]
  /\ UNCHANGED <<account, secret, uids, caches, provider, mio, worker, gc>>

\* A Bucket goes away.
ReleaseBucket(b) ==
  /\ "buckets" \in Env
  /\ owner[b] # None
  /\ owner' = [owner EXCEPT ![b] = None]
  /\ UNCHANGED <<account, secret, uids, caches, provider, mio, worker, gc>>

\* The secret of an account that is gone is collected; any may be removed.
LoseSecret(a) ==
  /\ secret[a] # None
  /\ account[a] = None \/ "secrets" \in Env
  /\ secret' = [secret EXCEPT ![a] = None]
  /\ UNCHANGED <<account, owner, uids, caches, provider, mio, worker, gc>>

ProviderChanges(p) ==
  /\ "provider" \in Env
  /\ \E st \in {"none", "broken", "usable"} \ {provider[p]} :
       provider' = [provider EXCEPT ![p] = st]
  /\ UNCHANGED <<store, caches, mio, worker, gc>>

Environment ==
  \/ \E a \in Accounts : CreateAccount(a) \/ DeleteAccount(a) \/ LoseSecret(a)
  \/ \E b \in Buckets : ReleaseBucket(b) \/ \E a \in Accounts : AdoptBucket(b, a)
  \/ \E p \in Providers : ProviderChanges(p)

Controller == (\E a \in Accounts : Start(a)) \/ Work \/ Crash

Next == Controller \/ Collector \/ Informers \/ Environment

Spec == Init /\ [][Next]_vars

(***************************************************************************)
(* Fairness: the worker finishes what it has taken up, an account that     *)
(* stays in the cache is taken up again and again, the informers catch up, *)
(* and the collector's ticks find an account that stays due.               *)
(***************************************************************************)
Fairness ==
  /\ WF_vars(Work)
  /\ \A a \in Accounts : SF_vars(Start(a)) /\ SF_vars(GcTake(a))
  /\ WF_vars(GcMark) /\ WF_vars(GcDelete)
  /\ \A a \in Accounts : WF_vars(SyncAccount(a)) /\ WF_vars(SyncSecret(a))
  /\ \A b \in Buckets : WF_vars(SyncBucket(b))

FairSpec == Spec /\ Fairness

-----------------------------------------------------------------------------
(* Properties.                                                             *)

ObjectOrNone(T) == T \cup {None}
OwnerRef == [account: Accounts, uid: Nat]

\* Every variable holds a value the API objects, MinIO, the worker and the
\* collector can hold; no account has two conditions of a type.
TypeOK ==
  /\ account \in [Accounts -> ObjectOrNone(AccountObject)]
  /\ accountCache \in [Accounts -> ObjectOrNone(AccountObject)]
  /\ secret \in [Accounts -> ObjectOrNone(Keys)]
  /\ secretCache \in [Accounts -> ObjectOrNone(Keys)]
  /\ owner \in [Buckets -> ObjectOrNone(OwnerRef)]
  /\ ownerCache \in [Buckets -> ObjectOrNone(OwnerRef)]
  /\ uids \in Nat
  /\ provider \in [Providers -> {"none", "broken", "usable"}]
  /\ users \in [Users -> ObjectOrNone(UserObject)]
  /\ canned \in [Providers -> SUBSET Buckets]
  /\ IF pc = "idle" THEN cur = None /\ obj = None
                    ELSE cur \in Accounts /\ obj \in AccountObject
  /\ fresh \in BOOLEAN
  /\ old \subseteq Keys /\ key \in ObjectOrNone(Keys) /\ want \subseteq Buckets
  /\ gc \in ObjectOrNone([account: Accounts, obj: AccountObject, fresh: BOOLEAN,
                          call: {"mark", "delete"}])
  /\ \A a \in Accounts : account[a] # None =>
       LET c == account[a].conditions IN
       \A i, j \in DOMAIN c : c[i].type = c[j].type => i = j

Exists(a) == account[a] # None
Alive(a) == Exists(a) /\ ~account[a].deleting
UserOf(a) == users[<<account[a].provider, NameOf[a]>>]

\* An account is Ready only under its finalizer, and never together with a
\* standing error or with the condition that it is being created.
StatusHonest ==
  \A a \in Accounts : Exists(a) /\ IsTrue(account[a].conditions, "Ready") =>
    /\ account[a].finalizer
    /\ ~IsTrue(account[a].conditions, "Error")
    /\ ~IsTrue(account[a].conditions, "Creating")

\* Credentials do not pile up: a MinIO user never has more than one pair,
\* whichever call of reconcileServiceAccount fails, is lost or is repeated.
OneKey == \A u \in Users : users[u] # None => Cardinality(users[u].keys) <= 1

\* No MinIO user outlives the account it was made for, and none is made for an
\* account that is gone: each has an account of its name, held by the finalizer.
NoOrphanUser ==
  \A u \in Users : users[u] # None =>
    \E a \in Accounts : /\ u[2] = NameOf[a]
                        /\ Exists(a) /\ account[a].finalizer /\ account[a].provider = u[1]

\* The policies a MinIO user is given exist by then.
PoliciesExist ==
  \A u \in Users : users[u] # None => users[u].policies \subseteq canned[u[1]]

\* Once the Buckets of an account settle, its MinIO user is given access to
\* exactly those: reconcilePolicies follows adoptions and releases.
Owned(a) == {b \in Buckets : owner[b] # None /\ owner[b].account = a}


\* An account that is being deleted goes away.
DeletionEnds ==
  \A a \in Accounts : (Exists(a) /\ account[a].deleting) ~> ~Exists(a)

-----------------------------------------------------------------------------
(* What the repository says of the program and the program does not do.    *)

\* bucketserviceaccount_controller.go:238: an account no Bucket uses "will be
\* deleted in 1 minute".  None stays pending for ever.
PendingCollected ==
  \A a \in Accounts :
    ~<>[](Alive(a) /\ IsTrue(account[a].conditions, "DeletionPending"))
=============================================================================
