----------------------- MODULE ServiceAccountProofs -----------------------
(***************************************************************************)
(* Theorems about the BucketServiceAccount reconciler and its collector,   *)
(* for any numbers of accounts, Buckets, providers and credentials.        *)
(***************************************************************************)
EXTENDS ServiceAccountController, SequenceTheorems, FiniteSetTheorems, TLAPS

-----------------------------------------------------------------------------
(* The inductive invariants.                                               *)

Distinct(c) == \A i, j \in DOMAIN c : c[i].type = c[j].type => i = j

\* Accounts as any writer leaves them.
Account == {o \in AccountObject : Distinct(o.conditions)}
GcCall == [account: Accounts, obj: Account, fresh: BOOLEAN, call: {"mark", "delete"}]

DyingSteps == {"dropSecret", "removeUser", "unfinalize"}
KeySteps == {"keys", "dropKeys", "addKey"}
AliveSteps == KeySteps \cup {"creating", "user", "addUser", "saveKey", "saveName", "undoSecret",
                             "policies", "pending", "unpend", "canned", "setPolicy", "ready",
                             "fail"}
Steps == DyingSteps \cup AliveSteps

StoreOK ==
  /\ account \in [Accounts -> ObjectOrNone(Account)]
  /\ accountCache \in [Accounts -> ObjectOrNone(Account)]
  /\ secret \in [Accounts -> ObjectOrNone(Keys)]
  /\ secretCache \in [Accounts -> ObjectOrNone(Keys)]
  /\ owner \in [Buckets -> ObjectOrNone(OwnerRef)]
  /\ ownerCache \in [Buckets -> ObjectOrNone(OwnerRef)]
  /\ uids \in Nat
  /\ provider \in [Providers -> {"none", "broken", "usable"}]

MinioOK ==
  /\ users \in [Users -> ObjectOrNone(UserObject)]
  /\ canned \in [Providers -> SUBSET Buckets]

WorkerOK ==
  /\ IF pc = "idle" THEN cur = None /\ obj = None
                    ELSE pc \in Steps /\ cur \in Accounts /\ obj \in Account
  /\ fresh \in BOOLEAN
  /\ old \subseteq Keys /\ key \in ObjectOrNone(Keys) /\ want \subseteq Buckets
  /\ pc = "saveKey" => key \in Keys
  /\ pc \in KeySteps => users[User] # None

Typed == StoreOK /\ MinioOK /\ WorkerOK /\ gc \in ObjectOrNone(GcCall)

Honest(o) ==
  IsTrue(o.conditions, "Ready") =>
    o.finalizer /\ ~IsTrue(o.conditions, "Error") /\ ~IsTrue(o.conditions, "Creating")

HonestWorker ==
  pc # "idle" =>
    /\ Honest(obj)
    /\ pc \in AliveSteps => obj.finalizer
    /\ pc = "creating" => obj.conditions = <<>>

HonestInv ==
  /\ \A a \in Accounts : /\ account[a] # None => Honest(account[a])
                         /\ accountCache[a] # None => Honest(accountCache[a])
  /\ HonestWorker
  /\ gc # None => Honest(gc.obj)

KeysInv ==
  /\ \A u \in Users : users[u] # None /\ users[u].keys # {} =>
       \E k \in Keys : users[u].keys = {k}
  /\ pc = "addKey" => users[User].keys = {}
  /\ pc = "dropKeys" => users[User].keys = old

GrantsInv == PoliciesExist /\ (pc = "setPolicy" => want \subseteq canned[obj.provider])

\* a exists under the finalizer, with provider p.
Held(a, p) == account[a] # None /\ account[a].finalizer /\ account[a].provider = p

\* o is gone, is not held, or is on its way out.
Doomed(o) == o # None /\ o.finalizer => o.deleting

\* The cache shows an account held and not deleted only as long as it is; the
\* one it shows deleted is not held again before the cache has caught up.
CacheFollows ==
  \A a \in Accounts : accountCache[a] # None =>
    IF accountCache[a].deleting
    THEN Doomed(account[a])
    ELSE accountCache[a].finalizer => Held(a, accountCache[a].provider)

GcFollows == gc # None /\ gc.fresh => account[gc.account] = gc.obj

SameAccount(a, o) == /\ account[a] # None
                     /\ account[a].deleting = o.deleting
                     /\ account[a].provider = o.provider

WorkerFollows ==
  pc # "idle" =>
    /\ fresh => SameAccount(cur, obj)
    /\ pc \in DyingSteps => obj.deleting /\ Doomed(account[cur]) /\ Doomed(accountCache[cur])
    /\ pc = "unfinalize" => users[User] = None
    /\ pc \in AliveSteps => ~obj.deleting /\ obj.finalizer /\ Held(cur, obj.provider)

ProvidersUp == \A p \in Providers : provider[p] = "usable"

OrphanInv == ProvidersUp /\ NoOrphanUser /\ CacheFollows /\ GcFollows /\ WorkerFollows

-----------------------------------------------------------------------------
(* What the operators on conditions return.                                *)

Condition == [type: Types, status: BOOLEAN]
Conditions == {c \in Seq(Condition) : Distinct(c)}

\* A sequence of conditions is a function on 1 .. Len.
LEMMA ConditionsAt ==
  ASSUME NEW c \in Seq(Condition)
  PROVE  /\ Len(c) \in Nat /\ DOMAIN c = 1 .. Len(c)
         /\ \A i \in DOMAIN c : c[i] \in Condition
BY LenProperties, ElementOfSeq

\* A condition is TRUE where both of its fields say so.
LEMMA TrueAt ==
  ASSUME NEW c \in Seq(Condition), NEW u \in Types
  PROVE  IsTrue(c, u) <=> \E i \in DOMAIN c : c[i].type = u /\ c[i].status
<1>1. \A r \in Condition : r = [type |-> u, status |-> TRUE] <=> r.type = u /\ r.status
  BY DEF Condition
<1>q. QED BY <1>1, ConditionsAt DEF IsTrue

\* meta.SetStatusCondition: type t gets its status, where it stands or at the
\* end, and the others keep theirs.
LEMMA SetConditionSeq ==
  ASSUME NEW c \in Conditions, NEW t \in Types, NEW st \in BOOLEAN
  PROVE  /\ SetCondition(c, t, st) \in Conditions
         /\ IsTrue(SetCondition(c, t, st), t) <=> st
         /\ \A u \in Types \ {t} : (IsTrue(SetCondition(c, t, st), u) <=> IsTrue(c, u))
<1> DEFINE n == [type |-> t, status |-> st]
<1>1. c \in Seq(Condition) /\ Distinct(c) /\ n \in Condition
  BY DEF Conditions, Condition
<1>2. /\ Len(c) \in Nat /\ DOMAIN c = 1 .. Len(c)
      /\ \A i \in DOMAIN c : c[i] \in Condition
  BY <1>1, ConditionsAt
<1>3. CASE HasType(c, t)
  <2> DEFINE d == [i \in DOMAIN c |-> IF c[i].type = t THEN n ELSE c[i]]
  <2>1. SetCondition(c, t, st) = d
    BY <1>3 DEF SetCondition
  <2>2. d \in Seq(Condition)
    <3>1. d \in [1 .. Len(c) -> Condition]
      BY <1>1, <1>2
    <3>q. QED BY <1>2, <3>1, SeqDef
  <2>3. DOMAIN d = DOMAIN c /\ \A i \in DOMAIN c : d[i].type = c[i].type
    BY <1>2
  <2>4. Distinct(d)
    BY <1>1, <2>3 DEF Distinct
  <2>5. \A i \in DOMAIN c : d[i].status = IF c[i].type = t THEN st ELSE c[i].status
    OBVIOUS
  <2> HIDE DEF d
  <2>6. IsTrue(d, t) <=> st
    <3>1. PICK i \in DOMAIN c : c[i].type = t
      BY <1>3 DEF HasType
    <3>2. IsTrue(d, t) <=> \E j \in DOMAIN c : c[j].type = t /\ d[j].status
      BY <2>2, <2>3, TrueAt
    <3>q. QED BY <2>5, <3>1, <3>2
  <2>7. \A u \in Types \ {t} : (IsTrue(d, u) <=> IsTrue(c, u))
    BY <1>1, <2>2, <2>3, <2>5, TrueAt
  <2>q. QED BY <2>1, <2>2, <2>4, <2>6, <2>7 DEF Conditions
<1>4. CASE ~HasType(c, t)
  <2> DEFINE d == Append(c, n)
  <2>1. SetCondition(c, t, st) = d
    BY <1>4 DEF SetCondition
  <2>2. /\ d \in Seq(Condition)
        /\ Len(d) = Len(c) + 1
        /\ \A i \in 1 .. Len(c) : d[i] = c[i]
        /\ d[Len(c) + 1] = n
    BY <1>1, AppendProperties
  <2>3. DOMAIN d = 1 .. Len(c) + 1
    BY <2>2, ConditionsAt
  <2> HIDE DEF d
  <2>4. Distinct(d)
    BY <1>1, <1>2, <1>4, <2>2, <2>3 DEF Distinct, HasType
  <2>5. IsTrue(d, t) <=> st
    BY <1>2, <1>4, <2>2, <2>3, TrueAt DEF HasType
  <2>6. \A u \in Types \ {t} : (IsTrue(d, u) <=> IsTrue(c, u))
    BY <1>1, <1>2, <2>2, <2>3, TrueAt
  <2>q. QED BY <2>1, <2>2, <2>4, <2>5, <2>6 DEF Conditions
<1>q. QED BY <1>3, <1>4

\* meta.RemoveStatusCondition: type t goes and the others keep their status.
LEMMA RemoveConditionSeq ==
  ASSUME NEW c \in Conditions, NEW t \in Types
  PROVE  /\ RemoveCondition(c, t) \in Conditions
         /\ ~HasType(RemoveCondition(c, t), t)
         /\ \A u \in Types \ {t} : (IsTrue(RemoveCondition(c, t), u) <=> IsTrue(c, u))
<1>1. c \in Seq(Condition) /\ Distinct(c)
  BY DEF Conditions
<1>2. /\ Len(c) \in Nat /\ DOMAIN c = 1 .. Len(c)
      /\ \A i \in DOMAIN c : c[i] \in Condition
  BY <1>1, ConditionsAt
<1>3. CASE ~HasType(c, t)
  BY <1>3 DEF RemoveCondition
<1>4. CASE HasType(c, t)
  <2> DEFINE at == CHOOSE i \in DOMAIN c : c[i].type = t
             d == [i \in 1 .. Len(c) - 1 |-> c[IF i < at THEN i ELSE i + 1]]
  <2>1. at \in 1 .. Len(c) /\ c[at].type = t
    BY <1>2, <1>4 DEF HasType
  <2>2. RemoveCondition(c, t) = d
    BY <1>4 DEF RemoveCondition
  <2> HIDE DEF at
  <2>3. d \in [1 .. Len(c) - 1 -> Condition]
    BY <1>2, <2>1
  <2>4. d \in Seq(Condition)
    BY <1>2, <2>1, <2>3, SeqDef
  <2>5. \A i \in 1 .. Len(c) - 1 :
          /\ (IF i < at THEN i ELSE i + 1) \in DOMAIN c \ {at}
          /\ d[i] = c[IF i < at THEN i ELSE i + 1]
    BY <1>2, <2>1
  <2>6. \A j \in DOMAIN c \ {at} :
          LET i == IF j < at THEN j ELSE j - 1 IN i \in 1 .. Len(c) - 1 /\ d[i] = c[j]
    BY <1>2, <2>1
  <2>7. DOMAIN d = 1 .. Len(c) - 1
    OBVIOUS
  <2> HIDE DEF d
  <2>8. Distinct(d)
    <3> SUFFICES ASSUME NEW i \in DOMAIN d, NEW j \in DOMAIN d, d[i].type = d[j].type
                 PROVE  i = j
      BY DEF Distinct
    <3>1. (IF i < at THEN i ELSE i + 1) = (IF j < at THEN j ELSE j + 1)
      BY <1>1, <2>5, <2>7 DEF Distinct
    <3>q. QED BY <1>2, <2>1, <2>7, <3>1
  <2>9. ~HasType(d, t)
    BY <1>1, <1>2, <2>1, <2>5, <2>7 DEF HasType, Distinct
  <2>10. \A u \in Types \ {t} : (IsTrue(d, u) <=> IsTrue(c, u))
    <3> SUFFICES ASSUME NEW u \in Types \ {t} PROVE IsTrue(d, u) <=> IsTrue(c, u)
      BY DEF IsTrue
    <3>1. ASSUME IsTrue(d, u) PROVE IsTrue(c, u)
      BY <2>5, <2>7, <3>1 DEF IsTrue
    <3>2. ASSUME IsTrue(c, u) PROVE IsTrue(d, u)
      <4>1. PICK j \in DOMAIN c : c[j] = [type |-> u, status |-> TRUE]
        BY <3>2 DEF IsTrue
      <4>2. j # at
        BY <2>1, <4>1
      <4>q. QED BY <2>6, <2>7, <4>1, <4>2 DEF IsTrue
    <3>q. QED BY <3>1, <3>2
  <2>q. QED BY <2>2, <2>4, <2>8, <2>9, <2>10 DEF Conditions
<1>q. QED BY <1>3, <1>4

\* What is not there is not true.
LEMMA NoTypeNotTrue == \A c, t : ~HasType(c, t) => ~IsTrue(c, t)
BY DEF HasType, IsTrue

-----------------------------------------------------------------------------
(* Types.                                                                  *)

\* Each write of an account leaves an account.
LEMMA AccountUpdates ==
  ASSUME NEW o \in Account
  PROVE  /\ o # None /\ o.conditions \in Conditions
         /\ o.deleting \in BOOLEAN /\ o.finalizer \in BOOLEAN /\ o.provider \in Providers
         /\ [o EXCEPT !.finalizer = TRUE] \in Account
         /\ [o EXCEPT !.deleting = TRUE] \in Account
         /\ [o EXCEPT !.secretName = TRUE] \in Account
         /\ \A c \in Conditions : [o EXCEPT !.conditions = c] \in Account
BY NoneIsNoObject DEF Account, AccountObject, Conditions, Condition

\* A condition set in the status leaves the rest of the account.
LEMMA WithIsAccount ==
  ASSUME NEW o \in Account, NEW t \in Types, NEW st \in BOOLEAN
  PROVE  /\ With(o, t, st) \in Account
         /\ With(o, t, st).conditions = SetCondition(o.conditions, t, st)
         /\ With(o, t, st).deleting = o.deleting
         /\ With(o, t, st).finalizer = o.finalizer
         /\ With(o, t, st).provider = o.provider
BY AccountUpdates, SetConditionSeq DEF With, Account, AccountObject

LEMMA WithoutIsAccount ==
  ASSUME NEW o \in Account, NEW c \in Conditions
  PROVE  LET new == [o EXCEPT !.conditions = c] IN
         /\ new \in Account
         /\ new.conditions = c
         /\ new.deleting = o.deleting
         /\ new.finalizer = o.finalizer
         /\ new.provider = o.provider
BY AccountUpdates DEF Account, AccountObject

LEMMA NewAccountIsAccount ==
  ASSUME NEW u \in Nat, NEW p \in Providers
  PROVE  /\ NewAccount(u, p) \in Account
         /\ NewAccount(u, p).conditions = <<>>
         /\ ~NewAccount(u, p).finalizer /\ ~NewAccount(u, p).deleting
<1>1. <<>> \in Conditions
  BY EmptySeq DEF Conditions, Distinct
<1>q. QED BY <1>1 DEF NewAccount, Account, AccountObject, Conditions, Condition

LEMMA DeletedIsAccount ==
  ASSUME NEW o \in ObjectOrNone(Account)
  PROVE  /\ Deleted(o) \in ObjectOrNone(Account)
         /\ Deleted(o) # None =>
              /\ o # None
              /\ Deleted(o).deleting /\ Deleted(o).finalizer /\ o.finalizer
              /\ Deleted(o).provider = o.provider
              /\ Deleted(o).conditions = o.conditions
         /\ o # None /\ o.finalizer => Deleted(o) # None
BY AccountUpdates DEF Deleted, ObjectOrNone, Account, AccountObject

LEMMA FinishTyped == Finish => WorkerOK'
BY DEF Finish, WorkerOK, ObjectOrNone, KeySteps

LEMMA ContinueTyped ==
  ASSUME WorkerOK, pc # "idle", NEW l \in (Steps \cup {"idle"}) \ {"saveKey"},
         NEW f \in BOOLEAN, NEW o, l # "idle" => o \in Account,
         l \in KeySteps => users'[<<o.provider, NameOf[cur]>>] # None,
         Continue(l, f, o)
  PROVE  WorkerOK'
BY FinishTyped DEF Continue, WorkerOK, locals, User

\* The worker stays where it is, its version may become an old one.
LEMMA OutdateTyped ==
  ASSUME WorkerOK, UNCHANGED users,
         UNCHANGED worker \/ \E a \in Accounts : OutdateWorker(a)
  PROVE  WorkerOK'
BY DEF OutdateWorker, WorkerOK, worker, locals, User

LEMMA OutdatedTyped ==
  ASSUME gc \in ObjectOrNone(GcCall), NEW a \in Accounts
  PROVE  Outdated(a) \in ObjectOrNone(GcCall)
BY DEF Outdated, ObjectOrNone, GcCall

LEMMA WriteTyped ==
  ASSUME Typed, pc # "idle", NEW new \in ObjectOrNone(Account), NEW mem \in Account,
         NEW ok \in (Steps \cup {"idle"}) \ (KeySteps \cup {"saveKey"}),
         NEW ko \in (Steps \cup {"idle"}) \ (KeySteps \cup {"saveKey"}),
         ok # "idle" => new # None,
         Write(new, ok, ko, mem),
         UNCHANGED <<secret, owner, uids, caches, provider, mio>>
  PROVE  Typed'
<1>1. cur \in Accounts /\ WorkerOK
  BY DEF Typed, WorkerOK
<1>2. account' \in [Accounts -> ObjectOrNone(Account)]
  BY <1>1 DEF Write, Typed, StoreOK
<1>3. gc' \in ObjectOrNone(GcCall)
  BY <1>1, OutdatedTyped DEF Write, Typed
<1>4. WorkerOK'
  <2>1. CASE Continue(ok, TRUE, new)
    BY <1>1, <2>1, ContinueTyped DEF ObjectOrNone
  <2>2. CASE Continue(ko, FALSE, mem)
    BY <1>1, <2>2, ContinueTyped
  <2>3. CASE Continue(ko, fresh, mem)
    BY <1>1, <2>3, ContinueTyped DEF WorkerOK
  <2>q. QED BY <2>1, <2>2, <2>3 DEF Write
<1>q. QED BY <1>2, <1>3, <1>4 DEF Typed, StoreOK, MinioOK, caches, mio

LEMMA WriteAndReturnTyped ==
  ASSUME Typed, NEW a \in Accounts, NEW new \in Account, WriteAndReturn(a, new)
  PROVE  Typed'
<1>1. WorkerOK' /\ gc' \in ObjectOrNone(GcCall)
  BY OutdateTyped, OutdatedTyped DEF WriteAndReturn, Typed, mio
<1>q. QED BY <1>1 DEF WriteAndReturn, Typed, StoreOK, MinioOK, caches, mio, ObjectOrNone

LEMMA LoadTyped ==
  ASSUME Typed, NEW a \in Accounts, Begin(a), NEW l \in Steps \ (KeySteps \cup {"saveKey"}),
         Load(a, l), UNCHANGED <<store, caches, provider, mio, gc>>
  PROVE  Typed'
<1>1. WorkerOK'
  <2>1. fresh' \in BOOLEAN
    BY DEF Load
  <2>2. pc' = l /\ cur' = a /\ obj' = accountCache[a] /\ UNCHANGED locals
    BY DEF Load
  <2>3. accountCache[a] \in Account
    BY DEF Begin, Typed, StoreOK, ObjectOrNone
  <2>4. l \in Steps /\ l # "idle" /\ l # "saveKey" /\ l \notin KeySteps
    BY DEF Steps, DyingSteps, AliveSteps, KeySteps
  <2>q. QED BY <2>1, <2>2, <2>3, <2>4 DEF Typed, WorkerOK, locals
<1>q. QED BY <1>1 DEF Typed, StoreOK, MinioOK, store, caches, mio

LEMMA StartTyped ==
  ASSUME Typed, NEW a \in Accounts, Start(a)
  PROVE  Typed'
<1>1. CASE MarkDeleting(a)
  <2>1. accountCache[a] \in Account
    BY <1>1 DEF MarkDeleting, Begin, Typed, StoreOK, ObjectOrNone
  <2>q. QED BY <1>1, <2>1, WithIsAccount, WriteAndReturnTyped DEF MarkDeleting, Types
<1>2. CASE StartDeletion(a)
  BY <1>2, LoadTyped DEF StartDeletion, Steps, DyingSteps, KeySteps
<1>3. CASE AddFinalizer(a)
  <2>1. accountCache[a] \in Account
    BY <1>3 DEF AddFinalizer, Begin, Typed, StoreOK, ObjectOrNone
  <2>q. QED BY <1>3, <2>1, AccountUpdates, WriteAndReturnTyped DEF AddFinalizer
<1>4. CASE StartReconcile(a)
  BY <1>4, LoadTyped DEF StartReconcile, Steps, AliveSteps, KeySteps
<1>q. QED BY <1>1, <1>2, <1>3, <1>4 DEF Start

LEMMA UserIsUser ==
  ASSUME WorkerOK, pc # "idle"
  PROVE  User \in Users /\ User = <<obj.provider, NameOf[cur]>>
         /\ obj \in Account /\ cur \in Accounts
BY ConstantsOK DEF WorkerOK, User, Users, Account, AccountObject

\* A step to a label that asks nothing of the worker's memory.
LEMMA GotoTyped ==
  ASSUME WorkerOK, pc # "idle", NEW l \in (Steps \cup {"idle"}) \ (KeySteps \cup {"saveKey"}),
         Goto(l) \/ Finish
  PROVE  WorkerOK'
BY FinishTyped, ContinueTyped DEF Goto, WorkerOK

\* What the calls to MinIO make of a user.
LEMMA UserUpdates ==
  ASSUME MinioOK, NEW u \in Users
  PROVE  /\ [users EXCEPT ![u] = None] \in [Users -> ObjectOrNone(UserObject)]
         /\ \A x \in UserObject :
              [users EXCEPT ![u] = x] \in [Users -> ObjectOrNone(UserObject)]
         /\ users[u] # None =>
              /\ users[u] \in UserObject
              /\ \A ks \in SUBSET Keys : [users[u] EXCEPT !.keys = ks] \in UserObject
              /\ \A bs \in SUBSET Buckets : [users[u] EXCEPT !.policies = bs] \in UserObject
BY DEF MinioOK, ObjectOrNone, UserObject

\* StartDeletion to DropFinalizer, and the steps before the credentials.
LEMMA UserStepsTyped ==
  ASSUME Typed, DropSecret \/ RemoveUser \/ DropFinalizer \/ MarkCreating \/ CheckUser \/ AddUser
  PROVE  Typed'
<1>0. WorkerOK /\ MinioOK
  BY DEF Typed
<1> USE DEF Steps, DyingSteps, AliveSteps, KeySteps
<1>1. CASE DropSecret
  <2>1. WorkerOK'
    BY <1>0, <1>1, GotoTyped DEF DropSecret
  <2>2. secret' \in [Accounts -> ObjectOrNone(Keys)]
    BY <1>1 DEF DropSecret, Typed, StoreOK, ObjectOrNone
  <2>q. QED BY <1>1, <2>1, <2>2 DEF DropSecret, Typed, StoreOK, MinioOK, caches, mio
<1>2. CASE RemoveUser
  <2>1. WorkerOK'
    BY <1>0, <1>2, GotoTyped DEF RemoveUser
  <2>2. users' \in [Users -> ObjectOrNone(UserObject)]
    BY <1>0, <1>2, UserIsUser, UserUpdates DEF RemoveUser, MinioOK
  <2>q. QED BY <1>2, <2>1, <2>2 DEF RemoveUser, Typed, StoreOK, MinioOK, store, caches
<1>3. CASE DropFinalizer
  <2>1. pc # "idle" /\ obj \in Account
    BY <1>0, <1>3 DEF DropFinalizer, WorkerOK
  <2>q. QED BY <1>3, <2>1, WriteTyped DEF DropFinalizer, ObjectOrNone
<1>4. CASE MarkCreating
  <2>1. pc # "idle" /\ obj \in Account
    BY <1>0, <1>4 DEF MarkCreating, WorkerOK
  <2>2. With(obj, "Creating", TRUE) \in Account
    BY <2>1, WithIsAccount DEF Types
  <2>q. QED BY <1>4, <2>1, <2>2, AccountUpdates, WriteTyped DEF MarkCreating, ObjectOrNone
<1>5. CASE CheckUser
  <2>1. pc # "idle"
    BY <1>5 DEF CheckUser
  <2>2. WorkerOK'
    <3>1. CASE Goto("fail")
      BY <1>0, <2>1, <3>1, GotoTyped
    <3>2. CASE Goto("addUser")
      BY <1>0, <2>1, <3>2, GotoTyped
    <3>3. CASE Goto("keys") /\ users[User] # None
      BY <1>0, <1>5, <2>1, <3>3, UserIsUser, ContinueTyped DEF Goto, CheckUser, WorkerOK, mio
    <3>q. QED BY <1>5, <3>1, <3>2, <3>3 DEF CheckUser
  <2>q. QED BY <1>5, <2>2 DEF CheckUser, Typed, StoreOK, MinioOK, store, caches, mio
<1>6. CASE AddUser
  <2>1. pc # "idle"
    BY <1>6 DEF AddUser
  <2>2. User \in Users /\ obj \in Account
    BY <1>0, <2>1, UserIsUser
  <2>3. [policies |-> {}, keys |-> {}] \in UserObject /\ None \notin UserObject
    BY NoneIsNoObject DEF UserObject
  <2>4. WorkerOK'
    <3>1. CASE Goto("fail")
      BY <1>0, <2>1, <3>1, GotoTyped
    <3>2. CASE Goto("keys") /\ users' = [users EXCEPT ![User] = [policies |-> {}, keys |-> {}]]
      <4>1. users'[User] # None
        BY <1>0, <2>2, <2>3, <3>2 DEF MinioOK
      <4>q. QED BY <1>0, <2>1, <2>2, <3>2, <4>1, ContinueTyped DEF Goto, WorkerOK, User
    <3>q. QED BY <1>6, <3>1, <3>2 DEF AddUser
  <2>5. users' \in [Users -> ObjectOrNone(UserObject)]
    BY <1>0, <1>6, <2>2, <2>3, UserUpdates DEF AddUser, MinioOK
  <2>q. QED BY <1>6, <2>4, <2>5 DEF AddUser, Typed, StoreOK, MinioOK, store, caches
<1>q. QED BY <1>1, <1>2, <1>3, <1>4, <1>5, <1>6

\* reconcileServiceAccount.
LEMMA KeyStepsTyped ==
  ASSUME Typed,
         CheckKeys \/ DropKeys \/ AddKey \/ SaveKey \/ SaveSecretName \/ UndoSecret
  PROVE  Typed'
<1>0. WorkerOK /\ MinioOK
  BY DEF Typed
<1> USE DEF Steps, DyingSteps, AliveSteps, KeySteps
<1>1. CASE CheckKeys
  <2>1. pc = "keys" /\ users[User] # None /\ User \in Users
    BY <1>0, <1>1, UserIsUser DEF CheckKeys, WorkerOK
  <2>2. users[User].keys \subseteq Keys
    BY <1>0, <2>1 DEF MinioOK, ObjectOrNone, UserObject
  <2>3. WorkerOK'
    <3>1. CASE Goto("policies") \/ Goto("fail")
      BY <1>0, <2>1, <3>1, GotoTyped
    <3>2. CASE /\ pc' = IF users[User].keys = {} THEN "addKey" ELSE "dropKeys"
               /\ old' = users[User].keys
               /\ UNCHANGED <<cur, fresh, obj, key, want>>
      BY <1>0, <1>1, <2>1, <2>2, <3>2 DEF CheckKeys, WorkerOK, User, mio
    <3>q. QED BY <1>1, <3>1, <3>2 DEF CheckKeys
  <2>q. QED BY <1>1, <2>3 DEF CheckKeys, Typed, StoreOK, MinioOK, store, caches, mio
<1>2. CASE DropKeys
  <2>1. pc = "dropKeys" /\ users[User] # None /\ User \in Users
    BY <1>0, <1>2, UserIsUser DEF DropKeys, WorkerOK
  <2>2. \A k : [users[User] EXCEPT !.keys = @ \ {k}] \in UserObject
    BY <1>0, <2>1 DEF MinioOK, ObjectOrNone, UserObject
  <2>3. users' \in [Users -> ObjectOrNone(UserObject)] /\ users'[User] # None
    BY <1>0, <1>2, <2>1, <2>2, NoneIsNoObject DEF DropKeys, MinioOK, ObjectOrNone
  <2>4. WorkerOK'
    <3>1. CASE Goto("fail")
      BY <1>0, <2>1, <3>1, GotoTyped
    <3>2. CASE \E k \in old : /\ old' = old \ {k}
                              /\ pc' = IF old' = {} THEN "addKey" ELSE "dropKeys"
                              /\ UNCHANGED <<cur, fresh, obj, key, want>>
      BY <1>0, <2>1, <2>3, <3>2 DEF WorkerOK, User
    <3>q. QED BY <1>2, <3>1, <3>2 DEF DropKeys
  <2>q. QED BY <1>2, <2>3, <2>4 DEF DropKeys, Typed, StoreOK, MinioOK, store, caches
<1>3. CASE AddKey
  <2>1. pc = "addKey" /\ users[User] # None /\ User \in Users
    BY <1>0, <1>3, UserIsUser DEF AddKey, WorkerOK
  <2>2. \A k \in Keys : [users[User] EXCEPT !.keys = @ \cup {k}] \in UserObject
    BY <1>0, <2>1 DEF MinioOK, ObjectOrNone, UserObject
  <2>3. users' \in [Users -> ObjectOrNone(UserObject)]
    BY <1>0, <1>3, <2>1, <2>2 DEF AddKey, MinioOK, ObjectOrNone
  <2>4. WorkerOK'
    <3>1. CASE Goto("fail")
      BY <1>0, <2>1, <3>1, GotoTyped
    <3>2. CASE \E k \in Keys : /\ pc' = "saveKey" /\ key' = k
                               /\ UNCHANGED <<cur, fresh, obj, old, want>>
      BY <1>0, <2>1, <3>2 DEF WorkerOK, ObjectOrNone
    <3>q. QED BY <1>3, <3>1, <3>2 DEF AddKey
  <2>q. QED BY <1>3, <2>3, <2>4 DEF AddKey, Typed, StoreOK, MinioOK, store, caches
<1>4. CASE SaveKey
  <2>1. pc = "saveKey" /\ key \in Keys /\ obj \in Account
    BY <1>0, <1>4 DEF SaveKey, WorkerOK
  <2>2. secret' \in [Accounts -> ObjectOrNone(Keys)]
    BY <1>4, <2>1 DEF SaveKey, Typed, StoreOK, ObjectOrNone
  <2>3. WorkerOK'
    <3>1. CASE Goto("fail")
      BY <1>0, <2>1, <3>1, GotoTyped
    <3>2. CASE Continue("saveName", fresh, [obj EXCEPT !.secretName = TRUE])
      BY <1>0, <2>1, <3>2, AccountUpdates, ContinueTyped DEF WorkerOK
    <3>q. QED BY <1>4, <3>1, <3>2 DEF SaveKey
  <2>q. QED BY <1>4, <2>2, <2>3 DEF SaveKey, Typed, StoreOK, MinioOK, caches, mio
<1>5. CASE SaveSecretName
  <2>1. pc # "idle" /\ obj \in Account
    BY <1>0, <1>5 DEF SaveSecretName, WorkerOK
  <2>q. QED BY <1>5, <2>1, AccountUpdates, WriteTyped DEF SaveSecretName, ObjectOrNone
<1>6. CASE UndoSecret
  <2>1. WorkerOK'
    BY <1>0, <1>6, GotoTyped DEF UndoSecret
  <2>2. secret' \in [Accounts -> ObjectOrNone(Keys)]
    BY <1>6 DEF UndoSecret, Typed, StoreOK, ObjectOrNone
  <2>q. QED BY <1>6, <2>1, <2>2 DEF UndoSecret, Typed, StoreOK, MinioOK, caches, mio
<1>q. QED BY <1>1, <1>2, <1>3, <1>4, <1>5, <1>6

\* reconcilePolicies and the outcome.
LEMMA PolicyStepsTyped ==
  ASSUME Typed,
         \/ FindBuckets \/ MarkPending \/ ClearPending \/ EnsurePolicies \/ SetPolicy
         \/ SetReady \/ RecordError
  PROVE  Typed'
<1>0. WorkerOK /\ MinioOK
  BY DEF Typed
<1> USE DEF Steps, DyingSteps, AliveSteps, KeySteps
<1>1. CASE FindBuckets
  <2>1. want' \subseteq Buckets
    BY <1>1 DEF FindBuckets, Listed
  <2>2. pc # "idle" /\ pc' \in {"setPolicy", "pending", "unpend", "canned"}
    BY <1>1 DEF FindBuckets
  <2>3. WorkerOK'
    BY <1>0, <1>1, <2>1, <2>2 DEF FindBuckets, WorkerOK
  <2>q. QED BY <1>1, <2>3 DEF FindBuckets, Typed, StoreOK, MinioOK, store, caches, mio
<1>2. CASE MarkPending
  <2>1. pc # "idle" /\ obj \in Account
    BY <1>0, <1>2 DEF MarkPending, WorkerOK
  <2>2. With(obj, "DeletionPending", TRUE) \in Account
    BY <2>1, WithIsAccount DEF Types
  <2>q. QED BY <1>2, <2>1, <2>2, AccountUpdates, WriteTyped DEF MarkPending, ObjectOrNone
<1>3. CASE ClearPending
  <2> DEFINE new == [obj EXCEPT !.conditions = RemoveCondition(@, "DeletionPending")]
  <2>1. pc # "idle" /\ obj \in Account
    BY <1>0, <1>3 DEF ClearPending, WorkerOK
  <2>2. new \in Account
    BY <2>1, AccountUpdates, RemoveConditionSeq DEF Types
  <2>3. Write(new, "canned", "fail", new)
    BY <1>3 DEF ClearPending
  <2> HIDE DEF new
  <2>q. QED BY <1>3, <2>1, <2>2, <2>3, AccountUpdates, WriteTyped DEF ClearPending, ObjectOrNone
<1>4. CASE EnsurePolicies
  <2>1. pc # "idle" /\ obj \in Account /\ want \subseteq Buckets
    BY <1>0, <1>4 DEF EnsurePolicies, WorkerOK
  <2>2. WorkerOK'
    <3>1. CASE Goto("setPolicy") \/ Goto("fail")
      BY <1>0, <2>1, <3>1, GotoTyped
    <3>2. CASE UNCHANGED worker
      BY <1>0, <1>4, <3>2, OutdateTyped DEF EnsurePolicies
    <3>q. QED BY <1>4, <3>1, <3>2 DEF EnsurePolicies
  <2>3. canned' \in [Providers -> SUBSET Buckets]
    <3>1. obj.provider \in Providers
      BY <2>1, AccountUpdates
    <3>q. QED BY <1>0, <1>4, <2>1, <3>1 DEF EnsurePolicies, MinioOK
  <2>q. QED BY <1>4, <2>2, <2>3 DEF EnsurePolicies, Typed, StoreOK, MinioOK, store, caches
<1>5. CASE SetPolicy
  <2>1. pc # "idle" /\ User \in Users /\ want \subseteq Buckets
    BY <1>0, <1>5, UserIsUser DEF SetPolicy, WorkerOK
  <2>2. ReadyStep \in {"idle", "ready"}
    BY DEF ReadyStep
  <2>3. WorkerOK'
    BY <1>0, <1>5, <2>1, <2>2, GotoTyped DEF SetPolicy
  <2>4. users' \in [Users -> ObjectOrNone(UserObject)]
    BY <1>0, <1>5, <2>1, UserUpdates DEF SetPolicy, MinioOK, ObjectOrNone, UserObject
  <2>q. QED BY <1>5, <2>3, <2>4 DEF SetPolicy, Typed, StoreOK, MinioOK, store, caches
<1>6. CASE SetReady
  <2> DEFINE cleared == RemoveCondition(RemoveCondition(obj.conditions, "Creating"), "Error")
             new == [obj EXCEPT !.conditions = SetCondition(cleared, "Ready", TRUE)]
  <2>1. pc # "idle" /\ obj \in Account
    BY <1>0, <1>6 DEF SetReady, WorkerOK
  <2>2. cleared \in Conditions
    BY <2>1, AccountUpdates, RemoveConditionSeq DEF Types
  <2>3. new \in Account
    BY <2>1, <2>2, AccountUpdates, SetConditionSeq DEF Types
  <2>4. Write(new, "idle", "idle", new)
    BY <1>6 DEF SetReady
  <2> HIDE DEF new
  <2>q. QED BY <1>6, <2>1, <2>3, <2>4, WriteTyped DEF SetReady, ObjectOrNone
<1>7. CASE RecordError
  <2> DEFINE new == With(With(obj, "Ready", FALSE), "Error", TRUE)
  <2>1. pc # "idle" /\ obj \in Account
    BY <1>0, <1>7 DEF RecordError, WorkerOK
  <2>2. new \in Account
    BY <2>1, WithIsAccount DEF Types
  <2>3. Write(new, "idle", "idle", new)
    BY <1>7 DEF RecordError
  <2> HIDE DEF new
  <2>q. QED BY <1>7, <2>1, <2>2, <2>3, WriteTyped DEF RecordError, ObjectOrNone
<1>q. QED BY <1>1, <1>2, <1>3, <1>4, <1>5, <1>6, <1>7

LEMMA CollectorTyped ==
  ASSUME Typed, Collector
  PROVE  Typed'
<1>0. WorkerOK
  BY DEF Typed
<1>1. ASSUME NEW a \in Accounts, GcTake(a) PROVE Typed'
  <2>1. accountCache[a] \in Account
    BY <1>1 DEF GcTake, Typed, StoreOK, ObjectOrNone
  <2>2. gc'.fresh \in BOOLEAN /\ gc' \in GcCall
    BY <1>1, <2>1 DEF GcTake, GcCall
  <2>3. WorkerOK'
    BY <1>0, <1>1, OutdateTyped DEF GcTake, mio
  <2>q. QED BY <1>1, <2>2, <2>3 DEF GcTake, Typed, StoreOK, MinioOK, store, caches, mio, ObjectOrNone
<1>2. ASSUME GcMark PROVE Typed'
  <2>1. gc \in GcCall
    BY <1>2 DEF GcMark, Typed, ObjectOrNone
  <2>2. With(gc.obj, "Deleting", TRUE) \in Account
    BY <2>1, WithIsAccount DEF GcCall, Types
  <2>3. WorkerOK'
    BY <1>0, <1>2, <2>1, OutdateTyped DEF GcMark, mio, GcCall
  <2>4. account' \in [Accounts -> ObjectOrNone(Account)]
    BY <1>2, <2>2 DEF GcMark, Typed, StoreOK, ObjectOrNone
  <2>5. gc' \in ObjectOrNone(GcCall)
    <3>1. CASE gc' = None
      BY <3>1 DEF ObjectOrNone
    <3>2. CASE gc' = [gc EXCEPT !.call = "delete", !.obj = account'[gc.account]]
               /\ account' = [account EXCEPT ![gc.account] = With(gc.obj, "Deleting", TRUE)]
      <4>1. account'[gc.account] \in Account
        BY <2>1, <2>2, <3>2 DEF GcCall, Typed, StoreOK
      <4>q. QED BY <2>1, <3>2, <4>1 DEF GcCall, ObjectOrNone
    <3>q. QED BY <1>2, <3>1, <3>2 DEF GcMark
  <2>q. QED BY <1>2, <2>3, <2>4, <2>5 DEF GcMark, Typed, StoreOK, MinioOK, caches, mio
<1>3. ASSUME GcDelete PROVE Typed'
  <2>1. gc.account \in Accounts /\ gc' \in ObjectOrNone(GcCall)
    BY <1>3 DEF GcDelete, Typed, ObjectOrNone, GcCall
  <2>2. Deleted(account[gc.account]) \in ObjectOrNone(Account)
    BY <2>1, DeletedIsAccount DEF Typed, StoreOK
  <2>3. WorkerOK'
    BY <1>0, <1>3, <2>1, OutdateTyped DEF GcDelete, mio
  <2>q. QED BY <1>3, <2>1, <2>2, <2>3 DEF GcDelete, Typed, StoreOK, MinioOK, caches, mio
<1>q. QED BY <1>1, <1>2, <1>3 DEF Collector

LEMMA InformersTyped ==
  ASSUME Typed, Informers
  PROVE  Typed'
<1>1. WorkerOK'
  BY OutdateTyped DEF Typed, Informers, SyncAccount, SyncSecret, SyncBucket, mio
<1>q. QED BY <1>1 DEF Informers, SyncAccount, SyncSecret, SyncBucket, Typed, StoreOK, MinioOK,
                      store, mio

LEMMA EnvironmentTyped ==
  ASSUME Typed, Environment
  PROVE  Typed'
<1>0. WorkerOK
  BY DEF Typed
<1>1. ASSUME NEW a \in Accounts, CreateAccount(a) PROVE Typed'
  <2>1. WorkerOK'
    BY <1>0, <1>1, OutdateTyped DEF CreateAccount, mio
  <2>2. uids' \in Nat
    BY <1>1 DEF CreateAccount, Typed, StoreOK
  <2>3. account' \in [Accounts -> ObjectOrNone(Account)]
    BY <1>1, <2>2, NewAccountIsAccount DEF CreateAccount, Typed, StoreOK, ObjectOrNone
  <2>q. QED BY <1>1, <2>1, <2>2, <2>3 DEF CreateAccount, Typed, StoreOK, MinioOK, caches, mio
<1>2. ASSUME NEW a \in Accounts, DeleteAccount(a) PROVE Typed'
  <2>1. WorkerOK' /\ gc' \in ObjectOrNone(GcCall)
    BY <1>0, <1>2, OutdateTyped, OutdatedTyped DEF DeleteAccount, mio, Typed
  <2>2. Deleted(account[a]) \in ObjectOrNone(Account)
    BY DeletedIsAccount DEF Typed, StoreOK
  <2>q. QED BY <1>2, <2>1, <2>2 DEF DeleteAccount, Typed, StoreOK, MinioOK, caches, mio
<1>3. ASSUME NEW a \in Accounts, LoseSecret(a) PROVE Typed'
  <2>1. WorkerOK'
    BY <1>0, <1>3, OutdateTyped DEF LoseSecret, mio
  <2>q. QED BY <1>3, <2>1 DEF LoseSecret, Typed, StoreOK, MinioOK, caches, mio, ObjectOrNone
<1>4. ASSUME NEW b \in Buckets, ReleaseBucket(b) \/ \E a \in Accounts : AdoptBucket(b, a)
      PROVE  Typed'
  <2>1. WorkerOK'
    BY <1>0, <1>4, OutdateTyped DEF ReleaseBucket, AdoptBucket, mio
  <2>2. owner' \in [Buckets -> ObjectOrNone(OwnerRef)]
    BY <1>4 DEF ReleaseBucket, AdoptBucket, Typed, StoreOK, ObjectOrNone, OwnerRef
  <2>q. QED BY <1>4, <2>1, <2>2 DEF ReleaseBucket, AdoptBucket, Typed, StoreOK, MinioOK, caches, mio
<1>5. ASSUME NEW p \in Providers, ProviderChanges(p) PROVE Typed'
  <2>1. WorkerOK'
    BY <1>0, <1>5, OutdateTyped DEF ProviderChanges, mio
  <2>q. QED BY <1>5, <2>1 DEF ProviderChanges, Typed, StoreOK, MinioOK, store, caches, mio
<1>q. QED BY <1>1, <1>2, <1>3, <1>4, <1>5 DEF Environment

LEMMA NextTyped ==
  ASSUME Typed, [Next]_vars
  PROVE  Typed'
<1>1. ASSUME Crash PROVE Typed'
  <2>1. WorkerOK'
    BY <1>1, FinishTyped DEF Crash
  <2>q. QED BY <1>1, <2>1 DEF Crash, Typed, StoreOK, MinioOK, store, caches, mio, ObjectOrNone
<1>2. ASSUME UNCHANGED vars PROVE Typed'
  BY <1>2 DEF vars, Typed, StoreOK, MinioOK, WorkerOK, store, caches, mio, worker, locals, User
<1>3. ASSUME Work PROVE Typed'
  BY <1>3, UserStepsTyped, KeyStepsTyped, PolicyStepsTyped DEF Work
<1>q. QED BY <1>1, <1>2, <1>3, StartTyped, CollectorTyped, InformersTyped, EnvironmentTyped
          DEF Next, Controller

LEMMA InitTyped == Init => Typed
<1> SUFFICES ASSUME Init PROVE Typed
  OBVIOUS
<1>1. StoreOK
  BY DEF Init, StoreOK, ObjectOrNone
<1>2. MinioOK /\ gc \in ObjectOrNone(GcCall)
  BY DEF Init, MinioOK, ObjectOrNone
<1>3. WorkerOK
  BY DEF Init, WorkerOK, ObjectOrNone, KeySteps
<1>q. QED BY <1>1, <1>2, <1>3 DEF Typed

LEMMA TypedImpliesTypeOK == Typed => TypeOK
<1> SUFFICES ASSUME Typed PROVE TypeOK
  OBVIOUS
<1>1. Account \subseteq AccountObject
  BY DEF Account
<1>2. \A a \in Accounts : account[a] # None => Distinct(account[a].conditions)
  BY DEF Typed, StoreOK, ObjectOrNone, Account
<1>q. QED BY <1>1, <1>2 DEF Typed, StoreOK, MinioOK, WorkerOK, TypeOK, ObjectOrNone, GcCall,
                            Distinct

\* The worker holds an account exactly while it works on one, the collector
\* holds one with its next call, and no write gives a type two conditions.
THEOREM TypeCorrect == Spec => []TypeOK
<1>1. Typed /\ [Next]_vars => Typed'
  BY NextTyped
<1>q. QED BY <1>1, InitTyped, TypedImpliesTypeOK, PTL DEF Spec

-----------------------------------------------------------------------------
(* The status of an account.                                               *)

\* What is true after a condition is set.
LEMMA WithTrue ==
  ASSUME NEW o \in Account, NEW t \in Types, NEW st \in BOOLEAN
  PROVE  /\ IsTrue(With(o, t, st).conditions, t) <=> st
         /\ \A u \in Types \ {t} :
              IsTrue(With(o, t, st).conditions, u) <=> IsTrue(o.conditions, u)
<1>1. o.conditions \in Conditions
  BY AccountUpdates
<1>2. With(o, t, st).conditions = SetCondition(o.conditions, t, st)
  BY WithIsAccount
<1>q. QED BY <1>1, <1>2, SetConditionSeq

\* No condition but Ready, Error and Creating matters.
LEMMA HonestWith ==
  ASSUME NEW o \in Account, Honest(o), NEW t \in {"Deleting", "DeletionPending"}
  PROVE  Honest(With(o, t, TRUE))
<1>1. t \in Types /\ {"Ready", "Error", "Creating"} \subseteq Types \ {t}
  BY DEF Types
<1>2. With(o, t, TRUE).finalizer = o.finalizer
  BY <1>1, WithIsAccount
<1>3. \A u \in {"Ready", "Error", "Creating"} :
        IsTrue(With(o, t, TRUE).conditions, u) <=> IsTrue(o.conditions, u)
  BY <1>1, WithTrue
<1>q. QED BY <1>2, <1>3 DEF Honest

LEMMA NothingTrue == \A t : ~IsTrue(<<>>, t)
<1>1. DOMAIN <<>> = {}
  OBVIOUS
<1>q. QED BY <1>1 DEF IsTrue

\* The statuses MarkCreating, SetReady, RecordError and ClearPending write.
LEMMA HonestCreating ==
  ASSUME NEW o \in Account, o.conditions = <<>>
  PROVE  Honest(With(o, "Creating", TRUE))
<1>1. "Creating" \in Types /\ "Ready" \in Types \ {"Creating"}
  BY DEF Types
<1>2. ~IsTrue(With(o, "Creating", TRUE).conditions, "Ready")
  <2>1. IsTrue(With(o, "Creating", TRUE).conditions, "Ready") <=> IsTrue(o.conditions, "Ready")
    BY <1>1, WithTrue
  <2>2. ~IsTrue(o.conditions, "Ready")
    BY NothingTrue
  <2>q. QED BY <2>1, <2>2
<1>q. QED BY <1>2 DEF Honest

LEMMA HonestReady ==
  ASSUME NEW o \in Account, o.finalizer,
         NEW c, c = SetCondition(RemoveCondition(RemoveCondition(o.conditions, "Creating"),
                                                 "Error"), "Ready", TRUE)
  PROVE  [o EXCEPT !.conditions = c] \in Account /\ Honest([o EXCEPT !.conditions = c])
<1> DEFINE c1 == RemoveCondition(o.conditions, "Creating")
           c2 == RemoveCondition(c1, "Error")
<1>1. "Creating" \in Types \ {"Error", "Ready"} /\ "Error" \in Types \ {"Ready"} /\ "Ready" \in Types
  BY DEF Types
<1>2. c1 \in Conditions /\ ~IsTrue(c1, "Creating")
  BY <1>1, AccountUpdates, RemoveConditionSeq, NoTypeNotTrue
<1> HIDE DEF c1
<1>3. c2 \in Conditions /\ ~IsTrue(c2, "Creating") /\ ~IsTrue(c2, "Error")
  BY <1>1, <1>2, RemoveConditionSeq, NoTypeNotTrue
<1> HIDE DEF c2
<1>4. c = SetCondition(c2, "Ready", TRUE)
  BY DEF c1, c2
<1>5. c \in Conditions /\ ~IsTrue(c, "Creating") /\ ~IsTrue(c, "Error")
  <2>1. /\ c \in Conditions
        /\ \A u \in Types \ {"Ready"} : IsTrue(c, u) <=> IsTrue(c2, u)
    <3>1. c2 \in Conditions /\ "Ready" \in Types /\ TRUE \in BOOLEAN
      BY <1>1, <1>3
    <3>2. /\ SetCondition(c2, "Ready", TRUE) \in Conditions
          /\ \A u \in Types \ {"Ready"} :
               IsTrue(SetCondition(c2, "Ready", TRUE), u) <=> IsTrue(c2, u)
      BY <3>1, SetConditionSeq
    <3>q. QED BY <1>4, <3>2
  <2>2. {"Creating", "Error"} \subseteq Types \ {"Ready"}
    BY DEF Types
  <2>q. QED BY <1>3, <2>1, <2>2
<1>q. QED BY <1>5, WithoutIsAccount DEF Honest

LEMMA HonestError ==
  ASSUME NEW o \in Account
  PROVE  Honest(With(With(o, "Ready", FALSE), "Error", TRUE))
<1> DEFINE o1 == With(o, "Ready", FALSE)
<1>1. "Ready" \in Types \ {"Error"} /\ "Error" \in Types
  BY DEF Types
<1>2. o1 \in Account /\ ~IsTrue(o1.conditions, "Ready")
  BY <1>1, WithIsAccount, WithTrue
<1> HIDE DEF o1
<1>3. ~IsTrue(With(o1, "Error", TRUE).conditions, "Ready")
  BY <1>1, <1>2, WithTrue
<1>q. QED BY <1>3 DEF o1, Honest

LEMMA HonestCleared ==
  ASSUME NEW o \in Account, Honest(o)
  PROVE  LET new == [o EXCEPT !.conditions = RemoveCondition(@, "DeletionPending")] IN
         new \in Account /\ Honest(new) /\ new.finalizer = o.finalizer
<1>1. /\ {"Ready", "Error", "Creating"} \subseteq Types \ {"DeletionPending"}
      /\ "DeletionPending" \in Types
  BY DEF Types
<1> DEFINE c == RemoveCondition(o.conditions, "DeletionPending")
<1>2. /\ c \in Conditions
      /\ \A u \in Types \ {"DeletionPending"} : IsTrue(c, u) <=> IsTrue(o.conditions, u)
  BY <1>1, AccountUpdates, RemoveConditionSeq
<1>3. \A u \in {"Ready", "Error", "Creating"} : IsTrue(c, u) <=> IsTrue(o.conditions, u)
  BY <1>1, <1>2
<1> HIDE DEF c
<1>4. LET new == [o EXCEPT !.conditions = c] IN
      new \in Account /\ Honest(new) /\ new.finalizer = o.finalizer
  BY <1>2, <1>3, WithoutIsAccount DEF Honest
<1>q. QED BY <1>4 DEF c

\* A version grown old is the same account.
LEMMA OutdatedSame ==
  ASSUME gc \in ObjectOrNone(GcCall), NEW a, Outdated(a) # None
  PROVE  /\ gc # None /\ Outdated(a).obj = gc.obj /\ Outdated(a).account = gc.account
         /\ Outdated(a).fresh => gc.fresh /\ gc.account # a
BY DEF Outdated, ObjectOrNone, GcCall

\* The worker goes on with an account that is as the label asks.
LEMMA ContinueHonest ==
  ASSUME NEW l, NEW f, NEW o, Continue(l, f, o), l # "creating",
         l # "idle" => Honest(o) /\ (l \in AliveSteps => o.finalizer)
  PROVE  HonestWorker'
BY DEF Continue, Finish, HonestWorker

LEMMA GotoHonest ==
  ASSUME HonestInv, pc # "idle", NEW l \in (Steps \cup {"idle"}) \ {"creating"},
         l \in AliveSteps => pc \in AliveSteps, Goto(l) \/ Finish
  PROVE  HonestWorker'
BY ContinueHonest DEF Goto, Finish, HonestInv, HonestWorker

LEMMA WriteHonest ==
  ASSUME Typed, HonestInv, pc # "idle",
         NEW new \in ObjectOrNone(Account), NEW mem \in Account,
         new # None => Honest(new), Honest(mem),
         NEW ok \in (Steps \cup {"idle"}) \ {"creating"}, NEW ko \in (Steps \cup {"idle"}) \ {"creating"},
         ok # "idle" => new # None /\ new.finalizer, ko # "idle" => mem.finalizer,
         Write(new, ok, ko, mem), UNCHANGED caches
  PROVE  HonestInv'
<1>1. HonestWorker'
  BY ContinueHonest DEF Write
<1>2. gc' # None => gc # None /\ gc'.obj = gc.obj
  BY OutdatedSame DEF Write, Typed
<1>3. cur \in Accounts /\ account \in [Accounts -> ObjectOrNone(Account)]
  BY DEF Typed, StoreOK, WorkerOK
<1>4. \A a \in Accounts : account'[a] # None => Honest(account'[a])
  BY <1>3 DEF Write, HonestInv
<1>q. QED BY <1>1, <1>2, <1>4 DEF HonestInv, caches

LEMMA WriteAndReturnHonest ==
  ASSUME Typed, HonestInv, NEW a \in Accounts, NEW new \in Account, Honest(new),
         WriteAndReturn(a, new)
  PROVE  HonestInv'
<1>1. gc' # None => gc # None /\ gc'.obj = gc.obj
  BY OutdatedSame DEF WriteAndReturn, Typed
<1>2. \A c \in Accounts : account'[c] # None => Honest(account'[c])
  BY DEF WriteAndReturn, HonestInv, Typed, StoreOK
<1>q. QED BY <1>1, <1>2 DEF WriteAndReturn, HonestInv, HonestWorker, caches, worker

LEMMA StartHonest ==
  ASSUME Typed, HonestInv, NEW a \in Accounts, Start(a)
  PROVE  HonestInv'
<1>1. /\ accountCache[a] \in Account /\ Honest(accountCache[a])
  BY DEF Start, MarkDeleting, StartDeletion, AddFinalizer, StartReconcile, Begin, Typed, StoreOK,
         ObjectOrNone, HonestInv
<1>2. CASE MarkDeleting(a)
  BY <1>1, <1>2, HonestWith, WithIsAccount, WriteAndReturnHonest DEF MarkDeleting, Types
<1>3. CASE StartDeletion(a)
  <2>1. HonestWorker'
    BY <1>1, <1>3 DEF StartDeletion, Load, HonestWorker, AliveSteps, KeySteps
  <2>q. QED BY <1>3, <2>1 DEF StartDeletion, HonestInv, store, caches
<1>4. CASE AddFinalizer(a)
  <2>1. Honest([accountCache[a] EXCEPT !.finalizer = TRUE])
    BY <1>1 DEF Honest, Account, AccountObject
  <2>q. QED BY <1>1, <1>4, <2>1, AccountUpdates, WriteAndReturnHonest DEF AddFinalizer
<1>5. CASE StartReconcile(a)
  <2>1. HonestWorker'
    BY <1>1, <1>5 DEF StartReconcile, Load, HonestWorker
  <2>q. QED BY <1>5, <2>1 DEF StartReconcile, HonestInv, store, caches
<1>q. QED BY <1>2, <1>3, <1>4, <1>5 DEF Start

\* Steps that leave the accounts, the cache and the collector alone.
LEMMA QuietHonest ==
  ASSUME HonestInv, HonestWorker', UNCHANGED <<account, accountCache, gc>>
  PROVE  HonestInv'
BY DEF HonestInv

\* The steps of the worker that make no write.
LEMMA CallsHonest ==
  ASSUME Typed, HonestInv,
         \/ DropSecret \/ RemoveUser \/ CheckUser \/ AddUser
         \/ CheckKeys \/ DropKeys \/ AddKey \/ SaveKey \/ UndoSecret
         \/ FindBuckets \/ EnsurePolicies \/ SetPolicy
  PROVE  HonestInv'
<1> USE DEF Steps, DyingSteps, AliveSteps, KeySteps
<1>1. UNCHANGED <<account, accountCache, gc>>
  BY DEF DropSecret, RemoveUser, CheckUser, AddUser, CheckKeys, DropKeys, AddKey, SaveKey,
         UndoSecret, FindBuckets, EnsurePolicies, SetPolicy, store, caches
<1>2. HonestWorker'
  <2>1. CASE DropSecret \/ RemoveUser
    BY <2>1, GotoHonest DEF DropSecret, RemoveUser
  <2>2. CASE CheckUser \/ AddUser
    BY <2>2, GotoHonest DEF CheckUser, AddUser
  <2>3. CASE \/ Goto("policies") /\ pc = "keys"
             \/ Goto("fail") /\ pc \in AliveSteps
             \/ Goto("setPolicy") /\ pc = "canned"
    BY <2>3, GotoHonest
  <2>4. CASE /\ pc \in AliveSteps /\ pc' \in AliveSteps \ {"creating"} /\ obj' = obj
    BY <2>4 DEF HonestInv, HonestWorker
  <2>5. CASE SaveKey
    <3>1. CASE Goto("fail")
      BY <2>3, <2>5, <3>1 DEF SaveKey
    <3>2. CASE Continue("saveName", fresh, [obj EXCEPT !.secretName = TRUE])
      <4>1. obj \in Account /\ Honest(obj) /\ obj.finalizer
        BY <2>5 DEF SaveKey, Typed, WorkerOK, HonestInv, HonestWorker
      <4>2. Honest([obj EXCEPT !.secretName = TRUE]) /\ [obj EXCEPT !.secretName = TRUE].finalizer
        BY <4>1 DEF Honest, Account, AccountObject
      <4>q. QED BY <3>2, <4>2, ContinueHonest
    <3>q. QED BY <2>5, <3>1, <3>2 DEF SaveKey
  <2>6. CASE CheckKeys \/ DropKeys \/ AddKey
    BY <2>3, <2>4, <2>6 DEF CheckKeys, DropKeys, AddKey
  <2>7. CASE UndoSecret
    BY <2>3, <2>7 DEF UndoSecret
  <2>8. CASE FindBuckets
    BY <2>4, <2>8 DEF FindBuckets
  <2>9. CASE EnsurePolicies
    BY <2>3, <2>4, <2>9 DEF EnsurePolicies, worker
  <2>10. CASE SetPolicy
    <3>1. ReadyStep \in {"idle", "ready"}
      BY DEF ReadyStep
    <3>q. QED BY <2>10, <3>1, GotoHonest DEF SetPolicy
  <2>q. QED BY <2>1, <2>2, <2>5, <2>6, <2>7, <2>8, <2>9, <2>10
<1>q. QED BY <1>1, <1>2, QuietHonest

\* The writes of the worker.
LEMMA WritesHonest ==
  ASSUME Typed, HonestInv,
         \/ DropFinalizer \/ MarkCreating \/ SaveSecretName \/ MarkPending \/ ClearPending
         \/ SetReady \/ RecordError
  PROVE  HonestInv'
<1> USE DEF Steps, DyingSteps, AliveSteps, KeySteps
<1>1. pc # "idle" /\ obj \in Account /\ Honest(obj)
  BY DEF DropFinalizer, MarkCreating, SaveSecretName, MarkPending, ClearPending, SetReady,
         RecordError, Typed, WorkerOK, HonestInv, HonestWorker
<1>2. UNCHANGED caches
  BY DEF DropFinalizer, MarkCreating, SaveSecretName, MarkPending, ClearPending, SetReady,
         RecordError
<1>3. pc \in AliveSteps => obj.finalizer
  BY <1>1 DEF HonestInv, HonestWorker
<1>4. CASE DropFinalizer
  BY <1>1, <1>2, <1>4, WriteHonest DEF DropFinalizer, ObjectOrNone
<1>5. CASE MarkCreating
  <2> DEFINE new == With(obj, "Creating", TRUE)
  <2>1. pc = "creating" /\ obj.conditions = <<>> /\ "Creating" \in Types
    BY <1>5 DEF MarkCreating, HonestInv, HonestWorker, Types
  <2>2. new \in Account /\ new # None /\ new.finalizer /\ Honest(new)
    BY <1>1, <1>3, <2>1, WithIsAccount, AccountUpdates, HonestCreating
  <2>3. Write(new, "user", "idle", obj)
    BY <1>5 DEF MarkCreating
  <2> HIDE DEF new
  <2>q. QED BY <1>1, <1>2, <2>2, <2>3, WriteHonest DEF ObjectOrNone
<1>6. CASE SaveSecretName
  BY <1>1, <1>2, <1>3, <1>6, AccountUpdates, WriteHonest DEF SaveSecretName, ObjectOrNone
<1>7. CASE MarkPending
  <2> DEFINE new == With(obj, "DeletionPending", TRUE)
  <2>1. pc = "pending" /\ "DeletionPending" \in Types
    BY <1>7 DEF MarkPending, Types
  <2>2. new \in Account /\ new # None /\ new.finalizer /\ Honest(new)
    BY <1>1, <1>3, <2>1, WithIsAccount, AccountUpdates, HonestWith
  <2>3. Write(new, "idle", "fail", new)
    BY <1>7 DEF MarkPending
  <2> HIDE DEF new
  <2>q. QED BY <1>1, <1>2, <2>2, <2>3, WriteHonest DEF ObjectOrNone
<1>8. CASE ClearPending
  <2> DEFINE new == [obj EXCEPT !.conditions = RemoveCondition(@, "DeletionPending")]
  <2>1. pc = "unpend"
    BY <1>8 DEF ClearPending
  <2>2. new \in Account /\ new.finalizer /\ Honest(new)
    BY <1>1, <1>3, <2>1, HonestCleared
  <2>3. Write(new, "canned", "fail", new)
    BY <1>8 DEF ClearPending
  <2> HIDE DEF new
  <2>q. QED BY <1>1, <1>2, <2>2, <2>3, AccountUpdates, WriteHonest DEF ObjectOrNone
<1>9. CASE SetReady
  <2> DEFINE c == SetCondition(RemoveCondition(RemoveCondition(obj.conditions, "Creating"),
                                               "Error"), "Ready", TRUE)
             new == [obj EXCEPT !.conditions = c]
  <2>1. pc = "ready" /\ Write(new, "idle", "idle", new)
    BY <1>9 DEF SetReady
  <2>2. obj.finalizer
    BY <1>3, <2>1
  <2>3. new \in Account /\ Honest(new)
    BY <1>1, <2>2, HonestReady
  <2> HIDE DEF new
  <2>q. QED BY <1>1, <1>2, <2>1, <2>3, WriteHonest DEF ObjectOrNone
<1>10. CASE RecordError
  <2> DEFINE new == With(With(obj, "Ready", FALSE), "Error", TRUE)
  <2>1. Write(new, "idle", "idle", new)
    BY <1>10 DEF RecordError
  <2>2. new \in Account /\ Honest(new)
    BY <1>1, WithIsAccount, HonestError DEF Types
  <2> HIDE DEF new
  <2>q. QED BY <1>1, <1>2, <2>1, <2>2, WriteHonest DEF ObjectOrNone
<1>q. QED BY <1>4, <1>5, <1>6, <1>7, <1>8, <1>9, <1>10

LEMMA CollectorHonest ==
  ASSUME Typed, HonestInv, Collector
  PROVE  HonestInv'
<1>1. HonestWorker' /\ UNCHANGED accountCache
  BY DEF Collector, GcTake, GcMark, GcDelete, OutdateWorker, worker, HonestInv, HonestWorker, caches
<1>2. ASSUME NEW a \in Accounts, GcTake(a) PROVE HonestInv'
  BY <1>1, <1>2 DEF GcTake, HonestInv, store
<1>3. ASSUME GcMark PROVE HonestInv'
  <2> DEFINE new == With(gc.obj, "Deleting", TRUE)
  <2>1. gc # None /\ gc \in GcCall /\ gc.account \in Accounts /\ gc.obj \in Account
    BY <1>3 DEF GcMark, Typed, ObjectOrNone, GcCall
  <2>2. Honest(new)
    BY <2>1, HonestWith DEF HonestInv
  <2>3. account' \in {account, [account EXCEPT ![gc.account] = new]}
    BY <1>3 DEF GcMark
  <2>4. gc' # None => gc'.obj = new
    BY <1>3, <2>1 DEF GcMark, GcCall, Typed, StoreOK
  <2> HIDE DEF new
  <2>5. \A a \in Accounts : account'[a] # None => Honest(account'[a])
    BY <2>1, <2>2, <2>3 DEF HonestInv, Typed, StoreOK
  <2>q. QED BY <1>1, <2>2, <2>4, <2>5 DEF HonestInv
<1>4. ASSUME GcDelete PROVE HonestInv'
  <2>1. gc # None /\ gc.account \in Accounts /\ gc' = None
    BY <1>4 DEF GcDelete, Typed, ObjectOrNone, GcCall
  <2>2. Deleted(account[gc.account]) # None => Honest(Deleted(account[gc.account]))
    BY <2>1, DeletedIsAccount DEF HonestInv, Honest, Typed, StoreOK
  <2>3. \A a \in Accounts : account'[a] # None => Honest(account'[a])
    BY <1>4, <2>1, <2>2 DEF GcDelete, HonestInv, Typed, StoreOK
  <2>q. QED BY <1>1, <2>1, <2>3 DEF HonestInv
<1>q. QED BY <1>2, <1>3, <1>4 DEF Collector

LEMMA OthersHonest ==
  ASSUME Typed, HonestInv, Informers \/ Environment
  PROVE  HonestInv'
<1>1. CASE Informers
  <2>1. HonestWorker'
    BY <1>1 DEF Informers, SyncAccount, SyncSecret, SyncBucket, worker, HonestInv, HonestWorker
  <2>q. QED BY <1>1, <2>1 DEF Informers, SyncAccount, SyncSecret, SyncBucket, HonestInv, store,
                              Typed, StoreOK
<1>2. ASSUME NEW a \in Accounts, CreateAccount(a) PROVE HonestInv'
  <2>1. \A p \in Providers : Honest(NewAccount(uids', p))
    <3>1. uids' \in Nat
      BY <1>2 DEF CreateAccount, Typed, StoreOK
    <3>q. QED BY <3>1, NewAccountIsAccount, NothingTrue DEF Honest
  <2>2. \A c \in Accounts : account'[c] # None => Honest(account'[c])
    BY <1>2, <2>1 DEF CreateAccount, HonestInv, Typed, StoreOK
  <2>q. QED BY <1>2, <2>2 DEF CreateAccount, HonestInv, HonestWorker, worker, caches
<1>3. ASSUME NEW a \in Accounts, DeleteAccount(a) PROVE HonestInv'
  <2>1. Deleted(account[a]) # None => Honest(Deleted(account[a]))
    BY DeletedIsAccount DEF HonestInv, Honest, Typed, StoreOK
  <2>2. \A c \in Accounts : account'[c] # None => Honest(account'[c])
    BY <1>3, <2>1 DEF DeleteAccount, HonestInv, Typed, StoreOK
  <2>3. gc' # None => gc # None /\ gc'.obj = gc.obj
    BY <1>3, OutdatedSame DEF DeleteAccount, Typed
  <2>q. QED BY <1>3, <2>2, <2>3 DEF DeleteAccount, OutdateWorker, HonestInv, HonestWorker, caches
<1>4. CASE \/ \E a \in Accounts : LoseSecret(a)
           \/ \E b \in Buckets : ReleaseBucket(b) \/ \E a \in Accounts : AdoptBucket(b, a)
           \/ \E p \in Providers : ProviderChanges(p)
  BY <1>4 DEF LoseSecret, ReleaseBucket, AdoptBucket, ProviderChanges, HonestInv, HonestWorker,
              worker, caches, store
<1>q. QED BY <1>1, <1>2, <1>3, <1>4 DEF Environment

LEMMA NextHonest ==
  ASSUME Typed, HonestInv, [Next]_vars
  PROVE  HonestInv'
<1>1. ASSUME Crash PROVE HonestInv'
  BY <1>1 DEF Crash, Finish, HonestInv, HonestWorker, store, caches
<1>2. ASSUME UNCHANGED vars PROVE HonestInv'
  BY <1>2 DEF vars, HonestInv, HonestWorker, store, caches, worker
<1>3. ASSUME Work PROVE HonestInv'
  BY <1>3, CallsHonest, WritesHonest DEF Work
<1>q. QED BY <1>1, <1>2, <1>3, StartHonest, CollectorHonest, OthersHonest DEF Next, Controller

LEMMA InitHonest == Init => HonestInv
BY DEF Init, HonestInv, HonestWorker

\* A Ready account is held by the finalizer and has no error and no creation
\* standing, whatever mix of worker, collector and informers wrote its status.
THEOREM HonestStatus == Spec => []StatusHonest
<1>1. HonestInv => StatusHonest
  BY DEF HonestInv, Honest, StatusHonest, Exists
<1>2. Typed /\ HonestInv /\ [Next]_vars => Typed' /\ HonestInv'
  BY NextTyped, NextHonest
<1>q. QED BY <1>1, <1>2, InitTyped, InitHonest, PTL DEF Spec

-----------------------------------------------------------------------------
(* Credentials and policies of MinIO users.                                *)

\* The calls to MinIO that change something, and the steps that lead to them.
MinioStep == \/ RemoveUser \/ AddUser \/ CheckKeys \/ DropKeys \/ AddKey
             \/ FindBuckets \/ EnsurePolicies \/ SetPolicy

\* Every other step leaves MinIO and the worker's plans for it alone.
LEMMA OtherSteps ==
  ASSUME Typed, [Next]_vars, ~MinioStep
  PROVE  /\ UNCHANGED mio
         /\ pc' \in {"addKey", "dropKeys", "setPolicy"} => UNCHANGED <<pc, cur, obj, old, want>>
<1> DEFINE Kept == /\ UNCHANGED mio
                   /\ pc' \in {"addKey", "dropKeys", "setPolicy"}
                        => UNCHANGED <<pc, cur, obj, old, want>>
<1>1. CASE Work
  BY <1>1 DEF Work, MinioStep, DropSecret, DropFinalizer, MarkCreating, CheckUser, SaveKey,
              SaveSecretName, UndoSecret, MarkPending, ClearPending, SetReady, RecordError,
              Write, Goto, Continue, Finish, mio
<1>2. ASSUME NEW a \in Accounts, Start(a) PROVE Kept
  BY <1>2 DEF Start, MarkDeleting, StartDeletion, AddFinalizer, StartReconcile, WriteAndReturn,
              Load, worker, locals
<1>3. CASE Crash
  BY <1>3 DEF Crash, Finish
<1>4. CASE Collector
  BY <1>4 DEF Collector, GcTake, GcMark, GcDelete, OutdateWorker, worker, locals
<1>5. CASE Informers
  BY <1>5 DEF Informers, SyncAccount, SyncSecret, SyncBucket, worker, locals
<1>6. CASE Environment
  BY <1>6 DEF Environment, CreateAccount, DeleteAccount, OutdateWorker, AdoptBucket, ReleaseBucket,
              LoseSecret, ProviderChanges, worker, locals
<1>7. CASE UNCHANGED vars
  BY <1>7 DEF vars, worker, locals
<1>q. QED BY <1>1, <1>2, <1>3, <1>4, <1>5, <1>6, <1>7 DEF Next, Controller

\* The user the worker is at, as long as it is at it.
LEMMA AtUser ==
  ASSUME Typed, pc # "idle"
  PROVE  /\ User \in Users /\ User = <<obj.provider, NameOf[cur]>>
         /\ users \in [Users -> ObjectOrNone(UserObject)]
         /\ pc \in KeySteps => users[User] # None /\ users[User] \in UserObject
BY UserIsUser DEF Typed, MinioOK, WorkerOK, ObjectOrNone

LEMMA NextKeys ==
  ASSUME Typed, KeysInv, [Next]_vars
  PROVE  KeysInv'
<1> DEFINE AtMostOne == \A u \in Users : users[u] # None /\ users[u].keys # {} =>
                          \E k \in Keys : users[u].keys = {k}
<1>1. CASE ~MinioStep
  BY <1>1, OtherSteps DEF KeysInv, mio, User
<1>2. CASE RemoveUser
  <2>1. pc' \notin {"addKey", "dropKeys"}
    BY <1>2 DEF RemoveUser, Goto, Continue, Finish
  <2>2. pc # "idle"
    BY <1>2 DEF RemoveUser
  <2>q. QED BY <1>2, <2>1, <2>2, AtUser DEF RemoveUser, KeysInv
<1>3. CASE AddUser
  <2>1. pc' \notin {"addKey", "dropKeys"}
    BY <1>3 DEF AddUser, Goto, Continue, Finish
  <2>2. pc # "idle"
    BY <1>3 DEF AddUser
  <2>q. QED BY <1>3, <2>1, <2>2, AtUser DEF AddUser, KeysInv
<1>4. CASE CheckKeys
  <2>1. CASE pc' \in {"addKey", "dropKeys"}
    BY <1>4, <2>1 DEF CheckKeys, Goto, Continue, Finish, KeysInv, User, mio
  <2>2. CASE pc' \notin {"addKey", "dropKeys"}
    BY <1>4, <2>2 DEF CheckKeys, KeysInv, mio
  <2>q. QED BY <2>1, <2>2
<1>5. CASE DropKeys
  <2>1. pc = "dropKeys" /\ users[User].keys = old
    BY <1>5 DEF DropKeys, KeysInv
  <2>2. User \in Users /\ users[User] # None /\ users[User] \in UserObject
    BY <2>1, AtUser DEF KeySteps
  <2>3. \A u \in Users \ {User} : users'[u] = users[u]
    BY <1>5, <2>2 DEF DropKeys, Typed, MinioOK
  <2>4. CASE UNCHANGED users /\ Goto("fail")
    BY <2>4 DEF KeysInv, Goto, Continue
  <2>5. ASSUME NEW k \in old, users' = [users EXCEPT ![User].keys = @ \ {k}],
               \/ /\ old' = old \ {k}
                  /\ pc' = IF old' = {} THEN "addKey" ELSE "dropKeys"
                  /\ UNCHANGED <<cur, fresh, obj, key, want>>
               \/ Goto("fail")
        PROVE  KeysInv'
    <3>1. users'[User].keys = old \ {k}
      BY <2>1, <2>2, <2>5, AtUser DEF Typed, MinioOK, UserObject
    <3>2. old \ {k} = {}
      BY <2>1, <2>2, <2>5 DEF KeysInv
    <3>3. AtMostOne'
      BY <2>3, <3>1, <3>2 DEF KeysInv
    <3>4. CASE /\ old' = old \ {k} /\ pc' = IF old' = {} THEN "addKey" ELSE "dropKeys"
               /\ UNCHANGED <<cur, fresh, obj, key, want>>
      BY <3>1, <3>2, <3>3, <3>4 DEF KeysInv, User
    <3>5. CASE Goto("fail")
      BY <3>3, <3>5 DEF KeysInv, Goto, Continue
    <3>q. QED BY <2>5, <3>4, <3>5
  <2>q. QED BY <1>5, <2>4, <2>5 DEF DropKeys
<1>6. CASE AddKey
  <2>1. pc = "addKey" /\ users[User].keys = {}
    BY <1>6 DEF AddKey, KeysInv
  <2>2. User \in Users /\ users[User] # None /\ users[User] \in UserObject
    BY <2>1, AtUser DEF KeySteps
  <2>3. \A u \in Users \ {User} : users'[u] = users[u]
    BY <1>6, <2>2 DEF AddKey, Typed, MinioOK
  <2>4. pc' \notin {"addKey", "dropKeys"}
    BY <1>6 DEF AddKey, Goto, Continue
  <2>5. CASE UNCHANGED users
    BY <2>4, <2>5 DEF KeysInv
  <2>6. ASSUME NEW k \in Keys, users' = [users EXCEPT ![User].keys = @ \cup {k}]
        PROVE  KeysInv'
    <3>1. users'[User].keys = {k}
      BY <2>1, <2>2, <2>6 DEF Typed, MinioOK, UserObject
    <3>q. QED BY <2>3, <2>4, <3>1 DEF KeysInv
  <2>q. QED BY <1>6, <2>5, <2>6 DEF AddKey
<1>7. CASE FindBuckets \/ EnsurePolicies
  <2>1. UNCHANGED users /\ pc' \notin {"addKey", "dropKeys"}
    BY <1>7 DEF FindBuckets, EnsurePolicies, Goto, Continue, mio, worker
  <2>q. QED BY <2>1 DEF KeysInv
<1>8. CASE SetPolicy
  <2>1. pc # "idle" /\ pc' \notin {"addKey", "dropKeys"}
    BY <1>8 DEF SetPolicy, ReadyStep, Goto, Continue, Finish
  <2>2. \A u \in Users : users'[u] # None => users[u] # None /\ users'[u].keys = users[u].keys
    BY <1>8, <2>1, AtUser DEF SetPolicy, Typed, MinioOK, ObjectOrNone, UserObject
  <2>q. QED BY <2>1, <2>2 DEF KeysInv
<1>q. QED BY <1>1, <1>2, <1>3, <1>4, <1>5, <1>6, <1>7, <1>8 DEF MinioStep

\* Before AddServiceAccount every earlier pair is gone, and no step of another
\* actor adds one: a user never holds two, whichever call fails or is repeated.
THEOREM OneKeyAtMost == Spec => []OneKey
<1>1. Init => KeysInv
  BY DEF Init, KeysInv
<1>2. KeysInv => OneKey
  <2> SUFFICES ASSUME KeysInv, NEW u \in Users, users[u] # None
               PROVE  Cardinality(users[u].keys) <= 1
    BY DEF OneKey
  <2>1. CASE users[u].keys = {}
    <3>1. Cardinality(users[u].keys) = 0
      BY <2>1, FS_EmptySet, Zenon
    <3>q. QED BY <3>1
  <2>2. CASE users[u].keys # {}
    <3>1. PICK k \in Keys : users[u].keys = {k}
      BY <2>2 DEF KeysInv
    <3>2. Cardinality({k}) = 1
      BY FS_Singleton, Zenon
    <3>q. QED BY <3>1, <3>2
  <2>q. QED BY <2>1, <2>2
<1>3. Typed /\ KeysInv /\ [Next]_vars => Typed' /\ KeysInv'
  BY NextTyped, NextKeys
<1>q. QED BY <1>1, <1>2, <1>3, InitTyped, PTL DEF Spec

LEMMA NextGrants ==
  ASSUME Typed, GrantsInv, [Next]_vars
  PROVE  GrantsInv'
<1>1. CASE ~MinioStep
  BY <1>1, OtherSteps DEF GrantsInv, PoliciesExist, mio
<1>2. CASE RemoveUser \/ AddUser
  <2>1. pc # "idle" /\ pc' # "setPolicy" /\ UNCHANGED canned
    BY <1>2 DEF RemoveUser, AddUser, Goto, Continue, Finish
  <2>2. \A u \in Users : users'[u] # None => users'[u] = users[u] \/ users'[u].policies = {}
    BY <1>2, <2>1, AtUser DEF RemoveUser, AddUser
  <2>q. QED BY <2>1, <2>2 DEF GrantsInv, PoliciesExist
<1>3. CASE CheckKeys \/ DropKeys \/ AddKey
  <2>1. pc \in KeySteps /\ pc' # "setPolicy" /\ UNCHANGED canned
    BY <1>3 DEF CheckKeys, DropKeys, AddKey, Goto, Continue, Finish, KeySteps, mio
  <2>2. pc # "idle"
    BY <2>1 DEF KeySteps
  <2>3. User \in Users /\ users[User] # None /\ users[User] \in UserObject
    BY <2>1, <2>2, AtUser
  <2>4. \A u \in Users : users'[u] # None => users[u] # None /\ users'[u].policies = users[u].policies
    BY <1>3, <2>3 DEF CheckKeys, DropKeys, AddKey, Typed, MinioOK, ObjectOrNone, UserObject, mio
  <2>q. QED BY <2>1, <2>4 DEF GrantsInv, PoliciesExist
<1>4. CASE FindBuckets
  <2>1. pc' = "setPolicy" => want' = {}
    BY <1>4 DEF FindBuckets
  <2>q. QED BY <1>4, <2>1 DEF FindBuckets, GrantsInv, PoliciesExist, mio
<1>5. CASE EnsurePolicies
  <2>1. pc = "canned" /\ UNCHANGED <<users, obj, want>>
    BY <1>5 DEF EnsurePolicies, Goto, Continue, worker, locals
  <2>2. obj.provider \in Providers /\ canned \in [Providers -> SUBSET Buckets]
    BY <2>1, AccountUpdates DEF Typed, WorkerOK, MinioOK
  <2>3. \A p \in Providers : canned[p] \subseteq canned'[p]
    BY <1>5, <2>2 DEF EnsurePolicies
  <2>4. pc' = "setPolicy" => want \ canned[obj.provider] = {} /\ UNCHANGED canned
    BY <1>5 DEF EnsurePolicies, Goto, Continue, worker
  <2>q. QED BY <2>1, <2>3, <2>4 DEF GrantsInv, PoliciesExist, Users
<1>6. CASE SetPolicy
  <2>1. pc = "setPolicy" /\ pc' # "setPolicy" /\ UNCHANGED canned
    BY <1>6 DEF SetPolicy, ReadyStep, Goto, Continue, Finish
  <2>2. User \in Users /\ User[1] = obj.provider
    BY <2>1, AtUser
  <2>3. \A u \in Users : users'[u] # None =>
          /\ users[u] # None
          /\ \/ users'[u].policies = users[u].policies
             \/ (u = User) /\ (users'[u].policies = want)
    BY <1>6, <2>2 DEF SetPolicy, Typed, MinioOK, ObjectOrNone, UserObject
  <2>q. QED BY <2>1, <2>2, <2>3 DEF GrantsInv, PoliciesExist
<1>q. QED BY <1>1, <1>2, <1>3, <1>4, <1>5, <1>6 DEF MinioStep

\* reconcilePolicies creates what it grants first, whatever Buckets come and go
\* and whatever calls fail between the two.
THEOREM GrantedPoliciesExist == Spec => []PoliciesExist
<1>1. Init => GrantsInv
  BY DEF Init, GrantsInv, PoliciesExist
<1>2. GrantsInv => PoliciesExist
  BY DEF GrantsInv
<1>3. Typed /\ GrantsInv /\ [Next]_vars => Typed' /\ GrantsInv'
  BY NextTyped, NextGrants
<1>q. QED BY <1>1, <1>2, <1>3, InitTyped, PTL DEF Spec

-----------------------------------------------------------------------------
(* Users and the accounts they are made for.                               *)

\* What happens to account a leaves it held for its provider, and doomed.
Keeps(a) == \A p \in Providers : Held(a, p) => Held(a, p)'
Follow(a) == Keeps(a) /\ (Doomed(account[a]) => Doomed(account[a])')

LEMMA SameFollows ==
  ASSUME NEW a \in Accounts, account'[a] = account[a]
  PROVE  Follow(a)
BY DEF Follow, Keeps, Held, Doomed

LEMMA DeletedFollows ==
  ASSUME Typed, NEW c \in Accounts, account' = [account EXCEPT ![c] = Deleted(account[c])],
         NEW a \in Accounts
  PROVE  Follow(a)
<1>1. account \in [Accounts -> ObjectOrNone(Account)]
  BY DEF Typed, StoreOK
<1>2. CASE a # c
  BY <1>1, <1>2, SameFollows
<1>3. CASE a = c
  <2>1. account[c] \in ObjectOrNone(Account) /\ account'[c] = Deleted(account[c])
    BY <1>1
  <2>q. QED BY <1>3, <2>1, DeletedIsAccount DEF Follow, Keeps, Held, Doomed
<1>q. QED BY <1>2, <1>3

\* A status written over the version it was computed from.
LEMMA StatusWritten ==
  ASSUME Typed, NEW c \in Accounts, NEW new \in Account,
         account[c] # None, new.provider = account[c].provider,
         new.deleting = account[c].deleting, new.finalizer = account[c].finalizer,
         account' = [account EXCEPT ![c] = new], NEW a \in Accounts
  PROVE  Follow(a)
<1>1. account \in [Accounts -> ObjectOrNone(Account)] /\ new # None
  BY AccountUpdates DEF Typed, StoreOK
<1>2. CASE a # c
  BY <1>1, <1>2, SameFollows
<1>3. CASE a = c
  <2>1. account'[c] = new
    BY <1>1
  <2>q. QED BY <1>1, <1>3, <2>1 DEF Follow, Keeps, Held, Doomed
<1>q. QED BY <1>2, <1>3

\* A write of the worker at an account it does not let go.
LEMMA WriteFollows ==
  ASSUME Typed, WorkerFollows, pc \in AliveSteps,
         NEW new \in Account, new.provider = obj.provider, new.deleting = obj.deleting,
         new.finalizer = obj.finalizer,
         NEW ok, NEW ko, NEW mem, Write(new, ok, ko, mem), NEW a \in Accounts
  PROVE  Follow(a)
<1>1. pc # "idle" /\ cur \in Accounts
  BY DEF AliveSteps, KeySteps, Typed, WorkerOK
<1>2. CASE UNCHANGED account
  BY <1>2, SameFollows
<1>3. CASE fresh /\ account' = [account EXCEPT ![cur] = new]
  <2>1. /\ account[cur] # None /\ account[cur].finalizer
        /\ account[cur].deleting = obj.deleting /\ account[cur].provider = obj.provider
    BY <1>1, <1>3 DEF WorkerFollows, SameAccount, Held
  <2>2. new.finalizer = account[cur].finalizer
    BY <1>1, <2>1, AccountUpdates DEF WorkerFollows, Typed, WorkerOK, StoreOK, ObjectOrNone
  <2>q. QED BY <1>1, <1>3, <2>1, <2>2, StatusWritten
<1>q. QED BY <1>2, <1>3 DEF Write

\* The steps that change a status, or what may be added to the cluster.
LEMMA NextFollows ==
  ASSUME Typed, OrphanInv, [Next]_vars, ~DropFinalizer, NEW a \in Accounts, ~AddFinalizer(a)
  PROVE  Follow(a)
<1>0. account \in [Accounts -> ObjectOrNone(Account)] /\ WorkerFollows
  BY DEF Typed, StoreOK, OrphanInv
<1>1. CASE UNCHANGED account
  BY <1>1, SameFollows
<1>2. CASE MarkCreating \/ MarkPending \/ RecordError
  <2>1. pc \in AliveSteps /\ obj \in Account
    BY <1>2 DEF MarkCreating, MarkPending, RecordError, AliveSteps, Typed, WorkerOK
  <2>2. CASE MarkCreating
    BY <1>0, <2>1, <2>2, WithIsAccount, WriteFollows DEF MarkCreating, Types
  <2>3. CASE MarkPending
    BY <1>0, <2>1, <2>3, WithIsAccount, WriteFollows DEF MarkPending, Types
  <2>4. CASE RecordError
    <3> DEFINE new == With(With(obj, "Ready", FALSE), "Error", TRUE)
    <3>1. /\ new \in Account /\ new.provider = obj.provider /\ new.deleting = obj.deleting
          /\ new.finalizer = obj.finalizer
      <4> DEFINE o == With(obj, "Ready", FALSE)
      <4>1. "Ready" \in Types /\ "Error" \in Types
        BY DEF Types
      <4>2. /\ o \in Account /\ o.provider = obj.provider /\ o.deleting = obj.deleting
            /\ o.finalizer = obj.finalizer
        BY <2>1, <4>1, WithIsAccount
      <4> HIDE DEF o
      <4>3. /\ With(o, "Error", TRUE) \in Account
            /\ With(o, "Error", TRUE).provider = o.provider
            /\ With(o, "Error", TRUE).deleting = o.deleting
            /\ With(o, "Error", TRUE).finalizer = o.finalizer
        BY <4>1, <4>2, WithIsAccount
      <4>q. QED BY <4>2, <4>3 DEF o
    <3>2. Write(new, "idle", "idle", new)
      BY <2>4 DEF RecordError
    <3> HIDE DEF new
    <3>q. QED BY <1>0, <2>1, <3>1, <3>2, WriteFollows
  <2>q. QED BY <1>2, <2>2, <2>3, <2>4
<1>3. CASE SaveSecretName
  <2>1. pc \in AliveSteps /\ obj \in Account
    BY <1>3 DEF SaveSecretName, AliveSteps, Typed, WorkerOK
  <2>q. QED BY <1>0, <1>3, <2>1, WriteFollows DEF SaveSecretName
<1>4. CASE ClearPending
  <2> DEFINE c == RemoveCondition(obj.conditions, "DeletionPending")
             new == [obj EXCEPT !.conditions = c]
  <2>1. pc \in AliveSteps /\ obj \in Account /\ Write(new, "canned", "fail", new)
    BY <1>4 DEF ClearPending, AliveSteps, Typed, WorkerOK
  <2>2. c \in Conditions
    BY <2>1, AccountUpdates, RemoveConditionSeq DEF Types
  <2>3. /\ new \in Account /\ new.provider = obj.provider /\ new.deleting = obj.deleting
        /\ new.finalizer = obj.finalizer
    BY <2>1, <2>2, WithoutIsAccount
  <2> HIDE DEF new
  <2>q. QED BY <1>0, <2>1, <2>3, WriteFollows
<1>5. CASE SetReady
  <2> DEFINE c == SetCondition(RemoveCondition(RemoveCondition(obj.conditions, "Creating"),
                                               "Error"), "Ready", TRUE)
             new == [obj EXCEPT !.conditions = c]
  <2>1. pc \in AliveSteps /\ obj \in Account /\ Write(new, "idle", "idle", new)
    BY <1>5 DEF SetReady, AliveSteps, Typed, WorkerOK
  <2>2. c \in Conditions
    BY <2>1, AccountUpdates, RemoveConditionSeq, SetConditionSeq DEF Types
  <2>3. /\ new \in Account /\ new.provider = obj.provider /\ new.deleting = obj.deleting
        /\ new.finalizer = obj.finalizer
    BY <2>1, <2>2, WithoutIsAccount
  <2> HIDE DEF new
  <2>q. QED BY <1>0, <2>1, <2>3, WriteFollows
<1>6. ASSUME NEW c \in Accounts, MarkDeleting(c) PROVE Follow(a)
  <2>1. account[c] \in Account /\ account[c] # None /\ "Deleting" \in Types
    BY <1>0, <1>6 DEF MarkDeleting, Begin, WriteAndReturn, ObjectOrNone, Types
  <2>2. account' = [account EXCEPT ![c] = With(account[c], "Deleting", TRUE)]
    BY <1>6 DEF MarkDeleting, WriteAndReturn
  <2>q. QED BY <2>1, <2>2, WithIsAccount, StatusWritten
<1>7. CASE GcMark
  <2>1. gc \in GcCall /\ gc # None
    BY <1>7 DEF GcMark, Typed, ObjectOrNone
  <2>2. CASE gc.fresh /\ account' = [account EXCEPT ![gc.account] = With(gc.obj, "Deleting", TRUE)]
    <3>1. account[gc.account] = gc.obj /\ gc.account \in Accounts /\ gc.obj \in Account
      BY <2>1, <2>2 DEF OrphanInv, GcFollows, GcCall
    <3>2. "Deleting" \in Types
      BY DEF Types
    <3>3. account[gc.account] # None
      BY <3>1, AccountUpdates
    <3> DEFINE new == With(gc.obj, "Deleting", TRUE)
    <3>4. /\ new \in Account /\ new.provider = gc.obj.provider /\ new.deleting = gc.obj.deleting
          /\ new.finalizer = gc.obj.finalizer
      BY <3>1, <3>2, WithIsAccount
    <3>5. account' = [account EXCEPT ![gc.account] = new]
      BY <2>2
    <3> HIDE DEF new
    <3>q. QED BY <3>1, <3>3, <3>4, <3>5, StatusWritten
  <2>q. QED BY <1>1, <1>7, <2>2 DEF GcMark
<1>8. CASE GcDelete
  <2>1. gc.account \in Accounts
    BY <1>8 DEF GcDelete, Typed, ObjectOrNone, GcCall
  <2>q. QED BY <1>1, <1>8, <2>1, DeletedFollows DEF GcDelete
<1>9. ASSUME NEW c \in Accounts, DeleteAccount(c) PROVE Follow(a)
  BY <1>9, DeletedFollows DEF DeleteAccount
<1>10. ASSUME NEW c \in Accounts, CreateAccount(c) PROVE Follow(a)
  <2>1. PICK p \in Providers : account' = [account EXCEPT ![c] = NewAccount(uids', p)]
    BY <1>10 DEF CreateAccount
  <2>2. account[c] = None /\ ~NewAccount(uids', p).finalizer
    BY <1>10 DEF CreateAccount, NewAccount
  <2>3. CASE a # c
    BY <1>0, <2>1, <2>3, SameFollows
  <2>4. CASE a = c
    <3> DEFINE new == NewAccount(uids', p)
    <3>1. account[a] = None /\ account'[a] = new /\ ~new.finalizer
      BY <1>0, <2>1, <2>2, <2>4
    <3> HIDE DEF new
    <3>q. QED BY <3>1 DEF Follow, Keeps, Held, Doomed
  <2>q. QED BY <2>3, <2>4
<1>11. ASSUME NEW c \in Accounts, AddFinalizer(c) PROVE Follow(a)
  <2>1. c # a /\ account'[a] = account[a]
    BY <1>0, <1>11 DEF AddFinalizer, WriteAndReturn
  <2>q. QED BY <2>1, SameFollows
<1>12. CASE \/ UNCHANGED account
            \/ MarkCreating \/ MarkPending \/ RecordError \/ SaveSecretName \/ ClearPending \/ SetReady
            \/ GcMark \/ GcDelete
            \/ \E c \in Accounts : \/ MarkDeleting(c) \/ DeleteAccount(c)
                                   \/ CreateAccount(c) \/ AddFinalizer(c)
  BY <1>1, <1>2, <1>3, <1>4, <1>5, <1>6, <1>7, <1>8, <1>9, <1>10, <1>11, <1>12
<1>13. CASE Work
  BY <1>12, <1>13 DEF Work, DropSecret, RemoveUser, CheckUser, AddUser, CheckKeys, DropKeys, AddKey,
                      SaveKey, UndoSecret, FindBuckets, EnsurePolicies, SetPolicy, store
<1>14. CASE Crash \/ Informers \/ UNCHANGED vars
  BY <1>12, <1>14 DEF Crash, Informers, SyncAccount, SyncSecret, SyncBucket, vars, store
<1>15. CASE \E c \in Accounts : Start(c)
  BY <1>12, <1>15 DEF Start, StartDeletion, StartReconcile, store
<1>16. CASE Collector
  BY <1>12, <1>16 DEF Collector, GcTake, store
<1>17. CASE Environment
  BY <1>12, <1>17 DEF Environment, LoseSecret, ReleaseBucket, AdoptBucket, ProviderChanges, store
<1>q. QED BY <1>13, <1>14, <1>15, <1>16, <1>17 DEF Next, Controller

\* A MinIO user appears only in AddUser.
LEMMA UsersOfStep ==
  ASSUME Typed, [Next]_vars, NEW u \in Users, users'[u] # None
  PROVE  users[u] # None \/ (AddUser /\ u = User)
<1>1. CASE ~MinioStep
  BY <1>1, OtherSteps DEF mio
<1>2. CASE MinioStep
  <2>1. pc # "idle" /\ User \in Users /\ users \in [Users -> ObjectOrNone(UserObject)]
    BY <1>2, AtUser DEF MinioStep, RemoveUser, AddUser, CheckKeys, DropKeys, AddKey, FindBuckets,
                        EnsurePolicies, SetPolicy
  <2>2. CASE DropKeys \/ AddKey
    BY <2>1, <2>2, AtUser DEF DropKeys, AddKey, KeySteps
  <2>3. CASE RemoveUser \/ AddUser \/ SetPolicy
    BY <2>1, <2>3 DEF RemoveUser, AddUser, SetPolicy
  <2>4. CASE CheckKeys \/ FindBuckets \/ EnsurePolicies
    BY <2>4 DEF CheckKeys, FindBuckets, EnsurePolicies, mio
  <2>q. QED BY <1>2, <2>2, <2>3, <2>4 DEF MinioStep
<1>q. QED BY <1>1, <1>2

\* The finalizer goes after the user has gone, from the version just read.
LEMMA DropFinalizerEffect ==
  ASSUME Typed, OrphanInv, DropFinalizer
  PROVE  /\ pc = "unfinalize" /\ cur \in Accounts /\ obj \in Account /\ users[User] = None
         /\ User \in Users /\ User = <<obj.provider, NameOf[cur]>>
         /\ UNCHANGED <<users, accountCache>> /\ pc' = "idle"
         /\ \A a \in Accounts \ {cur} : account'[a] = account[a]
         /\ \/ account'[cur] = account[cur]
            \/ account'[cur] = None /\ account[cur].provider = obj.provider
<1>1. pc = "unfinalize" /\ pc # "idle"
  BY DEF DropFinalizer
<1>2. cur \in Accounts /\ obj \in Account /\ account \in [Accounts -> ObjectOrNone(Account)]
  BY <1>1 DEF Typed, StoreOK, WorkerOK
<1>3. users[User] = None /\ (fresh => account[cur].provider = obj.provider)
  BY <1>1 DEF OrphanInv, WorkerFollows, SameAccount
<1>4. /\ \/ account' = account
         \/ fresh /\ account' = [account EXCEPT ![cur] = None]
      /\ pc' = "idle"
  BY DEF DropFinalizer, Write, Continue, Finish
<1>q. QED BY <1>1, <1>2, <1>3, <1>4, AtUser DEF DropFinalizer, caches, mio

LEMMA NextNoOrphan ==
  ASSUME Typed, OrphanInv, [Next]_vars
  PROVE  NoOrphanUser'
<1> SUFFICES ASSUME NEW u \in Users, users'[u] # None
             PROVE  \E a \in Accounts : u[2] = NameOf[a] /\ Held(a, u[1])'
  BY DEF NoOrphanUser, Held, Exists
<1>0. u[1] \in Providers
  BY DEF Users
<1>1. CASE users[u] # None
  <2>1. PICK a \in Accounts : u[2] = NameOf[a] /\ Held(a, u[1])
    BY <1>1 DEF OrphanInv, NoOrphanUser, Held, Exists
  <2>2. CASE DropFinalizer
    <3>1. a # cur \/ account'[cur] = account[cur]
      <4> SUFFICES ASSUME a = cur, account'[cur] # account[cur] PROVE FALSE
        OBVIOUS
      <4>1. account[cur].provider = obj.provider /\ User = <<obj.provider, NameOf[cur]>>
        BY <2>2, DropFinalizerEffect
      <4>2. u = User
        BY <2>1, <4>1 DEF Held, Users
      <4>q. QED BY <1>1, <2>2, <4>2, DropFinalizerEffect
    <3>2. account'[a] = account[a]
      BY <2>2, <3>1, DropFinalizerEffect
    <3>q. QED BY <2>1, <3>2 DEF Held
  <2>3. CASE AddFinalizer(a)
    <3>1. ~account[a].finalizer
      BY <2>3 DEF AddFinalizer, WriteAndReturn
    <3>q. QED BY <2>1, <3>1 DEF Held
  <2>4. CASE ~DropFinalizer /\ ~AddFinalizer(a)
    BY <1>0, <2>1, <2>4, NextFollows DEF Follow, Keeps
  <2>q. QED BY <2>2, <2>3, <2>4
<1>2. CASE users[u] = None
  <2>1. AddUser /\ u = User
    BY <1>2, UsersOfStep
  <2>2. pc = "addUser" /\ account' = account
    BY <2>1 DEF AddUser, store
  <2>3. Held(cur, obj.provider) /\ cur \in Accounts /\ User = <<obj.provider, NameOf[cur]>>
    BY <2>2, AtUser DEF OrphanInv, WorkerFollows, AliveSteps, Typed, WorkerOK
  <2>q. QED BY <2>1, <2>2, <2>3 DEF Held
<1>q. QED BY <1>1, <1>2

LEMMA NextCacheFollows ==
  ASSUME Typed, OrphanInv, [Next]_vars
  PROVE  CacheFollows'
<1> SUFFICES ASSUME NEW a \in Accounts, accountCache'[a] # None
             PROVE  IF accountCache'[a].deleting
                    THEN Doomed(account[a])'
                    ELSE accountCache'[a].finalizer => Held(a, accountCache[a].provider)'
  BY DEF CacheFollows, Held, Doomed
<1>0. accountCache[a] \in ObjectOrNone(Account) /\ account[a] \in ObjectOrNone(Account)
  BY DEF Typed, StoreOK
<1>1. CASE accountCache'[a] = account'[a]
  BY <1>1 DEF Held, Doomed
<1>2. CASE accountCache'[a] # account'[a] /\ accountCache'[a] # accountCache[a]
  <2>1. Informers
    BY <1>2 DEF Next, Controller, Start, MarkDeleting, StartDeletion, AddFinalizer, StartReconcile,
       WriteAndReturn, Work, DropSecret, RemoveUser, DropFinalizer, MarkCreating, CheckUser, AddUser,
       CheckKeys, DropKeys, AddKey, SaveKey, SaveSecretName, UndoSecret, FindBuckets, MarkPending,
       ClearPending, EnsurePolicies, SetPolicy, SetReady, RecordError, Crash, Collector, GcTake,
       GcMark, GcDelete, Environment, CreateAccount, DeleteAccount, LoseSecret, ReleaseBucket,
       AdoptBucket, ProviderChanges, vars, caches
  <2>2. \A c \in Accounts : SyncAccount(c) => account'[a] = account[a] /\ accountCache'[a] \in
                                              {accountCache[a], account[a]}
    BY DEF SyncAccount, store, Typed, StoreOK
  <2>q. QED BY <1>2, <2>1, <2>2 DEF Informers, SyncSecret, SyncBucket
<1>3. CASE accountCache'[a] = accountCache[a]
  <2>0. IF accountCache[a].deleting
        THEN Doomed(account[a])
        ELSE accountCache[a].finalizer => Held(a, accountCache[a].provider)
    BY <1>3 DEF OrphanInv, CacheFollows
  <2>1. CASE DropFinalizer
    <3>1. CASE account'[a] = account[a]
      BY <1>3, <2>0, <3>1 DEF Held, Doomed
    <3>2. CASE account'[a] # account[a]
      <4>1. a = cur /\ account'[a] = None
        BY <2>1, <3>2, DropFinalizerEffect
      <4>2. Doomed(accountCache[a])
        BY <2>1, <4>1, DropFinalizerEffect DEF OrphanInv, WorkerFollows, DyingSteps
      <4>q. QED BY <1>3, <4>1, <4>2 DEF Doomed
    <3>q. QED BY <3>1, <3>2
  <2>2. CASE AddFinalizer(a)
    BY <1>3, <2>2 DEF AddFinalizer
  <2>3. CASE ~DropFinalizer /\ ~AddFinalizer(a)
    <3>1. Follow(a)
      BY <2>3, NextFollows
    <3>2. accountCache[a].provider \in Providers
      BY <1>0, <1>3, AccountUpdates DEF ObjectOrNone
    <3>q. QED BY <1>3, <2>0, <3>1, <3>2 DEF Follow, Keeps
  <2>q. QED BY <2>1, <2>2, <2>3
<1>q. QED BY <1>1, <1>2, <1>3

\* A write to account c leaves the collector with an old version of c.
LEMMA OutdatedFollows ==
  ASSUME Typed, GcFollows, NEW c \in Accounts, gc' = Outdated(c),
         \A a \in Accounts \ {c} : account'[a] = account[a]
  PROVE  GcFollows'
<1> SUFFICES ASSUME gc' # None, gc'.fresh PROVE account'[gc'.account] = gc'.obj
  BY DEF GcFollows
<1>1. /\ gc # None /\ gc.fresh /\ gc.account # c
      /\ gc'.obj = gc.obj /\ gc'.account = gc.account
  BY OutdatedSame DEF Typed
<1>2. gc.account \in Accounts
  BY <1>1 DEF Typed, ObjectOrNone, GcCall
<1>q. QED BY <1>1, <1>2 DEF GcFollows

LEMMA NextGcFollows ==
  ASSUME Typed, OrphanInv, [Next]_vars
  PROVE  GcFollows'
<1>0. GcFollows /\ account \in [Accounts -> ObjectOrNone(Account)]
  BY DEF OrphanInv, Typed, StoreOK
<1>1. CASE UNCHANGED <<account, gc>>
  BY <1>0, <1>1 DEF GcFollows
<1>2. ASSUME NEW c \in Accounts, gc' = Outdated(c),
             \E new : account' = [account EXCEPT ![c] = new]
      PROVE  GcFollows'
  BY <1>0, <1>2, OutdatedFollows
<1>3. CASE Work
  <2>1. CASE \E new, ok, ko, mem : pc # "idle" /\ Write(new, ok, ko, mem)
    <3>1. cur \in Accounts
      BY <2>1 DEF Typed, WorkerOK
    <3>q. QED BY <1>1, <1>2, <2>1, <3>1 DEF Write
  <2>2. CASE \/ DropFinalizer \/ MarkCreating \/ SaveSecretName \/ MarkPending \/ ClearPending
             \/ SetReady \/ RecordError
    BY <2>1, <2>2 DEF DropFinalizer, MarkCreating, SaveSecretName, MarkPending, ClearPending,
                      SetReady, RecordError
  <2>q. QED BY <1>1, <1>3, <2>2 DEF Work, DropSecret, RemoveUser, CheckUser, AddUser, CheckKeys,
                 DropKeys, AddKey, SaveKey, UndoSecret, FindBuckets, EnsurePolicies, SetPolicy, store
<1>4. ASSUME NEW a \in Accounts, Start(a) PROVE GcFollows'
  BY <1>1, <1>2, <1>4 DEF Start, MarkDeleting, AddFinalizer, WriteAndReturn, StartDeletion,
                          StartReconcile, store
<1>5. CASE Crash \/ GcDelete
  BY <1>5 DEF Crash, GcDelete, GcFollows
<1>6. ASSUME NEW a \in Accounts, GcTake(a) PROVE GcFollows'
  <2>1. account' = account /\ gc'.account = a /\ gc'.obj = accountCache[a]
        /\ (gc'.fresh => accountCache[a] = account[a])
    BY <1>6 DEF GcTake, store
  <2>q. QED BY <2>1 DEF GcFollows
<1>7. CASE GcMark
  <2>1. gc # None /\ gc \in GcCall
    BY <1>7 DEF GcMark, Typed, ObjectOrNone
  <2>2. CASE gc' = None
    BY <2>2 DEF GcFollows
  <2>3. CASE gc' = [gc EXCEPT !.call = "delete", !.obj = account'[gc.account]]
    <3>1. gc'.account = gc.account /\ gc'.obj = account'[gc.account]
      BY <2>1, <2>3 DEF GcCall
    <3>q. QED BY <3>1 DEF GcFollows
  <2>q. QED BY <1>7, <2>2, <2>3 DEF GcMark
<1>8. CASE Informers \/ UNCHANGED vars
  BY <1>1, <1>8 DEF Informers, SyncAccount, SyncSecret, SyncBucket, vars, store
<1>9. ASSUME NEW a \in Accounts, CreateAccount(a) PROVE GcFollows'
  <2>1. account[a] = None /\ gc' = gc /\ \A c \in Accounts \ {a} : account'[c] = account[c]
    BY <1>0, <1>9 DEF CreateAccount
  <2>2. gc # None /\ gc.fresh => gc.account \in Accounts \ {a}
    <3> SUFFICES ASSUME gc # None, gc.fresh PROVE gc.account \in Accounts \ {a}
      OBVIOUS
    <3>1. gc.account \in Accounts /\ gc.obj \in Account
      BY DEF Typed, ObjectOrNone, GcCall
    <3>2. account[gc.account] # None
      BY <1>0, <3>1, AccountUpdates DEF GcFollows
    <3>q. QED BY <2>1, <3>1, <3>2
  <2>q. QED BY <1>0, <2>1, <2>2 DEF GcFollows
<1>10. ASSUME NEW a \in Accounts, DeleteAccount(a) PROVE GcFollows'
  BY <1>2, <1>10 DEF DeleteAccount
<1>11. CASE \/ \E a \in Accounts : LoseSecret(a)
            \/ \E b \in Buckets : ReleaseBucket(b) \/ \E a \in Accounts : AdoptBucket(b, a)
            \/ \E p \in Providers : ProviderChanges(p)
  BY <1>1, <1>11 DEF LoseSecret, ReleaseBucket, AdoptBucket, ProviderChanges, store
<1>q. QED BY <1>3, <1>4, <1>5, <1>6, <1>7, <1>8, <1>9, <1>10, <1>11
          DEF Next, Controller, Collector, Environment

-----------------------------------------------------------------------------
(* What the worker holds while others write.                               *)

\* The worker stays where it is and its account is not let go.
LEMMA StandFollows ==
  ASSUME WorkerFollows, Typed, pc # "idle", UNCHANGED <<pc, cur, obj, users>>, Follow(cur),
         fresh' => fresh /\ account'[cur] = account[cur],
         accountCache'[cur] \in {accountCache[cur], account[cur]}
  PROVE  WorkerFollows'
<1>1. obj.provider \in Providers /\ User' = User
  BY AccountUpdates DEF Typed, WorkerOK, User
<1>2. (fresh => SameAccount(cur, obj)) => (fresh => SameAccount(cur, obj))'
  BY DEF SameAccount
<1>3. Held(cur, obj.provider) => Held(cur, obj.provider)'
  BY <1>1 DEF Follow, Keeps, Held
<1>4. pc \in DyingSteps => Doomed(account[cur])' /\ Doomed(accountCache[cur])'
  BY DEF WorkerFollows, Follow, Doomed
<1>q. QED BY <1>1, <1>2, <1>3, <1>4 DEF WorkerFollows

LEMMA OthersFollow ==
  ASSUME Typed, OrphanInv, Collector \/ Informers \/ Environment \/ UNCHANGED vars
  PROVE  WorkerFollows'
<1>0. UNCHANGED <<pc, cur, obj, users>>
  BY DEF Collector, GcTake, GcMark, GcDelete, Informers, SyncAccount, SyncSecret, SyncBucket,
         Environment, CreateAccount, DeleteAccount, LoseSecret, ReleaseBucket, AdoptBucket,
         ProviderChanges, vars, worker, mio, OutdateWorker
<1>1. CASE pc = "idle"
  BY <1>0, <1>1 DEF WorkerFollows
<1>2. CASE pc # "idle"
  <2>0. /\ cur \in Accounts /\ WorkerFollows
        /\ account \in [Accounts -> ObjectOrNone(Account)]
        /\ accountCache \in [Accounts -> ObjectOrNone(Account)]
    BY <1>2 DEF Typed, WorkerOK, StoreOK, OrphanInv
  <2>1. Follow(cur)
    <3>1. ~DropFinalizer /\ ~AddFinalizer(cur)
      BY <1>0, <1>2 DEF DropFinalizer, AddFinalizer, Begin, Write, Continue, Finish
    <3>q. QED BY <2>0, <3>1, NextFollows DEF Next
  <2>2. accountCache'[cur] \in {accountCache[cur], account[cur]}
    BY <2>0 DEF Collector, GcTake, GcMark, GcDelete, Informers, SyncAccount, SyncSecret, SyncBucket,
         Environment, CreateAccount, DeleteAccount, LoseSecret, ReleaseBucket, AdoptBucket,
         ProviderChanges, vars, caches
  <2>3. fresh' => fresh /\ account'[cur] = account[cur]
    <3>1. CASE UNCHANGED <<fresh, account>>
      BY <3>1
    <3>2. ASSUME NEW c \in Accounts, OutdateWorker(c),
                 \E new : account' = [account EXCEPT ![c] = new]
          PROVE  fresh' => fresh /\ account'[cur] = account[cur]
      BY <2>0, <3>2 DEF OutdateWorker
    <3>3. ASSUME NEW c \in Accounts, CreateAccount(c)
          PROVE  fresh' => fresh /\ account'[cur] = account[cur]
      <4>1. account[c] = None /\ fresh' = fresh /\ \A a \in Accounts \ {c} : account'[a] = account[a]
        BY <2>0, <3>3 DEF CreateAccount, worker
      <4>2. fresh => account[cur] # None
        BY <1>2, <2>0 DEF WorkerFollows, SameAccount
      <4>q. QED BY <2>0, <4>1, <4>2
    <3>4. CASE GcMark \/ GcDelete
      <4>1. gc.account \in Accounts
        BY <3>4 DEF GcMark, GcDelete, Typed, ObjectOrNone, GcCall
      <4>q. QED BY <3>1, <3>2, <3>4, <4>1 DEF GcMark, GcDelete, worker
    <3>5. ASSUME NEW c \in Accounts, DeleteAccount(c)
          PROVE  fresh' => fresh /\ account'[cur] = account[cur]
      BY <3>2, <3>5 DEF DeleteAccount
    <3>6. CASE \/ Informers \/ UNCHANGED vars \/ \E c \in Accounts : GcTake(c)
               \/ \E a \in Accounts : LoseSecret(a)
               \/ \E b \in Buckets : ReleaseBucket(b) \/ \E a \in Accounts : AdoptBucket(b, a)
               \/ \E p \in Providers : ProviderChanges(p)
      BY <3>1, <3>6 DEF Informers, SyncAccount, SyncSecret, SyncBucket, vars, store, worker, GcTake,
                        LoseSecret, ReleaseBucket, AdoptBucket, ProviderChanges
    <3>q. QED BY <3>3, <3>4, <3>5, <3>6 DEF Collector, Environment
  <2>q. QED BY <1>0, <1>2, <2>0, <2>1, <2>2, <2>3, StandFollows
<1>q. QED BY <1>1, <1>2

\* The worker goes on, or stops, with an account it holds.
LEMMA ContinueFollows ==
  ASSUME NEW l \in AliveSteps \cup {"idle"}, NEW f, NEW o, Continue(l, f, o),
         ~o.deleting, o.finalizer,
         account'[cur] # None, account'[cur].finalizer, account'[cur].provider = o.provider,
         f => account'[cur].deleting = o.deleting
  PROVE  WorkerFollows'
<1>1. CASE l = "idle"
  BY <1>1 DEF Continue, Finish, WorkerFollows
<1>2. CASE l # "idle"
  <2>1. pc' = l /\ fresh' = f /\ obj' = o /\ cur' = cur
    BY <1>2 DEF Continue
  <2>2. l \in AliveSteps /\ l \notin DyingSteps /\ l # "unfinalize"
    BY <1>2 DEF AliveSteps, KeySteps, DyingSteps
  <2>q. QED BY <2>1, <2>2 DEF WorkerFollows, SameAccount, Held
<1>q. QED BY <1>1, <1>2

\* A call at an account that is kept alive.
LEMMA CallFollows ==
  ASSUME WorkerFollows, pc # "idle", pc \in AliveSteps, UNCHANGED account,
         NEW l \in AliveSteps \cup {"idle"}, Goto(l) \/ Finish
  PROVE  WorkerFollows'
<1>1. CASE Goto(l)
  <2>1. /\ ~obj.deleting /\ obj.finalizer
        /\ account'[cur] # None /\ account'[cur].finalizer /\ account'[cur].provider = obj.provider
        /\ fresh => account'[cur].deleting = obj.deleting
    BY DEF WorkerFollows, Held, SameAccount
  <2>q. QED BY <1>1, <2>1, ContinueFollows DEF Goto
<1>2. CASE Finish
  BY <1>2 DEF Finish, WorkerFollows
<1>q. QED BY <1>1, <1>2

LEMMA WriteKeeps ==
  ASSUME Typed, WorkerFollows, pc # "idle", pc \in AliveSteps,
         NEW new \in Account, new.provider = obj.provider, new.deleting = obj.deleting,
         new.finalizer = obj.finalizer,
         NEW mem \in {obj, new},
         NEW ok \in AliveSteps \cup {"idle"}, NEW ko \in AliveSteps \cup {"idle"},
         Write(new, ok, ko, mem)
  PROVE  WorkerFollows'
<1>1. /\ cur \in Accounts /\ new # None
      /\ account \in [Accounts -> ObjectOrNone(Account)]
      /\ ~obj.deleting /\ obj.finalizer /\ Held(cur, obj.provider)
      /\ fresh => SameAccount(cur, obj)
  BY AccountUpdates DEF Typed, WorkerOK, StoreOK, WorkerFollows
<1>2. CASE UNCHANGED account /\ Continue(ko, fresh, mem)
  <2>1. /\ ~mem.deleting /\ mem.finalizer
        /\ account'[cur] # None /\ account'[cur].finalizer /\ account'[cur].provider = mem.provider
        /\ fresh => account'[cur].deleting = mem.deleting
    BY <1>1, <1>2 DEF Held, SameAccount
  <2>q. QED BY <1>2, <2>1, ContinueFollows
<1>3. CASE /\ account' = [account EXCEPT ![cur] = new]
           /\ Continue(ok, TRUE, new) \/ Continue(ko, FALSE, mem)
  <2>1. account'[cur] = new
    BY <1>1, <1>3
  <2>2. /\ ~mem.deleting /\ mem.finalizer /\ ~new.deleting /\ new.finalizer
        /\ account'[cur] # None /\ account'[cur].finalizer
        /\ account'[cur].provider = mem.provider /\ account'[cur].provider = new.provider
        /\ account'[cur].deleting = new.deleting
    BY <1>1, <2>1
  <2>q. QED BY <1>3, <2>2, ContinueFollows
<1>q. QED BY <1>2, <1>3 DEF Write

LEMMA LoadFollows ==
  ASSUME Typed, OrphanInv, NEW a \in Accounts, StartDeletion(a) \/ StartReconcile(a)
  PROVE  WorkerFollows'
<1>1. /\ accountCache[a] \in Account /\ accountCache[a] # None
      /\ account \in [Accounts -> ObjectOrNone(Account)]
      /\ accountCache[a].provider \in Providers
  BY AccountUpdates DEF StartDeletion, StartReconcile, Begin, Typed, StoreOK, ObjectOrNone
<1>2. /\ UNCHANGED <<account, accountCache, users>>
      /\ cur' = a /\ obj' = accountCache[a] /\ (fresh' => accountCache[a] = account[a])
  BY DEF StartDeletion, StartReconcile, Load, store, caches, mio
<1>3. fresh' => SameAccount(cur, obj)'
  BY <1>1, <1>2 DEF SameAccount
<1>4. CASE StartDeletion(a)
  <2>1. provider[accountCache[a].provider] = "usable"
    BY <1>1 DEF OrphanInv, ProvidersUp
  <2>2. pc' = "dropSecret" /\ accountCache[a].deleting
    BY <1>4, <2>1 DEF StartDeletion, Load
  <2>3. Doomed(account[a]) /\ Doomed(accountCache[a])
    BY <1>1, <2>2 DEF OrphanInv, CacheFollows, Doomed
  <2>q. QED BY <1>2, <1>3, <2>2, <2>3 DEF WorkerFollows, Doomed, AliveSteps, KeySteps
<1>5. CASE StartReconcile(a)
  <2>1. pc' \in {"creating", "user"} /\ ~accountCache[a].deleting /\ accountCache[a].finalizer
    BY <1>5 DEF StartReconcile, Load
  <2>2. Held(a, accountCache[a].provider)
    BY <1>1, <2>1 DEF OrphanInv, CacheFollows
  <2>q. QED BY <1>2, <1>3, <2>1, <2>2 DEF WorkerFollows, Held, DyingSteps
<1>q. QED BY <1>4, <1>5

LEMMA WorkFollows ==
  ASSUME Typed, OrphanInv, Work
  PROVE  WorkerFollows'
<1>0. WorkerFollows
  BY DEF OrphanInv
<1>1. CASE DropSecret \/ RemoveUser
  <2>1. pc \in {"dropSecret", "removeUser"} /\ pc # "idle" /\ UNCHANGED <<account, accountCache>>
    BY <1>1 DEF DropSecret, RemoveUser, store, caches
  <2>2. CASE Finish
    BY <2>2 DEF Finish, WorkerFollows
  <2>3. CASE DropSecret /\ Goto("removeUser")
    <3>1. pc' = "removeUser" /\ UNCHANGED <<cur, obj, fresh>>
      BY <2>3 DEF Goto, Continue
    <3>q. QED BY <1>0, <2>1, <3>1 DEF WorkerFollows, SameAccount, Doomed, DyingSteps, AliveSteps,
                                      KeySteps
  <2>4. CASE RemoveUser /\ users' = [users EXCEPT ![User] = None] /\ Goto("unfinalize")
    <3>1. pc' = "unfinalize" /\ UNCHANGED <<cur, obj, fresh>>
      BY <2>4 DEF Goto, Continue
    <3>2. User' = User /\ users'[User] = None
      BY <2>1, <2>4, <3>1, AtUser DEF User
    <3>q. QED BY <1>0, <2>1, <3>1, <3>2 DEF WorkerFollows, SameAccount, Doomed, DyingSteps,
                                            AliveSteps, KeySteps
  <2>q. QED BY <1>1, <2>2, <2>3, <2>4 DEF DropSecret, RemoveUser
<1>2. CASE DropFinalizer
  BY <1>2, DropFinalizerEffect DEF WorkerFollows
<1> USE DEF AliveSteps, KeySteps
<1>3. ASSUME pc \in AliveSteps, NEW l \in AliveSteps \cup {"idle"}, Goto(l), UNCHANGED account
      PROVE  WorkerFollows'
  BY <1>0, <1>3, CallFollows
<1>4. ASSUME pc \in AliveSteps, pc' \in AliveSteps, UNCHANGED <<cur, fresh, obj, account>>
      PROVE  WorkerFollows'
  BY <1>0, <1>4 DEF WorkerFollows, SameAccount, Held, DyingSteps
<1>5. CASE CheckUser \/ AddUser \/ UndoSecret
  BY <1>3, <1>5 DEF CheckUser, AddUser, UndoSecret, store
<1>6. CASE CheckKeys \/ DropKeys \/ AddKey \/ FindBuckets \/ EnsurePolicies
  BY <1>3, <1>4, <1>6 DEF CheckKeys, DropKeys, AddKey, FindBuckets, EnsurePolicies, store, worker
<1>7. CASE SetPolicy
  <2>1. ReadyStep \in {"idle", "ready"}
    BY DEF ReadyStep
  <2>q. QED BY <1>3, <1>7, <2>1 DEF SetPolicy, store
<1>8. CASE SaveKey
  <2>1. CASE Goto("fail")
    BY <1>3, <1>8, <2>1 DEF SaveKey
  <2>2. CASE Continue("saveName", fresh, [obj EXCEPT !.secretName = TRUE])
    <3>1. pc \in AliveSteps /\ pc # "idle" /\ obj \in Account /\ UNCHANGED account
      BY <1>8 DEF SaveKey, Typed, WorkerOK
    <3> DEFINE o == [obj EXCEPT !.secretName = TRUE]
    <3>2. /\ o.deleting = obj.deleting /\ o.finalizer = obj.finalizer
          /\ o.provider = obj.provider
      BY <3>1 DEF Account, AccountObject
    <3>3. Continue("saveName", fresh, o)
      BY <2>2
    <3> HIDE DEF o
    <3>4. pc' = "saveName" /\ fresh' = fresh /\ obj' = o /\ cur' = cur
      BY <3>3 DEF Continue
    <3>q. QED BY <1>0, <3>1, <3>2, <3>4 DEF WorkerFollows, SameAccount, Held, DyingSteps
  <2>q. QED BY <1>8, <2>1, <2>2 DEF SaveKey
<1>9. ASSUME NEW new \in Account, new.provider = obj.provider, new.deleting = obj.deleting,
             new.finalizer = obj.finalizer, NEW mem \in {obj, new}, pc \in AliveSteps,
             NEW ok \in AliveSteps \cup {"idle"}, NEW ko \in AliveSteps \cup {"idle"},
             Write(new, ok, ko, mem)
      PROVE  WorkerFollows'
  BY <1>0, <1>9, WriteKeeps
<1>10. pc # "idle" => obj \in Account
  BY DEF Typed, WorkerOK
<1>11. CASE MarkCreating
  BY <1>9, <1>10, <1>11, WithIsAccount DEF MarkCreating, Types
<1>12. CASE SaveSecretName
  BY <1>9, <1>10, <1>12 DEF SaveSecretName
<1>13. CASE MarkPending
  BY <1>9, <1>10, <1>13, WithIsAccount DEF MarkPending, Types
<1>14. CASE ClearPending
  <2> DEFINE c == RemoveCondition(obj.conditions, "DeletionPending")
             new == [obj EXCEPT !.conditions = c]
  <2>1. pc \in AliveSteps /\ obj \in Account /\ Write(new, "canned", "fail", new)
    BY <1>10, <1>14 DEF ClearPending
  <2>2. c \in Conditions
    BY <2>1, AccountUpdates, RemoveConditionSeq DEF Types
  <2>3. /\ new \in Account /\ new.provider = obj.provider /\ new.deleting = obj.deleting
        /\ new.finalizer = obj.finalizer
    BY <2>1, <2>2, WithoutIsAccount
  <2> HIDE DEF new
  <2>q. QED BY <1>9, <2>1, <2>3
<1>15. CASE SetReady \/ RecordError
  <2>1. pc' = "idle"
    BY <1>15 DEF SetReady, RecordError, Write, Continue, Finish
  <2>q. QED BY <2>1 DEF WorkerFollows
<1>q. QED BY <1>1, <1>2, <1>5, <1>6, <1>7, <1>8, <1>11, <1>12, <1>13, <1>14, <1>15 DEF Work

LEMMA NextOrphan ==
  ASSUME "provider" \notin Env, Typed, OrphanInv, [Next]_vars
  PROVE  OrphanInv'
<1>1. ProvidersUp'
  <2>1. UNCHANGED provider
    BY DEF Next, Controller, Start, MarkDeleting, StartDeletion, AddFinalizer, StartReconcile,
       WriteAndReturn, Work, DropSecret, RemoveUser, DropFinalizer, MarkCreating, CheckUser, AddUser,
       CheckKeys, DropKeys, AddKey, SaveKey, SaveSecretName, UndoSecret, FindBuckets, MarkPending,
       ClearPending, EnsurePolicies, SetPolicy, SetReady, RecordError, Crash, Collector, GcTake,
       GcMark, GcDelete, Informers, SyncAccount, SyncSecret, SyncBucket, Environment, CreateAccount,
       DeleteAccount, LoseSecret, ReleaseBucket, AdoptBucket, ProviderChanges, vars
  <2>q. QED BY <2>1 DEF OrphanInv, ProvidersUp
<1>2. WorkerFollows'
  <2>1. CASE Crash
    BY <2>1 DEF Crash, Finish, WorkerFollows
  <2>2. ASSUME NEW a \in Accounts, MarkDeleting(a) \/ AddFinalizer(a) PROVE WorkerFollows'
    BY <2>2 DEF MarkDeleting, AddFinalizer, Begin, WriteAndReturn, WorkerFollows, worker
  <2>q. QED BY <2>1, <2>2, WorkFollows, LoadFollows, OthersFollow DEF Next, Controller, Start
<1>q. QED BY <1>1, <1>2, NextNoOrphan, NextCacheFollows, NextGcFollows DEF OrphanInv

LEMMA InitOrphan == Init => OrphanInv
BY DEF Init, OrphanInv, ProvidersUp, NoOrphanUser, CacheFollows, GcFollows, WorkerFollows

\* As long as providers stay, a MinIO user has an account held for it: none is
\* made from a cache that shows an account already gone, and none is left by a
\* deletion however its calls fail.
THEOREM NoUserOutlives ==
  ASSUME "provider" \notin Env
  PROVE  Spec => []NoOrphanUser
<1>1. Init => OrphanInv
  BY InitOrphan
<1>2. OrphanInv => NoOrphanUser
  BY DEF OrphanInv
<1>3. Typed /\ OrphanInv /\ [Next]_vars => Typed' /\ OrphanInv'
  BY NextTyped, NextOrphan
<1>q. QED BY <1>1, <1>2, <1>3, InitTyped, PTL DEF Spec
=============================================================================
