------------------------ MODULE BucketProviderProofs ------------------------
(***************************************************************************)
(* Theorems about the BucketProvider reconciler, for any numbers of        *)
(* providers and any credentials.                                          *)
(***************************************************************************)
EXTENDS BucketProvider, TLAPS

LEMMA InitTyped == Init => TypeOK
BY ConstantsOK DEF Init, TypeOK

\* What the writes make of a provider is a provider.
LEMMA ProviderUpdates ==
  ASSUME NEW o \in ProviderObject
  PROVE  /\ [o EXCEPT !.conditions = {"Creating"}] \in ProviderObject
         /\ [o EXCEPT !.conditions = @ \cup {"Ready"}] \in ProviderObject
         /\ [o EXCEPT !.conditions = (@ \ {"Ready"}) \cup {"Error"}] \in ProviderObject
         /\ \A e \in {"good", "bad"}, d \in BOOLEAN :
              [o EXCEPT !.endpoint = e, !.annotated = d] \in ProviderObject
BY DEF ProviderObject

LEMMA StatusUpdateTyped ==
  ASSUME TypeOK, pc # "idle", NEW new \in ProviderObject, StatusUpdate(new), Finish,
         UNCHANGED <<cred, caches, up>>
  PROVE  TypeOK'
BY DEF TypeOK, StatusUpdate, Finish, caches

LEMMA NextTyped ==
  ASSUME TypeOK, [Next]_vars
  PROVE  TypeOK'
<1>1. ASSUME NEW p \in Providers, Skip(p) \/ MarkCreating(p) PROVE TypeOK'
  <2>1. CASE Skip(p)
    BY <2>1 DEF Skip, TypeOK, store, caches, worker
  <2>2. CASE MarkCreating(p)
    <3>1. prov' \in [Providers -> ProviderObject \cup {None}] /\ queue' \subseteq Providers
      BY <2>2, ProviderUpdates DEF MarkCreating, TypeOK
    <3>q. QED BY <2>2, <3>1 DEF MarkCreating, TypeOK, caches, worker
  <2>q. QED BY <1>1, <2>1, <2>2
<1>2. ASSUME NEW p \in Providers, FetchAccessKey(p) PROVE TypeOK'
  <2>1. provCache[p] \in ProviderObject
    BY <1>2 DEF FetchAccessKey, TypeOK
  <2>2. fresh' \in BOOLEAN
    BY <1>2 DEF FetchAccessKey
  <2>q. QED BY <1>2, <2>1, <2>2 DEF FetchAccessKey, TypeOK, store, caches
<1>3. CASE FetchSecretKey \/ ListBuckets
  BY <1>3 DEF FetchSecretKey, ListBuckets, Goto, Finish, TypeOK, store, caches
<1>4. CASE SetReady \/ RecordError
  <2>1. pc # "idle" /\ obj \in ProviderObject
    BY <1>4 DEF SetReady, RecordError, TypeOK
  <2>q. QED BY <1>4, <2>1, ProviderUpdates, StatusUpdateTyped DEF SetReady, RecordError
<1>5. CASE Crash \/ Resync \/ MinioUpDown \/ UNCHANGED vars
  BY <1>5 DEF Crash, Resync, MinioUpDown, Finish, TypeOK, store, caches, worker, vars
<1>6. ASSUME NEW p \in Providers, SyncProvider(p) \/ SyncCred(p) \/ ChangeSecret(p) PROVE TypeOK'
  BY <1>6 DEF SyncProvider, SyncCred, ChangeSecret, TypeOK, store, caches, worker
<1>7. ASSUME NEW p \in Providers, CreateProvider(p) PROVE TypeOK'
  <2>1. prov' \in [Providers -> ProviderObject \cup {None}]
    BY <1>7 DEF CreateProvider, TypeOK, ProviderObject
  <2>q. QED BY <1>7, <2>1 DEF CreateProvider, TypeOK, caches, worker
<1>8. ASSUME NEW p \in Providers, EditProvider(p) \/ DeleteProvider(p) PROVE TypeOK'
  <2>1. prov' \in [Providers -> ProviderObject \cup {None}]
    <3>1. CASE EditProvider(p)
      <4>1. prov[p] \in ProviderObject
        BY <3>1 DEF EditProvider, TypeOK
      <4>2. PICK e \in {"good", "bad"}, d \in BOOLEAN :
              prov' = [prov EXCEPT ![p] = [prov[p] EXCEPT !.endpoint = e, !.annotated = d]]
        BY <3>1 DEF EditProvider
      <4>3. [prov[p] EXCEPT !.endpoint = e, !.annotated = d] \in ProviderObject
        BY <4>1, ProviderUpdates
      <4>q. QED BY <4>2, <4>3 DEF TypeOK
    <3>2. CASE DeleteProvider(p)
      BY <3>2 DEF DeleteProvider, TypeOK
    <3>q. QED BY <1>8, <3>1, <3>2
  <2>q. QED BY <1>8, <2>1 DEF EditProvider, DeleteProvider, Outdate, TypeOK, caches
<1>q. QED BY <1>1, <1>2, <1>3, <1>4, <1>5, <1>6, <1>7, <1>8 DEF Next, Take, Work

\* The worker holds a provider exactly between taking it up and finishing.
THEOREM TypeCorrect == Spec => []TypeOK
<1>1. TypeOK /\ [Next]_vars => TypeOK'
  BY NextTyped
<1>q. QED BY <1>1, InitTyped, PTL DEF Spec

\* Past newClient the endpoint of the copy in memory is one a client fits, and
\* while its version is the stored one the copy is the provider itself.
ProbedInv ==
  /\ pc \in {"list", "ready"} => obj.endpoint = "good"
  /\ pc # "idle" /\ fresh => prov[cur] = obj

\* Of the provider at work the status is written and nothing else.
LEMMA StatusUpdateEffect ==
  ASSUME TypeOK, ProbedInv, pc # "idle", NEW c \in SUBSET {"Creating", "Ready", "Error"},
         StatusUpdate([obj EXCEPT !.conditions = c]), NEW p \in Providers, prov'[p] # prov[p]
  PROVE  /\ p = cur /\ prov[p] # None /\ prov[p] = obj
         /\ prov'[p] \in ProviderObject
         /\ prov'[p].endpoint = prov[p].endpoint /\ prov'[p].conditions = c
<1>1. cur \in Providers /\ obj \in ProviderObject /\ obj # None
  BY NoneIsNoObject DEF TypeOK
<1> DEFINE new == [obj EXCEPT !.conditions = c]
<1>2. new \in ProviderObject /\ new.endpoint = obj.endpoint /\ new.conditions = c
  BY <1>1 DEF ProviderObject
<1>3. fresh /\ prov' = [prov EXCEPT ![cur] = new]
  BY DEF StatusUpdate
<1> HIDE DEF new
<1>4. p = cur /\ prov'[p] = new /\ prov[cur] = obj
  BY <1>1, <1>3 DEF TypeOK, ProbedInv
<1>q. QED BY <1>1, <1>2, <1>4

LEMMA NextProbed ==
  ASSUME TypeOK, ProbedInv, [Next]_vars
  PROVE  ProbedInv'
<1>1. CASE FetchSecretKey
  BY <1>1 DEF FetchSecretKey, Goto, ProbedInv, TypeOK, ProviderObject, store
<1>2. CASE ListBuckets
  BY <1>2 DEF ListBuckets, Goto, Finish, ProbedInv, store
<1>3. CASE SetReady \/ RecordError \/ Crash
  BY <1>3 DEF SetReady, RecordError, Crash, Finish, ProbedInv
<1>4. ASSUME NEW p \in Providers, Skip(p) \/ MarkCreating(p) PROVE ProbedInv'
  BY <1>4 DEF Skip, MarkCreating, Begin, ProbedInv, worker
<1>5. ASSUME NEW p \in Providers, FetchAccessKey(p) PROVE ProbedInv'
  <2>1. pc' \in {"fail", "secretKey"} /\ cur' = p /\ obj' = provCache[p] /\ prov' = prov
        /\ (fresh' => prov[p] = provCache[p])
    BY <1>5 DEF FetchAccessKey, store
  <2>q. QED BY <2>1 DEF ProbedInv
<1>6. CASE \/ Resync \/ MinioUpDown \/ UNCHANGED vars
           \/ \E p \in Providers : SyncProvider(p) \/ SyncCred(p) \/ ChangeSecret(p)
  BY <1>6 DEF Resync, MinioUpDown, SyncProvider, SyncCred, ChangeSecret, store, worker, vars, ProbedInv
<1>7. ASSUME NEW p \in Providers, CreateProvider(p) PROVE ProbedInv'
  <2>1. prov[p] = None /\ UNCHANGED worker /\ \A q \in Providers \ {p} : prov'[q] = prov[q]
    BY <1>7 DEF CreateProvider, TypeOK
  <2>2. pc # "idle" /\ fresh => cur \in Providers \ {p}
    BY <2>1, NoneIsNoObject DEF ProbedInv, TypeOK
  <2>q. QED BY <2>1, <2>2 DEF ProbedInv, worker
<1>8. ASSUME NEW p \in Providers, EditProvider(p) \/ DeleteProvider(p) PROVE ProbedInv'
  <2>1. /\ UNCHANGED <<pc, cur, obj>> /\ (fresh' => fresh /\ cur # p)
        /\ \A q \in Providers \ {p} : prov'[q] = prov[q]
    BY <1>8 DEF EditProvider, DeleteProvider, Outdate, TypeOK
  <2>q. QED BY <2>1 DEF ProbedInv, TypeOK
<1>q. QED BY <1>1, <1>2, <1>3, <1>4, <1>5, <1>6, <1>7, <1>8 DEF Next, Take, Work

\* The verdict of a probe reaches only the provider that was probed: an edit
\* of its endpoint between the two outdates the version the write needs.
THEOREM ReadyOnlyWhereProbed == Spec => ReadyWhereProbed
<1> DEFINE Probed == \A p \in Providers : ~Has(p, "Ready") /\ Has(p, "Ready")' =>
                       prov'[p].endpoint = "good"
<1>1. TypeOK /\ ProbedInv /\ [Next]_vars => Probed
  <2> SUFFICES ASSUME TypeOK, ProbedInv, [Next]_vars, NEW p \in Providers,
                      ~Has(p, "Ready"), Has(p, "Ready")'
               PROVE  prov'[p].endpoint = "good"
    OBVIOUS
  <2>0. prov'[p] # prov[p] /\ prov'[p] # None /\ "Ready" \in prov'[p].conditions
    BY DEF Has, Exists
  <2>1. CASE SetReady
    <3>1. pc = "ready" /\ StatusUpdate([obj EXCEPT !.conditions = obj.conditions \cup {"Ready"}])
      BY <2>1 DEF SetReady
    <3>2. obj.conditions \cup {"Ready"} \in SUBSET {"Creating", "Ready", "Error"}
      BY <3>1 DEF TypeOK, ProviderObject
    <3>3. prov'[p].endpoint = prov[p].endpoint /\ prov[p] = obj
      BY <2>0, <3>1, <3>2, StatusUpdateEffect
    <3>q. QED BY <3>1, <3>3 DEF ProbedInv
  <2>2. CASE RecordError
    <3> DEFINE c == (obj.conditions \ {"Ready"}) \cup {"Error"}
    <3>1. pc = "fail" /\ StatusUpdate([obj EXCEPT !.conditions = c])
      BY <2>2 DEF RecordError
    <3>2. c \in SUBSET {"Creating", "Ready", "Error"} /\ "Ready" \notin c
      BY <3>1 DEF TypeOK, ProviderObject
    <3> HIDE DEF c
    <3>q. QED BY <2>0, <3>1, <3>2, StatusUpdateEffect
  <2>3. ASSUME NEW q \in Providers, MarkCreating(q) PROVE FALSE
    BY <2>0, <2>3 DEF MarkCreating, TypeOK, ProviderObject
  <2>4. ASSUME NEW q \in Providers, CreateProvider(q) PROVE FALSE
    BY <2>0, <2>4 DEF CreateProvider, TypeOK
  <2>5. ASSUME NEW q \in Providers, EditProvider(q) PROVE FALSE
    <3>1. PICK e \in {"good", "bad"}, d \in BOOLEAN :
            prov' = [prov EXCEPT ![q] = [prov[q] EXCEPT !.endpoint = e, !.annotated = d]]
      BY <2>5 DEF EditProvider
    <3>2. prov[q] \in ProviderObject /\ prov[q] # None
      BY <2>5 DEF EditProvider, TypeOK
    <3>3. [prov[q] EXCEPT !.endpoint = e, !.annotated = d].conditions = prov[q].conditions
      BY <3>2 DEF ProviderObject
    <3>q. QED BY <2>0, <3>1, <3>2, <3>3 DEF TypeOK, Has, Exists
  <2>6. ASSUME NEW q \in Providers, DeleteProvider(q) PROVE FALSE
    BY <2>0, <2>6 DEF DeleteProvider, TypeOK
  <2>q. QED BY <2>0, <2>1, <2>2, <2>3, <2>4, <2>5, <2>6
            DEF Next, Take, Work, Skip, FetchAccessKey, FetchSecretKey, ListBuckets, SyncProvider,
                SyncCred, ChangeSecret, Crash, Resync, MinioUpDown, store, vars
<1>2. Init => ProbedInv
  BY DEF Init, ProbedInv
<1>3. TypeOK /\ ProbedInv /\ [Next]_vars => TypeOK' /\ ProbedInv'
  BY NextTyped, NextProbed
<1>q. QED BY <1>1, <1>2, <1>3, InitTyped, PTL DEF Spec, ReadyWhereProbed
=============================================================================
