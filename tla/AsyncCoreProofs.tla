---------------------------- MODULE AsyncCoreProofs ----------------------------
(***************************************************************************)
(* Proofs about AsyncCore.  If an initializer is only constructed while    *)
(* nobody uses the core, the count is the number of users, a queue that    *)
(* somebody may still follow is never destroyed, and nothing outlives the  *)
(* last user, for any number of users and whatever creation fails.         *)
(***************************************************************************)
EXTENDS AsyncCore, FiniteSetTheorems, TLAPS

\* Every queue object is unused, freed, or one of the two default queues.
QueueAccount ==
    /\ unused \cap freed = {}
    /\ serial \notin unused \cup freed
    /\ parallel \notin unused \cup freed
    /\ unused \cup freed \cup {serial, parallel} \subseteq Queue \cup {None}
    /\ Queue \subseteq unused \cup freed \cup {serial, parallel}

\* Without a user there are no queues; a user follows one of the two it has seen.
UsersAndQueues ==
    /\ Holders = {} => serial = None /\ parallel = None
    /\ \A u \in User : pc[u] = "use" => pointer[u] \in {serial, parallel}

CoreInv ==
    /\ TypeOK
    /\ CountIsUsers
    /\ QueueAccount
    /\ UsersAndQueues

LEMMA HoldersFinite ==
    IsFiniteSet(Holders) /\ Cardinality(Holders) \in Nat
      /\ (Cardinality(Holders) = 0 <=> Holders = {})
<1>1. Holders \subseteq User
  BY DEF Holders
<1>2. IsFiniteSet(Holders)
  BY <1>1, FS_Subset, AsyncAssumption
<1> QED BY <1>2, FS_CardinalityType, FS_EmptySet

\* A user enters or leaves its scope: the effect on the set of users.
LEMMA Enter ==
    ASSUME TypeOK, NEW u \in User, Goto(u, "out", "in")
    PROVE  /\ Holders' = Holders \cup {u}
           /\ Cardinality(Holders') = Cardinality(Holders) + 1
           /\ Holders' # {}
<1>1. u \notin Holders /\ Holders' = Holders \cup {u}
  BY DEF Goto, Holders, TypeOK
<1> QED BY <1>1, HoldersFinite, FS_AddElement

LEMMA Exit ==
    ASSUME TypeOK, NEW u \in User, Goto(u, "in", "out")
    PROVE  /\ u \in Holders /\ Holders' = Holders \ {u}
           /\ Cardinality(Holders') = Cardinality(Holders) - 1
           /\ (Holders' = {} <=> Cardinality(Holders) = 1)
<1>1. u \in Holders /\ Holders' = Holders \ {u}
  BY DEF Goto, Holders, TypeOK
<1>2. Cardinality(Holders') = Cardinality(Holders) - 1
  BY <1>1, HoldersFinite, FS_RemoveElement
<1>3. IsFiniteSet(Holders') /\ (Holders' = {} <=> Cardinality(Holders') = 0)
  BY <1>1, HoldersFinite, FS_RemoveElement, FS_EmptySet
<1> QED BY <1>1, <1>2, <1>3, HoldersFinite

\* A step inside a scope leaves the set of users alone.
LEMMA Stay ==
    ASSUME TypeOK, NEW u \in User, NEW from \in {"in", "checked", "use"},
           NEW to \in {"in", "checked", "use"}, Goto(u, from, to)
    PROVE  Holders' = Holders /\ pc' \in [User -> {"out", "in", "checked", "use"}]
           /\ Holders # {}
BY DEF Goto, Holders, TypeOK

-----------------------------------------------------------------------------
\* Starting the core: only without users, so nobody holds a pointer.
LEMMA StartupStep ==
    ASSUME CoreInv, NEW u \in User, Goto(u, "out", "in"), Holders = {},
           KFAsyncStartup, UNCHANGED pointer
    PROVE  CoreInv'
<1> USE DEF CoreInv
<1>1. refCount = 0 /\ serial = None /\ parallel = None
  BY HoldersFinite DEF CountIsUsers, UsersAndQueues
<1>2. refCount' = 1 /\ freed' = freed /\ KFGlobalStartup
  BY <1>1 DEF KFAsyncStartup
<1>3. CountIsUsers'
  BY <1>1, <1>2, Enter DEF CountIsUsers
<1>4. /\ serial' \in Queue \cup {None} /\ parallel' \in Queue \cup {None}
      /\ unused' \subseteq Queue /\ QueueAccount'
  BY <1>1, <1>2, AsyncAssumption DEF KFGlobalStartup, QueueAccount, TypeOK
<1>5. TypeOK'
  BY <1>2, <1>4 DEF TypeOK, Goto
<1>6. UsersAndQueues'
  <2>1. \A v \in User : pc'[v] # "use"
    BY DEF Holders, Goto, TypeOK
  <2> QED BY <2>1, Enter DEF UsersAndQueues
<1> QED BY <1>3, <1>4, <1>5, <1>6

\* One more user: the queues stay.
LEMMA JoinStep ==
    ASSUME CoreInv, NEW u \in User, Goto(u, "out", "in"),
           refCount' = refCount + 1,
           UNCHANGED <<serial, parallel, unused, freed, pointer>>
    PROVE  CoreInv'
<1> USE DEF CoreInv
<1>1. CountIsUsers'
  BY Enter, HoldersFinite DEF CountIsUsers
<1>2. TypeOK'
  BY DEF TypeOK, Goto
<1>3. QueueAccount'
  BY DEF QueueAccount
<1>4. UsersAndQueues'
  <2>1. \A v \in User : pc'[v] = "use" => pc[v] = "use"
    BY DEF Goto, TypeOK
  <2> QED BY <2>1, Enter DEF UsersAndQueues
<1> QED BY <1>1, <1>2, <1>3, <1>4

\* One user less: the queues are destroyed with the last one.
LEMMA LeaveStep ==
    ASSUME CoreInv, NEW u \in User, Goto(u, "in", "out"),
           KFAsyncShutdown, UNCHANGED pointer
    PROVE  CoreInv'
<1> USE DEF CoreInv
<1>1. refCount \in Nat /\ refCount' = refCount - 1 /\ refCount # 0
  BY Exit, HoldersFinite DEF KFAsyncShutdown, CountIsUsers, TypeOK
<1>2. CountIsUsers'
  BY <1>1, Exit DEF CountIsUsers
<1>3. Holders' = {} <=> refCount' = 0
  BY <1>1, Exit DEF CountIsUsers
<1>4. \A v \in User : pc'[v] = "use" => pc[v] = "use" /\ v \in Holders'
  BY DEF Goto, TypeOK, Holders
<1>5. CASE refCount' = 0
  <2>1. /\ freed' = freed \cup ({serial, parallel} \ {None})
        /\ serial' = None /\ parallel' = None /\ unused' = unused
    BY <1>5 DEF KFAsyncShutdown, KFGlobalShutdown
  <2>2. TypeOK'
    BY <1>1, <2>1 DEF TypeOK, Goto
  <2>3. QueueAccount'
    BY <2>1, AsyncAssumption DEF QueueAccount, TypeOK
  <2>4. UsersAndQueues'
    BY <1>3, <1>4, <1>5, <2>1 DEF UsersAndQueues
  <2> QED BY <1>2, <2>2, <2>3, <2>4
<1>6. CASE refCount' # 0
  <2>1. UNCHANGED <<serial, parallel, unused, freed>>
    BY <1>6 DEF KFAsyncShutdown
  <2>2. TypeOK'
    BY <1>1, <2>1 DEF TypeOK, Goto
  <2>3. QueueAccount'
    BY <2>1 DEF QueueAccount
  <2>4. UsersAndQueues'
    BY <1>3, <1>4, <1>6, <2>1 DEF UsersAndQueues
  <2> QED BY <1>2, <2>2, <2>3, <2>4
<1> QED BY <1>5, <1>6

\* A step of a put changes neither the count nor the queues.
LEMMA PutStep ==
    ASSUME CoreInv, NEW u \in User,
           ReadDefault(u) \/ CheckParallel(u) \/ ReadParallel(u) \/ Use(u)
    PROVE  CoreInv'
<1> USE DEF CoreInv
<1>1. UNCHANGED queueVars
  BY DEF ReadDefault, CheckParallel, ReadParallel, Use
<1>2. Holders' = Holders /\ pc' \in [User -> {"out", "in", "checked", "use"}]
  BY Stay DEF ReadDefault, CheckParallel, ReadParallel, Use
<1>3. pointer' \in [User -> Queue \cup {None}]
  BY DEF ReadDefault, CheckParallel, ReadParallel, Use, TypeOK
<1>4. TypeOK' /\ CountIsUsers' /\ QueueAccount'
  BY <1>1, <1>2, <1>3 DEF TypeOK, CountIsUsers, QueueAccount, queueVars
<1>5. \A v \in User : pc'[v] = "use" => pointer'[v] \in {serial, parallel}
  BY DEF ReadDefault, CheckParallel, ReadParallel, Use, Goto, UsersAndQueues, TypeOK
<1> QED BY <1>1, <1>2, <1>4, <1>5 DEF UsersAndQueues, queueVars

LEMMA CoreInvStep ==
    ASSUME InitializerFirst
    PROVE  CoreInv /\ [Next]_vars => CoreInv'
<1> SUFFICES ASSUME CoreInv, [Next]_vars PROVE CoreInv'
  OBVIOUS
<1>1. ASSUME NEW u \in Initializer, ConstructInitializer(u) PROVE CoreInv'
  BY <1>1, StartupStep DEF ConstructInitializer, User
<1>2. ASSUME NEW u \in Locker, ConstructLocker(u) PROVE CoreInv'
  <2>1. u \in User /\ Goto(u, "out", "in") /\ KFAsyncLockRef /\ UNCHANGED pointer
    BY <1>2 DEF ConstructLocker, User
  <2>2. CASE refCount = 0
    <3>1. Holders = {} /\ KFAsyncStartup
      BY <2>1, <2>2, HoldersFinite DEF KFAsyncLockRef, CoreInv, CountIsUsers
    <3> QED BY <2>1, <3>1, StartupStep
  <2>3. CASE refCount # 0
    <3>1. refCount' = refCount + 1 /\ UNCHANGED <<serial, parallel, unused, freed>>
      BY <2>1, <2>3 DEF KFAsyncLockRef
    <3> QED BY <2>1, <3>1, JoinStep
  <2> QED BY <2>2, <2>3
<1>3. ASSUME NEW u \in User, DestructInitializer(u) \/ DestructLocker(u) PROVE CoreInv'
  BY <1>3, LeaveStep DEF DestructInitializer, DestructLocker
<1>4. CASE UNCHANGED vars
  <2>1. Holders' = Holders
    BY <1>4 DEF vars, Holders
  <2> QED BY <1>4, <2>1 DEF vars, queueVars, CoreInv, TypeOK, CountIsUsers,
                            QueueAccount, UsersAndQueues
<1> QED BY <1>1, <1>2, <1>3, <1>4, PutStep DEF Next, User

-----------------------------------------------------------------------------
LEMMA InitCoreInv == Init => CoreInv
<1> SUFFICES ASSUME Init PROVE CoreInv
  OBVIOUS
<1>1. Holders = {}
  BY DEF Init, Holders
<1>2. TypeOK /\ QueueAccount /\ UsersAndQueues
  BY AsyncAssumption DEF Init, TypeOK, QueueAccount, UsersAndQueues
<1> QED BY <1>1, <1>2, HoldersFinite DEF CoreInv, CountIsUsers, Init

\* Whoever starts, uses and shuts down the default queues, the count, the pointers and
\* the queue objects stay in step, if an initializer comes first only.
THEOREM CoreInvariant ==
    ASSUME InitializerFirst PROVE SafeSpec => []CoreInv
<1>1. Init => CoreInv
  BY InitCoreInv
<1>2. CoreInv /\ [Next]_vars => CoreInv'
  BY CoreInvStep
<1> QED BY <1>1, <1>2, PTL DEF SafeSpec

\* _RefCount counts the helper objects in scope.
THEOREM CountCorrect ==
    ASSUME InitializerFirst PROVE SafeSpec => []CountIsUsers
<1>1. CoreInv => CountIsUsers
  BY DEF CoreInv
<1> QED BY <1>1, CoreInvariant, PTL

\* KFGlobalShutdown by another user never frees the queue a put is following, nor is the
\* pointer a null that was read before the queue was created.
THEOREM PutSafe ==
    ASSUME InitializerFirst PROVE SafeSpec => []UserNeverUsesFreed
<1>1. CoreInv => UserNeverUsesFreed
  BY DEF CoreInv, QueueAccount, UsersAndQueues, UserNeverUsesFreed
<1> QED BY <1>1, CoreInvariant, PTL

\* The last user leaves nothing behind.
THEOREM NothingLeft ==
    ASSUME InitializerFirst PROVE SafeSpec => []LastUserDestroys
<1>1. CoreInv => LastUserDestroys
  BY AsyncAssumption DEF CoreInv, TypeOK, QueueAccount, UsersAndQueues, LastUserDestroys
<1> QED BY <1>1, CoreInvariant, PTL

-----------------------------------------------------------------------------
(* What the violated run of UserFindsQueues needs to become true. *)

LEMMA FindsQueuesStep ==
    ASSUME InitializerFirst, ~ CreateMayFail
    PROVE  CoreInv /\ UserFindsQueues /\ [Next]_vars => UserFindsQueues'
<1> SUFFICES ASSUME CoreInv, UserFindsQueues, [Next]_vars PROVE UserFindsQueues'
  OBVIOUS
<1>0. None \notin unused /\ TypeOK
  BY AsyncAssumption DEF CoreInv, TypeOK
<1>1. ASSUME Holders = {}, KFAsyncStartup PROVE UserFindsQueues'
  <2>1. KFGlobalStartup /\ serial = None /\ parallel = None
    BY <1>1, HoldersFinite DEF KFAsyncStartup, CoreInv, CountIsUsers, UsersAndQueues
  <2> QED BY <1>0, <2>1 DEF KFGlobalStartup, UserFindsQueues
<1>2. ASSUME NEW u \in Initializer, ConstructInitializer(u) PROVE UserFindsQueues'
  BY <1>1, <1>2 DEF ConstructInitializer
<1>3. ASSUME NEW u \in Locker, ConstructLocker(u) PROVE UserFindsQueues'
  <2>1. CASE refCount = 0
    BY <1>1, <1>3, <2>1, HoldersFinite
       DEF ConstructLocker, KFAsyncLockRef, CoreInv, CountIsUsers
  <2>2. CASE refCount # 0
    <3>1. Holders # {}
      BY <2>2, HoldersFinite DEF CoreInv, CountIsUsers
    <3> QED BY <1>3, <2>2, <3>1 DEF ConstructLocker, KFAsyncLockRef, UserFindsQueues
  <2> QED BY <2>1, <2>2
<1>4. ASSUME NEW u \in User, DestructInitializer(u) \/ DestructLocker(u)
      PROVE  UserFindsQueues'
  <2>1. KFAsyncShutdown /\ Goto(u, "in", "out")
    BY <1>4 DEF DestructInitializer, DestructLocker
  <2>2. Holders # {} /\ (Holders' = {} <=> refCount = 1)
    BY <1>0, <2>1, Exit DEF CoreInv, CountIsUsers
  <2>3. refCount' = 0 <=> refCount = 1
    BY <1>0, <2>1 DEF KFAsyncShutdown, TypeOK
  <2> QED BY <2>1, <2>2, <2>3 DEF KFAsyncShutdown, UserFindsQueues
<1>5. ASSUME NEW u \in User,
             ReadDefault(u) \/ CheckParallel(u) \/ ReadParallel(u) \/ Use(u)
      PROVE  UserFindsQueues'
  <2>1. Holders # {}
    BY <1>0, <1>5, Stay DEF ReadDefault, CheckParallel, ReadParallel, Use
  <2>2. UNCHANGED queueVars
    BY <1>5 DEF ReadDefault, CheckParallel, ReadParallel, Use
  <2> QED BY <2>1, <2>2 DEF queueVars, UserFindsQueues
<1>6. CASE UNCHANGED vars
  BY <1>6 DEF vars, queueVars, Holders, UserFindsQueues
<1> QED BY <1>2, <1>3, <1>4, <1>5, <1>6 DEF Next, User

\* If an initializer is only constructed first and creation succeeds, every helper
\* in scope finds both default queues: KFAsyncStartup means what it says.
THEOREM QueuesFound ==
    ASSUME InitializerFirst, ~ CreateMayFail PROVE SafeSpec => []UserFindsQueues
<1>1. Init => UserFindsQueues
  BY DEF Init, Holders, UserFindsQueues
<1>2. CoreInv /\ UserFindsQueues /\ [Next]_vars => UserFindsQueues'
  BY FindsQueuesStep
<1> QED BY <1>1, <1>2, CoreInvariant, PTL DEF SafeSpec
=============================================================================
