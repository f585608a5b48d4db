------------------------------- MODULE AsyncCore -------------------------------
(***************************************************************************)
(* The global part of async/kf_async_core.cxx: the counted default queues  *)
(* behind KFAsyncStartup, KFAsyncShutdown, KFAsyncLockRef,                  *)
(* KFAsyncUnlockRef and the calls that put items on them.                  *)
(*                                                                         *)
(* The users are the scoped helpers of kf_async_abstract.hxx:              *)
(* KFAsyncInitializer (Startup ... Shutdown) and KFAsyncLocker             *)
(* (LockRef ... UnlockRef), neither of which looks at the result.  The     *)
(* four calls run under one recursive mutex and are one step each.  A put  *)
(* takes no lock: it reads the global pointer and later follows it.        *)
(***************************************************************************)
EXTENDS Integers, FiniteSets

CONSTANTS
  Locker,            \* the KFAsyncLocker objects
  Initializer,       \* the KFAsyncInitializer objects
  InitializerFirst,  \* an initializer is constructed only while nobody uses the core
  CreateMayFail,     \* KFAsyncCreateWorker may fail
  Queue,             \* the queue objects that may be created (a bound)
  None               \* the null pointer

User == Locker \cup Initializer

ASSUME AsyncAssumption ==
    /\ IsFiniteSet(User)
    /\ Locker \cap Initializer = {}
    /\ InitializerFirst \in BOOLEAN
    /\ CreateMayFail \in BOOLEAN
    /\ None \notin Queue

VARIABLES
  refCount,    \* kGlobalDefaultQueue_RefCount
  serial,      \* kGlobalDefaultQueue_Serial
  parallel,    \* kGlobalDefaultQueue_Parallel
  unused,      \* queue objects not allocated yet
  freed,       \* queue objects destroyed
  pc,          \* each user: "out", "in" its scope, "checked", "use"
  pointer      \* the queue object each user is about to follow

queueVars == <<refCount, serial, parallel, unused, freed>>
vars == <<queueVars, pc, pointer>>

Init ==
    /\ refCount = 0
    /\ serial = None
    /\ parallel = None
    /\ unused = Queue
    /\ freed = {}
    /\ pc = [u \in User |-> "out"]
    /\ pointer = [u \in User |-> None]

Holders == {u \in User : pc[u] # "out"}

-----------------------------------------------------------------------------
(***************************************************************************)
(* KFGlobalStartup.  It refuses to run over a queue that exists; if the    *)
(* second queue cannot be created the first one stays.                     *)
(***************************************************************************)
KFGlobalStartup ==
    IF serial # None \/ parallel # None
    THEN UNCHANGED <<serial, parallel, unused>>
    ELSE \/ \E s, p \in unused :
               /\ s # p
               /\ serial' = s
               /\ parallel' = p
               /\ unused' = unused \ {s, p}
         \/ /\ CreateMayFail
            /\ UNCHANGED <<serial, parallel, unused>>
         \/ /\ CreateMayFail
            /\ \E s \in unused : serial' = s /\ unused' = unused \ {s}
            /\ UNCHANGED parallel

KFGlobalShutdown ==
    /\ freed' = freed \cup ({serial, parallel} \ {None})
    /\ serial' = None
    /\ parallel' = None
    /\ UNCHANGED unused

\* A count that is positive already is left alone, and a failure leaves it at 1.
KFAsyncStartup ==
    /\ IF refCount > 0
       THEN UNCHANGED <<refCount, serial, parallel, unused>>
       ELSE refCount' = 1 /\ KFGlobalStartup
    /\ UNCHANGED freed

\* Mutant of KFAsyncShutdown: the queues go when one reference is left.
KFAsyncShutdownEarly ==
    /\ refCount' = refCount - 1
    /\ IF refCount' <= 1
       THEN KFGlobalShutdown
       ELSE UNCHANGED <<serial, parallel, unused, freed>>

\* Mutant of KFAsyncShutdown: the count is tested before it is decremented.
KFAsyncShutdownLate ==
    /\ refCount' = refCount - 1
    /\ IF refCount = 0
       THEN KFGlobalShutdown
       ELSE UNCHANGED <<serial, parallel, unused, freed>>

KFAsyncShutdown ==
    /\ refCount' = refCount - 1
    /\ IF refCount' = 0
       THEN KFGlobalShutdown
       ELSE UNCHANGED <<serial, parallel, unused, freed>>

\* Mutant of KFAsyncLockRef: the count is taken only when the core is started.
KFAsyncLockRefOnce ==
    IF refCount = 0
    THEN KFAsyncStartup
    ELSE UNCHANGED queueVars

KFAsyncLockRef ==
    IF refCount = 0
    THEN KFAsyncStartup
    ELSE /\ refCount' = refCount + 1
         /\ UNCHANGED <<serial, parallel, unused, freed>>

-----------------------------------------------------------------------------
(* The users. *)

Goto(u, from, to) == pc[u] = from /\ pc' = [pc EXCEPT ![u] = to]

ConstructInitializer(u) ==
    /\ InitializerFirst => Holders = {}
    /\ Goto(u, "out", "in")
    /\ KFAsyncStartup
    /\ UNCHANGED pointer

DestructInitializer(u) ==
    /\ Goto(u, "in", "out")
    /\ KFAsyncShutdown
    /\ UNCHANGED pointer

ConstructLocker(u) ==
    /\ Goto(u, "out", "in")
    /\ KFAsyncLockRef
    /\ UNCHANGED pointer

\* KFAsyncUnlockRef is KFAsyncShutdown.
DestructLocker(u) ==
    /\ Goto(u, "in", "out")
    /\ KFAsyncShutdown
    /\ UNCHANGED pointer

\* KFAsyncPutWorkItem(Ex) on KF_ASYNC_GLOBAL_WORKER_SINGLE_THREAD or _MULTI_THREAD:
\* the pointer that stands for it is not checked, and may be null.
ReadDefault(u) ==
    /\ Goto(u, "in", "use")
    /\ \E queue \in {serial, parallel} : pointer' = [pointer EXCEPT ![u] = queue]
    /\ UNCHANGED queueVars

\* KFAsyncInvokeCallback checks the parallel queue, then reads it again to pass
\* it to KFAsyncPutWorkItemEx, which checks what it was passed.
CheckParallel(u) ==
    /\ parallel # None
    /\ Goto(u, "in", "checked")
    /\ UNCHANGED <<queueVars, pointer>>

ReadParallel(u) ==
    /\ pointer' = [pointer EXCEPT ![u] = parallel]
    /\ Goto(u, "checked", IF parallel = None THEN "in" ELSE "use")
    /\ UNCHANGED queueVars

\* The pointer is followed: my->Worker->PutWorkItem.
Use(u) ==
    /\ Goto(u, "use", "in")
    /\ pointer' = [pointer EXCEPT ![u] = None]
    /\ UNCHANGED queueVars

Next ==
    \/ \E u \in Initializer : ConstructInitializer(u) \/ DestructInitializer(u)
    \/ \E u \in Locker : ConstructLocker(u) \/ DestructLocker(u)
    \/ \E u \in User : ReadDefault(u) \/ CheckParallel(u) \/ ReadParallel(u) \/ Use(u)

SafeSpec == Init /\ [][Next]_vars

-----------------------------------------------------------------------------
\* The values of the variables; the count is never negative.
TypeOK ==
    /\ refCount \in Nat
    /\ serial \in Queue \cup {None}
    /\ parallel \in Queue \cup {None}
    /\ unused \subseteq Queue
    /\ freed \subseteq Queue
    /\ pc \in [User -> {"out", "in", "checked", "use"}]
    /\ pointer \in [User -> Queue \cup {None}]

(***************************************************************************)
(* The count is the number of helper objects in scope, although only some  *)
(* of the calls that a helper makes change it.                             *)
(***************************************************************************)
CountIsUsers == refCount = Cardinality(Holders)

\* Nothing outlives the last user: every queue created so far is destroyed.
LastUserDestroys ==
    Holders = {} => serial = None /\ parallel = None /\ unused \cup freed = Queue

(***************************************************************************)
(* A put from inside a scope, which reads the pointer of a default queue   *)
(* without the lock, follows one of the two queues there are: none that    *)
(* was destroyed since, and a null pointer only where that is all there    *)
(* is, the creation of a queue having failed.                              *)
(***************************************************************************)
UserNeverUsesFreed ==
    \A u \in User :
        pc[u] = "use" => pointer[u] \in {serial, parallel} /\ pointer[u] \notin freed

(***************************************************************************)
(* kf_async_abstract.hxx:42: after KFAsyncStartup the core is initialised; *)
(* a helper in scope finds both default queues.                            *)
(***************************************************************************)
UserFindsQueues == Holders # {} => serial # None /\ parallel # None
=============================================================================
