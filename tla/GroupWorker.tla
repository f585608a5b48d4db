------------------------------ MODULE GroupWorker ------------------------------
(***************************************************************************)
(* class GroupWorker of async/kf_async_core.cxx: a list of ThreadWorkers   *)
(* and the rule by which a work item is given to one of them.  It is what  *)
(* KFAsyncCreateWorker builds and KFAsyncDestroyWorker shuts down.         *)
(*                                                                         *)
(* The group's lock is held from the start of PutWorkItem to its end, but  *)
(* the workers' own locks are not: the item counts the group reads go out  *)
(* of date as the workers drain their queues, so each GetItemCount is a    *)
(* step of its own.  A worker is represented by what WorkQueue says of it, *)
(* which module ThreadWorker is shown to implement.                        *)
(***************************************************************************)
EXTENDS Integers, FiniteSets, SequencesExt

CONSTANTS
  Item,        \* work items; each is accepted at most once
  Level,       \* the priorities PutWorkItem passes on
  Worker,      \* the ThreadWorker objects that may be created (a bound)
  None,        \* no item, no worker
  Request,     \* values of max_threads in KFAsyncCreateWorker
  CpuCount,    \* KFSystemCpuCount()
  Faults       \* {"StartFails"} if KFThreadCreate may fail

Infinite == -1 \* KF_ASYNC_WORKER_THREADS_INFINITE

ASSUME GroupAssumption ==
    /\ Level \subseteq {"Level0", "Level2"}
    /\ Request \subseteq Int
    /\ CpuCount \in Nat \ {0}
    /\ Faults \subseteq {"StartFails"}
    /\ None \notin Item \cup Worker
    /\ Worker # {}

VARIABLES
  life,        \* "created", "open" after Startup, "shutdown" after Shutdown
  max,         \* _max_threads
  threads,     \* _threads
  put,         \* the PutWorkItem that holds the lock: see PutState
  mode,        \* each worker's thread: "off", "on", or "stalled" (below)
  opened,      \* the workers whose task queue is started and not shut down
  pending,     \* each worker's queue
  active,      \* the item each worker executes
  accepted,    \* history: the items that reached a queue, in order
  done         \* history: the items executed, in order

workVars == <<mode, opened, pending, active, accepted, done>>
groupVars == <<life, max, threads>>
vars == <<groupVars, put, workVars>>

(***************************************************************************)
(* The local variables of InternalPutWorkItem.  `at' is where it is:       *)
(* "idle" and "least" are its two loops, at index k; "recheck" is the      *)
(* second GetItemCount; "submit" gives the item to threads[k]; "create"    *)
(* starts a new worker, which is `new' while it is given the item ("fill") *)
(* and added to the list ("enter").  `best' and `tasks' are                *)
(* cur_thread_index and cur_thread_tasks (0 for INT32_MAX).  `floor' is a  *)
(* history: the number of tasks each worker had when the call began.       *)
(***************************************************************************)
NoPut == [at |-> "none"]
Phase == {"idle", "recheck", "create", "fill", "enter", "least", "submit"}
PutState ==
    [at : Phase, item : Item, level : Level, k : Nat \ {0}, best : Nat \ {0}, tasks : Nat,
     new : Worker \cup {None}, floor : [Worker -> Nat]]

Locked == put # NoPut

\* The worker that a put has started and not yet added to the list.
Unlisted == IF put.at \in {"fill", "enter"} THEN {put.new} ELSE {}
Members == ToSet(threads) \cup Unlisted

GetItemCount(w) == Len(pending[w])

\* The next ThreadWorker object to be created.
Fresh == CHOOSE w \in Worker : mode[w] = "none"
CanAllocate == \E w \in Worker : mode[w] = "none"

Init ==
    /\ life = "created"
    /\ max = 0
    /\ threads = << >>
    /\ put = NoPut
    /\ mode = [w \in Worker |-> "none"]
    /\ opened = {}
    /\ pending = [w \in Worker |-> << >>]
    /\ active = [w \in Worker |-> None]
    /\ accepted = << >>
    /\ done = << >>

-----------------------------------------------------------------------------
(* Startup and Shutdown, each called once. *)

EffectiveMax(parallel, request) ==
    LET asked == IF parallel THEN request ELSE 1
    IN  IF asked = Infinite \/ asked > 0 THEN asked ELSE CpuCount + 1

\* The first worker is created; its thread starts with its first item.
Startup(parallel, request) ==
    /\ life = "created"
    /\ life' = "open"
    /\ max' = EffectiveMax(parallel, request)
    /\ threads' = <<Fresh>>
    /\ mode' = [mode EXCEPT ![Fresh] = "off"]
    /\ opened' = opened \cup {Fresh}
    /\ UNCHANGED <<put, pending, active, accepted, done>>

\* Mutant of Shutdown: the tasks that wait are still executed.
ShutdownKeepsTasks ==
    /\ life = "open"
    /\ ~ Locked
    /\ life' = "shutdown"
    /\ opened' = opened \ ToSet(threads)
    /\ threads' = << >>
    /\ UNCHANGED <<max, put, mode, pending, active, accepted, done>>

(***************************************************************************)
(* TaskQueueShutdown on every worker of the list.  The workers are closed  *)
(* one after the other; as nobody but a worker itself sees its queue while *)
(* the lock is held, closing them together loses nothing.                  *)
(***************************************************************************)
Shutdown ==
    /\ life = "open"
    /\ ~ Locked
    /\ life' = "shutdown"
    /\ opened' = opened \ ToSet(threads)
    /\ pending' = [w \in Worker |-> IF w \in ToSet(threads) THEN << >> ELSE pending[w]]
    /\ threads' = << >>
    /\ UNCHANGED <<max, put, mode, active, accepted, done>>

-----------------------------------------------------------------------------
(* PutWorkItem and InternalPutWorkItem. *)

\* Mutant of CanCreate: one thread too many.
CanCreateOneMore == max = Infinite \/ Len(threads) <= max

CanCreate == max = Infinite \/ Len(threads) < max

PutWorkItem(i, level) ==
    /\ life = "open"
    /\ ~ Locked
    /\ i \notin ToSet(accepted)
    /\ put' = [at    |-> IF CanCreate THEN "idle"
                         ELSE IF Len(threads) = 1 THEN "submit" ELSE "least",
               item  |-> i, level |-> level, k |-> 1, best |-> 1, tasks |-> 0,
               new   |-> None,
               floor |-> [w \in Worker |-> GetItemCount(w)]]
    /\ UNCHANGED <<groupVars, workVars>>

\* Look for a worker with no task; end with the last one if there is none.
ScanForIdle ==
    /\ put.at = "idle"
    /\ put' = IF GetItemCount(threads[put.k]) = 0 \/ put.k = Len(threads)
              THEN [put EXCEPT !.at = "recheck"]
              ELSE [put EXCEPT !.k = @ + 1]
    /\ UNCHANGED <<groupVars, workVars>>

\* Mutant of Recheck: why the loop ended is not looked at.
RecheckForgotten ==
    /\ put.at = "recheck"
    /\ put' = [put EXCEPT !.at = "create"]
    /\ UNCHANGED <<groupVars, workVars>>

Recheck ==
    /\ put.at = "recheck"
    /\ put' = [put EXCEPT !.at =
                 IF GetItemCount(threads[put.k]) = 0 THEN "submit" ELSE "create"]
    /\ UNCHANGED <<groupVars, workVars>>

\* Mutant of ScanForLeast: the fewest tasks seen so far are not recorded.
ScanForLeastForgets ==
    /\ put.at = "least"
    /\ LET n == GetItemCount(threads[put.k])
       IN  put' = IF n = 0 THEN [put EXCEPT !.at = "submit"]
                  ELSE IF put.k = Len(threads)
                  THEN [put EXCEPT !.at = "submit", !.k = Len(threads)]
                  ELSE [put EXCEPT !.k = @ + 1]
    /\ UNCHANGED <<groupVars, workVars>>

\* The first worker with no task; otherwise the first with the fewest.
ScanForLeast ==
    /\ put.at = "least"
    /\ LET n == GetItemCount(threads[put.k])
           fewer == put.tasks = 0 \/ n < put.tasks
           best == IF fewer THEN put.k ELSE put.best
       IN  put' = IF n = 0 THEN [put EXCEPT !.at = "submit"]
                  ELSE IF put.k = Len(threads)
                  THEN [put EXCEPT !.at = "submit", !.k = best]
                  ELSE [put EXCEPT !.k = @ + 1, !.best = best,
                                   !.tasks = IF fewer THEN n ELSE @]
    /\ UNCHANGED <<groupVars, workVars>>

Place(q) == IF put.level = "Level2" THEN <<put.item>> \o q ELSE Append(q, put.item)

\* Mutant of Submit: the thread that left is not started again.
SubmitStartsNoThread ==
    /\ put.at = "submit"
    /\ pending' = [pending EXCEPT ![threads[put.k]] = Place(@)]
    /\ accepted' = Append(accepted, put.item)
    /\ put' = NoPut
    /\ UNCHANGED <<groupVars, mode, opened, active, done>>

\* PutItem on the chosen worker, which starts the thread if it does not run.
Submit ==
    /\ put.at = "submit"
    /\ LET w == threads[put.k]
       IN  /\ pending' = [pending EXCEPT ![w] = Place(@)]
           /\ mode' = [mode EXCEPT ![w] = IF @ = "off" THEN "on" ELSE @]
    /\ accepted' = Append(accepted, put.item)
    /\ put' = NoPut
    /\ UNCHANGED <<groupVars, opened, active, done>>

(***************************************************************************)
(* PutItem's KF_ABORT: the caller is told of a failure but the item stays  *)
(* in the queue.  From now on PutItem finds the queue non-empty and never  *)
(* sets the event: the worker serves nothing more.  See ThreadWorker.      *)
(***************************************************************************)
SubmitAborts ==
    /\ "StartFails" \in Faults
    /\ put.at = "submit"
    /\ LET w == threads[put.k]
       IN  /\ mode[w] # "on"
           /\ pending' = [pending EXCEPT ![w] = Place(@)]
           /\ mode' = [mode EXCEPT ![w] = "stalled"]
    /\ accepted' = Append(accepted, put.item)
    /\ put' = NoPut
    /\ UNCHANGED <<groupVars, opened, active, done>>

\* TaskQueueStartup(false): a new worker, and its thread.
StartWorker ==
    /\ put.at = "create"
    /\ CanAllocate
    /\ mode' = [mode EXCEPT ![Fresh] = "on"]
    /\ opened' = opened \cup {Fresh}
    /\ put' = [put EXCEPT !.at = "fill", !.new = Fresh]
    /\ UNCHANGED <<groupVars, pending, active, accepted, done>>

\* TaskQueueStartup fails: KF_INVALID_STATE, the item goes nowhere.
CreateWorkerFails ==
    /\ "StartFails" \in Faults
    /\ put.at = "create"
    /\ put' = NoPut
    /\ UNCHANGED <<groupVars, workVars>>

\* Mutant of FillWorker: the last worker looked at gets the item, too.
FillWorkerTwice ==
    /\ put.at = "fill"
    /\ mode' = [mode EXCEPT ![put.new] = IF @ = "off" THEN "on" ELSE @]
    /\ pending' = [pending EXCEPT ![put.new] = Place(@), ![threads[put.k]] = Place(@)]
    /\ accepted' = Append(accepted, put.item)
    /\ put' = [put EXCEPT !.at = "enter"]
    /\ UNCHANGED <<groupVars, opened, active, done>>

\* PutItem on the new worker, whose thread may have left again meanwhile.
FillWorker ==
    /\ put.at = "fill"
    /\ mode' = [mode EXCEPT ![put.new] = IF @ = "off" THEN "on" ELSE @]
    /\ pending' = [pending EXCEPT ![put.new] = Place(@)]
    /\ accepted' = Append(accepted, put.item)
    /\ put' = [put EXCEPT !.at = "enter"]
    /\ UNCHANGED <<groupVars, opened, active, done>>

\* Mutant of FillWorkerAborts: the worker is not shut down.
FillWorkerAbortsOpen ==
    /\ "StartFails" \in Faults
    /\ put.at = "fill"
    /\ mode[put.new] # "on"
    /\ put' = NoPut
    /\ UNCHANGED <<groupVars, workVars>>

(***************************************************************************)
(* Its thread has left and cannot be started again: the worker is shut     *)
(* down and given back, with the item PutItem left in its queue, and the   *)
(* caller is told KF_INVALID_STATE.                                        *)
(***************************************************************************)
FillWorkerAborts ==
    /\ "StartFails" \in Faults
    /\ put.at = "fill"
    /\ mode[put.new] # "on"
    /\ opened' = opened \ {put.new}
    /\ put' = NoPut
    /\ UNCHANGED <<groupVars, mode, pending, active, accepted, done>>

\* Mutant of EnterWorker: AddElement is forgotten.
EnterWorkerForgotten ==
    /\ put.at = "enter"
    /\ put' = NoPut
    /\ UNCHANGED <<groupVars, workVars>>

\* AddElement: the new worker, which may have run its item by now, is listed.
EnterWorker ==
    /\ put.at = "enter"
    /\ threads' = Append(threads, put.new)
    /\ put' = NoPut
    /\ UNCHANGED <<life, max, workVars>>

-----------------------------------------------------------------------------
(* The workers, as WorkQueue describes them. *)

Take(w) ==
    /\ mode[w] = "on"
    /\ active[w] = None
    /\ pending[w] # << >>
    /\ active' = [active EXCEPT ![w] = Head(pending[w])]
    /\ pending' = [pending EXCEPT ![w] = Tail(@)]
    /\ UNCHANGED <<groupVars, put, mode, opened, accepted, done>>

Finish(w) ==
    /\ active[w] # None
    /\ done' = Append(done, active[w])
    /\ active' = [active EXCEPT ![w] = None]
    /\ UNCHANGED <<groupVars, put, mode, opened, pending, accepted>>

\* The idle timeout: the thread leaves, the worker stays in the list.
Leave(w) ==
    /\ mode[w] = "on"
    /\ active[w] = None
    /\ pending[w] = << >>
    /\ mode' = [mode EXCEPT ![w] = "off"]
    /\ UNCHANGED <<groupVars, put, opened, pending, active, accepted, done>>

-----------------------------------------------------------------------------
PutStep ==
    \/ ScanForIdle
    \/ Recheck
    \/ ScanForLeast
    \/ Submit
    \/ SubmitAborts
    \/ StartWorker
    \/ CreateWorkerFails
    \/ FillWorker
    \/ FillWorkerAborts
    \/ EnterWorker

Next ==
    \/ \E parallel \in BOOLEAN, r \in Request : Startup(parallel, r)
    \/ Shutdown
    \/ \E i \in Item, level \in Level : PutWorkItem(i, level)
    \/ PutStep
    \/ \E w \in Worker : Take(w) \/ Finish(w) \/ Leave(w)

SafeSpec == Init /\ [][Next]_vars

(***************************************************************************)
(* Fairness: a call of PutWorkItem comes to its end, and each worker does  *)
(* what ThreadWorker's ServesWorkQueue promises of it.                     *)
(***************************************************************************)
Spec ==
    /\ SafeSpec
    /\ WF_vars(PutStep)
    /\ \A w \in Worker : WF_vars(Take(w)) /\ WF_vars(Finish(w))

-----------------------------------------------------------------------------
\* The values the group's variables and the locals of a put may have.
TypeOK ==
    /\ life \in {"created", "open", "shutdown"}
    /\ max \in Nat \cup {Infinite}
    /\ threads \in Seq(Worker)
    /\ put \in PutState \cup {NoPut}
    /\ mode \in [Worker -> {"none", "off", "on", "stalled"}]
    /\ opened \subseteq Worker
    /\ pending \in [Worker -> Seq(Item)]
    /\ active \in [Worker -> Item \cup {None}]
    /\ accepted \in Seq(Item)
    /\ done \in Seq(Item)

\* The group never has more workers than Startup fixed.
ThreadsBounded == max # Infinite => Len(threads) <= max

(***************************************************************************)
(* A worker that was started and never told to leave is in the list, once, *)
(* or in the hands of the put that is creating it: whichever of the three  *)
(* steps of creating a worker fails, and whatever its thread does between  *)
(* them, Shutdown reaches every worker that could still run tasks.         *)
(***************************************************************************)
OpenWorkersListed ==
    /\ opened = Members
    /\ IsInjective(threads)
    /\ \A w \in Unlisted : w \notin ToSet(threads)

Held(w) == ToSet(pending[w]) \cup ({active[w]} \ {None})

\* Whatever worker an item ends up on, it is queued, executing or executed in
\* one place only, and once there.
EachItemOnce ==
    /\ IsInjective(done)
    /\ \A w \in Worker :
         /\ IsInjective(pending[w])
         /\ active[w] \notin ToSet(pending[w])
         /\ Held(w) \cap ToSet(done) = {}
    /\ \A v, w \in Worker : v # w => Held(v) \cap Held(w) = {}

(***************************************************************************)
(* The counts are read one by one while the workers drain their queues;    *)
(* still the worker that gets the item has no more tasks than any worker   *)
(* of the group had when the call began.                                   *)
(***************************************************************************)
LeastLoaded ==
    put.at = "submit" =>
        \A n \in DOMAIN threads : GetItemCount(threads[put.k]) <= put.floor[threads[n]]

\* A thread is added only when every worker had queued tasks as the call began.
GrowsUnderLoad ==
    put.at = "create" => \A n \in DOMAIN threads : put.floor[threads[n]] > 0

\* A put creates a thread only if every worker had queued tasks when the call began,
\* although the counts are read one by one while they fall, and never one more than
\* Startup fixed.
GrowsAsAllowed == ThreadsBounded /\ GrowsUnderLoad

(***************************************************************************)
(* Until Shutdown no accepted item is stranded: it has been executed, or a *)
(* worker in the list, or about to enter it, has it whose thread runs, or  *)
(* it is queued at a worker whose thread could not be started.  A thread   *)
(* that left for want of work is started again by the put that finds it    *)
(* gone.                                                                   *)
(***************************************************************************)
NothingStranded ==
    life # "shutdown" =>
        \A i \in ToSet(accepted) \ ToSet(done) : \E w \in Members :
            \/ mode[w] = "on" /\ i \in Held(w)
            \/ mode[w] = "stalled" /\ i \in ToSet(pending[w])

Serial == max = 1

SerialQueue == INSTANCE WorkQueue WITH
    submitted <- IF Serial THEN ToSet(accepted) ELSE {},
    pending   <- IF Serial /\ threads # << >> THEN pending[threads[1]] ELSE << >>,
    active    <- IF Serial THEN {active[w] : w \in Worker} \ {None} ELSE {},
    done      <- IF Serial THEN done ELSE << >>,
    closed    <- Serial /\ life = "shutdown"

(***************************************************************************)
(* A group with one thread (KFAsyncCreateWorker(false, ...), the global    *)
(* serial queue) is a WorkQueue.  Other groups are mapped to an empty one. *)
(***************************************************************************)
SerialImplementsWorkQueue == SerialQueue!SafeSpec

(***************************************************************************)
(* Every accepted item is executed, unless the group is shut down or the   *)
(* item sits on a worker whose thread could not be started.                *)
(***************************************************************************)
AcceptedIsExecuted ==
    \A i \in Item :
        i \in ToSet(accepted) ~>
            \/ i \in ToSet(done)
            \/ life = "shutdown"
            \/ \E w \in Worker : mode[w] = "stalled" /\ i \in ToSet(pending[w])
=============================================================================
