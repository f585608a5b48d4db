----------------------------- MODULE ThreadWorker -----------------------------
(***************************************************************************)
(* class ThreadWorker of async/kf_async_core.cxx: one task queue and the   *)
(* operating-system thread that drains it.  The thread is started on       *)
(* demand (KFThreadObject::ThreadStart), sleeps on a manual-reset event,   *)
(* leaves after an idle timeout and is started again by the next PutItem.  *)
(* It keeps the worker alive with a reference of its own.                  *)
(*                                                                         *)
(* A critical section of `_mutex' is one step.  The exception is PutItem   *)
(* when it has to start the thread: it holds the mutex across the start    *)
(* handshake, whose steps are interleaved with those of every thread.      *)
(***************************************************************************)
EXTENDS KFEvent, ArrayList

CONSTANTS
  Thread,      \* operating-system threads the worker may run on
  Item,        \* work items; each is put at most once
  Level,       \* priorities PutItem is called with
  Exit,        \* the work item in state RequestExit
  Owner,       \* the holder of the reference ThreadWorker is created with
  None,        \* no thread, no item
  Faults       \* what the operating system may do: see FaultKinds

(***************************************************************************)
(* SpuriousWake: pthread_cond_timedwait returns without a signal.          *)
(* StartFails: KFThreadCreate fails.                                       *)
(* EarlyTimeout: the idle timeout, an absolute CLOCK_REALTIME date, passes *)
(* while TaskQueueStartup has not returned from the start handshake (the   *)
(* process was suspended or the clock was set).                            *)
(***************************************************************************)
FaultKinds == {"SpuriousWake", "StartFails", "EarlyTimeout"}

ASSUME WorkerAssumption ==
    /\ Level \subseteq {"Level0", "Level1", "Level2"}
    /\ Faults \subseteq FaultKinds
    /\ Exit \notin Item
    /\ None \notin Item \cup Thread
    /\ Owner \notin Thread

VARIABLES
  queue,       \* _task_queue
  event,       \* _task_notify_event
  running,     \* _thread_running
  owner,       \* where the worker is in its life: see OwnerStates
  holders,     \* who holds a counted reference (_ref_count)
  call,        \* the call that is inside ThreadStart: "none", "startup", "put"
  starting,    \* ... the thread it has created
  notify,      \* ... whether it found the queue empty (curTaskCount == 0)
  started,     \* _started_event of that handshake
  pc,          \* where each thread is
  cur,         \* the item each thread has removed from the queue
  submitted,   \* history: the items put
  done         \* history: the items executed, in order

qVars == <<queue, submitted>>
startVars == <<call, starting, notify, started>>
lifeVars == <<owner, holders>>
workVars == <<cur, done>>
vars == <<queue, event, running, owner, holders, call, starting, notify,
          started, pc, cur, submitted, done>>

OwnerStates == {"created", "open", "closed", "released"}

(***************************************************************************)
(* Control points of OnThreadInvoke.  "entry": the thread exists;          *)
(* "begin": it has set _started_event; "wait": at or in the event wait;    *)
(* "expired": the wait timed out; "take": about to remove an item;         *)
(* "empty": nothing was removed; "exec": executing an item; "finish":      *)
(* the callback returned; "quit": a RequestExit was removed; "exit": out   *)
(* of the loop, its reference not yet given back.                          *)
(***************************************************************************)
InLoop == {"wait", "expired", "take", "empty", "exec", "finish", "quit"}
Alive  == {"entry", "begin"} \cup InLoop
PC     == {"none", "exit"} \cup Alive

Locked == call = "put"

Goto(t, from, to) == pc[t] = from /\ pc' = [pc EXCEPT ![t] = to]

Init ==
    /\ queue = << >>
    /\ event = KFEventCreate(FALSE)
    /\ running = FALSE
    /\ owner = "created"
    /\ holders = {Owner}
    /\ call = "none"
    /\ starting = None
    /\ notify = FALSE
    /\ started = FALSE
    /\ pc = [t \in Thread |-> "none"]
    /\ cur = [t \in Thread |-> None]
    /\ submitted = {}
    /\ done = << >>

-----------------------------------------------------------------------------
(* Starting a thread: StartThread, ThreadStart, DoThreadInvoke. *)

\* KFThreadCreate has succeeded; the caller now waits for _started_event.
BeginStart(t, caller) ==
    /\ Goto(t, "none", "entry")
    /\ starting' = t
    /\ call' = caller
    /\ started' = FALSE

\* The new thread sets _started_event, before it runs OnThreadInvoke.
ThreadEntry(t) ==
    /\ t = starting
    /\ Goto(t, "entry", "begin")
    /\ started' = TRUE
    /\ UNCHANGED <<qVars, event, running, lifeVars, workVars, call, starting, notify>>

(***************************************************************************)
(* The caller returns from ThreadStart and records that the thread runs.   *)
(* PutItem then notifies it, if it had found the queue empty, and unlocks. *)
(***************************************************************************)
StartDone ==
    /\ call # "none"
    /\ started
    /\ running' = TRUE
    /\ event' = IF call = "put" /\ notify THEN KFEventSetManual(event) ELSE event
    /\ owner' = IF call = "startup" THEN "open" ELSE owner
    /\ call' = "none"
    /\ starting' = None
    /\ notify' = FALSE
    /\ started' = FALSE
    /\ UNCHANGED <<qVars, holders, pc, workVars>>

-----------------------------------------------------------------------------
(* The calls of the group that owns the worker. *)

\* TaskQueueStartup(true): the queue and the event exist, no thread yet.
StartupDelayed ==
    /\ owner = "created"
    /\ call = "none"
    /\ owner' = "open"
    /\ UNCHANGED <<qVars, event, running, holders, startVars, pc, workVars>>

\* TaskQueueStartup(false): start the thread at once.
StartupThread(t) ==
    /\ owner = "created"
    /\ call = "none"
    /\ BeginStart(t, "startup")
    /\ UNCHANGED <<qVars, event, running, lifeVars, notify, workVars>>

\* ... which fails: the group gives the worker back (KF_INVALID_STATE).
StartupFails ==
    /\ "StartFails" \in Faults
    /\ owner = "created"
    /\ call = "none"
    /\ owner' = "released"
    /\ holders' = holders \ {Owner}
    /\ UNCHANGED <<qVars, event, running, startVars, pc, workVars>>

\* Where PutItem places an item among the tasks that are queued.
Place(l, i, level) ==
    CASE level = "Level0" -> AddElement(l, i)
      [] level = "Level1" -> IF Len(l) \div 2 = 0
                             THEN AddElement(l, i)
                             ELSE InsertElementAt(l, Len(l) \div 2 - 1, i)
      [] level = "Level2" -> InsertElementAt(l, 0, i)

\* The first half of PutItem: lock, count the queued tasks, add the item.
Enqueue(i, level) ==
    /\ owner = "open"
    /\ call = "none"
    /\ i \notin submitted
    /\ submitted' = submitted \cup {i}
    /\ queue' = Place(queue, i, level)

\* Mutant of PutItem: the queue is counted after the item was added.
PutItemCountsLate(i, level) ==
    /\ Enqueue(i, level)
    /\ running
    /\ event' = IF queue' = << >> THEN KFEventSetManual(event) ELSE event
    /\ UNCHANGED <<running, lifeVars, startVars, pc, workVars>>

\* The thread runs: the event is set only if no task was queued.
PutItem(i, level) ==
    /\ Enqueue(i, level)
    /\ running
    /\ event' = IF queue = << >> THEN KFEventSetManual(event) ELSE event
    /\ UNCHANGED <<running, lifeVars, startVars, pc, workVars>>

\* The thread does not run: start it, holding the mutex until StartDone.
PutItemStart(i, level, t) ==
    /\ Enqueue(i, level)
    /\ ~ running
    /\ BeginStart(t, "put")
    /\ notify' = (queue = << >>)
    /\ UNCHANGED <<event, running, lifeVars, workVars>>

\* KF_ABORT: the thread could not be started; the item stays in the queue.
PutItemAbort(i, level) ==
    /\ "StartFails" \in Faults
    /\ Enqueue(i, level)
    /\ ~ running
    /\ UNCHANGED <<event, running, lifeVars, startVars, pc, workVars>>

\* Mutant of TaskQueueShutdown: the exit request waits for its turn.
TaskQueueShutdownAtTail ==
    /\ owner = "open"
    /\ call = "none"
    /\ owner' = "closed"
    /\ queue' = AddElement(queue, Exit)
    /\ event' = KFEventSetManual(event)
    /\ UNCHANGED <<running, holders, startVars, pc, workVars, submitted>>

\* A RequestExit item goes to the head of the queue, whatever is in it.
TaskQueueShutdown ==
    /\ owner = "open"
    /\ call = "none"
    /\ owner' = "closed"
    /\ queue' = InsertElementAt(queue, 0, Exit)
    /\ event' = KFEventSetManual(event)
    /\ UNCHANGED <<running, holders, startVars, pc, workVars, submitted>>

\* GroupWorker::Shutdown drops the worker: RemoveAllElements of its list.
Release ==
    /\ owner = "closed"
    /\ owner' = "released"
    /\ holders' = holders \ {Owner}
    /\ UNCHANGED <<qVars, event, running, startVars, pc, workVars>>

-----------------------------------------------------------------------------
(* OnThreadInvoke. *)

\* Mutant of Retain: the thread relies on its owner's reference.
RetainForgotten(t) ==
    /\ holders # {}
    /\ Goto(t, "begin", "wait")
    /\ UNCHANGED <<qVars, event, running, lifeVars, startVars, workVars>>

(***************************************************************************)
(* The first statement of OnThreadInvoke.  If the owner has dropped the    *)
(* last reference by now the object is gone and the call has no meaning:   *)
(* the model stops the thread there.                                       *)
(***************************************************************************)
Retain(t) ==
    /\ holders # {}
    /\ Goto(t, "begin", "wait")
    /\ holders' = holders \cup {t}
    /\ UNCHANGED <<qVars, event, running, owner, startVars, workVars>>

WaitSleep(t) ==
    /\ pc[t] = "wait"
    /\ MustSleep(event, t)
    /\ event' = Sleep(event, t)
    /\ UNCHANGED <<qVars, running, lifeVars, startVars, pc, workVars>>

WaitReturn(t) ==
    /\ MayReturn(event, t)
    /\ Goto(t, "wait", "take")
    /\ event' = Return(event, t, TRUE)
    /\ UNCHANGED <<qVars, running, lifeVars, startVars, workVars>>

WaitTimeOut(t) ==
    /\ MayGiveUp(event, t)
    /\ Goto(t, "wait", "expired")
    /\ event' = TimeOut(event, t)
    /\ UNCHANGED <<qVars, running, lifeVars, startVars, workVars>>

WaitSpurious(t) ==
    /\ "SpuriousWake" \in Faults
    /\ pc[t] = "wait"
    /\ MayGiveUp(event, t)
    /\ event' = SpuriousWake(event, t)
    /\ UNCHANGED <<qVars, running, lifeVars, startVars, pc, workVars>>

\* Mutants of Expired: _thread_running is cleared before the queue is looked at;
\* it is not cleared; the thread never leaves.
ExpiredClearsFirst(t) ==
    /\ ~ Locked
    /\ running' = FALSE
    /\ Goto(t, "expired", IF queue = << >> THEN "exit" ELSE "wait")
    /\ UNCHANGED <<qVars, event, lifeVars, startVars, workVars>>

ExpiredStaysRunning(t) ==
    /\ ~ Locked
    /\ Goto(t, "expired", IF queue = << >> THEN "exit" ELSE "wait")
    /\ UNCHANGED <<qVars, event, running, lifeVars, startVars, workVars>>

ExpiredNeverLeaves(t) ==
    /\ ~ Locked
    /\ Goto(t, "expired", "wait")
    /\ UNCHANGED <<qVars, event, running, lifeVars, startVars, workVars>>

\* Timed out: leave if there is nothing to do, otherwise wait again.
Expired(t) ==
    /\ ~ Locked
    /\ call = "startup" => "EarlyTimeout" \in Faults
    /\ IF queue = << >>
       THEN Goto(t, "expired", "exit") /\ running' = FALSE
       ELSE Goto(t, "expired", "wait") /\ UNCHANGED running
    /\ UNCHANGED <<qVars, event, lifeVars, startVars, workVars>>

RemoveFirst(t) ==
    /\ ~ Locked
    /\ pc[t] = "take"
    /\ queue # << >>
    /\ queue' = RemoveElement(queue, 0)
    /\ IF Head(queue) = Exit
       THEN Goto(t, "take", "quit") /\ UNCHANGED cur
       ELSE Goto(t, "take", "exec") /\ cur' = [cur EXCEPT ![t] = Head(queue)]
    /\ UNCHANGED <<event, running, lifeVars, startVars, submitted, done>>

RemoveNothing(t) ==
    /\ ~ Locked
    /\ queue = << >>
    /\ Goto(t, "take", "empty")
    /\ UNCHANGED <<qVars, event, running, lifeVars, startVars, workVars>>

\* The lock was released since RemoveNothing; the queue is not looked at again.
ResetEvent(t) ==
    /\ ~ Locked
    /\ Goto(t, "empty", "wait")
    /\ event' = KFEventReset(event)
    /\ UNCHANGED <<qVars, running, lifeVars, startVars, workVars>>

\* The callback runs to its end, without the lock.
Execute(t) ==
    /\ Goto(t, "exec", "finish")
    /\ done' = Append(done, cur[t])
    /\ cur' = [cur EXCEPT ![t] = None]
    /\ UNCHANGED <<qVars, event, running, lifeVars, startVars>>

\* No task left: reset the event and wait.  Otherwise skip the wait.
FinishTask(t) ==
    /\ ~ Locked
    /\ IF queue = << >>
       THEN Goto(t, "finish", "wait") /\ event' = KFEventReset(event)
       ELSE Goto(t, "finish", "take") /\ UNCHANGED event
    /\ UNCHANGED <<qVars, running, lifeVars, startVars, workVars>>

\* RequestExit: throw away the queue and leave; _thread_running stays true.
Quit(t) ==
    /\ ~ Locked
    /\ Goto(t, "quit", "exit")
    /\ queue' = RemoveAllElements(queue)
    /\ UNCHANGED <<submitted, event, running, lifeVars, startVars, workVars>>

\* Mutant of OnThreadExit: the thread keeps its reference.
OnThreadExitLeaks(t) ==
    /\ Goto(t, "exit", "none")
    /\ UNCHANGED <<qVars, event, running, lifeVars, startVars, workVars>>

\* OnThreadExit: the thread's own reference.
OnThreadExit(t) ==
    /\ Goto(t, "exit", "none")
    /\ holders' = holders \ {t}
    /\ UNCHANGED <<qVars, event, running, owner, startVars, workVars>>

-----------------------------------------------------------------------------
OwnerNext ==
    \/ StartupDelayed
    \/ \E t \in Thread : StartupThread(t)
    \/ StartupFails
    \/ \E i \in Item, level \in Level : PutItem(i, level)
    \/ \E i \in Item, level \in Level, t \in Thread : PutItemStart(i, level, t)
    \/ \E i \in Item, level \in Level : PutItemAbort(i, level)
    \/ TaskQueueShutdown
    \/ Release

\* What a thread does by itself, as opposed to what time or POSIX does to it.
ThreadNext(t) ==
    \/ ThreadEntry(t) \/ Retain(t)
    \/ WaitSleep(t) \/ WaitReturn(t) \/ Expired(t)
    \/ RemoveFirst(t) \/ RemoveNothing(t) \/ ResetEvent(t)
    \/ Execute(t) \/ FinishTask(t) \/ Quit(t) \/ OnThreadExit(t)

Next ==
    \/ OwnerNext
    \/ StartDone
    \/ \E t \in Thread : ThreadNext(t) \/ WaitTimeOut(t) \/ WaitSpurious(t)

SafeSpec == Init /\ [][Next]_vars

(***************************************************************************)
(* Fairness: the scheduler runs every thread that can run, a callback      *)
(* returns, the start handshake ends and its caller runs, and an idle      *)
(* timeout elapses.  No caller has to put anything or shut down.           *)
(***************************************************************************)
Spec ==
    /\ SafeSpec
    /\ WF_vars(StartDone)
    /\ \A t \in Thread : WF_vars(ThreadNext(t)) /\ WF_vars(WaitTimeOut(t))

-----------------------------------------------------------------------------
(***************************************************************************)
(* The worker as a WorkQueue.  Shutting down empties the pending sequence  *)
(* at once: what stays in the list behind the RequestExit never runs.      *)
(***************************************************************************)
Closed  == owner \notin {"created", "open"}
Pending == IF Closed THEN << >> ELSE queue
Active  == {cur[t] : t \in Thread} \ {None}

WQ == INSTANCE WorkQueue WITH pending <- Pending, active <- Active, closed <- Closed

\* The values of the worker's variables.
TypeOK ==
    /\ queue \in Seq(Item \cup {Exit})
    /\ event \in EventValue(Thread)
    /\ running \in BOOLEAN
    /\ owner \in OwnerStates
    /\ holders \subseteq Thread \cup {Owner}
    /\ call \in {"none", "startup", "put"}
    /\ starting \in Thread \cup {None}
    /\ notify \in BOOLEAN
    /\ started \in BOOLEAN
    /\ pc \in [Thread -> PC]
    /\ cur \in [Thread -> Item \cup {None}]
    /\ submitted \subseteq Item
    /\ done \in Seq(Item)

(***************************************************************************)
(* One thread at most serves the worker, although a thread that timed out  *)
(* and the thread that the next PutItem starts overlap: _thread_running is *)
(* cleared in the critical section that saw the queue empty.  Callbacks of *)
(* one worker therefore never run concurrently.                            *)
(***************************************************************************)
SingleThread ==
    \A t, u \in Thread : pc[t] \in Alive /\ pc[u] \in Alive => t = u

(***************************************************************************)
(* Every step of the loop, up to and including the last Recycle, finds the *)
(* worker object still allocated, although the owner may drop it at any    *)
(* moment: the Retain at the top of OnThreadInvoke pays for it.            *)
(***************************************************************************)
LoopFindsWorkerAlive ==
    (\E t \in Thread : pc[t] \in InLoop \cup {"exit"}) => holders # {}

(***************************************************************************)
(* ... but the thread sets _started_event, which lets the owner go on,     *)
(* before that Retain.  kf_async_abstract.hxx:51 lets a worker be          *)
(* destroyed at any time, the threads leaving later: the Retain finds the  *)
(* worker allocated.                                                       *)
(***************************************************************************)
RetainFindsWorkerAlive == \A t \in Thread : pc[t] = "begin" => holders # {}

(***************************************************************************)
(* No lost wake-up: while something is queued nobody sleeps on the event   *)
(* (a PutItem still inside its critical section has not set it yet).       *)
(* PutItem depends on it, as it sets the event only when it finds the      *)
(* queue empty.                                                            *)
(***************************************************************************)
NoSleepOnWork == queue # << >> /\ ~ Locked => event.waiting = {}

\* An open worker with queued tasks has a thread: the thread that leaves on its
\* idle timeout and the PutItem that must restart it cannot miss each other.
OpenWorkerIsServed ==
    owner = "open" /\ queue # << >> => \E t \in Thread : pc[t] \in Alive

\* The worker implements WorkQueue's safety part: order, at most once, one at a
\* time, nothing new after TaskQueueShutdown.
ImplementsWorkQueue == WQ!SafeSpec

\* ... and its fairness: every task of an open worker is taken and finished.
ServesWorkQueue == WQ!Spec

\* A worker its owner has dropped is destroyed in the end: the references of the
\* threads that ever ran for it do not leak.
ReleasedIsFreed == (owner = "released") ~> (holders = {})

(***************************************************************************)
(* A worker that is given no more work gives its thread back after the     *)
(* idle timeout, open or closed ("begin" is the thread whose worker was    *)
(* destroyed before its Retain).                                           *)
(***************************************************************************)
ThreadsLeave == <>[](\A t \in Thread : pc[t] \in {"none", "begin"})
=============================================================================
