# kfasynctest: a verification project

TLA+ models of this repository - the asynchronous core, the timed and the plain
event queue, the attribute store, and the HTTP downloader built on them -
checked with TLC and proved with TLAPS: every safety property of a passing run
has a theorem, what is left to TLC alone is liveness.  Every definition is
translated from the sources; `PROJECT.json` maps each one to the lines it
stands for.

## 1. The system

| Component | Source | State | Operations |
|---|---|---|---|
| event object | `sys/kf_sys_platform_event.c` | a flag, a mutex, a condition variable | Create, Set, Reset, Wait, WaitTimed |
| object array list | `base/kf_array_list.cxx` | a sequence in two alternating buffers | Add, InsertAt, Remove, RemoveAll |
| thread worker | `async/kf_async_core.cxx:74`, `async/kf_thread_object.cxx` | task queue, event, `_thread_running`, reference count | TaskQueueStartup/Shutdown, PutItem, the thread's loop |
| group worker | `async/kf_async_core.cxx:381` | list of thread workers, `_max_threads`, `_shutdown` | Startup, Shutdown, PutWorkItem |
| global queues, worker API | `async/kf_async_core.cxx:678` | two default groups and their count | KFAsyncStartup/Shutdown/LockRef/UnlockRef, Create/DestroyWorker, PutWorkItem(Ex), InvokeCallback |
| async event queue | `async/kf_async_event_queue.cxx` | queue of events, auto-reset event, `_closed`, `_waiting`, a serial worker | Startup, Shutdown, GetEvent, Begin/EndGetEvent, QueueEvent |
| timed event queue | `async/kf_timed_event.cxx`, `kf_timed_event_state.cxx` | ordered list, two condition variables, a thread, `_bStarted`, `_bStopped` | Startup, Shutdown (flush or skip, sync or async), Post*, Cancel* |
| completion notify | `sys/kf_sys_completion_notify.c` | a count, a target, a force-wake value, an auto-reset event | TryWake, ForceWake, Wait |
| attributes | `base/kf_attr.cxx`, `utils/auto_rwlock.hxx` | a list of named values, a readers/writer lock | Set*, Get*, Delete, Clear, CopyItem, CopyAllItems, MatchItem, MatchAllItems, SaveToBuffer, LoadFromBuffer |
| memory buffer | `base/kf_buffer.cxx` | bytes, a room and a length | create, copy in, merge a list |
| fast list | `base/kf_fast_list.cxx` | a doubly linked ring with a null node | Begin, Prev, push, insert, remove, clear |
| result, event, delegates | `async/kf_async_result.cxx`, `kf_async_event.cxx`, `base/kf_delegate_object.cxx` | records behind a lock | accessors |
| platform layer | `sys/` | wrappers of pthread, Win32, stdio | |
| HTTP downloader | `kf_jp_curl_downloader.cxx` | settings (an attribute store), posted parts, a libcurl handle, the task's result and received pieces | Set*, StartTask, CloseTask, OnInvoke |
| file logger | `utils/dbg/logger_fileio.cxx` | a counter; a client of a worker | Start, Stop, Post |

How they interact.  A user calls `KFAsyncPutWorkItem`, which follows a pointer
(the caller's, or a global read without a lock) to a **group worker**.  Under
the group's mutex the group reads the item counts of its **thread workers**,
each under that worker's own mutex and one after the other, and gives the item
to one of them or creates one.  `PutItem` adds to the worker's **list**, starts
a thread if none runs (and waits for its start handshake holding the worker's
mutex), and sets the worker's **event** if the list was empty.  The thread
sleeps on the event, takes one item at a time, calls back without a lock, and
leaves on an exit request or after an idle timeout.  The event queue runs its
waiting callback on a serial worker of its own.  The **timed event queue** has
its own thread, which sleeps on one condition variable while the list is empty
and on another until the first entry is due; it shares `_bStarted` and
`_bStopped` with its users without a lock.  The **downloader** runs a transfer
as a work item on the worker its user names, calls libcurl, which calls back
with each piece received, and posts its report to the default parallel queue.
Its settings are an **attribute store**, which the user changes from other
threads; a store that is copied into or compared with another calls it while it
holds its own lock.  Lifetimes are reference counts; a thread holds one on its
worker.

### What is hard here

* a thread that leaves on its idle timeout against the put that must find it
  or start another (`_thread_running`);
* setting the event only when the queue was empty, resetting it after the lock
  was released, an `if` where a condition variable needs a loop;
* a thread that keeps alive the object that started it, taking the reference
  only after it has reported that it runs;
* decisions taken on counts that go out of date while they are read;
* a start that fails half-way: of a thread, of a worker, of the second queue;
* one count shared by two kinds of users; pointers read without a lock;
* an auto-reset event that is reset outside the lock, by a reader that saw an
  event queued, while the next event's Set is on its way; with two readers;
* an entry looked up before a timed wait and executed after it, when it may have
  been cancelled, or something earlier posted; which of two condition variables
  a post or a cancellation has to signal; a shutdown that is itself an entry of
  the list, to be put behind what it flushes, and that can be cancelled;
* an operation on two stores that takes one lock after the other, with other
  threads writing to either between its steps;
* settings read one by one while they change; a handle that remembers pointers
  of an earlier task; a failure reported by one step and overwritten by the next.

`PROJECT.json` lists every hazard at its line with the properties about it.

## 2. The modules

    WorkQueue  <- implemented by -  ThreadWorker  - uses ->  KFEvent, ArrayList
        ^                                ^
        |                                |  represented by WorkQueue's steps
        +-- implemented by (serial) -- GroupWorker
                                         ^
                                         |  the objects counted and freed by
                                      AsyncCore

    AsyncEventQueue - uses -> KFEvent (its worker is a counter of work items)

    TimerContract  <- implemented by -  TimedEventQueue  - uses ->  FastList

    Attributes - uses -> AttrStore <- uses - Downloader - uses -> MemoryBuffer

* **KFEvent** - the value of an event and what each call does to it: `waiting`
  are the sleepers, `woken` those the condition variable has released but
  which have not returned.  Between the two, `state` may change again: the C
  code does not test it a second time.
* **ArrayList** - list operations as operators on sequences.
  `InsertElementAt` puts an element before index 0 but *after* any other
  index, as the code does.
* **WorkQueue** - the abstract specification of a worker: items wait in a
  sequence, one at a time is taken from the head and finished; closing
  discards what waits.
* **ThreadWorker** - one action per critical section.  `pc[t]` is the control
  point of thread `t` in `OnThreadInvoke`; `call`, `starting`, `started`,
  `notify` are the state of a call inside `ThreadStart`; `holders` is the set
  of references whose size is `_ref_count`; `owner` is where the group has
  got to with the worker.  `Locked` (a PutItem inside the handshake) blocks
  all critical sections.  `Faults` chooses what the environment may do:
  spurious returns, thread starts that fail, an idle timeout that passes while
  the start call has not returned.
* **GroupWorker** - `PutWorkItem` holds the group's lock; each `GetItemCount`
  is a step (`ScanForIdle`, `Recheck`, `ScanForLeast`) between which workers
  take, finish and leave.  `put` holds the locals of the call.  Creating a
  worker is three steps, `StartWorker`, `FillWorker` and `EnterWorker`, between
  which its thread already runs, and each may fail: `opened` are the workers
  whose task queue was started and not shut down, listed or not.  A worker is
  represented by its pending sequence, its active item and whether its thread
  runs; "stalled" is a worker whose thread could not be started for a queued
  item, which the model of the thread worker shows to serve nothing after that.
* **AsyncCore** - the reference count, the two global pointers, which queue
  objects exist and which are freed, and users that are the scoped helpers
  KFAsyncInitializer and KFAsyncLocker.  A put reads one of the two pointers and
  follows it in a later step (`ReadDefault`, `Use`); only
  `KFAsyncInvokeCallback` tests it for null first (`CheckParallel`).
* **AsyncEventQueue** - `queue`, `event`, `waiting` are the fields; `pc[c]` is
  consumer `c`'s place in `GetEvent` (before the reset, at the wait, before
  `Recycle`, before the last critical section), `exec` that of the worker in
  `OnInvoke`, `requests` the work items not begun.  The counted references are
  derived from them (`Referenced`).  `orderly` is chosen in the initial state:
  when it holds, users read one at a time (a GetEvent, or a BeginGetEvent
  whose EndGetEvent follows the callback) and the condition variable does not
  wake without reason; when it does not, anybody calls anything.  Only
  `EventsInOrder` holds of both.
* **FastList** - the list's calls as operators on sequences, a node being its
  position and 0 the null node, with the two ends of the ring as the code has
  them: the null node's predecessor is the last node, the first is its own.
* **TimerContract** - the abstract specification of a timed queue: a set of
  pending events with the times they are meant for; one is executed when it is
  pending and due, or dropped.
* **TimedEventQueue** - the fields are variables of the code's names.  A post is
  two steps, the test of `_bStarted` and the critical section (`posting` are the
  calls in between), and so are the starting and stopping of the queue around
  its thread (`owner`).  `pc` is the thread's place: asleep on either condition
  variable, released but without the mutex yet, out of time, in a callback, with
  a QueueAbort in hand.  `cur` is the entry the loop has looked at, which it
  looks up again by id after the wait; what is invoked is the callback of `cur`,
  and the entry taken out is the one found, which may be another one once an id
  was given twice.  An event counts as executed from the moment its entry is
  taken out.  `StartupFails` leaves the list and the condition variables behind
  without a thread.  `orderly` is chosen in the initial state: when
  it holds, nobody calls a queue that is being shut down, and the owner does not
  shut down in the middle of a post.  Only `ShutdownReturns` needs it.
* **AttrStore** - what each call on a store does to its list, as operators.
* **Attributes** - threads that make these calls on several stores.  `call[t]`
  is the operation, where it is, and what is left to do; the locks are not
  variables but follow from it (`Reads`, `WantsWrite`): a copy or a comparison
  holds its own store for reading from `LockSource` to its return and enters the
  other one for each call it makes there.  `writersFirst`, chosen in the initial
  state, is the policy of the lock (POSIX leaves it open).  A buffer that is
  loaded may be one that was saved or one from elsewhere (`Received`), with items
  of a type that is never saved.  An object value may be a store (`Self`), which
  refuses to be set on itself; that ends a copy of all items, too.
* **MemoryBuffer** - creating a buffer and merging a list of them.
* **Downloader** - a worker of the user is its queue and may be destroyed at any
  time, which drops what waits in it (`DestroyWorker`; `dropped` remembers those
  tasks) but not the task it executes.  `run[w]` is the place of `OnInvoke` on
  worker `w`: each
  setting is looked up in a step of its own, then set on the handle, each piece
  received is a step, and so are the result, what the handle knows, the merging
  and the report.  libcurl is external: a handle keeps what was set on it.
  `received` and `outcome` are history, to say what a report should hold.
* **\*Proofs** - theorems of the module they are named for.  AttrStoreProofs
  has the lemmas about one list of items that AttributesProofs and
  DownloaderProofs share.
  **MC\*** - the sets that the configurations use; each extends the proof
  module where there is one, so the model-checked and the proved definitions are
  the same.

Definitions commented "Mutant of" are deliberate bugs.  No specification uses
them; each is put in the place of the named definition to confirm that a
property notices it.

## 3. The runs

| Run | Bounds | Shows |
|---|---|---|
| `worker_safety` | 2 threads, 4 items, all three levels, all faults | single thread, allocated during the loop, refinement of WorkQueue |
| `worker_live` | 2 threads, 3 items, Level0 and Level2, no faults, fairness | no lost wake-up, served, WorkQueue's fairness, freed, threads leave |
| `worker_start_fails` | 2 threads, 2 items, starts may fail | **violation** of `NoSleepOnWork` |
| `worker_early_release` | 2 threads, 2 items | **violation** of `RetainFindsWorkerAlive` |
| `group_assign` | 4 workers, 4 items, requests -1, -2, 1, one CPU, starts may fail, fairness | listing, uniqueness, choice, growth only under load and within the bound, serial refinement, no item stranded, execution |
| `core_count` | 3 lockers, 1 initializer that comes first, 4 queue objects, creation may fail | count, destruction, a put follows a queue there is |
| `core_initializer` | 1 locker, 1 initializer in any order | **violation** of `UserFindsQueues` |
| `event_queue` | 2 consumers, 3 events, orderly users and others, fairness | order, no lost and no left-over Set, request answered, shutdown releases |
| `event_queue_released` | 1 consumer, 1 event | **violation** of `TakeFindsQueueAlive` |
| `timed_queue` | 2 events, delays 1 and 2, waits of at most 1, clock up to 2, 4 ids, 2 starts and failing ones, orderly users and others, fairness | not slept through, flush executes what has a time, first start served, contract, nothing dropped but by a shutdown, events leave, shutdown returns |
| `attributes` | 2 threads with 2 calls each, 2 stores, 6 items with 3 names, a foreign buffer of 3 items, both lock policies | unique names, saved stores load in order, source stable, no circle of waiting threads without a circle of copies |
| `downloader` | 1 worker, 2 tasks, 1 replaced part, 2 pieces of body and 1 of headers, a transfer that succeeds or fails, fairness | reports hold their own bytes and tell failures; requests use no stale part; tasks are not lost and are reported, unless they waited on a destroyed worker |

Why the bounds are enough.  Two threads are what it takes for an old thread to
overlap a new one, which is every interaction between threads of a worker; an
item count of 3 or 4 lets one item execute while others wait at the head, in the
middle and at the tail (Level1 differs from Level0 from two waiting items on).
A thread that has left can be used again, so the number of restarts is not
bounded by the number of threads.  Four workers let an unbounded group grow
twice after both scans have had a choice; a request of -2 becomes
CpuCount + 1 = 2 workers, the smallest group that uses the least-loaded scan.
Three lockers and one initializer give counts of up to four.  Items are put at
most once, which bounds histories.  Three events are one that the reader saw, one
whose Set its reset may erase, and one that comes to a reader already asleep or
woken; two consumers can be in any two places of `GetEvent`.  Model values for queue objects are
symmetric in `core_count`, which checks invariants only.

Two timed events and a QueueAbort give an entry looked up before the wait, one
that comes before or after it, and the entry of a shutdown; a delay of 2 with a
cap of 1 is the shortest wait that is cut short and resumed, and a clock of 2
lets the second event be posted when the first has expired, and expire itself.
Four ids (1 to 3 and the invalid one) are what two events and a shutdown use.
Two starts let calls of the first life, late posts among them, arrive in the
second.  Two stores with a call of each thread in both are every pair of lock orders.  The items have one name with a number, with
the string that cannot be stored, and with each of the stores; a second name,
so that two saved items have an order; and the empty name, which is never found.
A store reaches two of them, and an object between, by two calls and a load.  Two tasks are the
one whose leftovers could be seen and the one that could see them; one replaced
part separates what the handle kept from what the downloader has; two pieces are
the smallest list that is merged rather than handed over.  The worker may be
destroyed before, while or after it executes a task; that the next task may be
on another worker is covered by the proofs, which are for any set of workers.

`CHECK_DEADLOCK FALSE` is set everywhere: a program whose users have put all
they will and shut down does nothing more.

### Fairness

`worker_live`: weak fairness of each thread's own steps (`ThreadNext`), of the
end of the start handshake and of the idle timeout: the scheduler runs every
runnable thread, a critical section is short, callbacks return,
`pthread_cond_timedwait` returns.  No fairness is assumed of a user: nobody has
to put or to shut down.  `group_assign`: a put that began ends, and a worker
takes and finishes what it has, which is what `ServesWorkQueue` shows of a
worker.  `event_queue`: a thread inside `GetEvent` and the worker inside
`OnInvoke` run when they can; nobody has to queue, to end a request, to time out
or to shut down.  `timed_queue`: time passes (`Tick`, up to the bound), the thread
runs, the callbacks return, and an owner inside `Startup` or `Shutdown` goes on
when `ThreadStart` or `ThreadJoin` has returned; nobody has to post, and a
spurious wake-up is never due.  `downloader`: a worker executes what is in its queue, as
`ServesWorkQueue` shows, and finishes what it began, also when it is destroyed
meanwhile; the transfer ends, since `CURLOPT_TIMEOUT` is always set, and the
default queue delivers.  Of a destroyed worker nothing more is assumed: its
queue is empty.  `attributes` assumes nothing: a lock that prefers readers may
starve a writer, so that no call is claimed to return.  Safety runs assume nothing.

### Findings

1. `worker_start_fails`.  When the thread cannot be started, `PutItem` returns
   KF_ABORT with the item still queued (`kf_async_core.cxx:201`).  The next put
   sees a non-empty queue, starts a thread and does not set the event: the
   thread sleeps with two items queued and every idle timeout sends it back to
   sleep (`:298-299`).
2. `worker_early_release`.  `DoThreadInvoke` sets `_started_event` before
   `OnThreadInvoke` takes its reference; destroying the group in between frees
   the worker under its new thread.
3. `core_initializer`.  KFAsyncStartup does not count when the core is already
   up, KFAsyncShutdown does: an initializer inside a locker's scope destroys
   the default queues.
4. `event_queue_released`.  `GetEvent` holds a reference while it waits but
   gives it back (`kf_async_event_queue.cxx:131`) before it locks the mutex
   again at `:138`: a release by another thread in between destroys the queue.

The header's FIFO order of a put holds of a serial group
(`SerialImplementsWorkQueue`); a parallel group may start a later item while an
earlier one waits behind a running one.

With several readers at once the wake event of the event queue does not do: one
reader's reset erases the Set meant for another (`:115`), and `Shutdown` wakes
one of them (`:88`).  The header promises nothing about that use, so the three
properties about the wake event are claimed for one reader at a time.

Of the worker, `NoSleepOnWork` and the liveness properties are claimed without
faults; the safety properties hold with all of them.  Besides finding 1 there is
the spurious return of the wait, which POSIX allows: with an empty queue the
thread then comes to `kf_async_core.cxx:316`, where it resets the event in a
critical section of its own.  The Set of a put in between is erased, and the
thread sleeps with a task queued.

What the code does in the later modules that a reader may not expect, and where
the properties therefore stop:

* Timed queue.  `Startup` clears `_bStopped` (`kf_timed_event.cxx:80`) after the
  thread was started.  On a restart the flag of the earlier shutdown is then
  still set; the new thread may see it and leave, and the queue counts as
  started without a thread: hence `FirstStartIsServed`.  A flushing `Shutdown`
  puts its entry at the time of `PostEventToBack` and in front of an entry posted
  that way, which is dropped although `:105` says that all events in front are
  waited for: hence `FlushExecutesTimed`.  `CancelAllEvents` during a shutdown
  removes the entry that tells the thread to leave, and the owner waits in
  `ThreadJoin` for ever: hence the users of `ShutdownReturns`, who make no call
  then.  The model has all three, and nothing is claimed there.  The event whose id has wrapped to 0 is found due but never removed, and
  the thread spins; an id given twice makes the thread take out one entry and
  invoke the callback of another.  Service and the contract are claimed, and
  proved, without a wrap.  After a failed `Startup` a post that is late from the
  life before puts its event into a list without a thread; `EventLeaves` is
  claimed while there is one.
* Attributes.  Setting the empty string fails after the item was created or
  cleared, and leaves it without a value: `SaveToBuffer` of that store fails, and
  copying it deletes the other store's item without setting one.  A store
  without items is saved as a buffer that `LoadFromBuffer` refuses.  `CopyItem`
  deletes and sets in two critical sections, between which a reader finds
  neither.  `MatchAllItems` locks a store for reading that it already reads: with
  a lock that prefers writers it waits for a writer that waits for it.  Copies in
  a circle wait for each other.  Both deadlock in the model; no line of the
  repository promises otherwise, and `SomeoneGoesOn` says that there is no other
  deadlock: its premise is that the copies and comparisons under way go down some
  ranking of the stores, whichever, and that no such comparison is under way with
  such a lock.  `LoadFromBuffer` goes on after a setter that failed and stops at
  an item whose type it does not know, with the items before it set.
* Downloader.  When the put of `StartTask` fails, `_taskResult` stays and every
  later call is refused until `CloseTask`.  A handle kept with
  `opt_enable_reuse` still refers to posted data that were released and reports
  the status of an earlier transfer if the new one does not get that far;
  `RequestIsOwn` is for handles that are not kept.  Merging overwrites the outcome
  of the transfer, so that only `CURLE_CODE` tells a failure (`FailureIsTold`).
  A
  report is lost when the default queues are gone, and a task when its worker is
  destroyed before it was executed: `_taskResult` then stays set as well.  What
  `CloseTask` does to a task that is under way is not claimed: nothing in the
  repository says that it may be called then, and `OnInvoke` follows the pointers
  it resets.

## 4. The proofs

All theorems are for any sets of threads, items, levels, workers, users, events
and delays, under the assumptions about constants that the modules name.  Type
correctness is a theorem of every module with state (`TypeCorrect`,
`GroupTypeCorrect`, `EventQueueTypeCorrect`, or the `Types` in an inductive
invariant), so no run spends an invariant on it.

* **ThreadWorkerProofs**.  `WorkerInv` is the inductive invariant; each of
  `SingleThread`, `LoopFindsWorkerAlive` is a consequence.  It is needed
  because `SingleThread` alone is not preserved by `PutItemStart`: one has to
  know that a thread in the loop (not leaving) implies `_thread_running` or a
  start in progress, that a thread in the handshake is the one the caller
  waits for, that a thread in the loop holds a reference, and that an exit
  request is queued only when the owner has closed the worker, at the head and
  once.  `WorkerImplementsWorkQueue` uses it to map every step to a step of
  WorkQueue or a stutter; the exit request and what is behind it are hidden by
  the mapping.  For `NoLostWakeup` and `QueuedTasksHaveAThread`
  (no faults) the invariant is strengthened with `WakeupInv`: what the event's
  state is at each control point when something is queued.  The lemmas about
  `ArrayList` (what an insertion puts where) come first in the module.
* **GroupWorkerProofs**.  `GroupInv`: the list is injective and, with the worker a
  put is creating, equal to the set of open workers, at each step of a creation; the loop's index stays within the list; a count read earlier
  bounds the count now, since queues only shrink while the lock is held; the
  index `best` names a worker with at most `tasks` items, no more than any
  worker scanned so far had when the call began.  `ItemsInv` is about the items:
  a worker that does not exist holds none and one that was closed has none queued
  (`Unused`), what is held or executed was accepted and the item of the put under
  way was not (`Known`).  So the item
  of a put is new wherever the scans send it, and `EachItemOnce` is kept by
  `Submit` and `CreateWorker`, by `Take`, which moves an item, and by `Finish`.
  `SerialGroupIsWorkQueue` adds that a serial group has one worker in all its life
  (`OneWorker`), the one `Startup` created: its queue is then the abstract one,
  `Submit` maps to a submission, and no put creates another worker.
  `NothingStranded` is inductive with these invariants: the item of a put goes
  to one worker that runs afterwards, or whose start failed (`PlacedIsServed`),
  every other item stays with its worker (`ServedStay`), and a thread leaves for
  want of work only when it holds nothing.  It is what `AcceptedIsExecuted`
  rests on, without fairness.
* **AsyncCoreProofs**.  `CoreInv`: the count is the number of users, the queues
  exist only while it is positive, what is freed is neither current nor held by
  a pointer of a user in scope, which is one of the two current ones.  `QueuesFound` adds the assumptions that
  creation succeeds and an initializer comes only while nobody uses the core,
  which the run `core_initializer` shows to be necessary.
* **AsyncEventQueueProofs**.  `EventQueueInv` has a part for every use
  (`Contents`: accepted is taken followed by queued; `Sleepers`: who is on the
  condition variable is at its wait) and a part for users who read one at a
  time: `OneReader` (one reader and one stage of its request) and `EventState`.
  The last is what makes `NoSleepOnEvents` inductive: the wake event is set only
  if an event is queued, and if the reader is already past its reset or wait,
  only if two are; a reader on its way to sleep while an event is queued finds
  the event set.  So a Set erased by a reset was for the event the reader takes
  or for one the next reader will see in the queue.
* **TimedEventQueueProofs**.  `NeverOversleeps` is inductive together with the
  types: `Signals` wakes the thread in every case in which the first entry
  changes for an earlier one, and `Examine` computes a deadline not past it.
  `ImplementsContractHolds` needs `ContractInv`: ids in the list are different
  and below the counter (`Ids`), an event is in the list once (`Events`) and not
  yet while it is being posted (`Posts`), an entry's time is the one it was posted for (`Dues`), and, the heart of it, what
  a thread coming out of a timed wait may conclude: *if* an entry with the id it
  saw is still in the list, it is that entry and it is due (`Waits`).  That is
  why looking up the id again is enough, whatever was posted and cancelled
  meanwhile.  The hypothesis `NoWrap` is necessary: with an id used a second time
  the lookup would take another event, too early.  Where an entry is inserted is
  the first position that qualifies; that there is a first comes from the
  well-foundedness of `<` (`LeastExists`).
  `FlushExecutesTimedHolds` is the last part of the module.  `ShutdownInv` argues
  that while the queue is open nothing that has a time is behind an entry posted
  to the back (`MaxLast`); so the QueueAbort of a flush, put before those, is
  behind everything timed (`Before`); from then on what is before it can only be
  executed or cancelled, or put more of; there is one QueueAbort at most
  (`AbortOnce`); and the thread takes it only when it is first, at which point
  nothing timed is left (`Finished`).
  `FirstStartIsServed` needs `ServedInv`: from the first `Startup` to the first
  `Shutdown` nothing that could end the thread exists anywhere, neither the flag
  nor a QueueAbort that is queued, looked at or taken.  That holds whatever
  attempts to start failed before; the property is about the first start because
  it is false of the next one.
  For `DroppedOnlyByShutdownHolds` an insertion pushes no entry out
  (`InsertedKeeps`) and a removal only its own (`RemovedKeeps`).  That the event
  whose entry is taken out is the one whose callback is invoked is `Waits` again,
  under `NoWrap`.  The remaining cases are `Startup` and `StartupFails`, which
  clear the list: it is empty, or the queue is stopped, since a thread that
  leaves has cleared it and nobody fills the list of a queue without a thread
  but a late post to a stopped one (`OffIsEmpty`).
* **AttributesProofs**.  `NamesUnique` is inductive over the steps on one store
  once one knows what `SetItem` and `DeleteItem` make of a list (AttrStoreProofs:
  setting puts the item at the place of its name or at the end and leaves the
  others), and that the item of a step comes from where it should: `StoresInv`
  says for each call (`FrameOK`) that the rest it has to go through is a suffix of
  the store it reads.  That is `SourceStable`, and it is kept because a thread in
  a copy or a comparison holds its store for reading (`Reads`), so that no step
  that writes to that store is enabled for another thread; the thread itself
  writes only to the second store, which the code never lets be the same one.
  `SavedStoreLoads` is about the recursive functions `SaveToBuffer` and
  `LoadFromBuffer`: what they have written or loaded after `n` items is shown for
  every `n` up to the length.  The induction uses the lemma `UpTo` (a set that has
  0 and with each number the next has all), which follows from the least
  counterexample (`LeastExists`), in place of the library's induction theorems,
  which take an operator as a parameter.  A saved list has no two items of one
  name, so each item loaded into the empty store goes to its end; an item
  with the empty name does so as well, since it is never found.
  `SomeoneGoesOnHolds` is the absence of deadlock as a safety property.  A call
  that waits does so for a lock of some store (`Awaits`).  `OrderInv` says which
  calls, and where, keep one store locked and work in another (`FrameShaped`);
  so under any ranking that the copies go down (`GoDown(r)`, the property's
  premise) a call that keeps a store locked waits only for one of lower rank.  So
  of the calls under way take the one that waits for the store of least rank: if
  that lock is refused, its holder either can go on or waits for a store of yet
  lower rank (`WriterWaitsDown`), which cannot be.  A lock that prefers writers
  adds one step: a reader that is refused has a waiting writer before it.
* **DownloaderProofs**.  The class has no lock, so everything rests on
  `_taskResult`: `OneTask` says that at most one task is on a worker, in a run, or
  on its way to the callback, and that it is the last one started.  Hence nobody
  but that run touches the handle and the lists.  `RefersAt` says what the handle
  refers to at each place of `OnInvoke`, `ListsAt` that the received pieces
  together are the bytes that came for the task, `ResultAt` what the result holds:
  nothing until the transfer, then libcurl's code, then the merged bytes, at which
  point the report is `Complete`.  That a failure is told needs the middle one:
  whenever the outcome may be overwritten the code is already in the result.
  `Contents` of a list that grows by a piece is the concatenation, again by
  `UpTo`.  `NoTaskLost` needs that the last task, if it is not reported, is in
  one of the places `OneTask` names (`NoneLost`): each way out of `OnInvoke`
  goes through the report, and a task before the last one was reported before
  the next could start, or dropped with its worker (`DestroyWorker`).

Assumptions about constants say that names which the code distinguishes are
different: `NULL` is no task and no handle, `NoBuffer` no buffer, a null item or
thread none of the items or threads; that bounds are numbers; and that users
set values of a type (`Given`) and libcurl's codes are non-empty names (`Curle`).

Only model-checked: liveness (`ServesWorkQueue`, `ReleasedIsFreed`,
`ThreadsLeave`, `AcceptedIsExecuted`, `RequestIsAnswered`,
`ShutdownReleasesReader`, `EventLeaves`, `ShutdownReturns`,
`EachTaskReported`), which needs fairness and ENABLED, out of the prover's reach.

Proved under a hypothesis that the run's bounds make true, and not without it:
`NoWrap` (no event id used twice), for `ImplementsContract`, `FlushExecutesTimed`
and `DroppedOnlyByShutdown` of the timed queue.

## 5. Abstractions

* A callback is one step without a lock, and always returns; what it does to
  other queues is another user's call.
* `_timeout_ms` is a choice: a waiting thread may time out at any moment.
* Memory exhaustion is not modelled, other failures are where they are named.
* `GroupWorker::Shutdown` closes the workers in one step: nobody else sees the
  intermediate states while the group's lock is held, as each worker's queue
  is its own.
* In GroupWorker the thread's start handshake inside `PutItem` is one step.
* The caller keeps the API's rules: no put on a destroyed group, one Startup.
* The event queue's `Startup` and `BeginGetEvent` succeed; a step of `GetEvent`
  on a queue that was destroyed under it is left out (the behaviour has no
  meaning there).  The check and the `Retain` at the top of `GetEvent` are one
  step: the caller's reference holds until then.
* A spurious return in the start handshake (`kf_thread_object.cxx:39`) is not
  modelled.
* Timed queue: an event is posted once; a call on a list that was destroyed has
  no step; a restart waits until the old thread has left; the clock does not
  go back, and delays are not negative.  The conversion of a wait to `int`
  (`kf_timed_event.cxx:340`), which truncates from 24.8 days on, is not modelled.
* Attributes: a value is a type and one of a few contents; of an object it only
  matters which one it is.  A setter or a getter is one step, under its lock.
* Downloader: the user replaces parts and closes the task only while none is
  under way, as the code has no lock for them; a byte is the number of its
  task.  The time limits bound the transfer and are no step of their own.  A
  destroyed worker is not used again.  A worker's thread can be started when it
  is needed: a put that fails leaves no task (`ThreadWorker` has the case of
  finding 1, where it stays queued).

### Not modelled

* Observers of a store (`kf_attr.cxx:944-980`, `:1061-1128`): both functions that
  create a store pass `true` to `Initialize`, which leaves the list of observers
  out.
* The completion notify: nothing in `src/` calls it, so there is no use to model
  it from.  Its two hazards are listed without a property.
* The file logger: its counter is listed as a hazard.
* The reference count of the timed queue; `MoveCurrentTaskQueue` and
  `AcceptTaskQueueMove`, which nothing calls; allocation failure throughout.
* Async results and events, delegates, types: accessors of records.
* The Media Foundation backend (forwards to Windows), the platform wrappers,
  vendored code.

## 6. Plan

Order of work, the most important behaviour first: the worker and the event it
sleeps on, the groups, the default queues, the event queue, each with its
proofs; then the timed event queue with its contract and proofs, the attribute
store and the downloader with theirs.  All of these are done.  What could follow:

1. Allocation failure as a fault, where the code handles it half-way (the
   event queue's Startup and BeginGetEvent).
2. A second owner of the timed queue, and its reference count.
3. The file logger's counter, as a client of WorkQueue.
