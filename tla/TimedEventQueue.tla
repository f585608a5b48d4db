--------------------------- MODULE TimedEventQueue ---------------------------
(***************************************************************************)
(* class TimedEventQueue of async/kf_timed_event.cxx: events ordered by    *)
(* the time they are meant for, and one thread that waits for the first of *)
(* them and invokes its callback.                                          *)
(*                                                                         *)
(* A critical section of `_mutex' is one step of whoever holds it.  The    *)
(* thread sleeps on one of two condition variables, whose wake-up and the  *)
(* locking of the mutex that follows are separate steps.  `_bStarted' and  *)
(* `_bStopped' are read and written without the mutex, in steps of their   *)
(* own.  One user, the owner, starts and shuts down the queue; anybody     *)
(* posts and cancels, the callbacks included.                              *)
(***************************************************************************)
EXTENDS Integers, FiniteSets, FastList

CONSTANTS
  Event,       \* the events; each is posted at most once
  Abort,       \* the QueueAbort event of Shutdown
  Delay,       \* the delays PostEventWithDelay is called with
  Cap,         \* 10000: the longest single timed wait
  INT64_MAX,   \* the time of PostEventToBack
  IdRange,     \* 2^32: the values of KF_TIMED_EVENT_ID
  MaxClock,    \* bound on the clock and on the times events are posted for
  MaxStarts    \* bound on the calls of Startup

ASSUME TimedAssumption ==
    /\ Abort \notin Event
    /\ Delay \subseteq Nat
    /\ Cap \in Nat \ {0}
    /\ IdRange \in Nat /\ IdRange > 1
    /\ MaxClock \in Nat /\ MaxStarts \in Nat
    /\ INT64_MAX \in Nat /\ MaxClock < INT64_MAX

VARIABLES
  orderly,     \* chosen once: see below
  started,     \* _bStarted
  stopped,     \* _bStopped
  built,       \* _queue and the two condition variables exist
  list,        \* _queue: the entries, first to be executed first
  nextId,      \* _nextEventId
  posting,     \* calls of PostTimedEvent that have passed the test of _bStarted
  pc,          \* where the thread is in OnThreadInvoke
  cur,         \* its `state' and `eventId'
  deadline,    \* the end of its timed wait ...
  capped,      \* ... and timeoutCapped
  owner,       \* where the owner is in Startup or Shutdown
  clock,       \* KFGetTick
  starts,      \* number of calls of Startup so far
  due,         \* history: the time each event was inserted with
  executed,    \* history: the events whose callback was invoked
  cancelled,   \* history: those taken out by CancelEvent, CancelAllEvents
  flushed      \* history: those queued when a flushing, synchronous Shutdown was called

threadVars == <<pc, cur, deadline, capped>>
lifeVars   == <<orderly, started, stopped, built, owner, starts>>
history    == <<executed, cancelled, flushed>>
vars == <<lifeVars, list, nextId, posting, threadVars, clock, due, history>>

(***************************************************************************)
(* The thread: "top" before it locks the mutex; asleep on _cvQueueNotEmpty *)
(* ("empty") or _cvQueueHeadChanged ("timed"); released from there         *)
(* ("emptyWoken", "timedWoken") or out of time ("timedOut") and about to   *)
(* lock again; in a callback ("invoke") or with a QueueAbort in hand       *)
(* ("abort"); not there ("off").                                           *)
(*                                                                         *)
(* The owner: in Startup after the thread was started; in Shutdown, in     *)
(* ThreadJoin, or before the two flags are set in the asynchronous case.   *)
(*                                                                         *)
(* orderly: nobody calls the queue while the owner is in Shutdown or after *)
(* it, and the owner does not call Shutdown while others post.             *)
(***************************************************************************)
PC      == {"off", "top", "empty", "emptyWoken", "timed", "timedWoken", "timedOut", "invoke", "abort"}
OwnerPC == {"out", "starting", "joining", "leaving"}

INT64_MIN == -2      \* the time of a QueueAbort that skips what is queued
AtOnce    == -1      \* INT64_MIN + 1, the time of PostEvent

Entry == [event : Event \cup {Abort}, id : 0..IdRange-1, time : Int]

QueuedEvents == {list[n].event : n \in DOMAIN list} \ {Abort}

InList(e)  == \E n \in DOMAIN list : list[n].event = e
Callable   == owner = "out" /\ started
MayCall    == orderly => Callable

Init ==
    /\ orderly \in BOOLEAN
    /\ started = FALSE /\ stopped = FALSE /\ built = FALSE
    /\ owner = "out" /\ starts = 0
    /\ list = << >>
    /\ nextId = 1
    /\ posting = {}
    /\ pc = "off"
    /\ cur = [event |-> Abort, id |-> 0, time |-> 0]
    /\ deadline = 0 /\ capped = FALSE
    /\ clock = 0
    /\ due = << >>
    /\ executed = {} /\ cancelled = {} /\ flushed = {}

Tick ==
    /\ clock < MaxClock
    /\ clock' = clock + 1
    /\ UNCHANGED <<lifeVars, list, nextId, posting, threadVars, due, history>>

-----------------------------------------------------------------------------
(* KFCondVarSignal on the two condition variables: where it takes the thread. *)

SignalNotEmpty(p)    == IF p = "empty" THEN "emptyWoken" ELSE p
SignalHeadChanged(p) == IF p = "timed" THEN "timedWoken" ELSE p

(***************************************************************************)
(* PostTimedEvent.  The first entry that is not earlier is looked up; the  *)
(* new one goes to the front if that is the first entry or the list is     *)
(* empty, and else before it (prev) or, if prev is false or the times are  *)
(* equal, after it.                                                        *)
(***************************************************************************)
FirstNotEarlier(l, time) ==
    IF \E n \in DOMAIN l : l[n].time >= time
    THEN CHOOSE n \in DOMAIN l : l[n].time >= time /\ \A k \in 1..n-1 : l[k].time < time
    ELSE 0

Insert(l, entry, prev) ==
    LET saved == FirstNotEarlier(l, entry.time)
        node  == IF saved # 0 /\ prev /\ l[saved].time # entry.time
                 THEN Prev(l, saved) ELSE saved
    IN IF saved = Begin(l) THEN PushFront(l, entry) ELSE InsertBack(l, node, entry)

AtFront(l, time) == FirstNotEarlier(l, time) = Begin(l)

\* Mutants of Signals: one of the two is forgotten.
SignalsNotEmptyOnly(p, l, time) == SignalNotEmpty(p)
SignalsHeadOnly(p, l, time)     == IF AtFront(l, time) THEN SignalHeadChanged(p) ELSE p

\* The wake-ups of PostTimedEvent, head changed before the list is.
Signals(p, l, time) ==
    SignalNotEmpty(IF AtFront(l, time) THEN SignalHeadChanged(p) ELSE p)

\* The test of _bStarted, before the mutex is locked.
BeginPost(e, time, prev) ==
    /\ started
    /\ MayCall
    /\ e \notin DOMAIN due /\ \A p \in posting : p.event # e
    /\ posting' = posting \cup {[event |-> e, time |-> time, prev |-> prev]}
    /\ UNCHANGED <<lifeVars, list, nextId, threadVars, clock, due, history>>

PostEvent(e)             == BeginPost(e, AtOnce, FALSE)
PostEventToBack(e)       == BeginPost(e, INT64_MAX, FALSE)
PostEventWithDelay(e, d) == clock + d <= MaxClock /\ BeginPost(e, clock + d, TRUE)

\* The critical section.  Without a list the caller follows a null pointer.
PostTimedEvent(p) ==
    /\ p \in posting
    /\ built
    /\ posting' = posting \ {p}
    /\ list' = Insert(list, [event |-> p.event, id |-> nextId, time |-> p.time], p.prev)
    /\ nextId' = (nextId + 1) % IdRange
    /\ pc' = Signals(pc, list, p.time)
    /\ due' = [d \in DOMAIN due \cup {p.event} |-> IF d = p.event THEN p.time ELSE due[d]]
    /\ UNCHANGED <<lifeVars, cur, deadline, capped, clock, history>>

\* The position of the first entry with this id; both searches of the file.
FindId(l, id) ==
    IF \E n \in DOMAIN l : l[n].id = id
    THEN CHOOSE n \in DOMAIN l : l[n].id = id /\ \A k \in 1..n-1 : l[k].id # id
    ELSE 0

\* id 0 is KF_INVALID_ARG, one that is not found KF_NOT_FOUND.  The id of the
\* QueueAbort event is not given to anybody.
CancelEvent(id) ==
    /\ built
    /\ MayCall
    /\ id # 0
    /\ FindId(list, id) # 0
    /\ LET n == FindId(list, id) IN
        /\ list[n].event # Abort
        /\ pc' = IF n = Begin(list) THEN SignalHeadChanged(pc) ELSE pc
        /\ list' = Remove(list, n)
        /\ cancelled' = cancelled \cup {list[n].event}
    /\ UNCHANGED <<lifeVars, nextId, posting, cur, deadline, capped, clock, due, executed, flushed>>

CancelAllEvents ==
    /\ built
    /\ MayCall
    /\ pc' = SignalHeadChanged(pc)
    /\ list' = Clear(list)
    /\ cancelled' = cancelled \cup QueuedEvents
    /\ UNCHANGED <<lifeVars, nextId, posting, cur, deadline, capped, clock, due, executed, flushed>>

-----------------------------------------------------------------------------
(* Startup and Shutdown, called by the owner. *)

\* KF_RE_ENTRY if started.  A restart waits until the old thread has left.
Startup ==
    /\ owner = "out" /\ ~ started
    /\ starts < MaxStarts
    /\ pc = "off"
    /\ owner' = "starting"
    /\ starts' = starts + 1
    /\ nextId' = 1
    /\ list' = << >>
    /\ built' = TRUE
    /\ pc' = "top"
    /\ UNCHANGED <<orderly, started, stopped, posting, cur, deadline, capped, clock, due, history>>

\* ThreadStart fails: KF_ERROR, with the list and the condition variables left behind.
StartupFails ==
    /\ owner = "out" /\ ~ started
    /\ pc = "off"
    /\ nextId' = 1
    /\ list' = << >>
    /\ built' = TRUE
    /\ UNCHANGED <<orderly, started, stopped, owner, starts, posting, threadVars, clock, due, history>>

\* The flags, set after ThreadStart has returned.
StartupDone ==
    /\ owner = "starting"
    /\ owner' = "out"
    /\ started' = TRUE
    /\ stopped' = FALSE
    /\ UNCHANGED <<orderly, built, starts, list, nextId, posting, threadVars, clock, due, history>>

\* The QueueAbort event is posted with _bStarted set; otherwise KF_ERROR.
PostAbort(time, prev) ==
    /\ owner = "out" /\ ~ stopped /\ started /\ built
    /\ orderly => posting = {}
    /\ list' = Insert(list, [event |-> Abort, id |-> nextId, time |-> time], prev)
    /\ nextId' = (nextId + 1) % IdRange
    /\ pc' = Signals(pc, list, time)
    /\ UNCHANGED <<orderly, started, stopped, built, starts, posting, cur, deadline, capped,
                   clock, due, executed, cancelled>>

\* Mutant of ShutdownFlush: what is queued is skipped.
ShutdownFlushSkips ==
    /\ PostAbort(INT64_MIN, TRUE)
    /\ owner' = "joining"
    /\ flushed' = QueuedEvents

\* Shutdown(ExecuteTasks, SyncShutdown), Shutdown(SkipTasks, SyncShutdown).
ShutdownFlush ==
    /\ PostAbort(INT64_MAX, FALSE)
    /\ owner' = "joining"
    /\ flushed' = QueuedEvents

ShutdownSkip ==
    /\ PostAbort(INT64_MIN, TRUE)
    /\ owner' = "joining"
    /\ UNCHANGED flushed

\* With AsyncShutdown the thread was detached before.
ShutdownAsync ==
    /\ PostAbort(INT64_MAX, FALSE) \/ PostAbort(INT64_MIN, TRUE)
    /\ owner' = "leaving"
    /\ UNCHANGED flushed

\* ThreadJoin has returned, or is not called.  In the first case the list and the
\* condition variables are destroyed by the owner, if the thread has not done it.
ShutdownDone ==
    /\ \/ /\ owner = "joining" /\ pc = "off"
          /\ list' = Clear(list)
          /\ built' = FALSE
       \/ /\ owner = "leaving"
          /\ UNCHANGED <<list, built>>
    /\ owner' = "out"
    /\ stopped' = TRUE
    /\ started' = FALSE
    /\ UNCHANGED <<orderly, starts, nextId, posting, threadVars, clock, due, history>>

-----------------------------------------------------------------------------
(* OnThreadInvoke. *)

threadUnchanged == UNCHANGED <<orderly, started, owner, starts, nextId, posting, clock,
                               due, cancelled, flushed>>

\* Mutant of TakeEntry: whatever is first goes, and not the entry that was found.
TakeEntryFirst(n) ==
    /\ list' = Remove(list, 1)
    /\ IF cur'.event = Abort
       THEN pc' = "abort" /\ UNCHANGED executed
       ELSE pc' = "invoke" /\ executed' = executed \cup {cur'.event}

\* The entry that was found is taken out.  What is invoked is the callback of `state',
\* the entry that was looked at; after a wrap of the ids that may be another one.
TakeEntry(n) ==
    /\ list' = Remove(list, n)
    /\ IF cur'.event = Abort
       THEN pc' = "abort" /\ UNCHANGED executed
       ELSE pc' = "invoke" /\ executed' = executed \cup {cur'.event}

\* Mutant of TakeNothing: no callback is taken for the request to abort.
TakeNothingAborts ==
    /\ pc' = "abort"
    /\ UNCHANGED <<list, executed>>

\* An entry whose id has wrapped to 0 is neither removed nor invoked.
TakeNothing ==
    /\ pc' = IF cur'.event = Abort THEN "abort" ELSE "top"
    /\ UNCHANGED <<list, executed>>

CheckAndRemoveEventById(id) ==
    IF id # 0 /\ FindId(list, id) # 0 THEN TakeEntry(FindId(list, id)) ELSE TakeNothing

IsDue(entry) == entry.time < 0 \/ entry.time = INT64_MAX \/ entry.time <= clock

Min2(a, b) == IF a < b THEN a ELSE b

\* The inner loop from its top: look at the first entry, if there is one.
Examine ==
    IF list = << >>
    THEN UNCHANGED <<cur, deadline, capped>> /\ TakeNothing
    ELSE /\ cur' = Head(list)
         /\ IF IsDue(Head(list))
            THEN CheckAndRemoveEventById(Head(list).id) /\ UNCHANGED <<deadline, capped>>
            ELSE /\ deadline' = clock + Min2(Head(list).time - clock, Cap)
                 /\ capped' = (Head(list).time - clock > Cap)
                 /\ pc' = "timed"
                 /\ UNCHANGED <<list, executed>>

LoopTop ==
    /\ pc = "top"
    /\ IF stopped
       THEN /\ pc' = "off"
            /\ list' = Clear(list)
            /\ built' = FALSE
            /\ UNCHANGED <<cur, deadline, capped, executed>>
       ELSE /\ IF list = << >>
               THEN pc' = "empty" /\ UNCHANGED <<list, cur, deadline, capped, executed>>
               ELSE Examine
            /\ UNCHANGED built
    /\ UNCHANGED stopped
    /\ threadUnchanged

EmptyWake ==
    /\ pc = "emptyWoken"
    /\ IF list = << >>
       THEN pc' = "empty" /\ UNCHANGED <<list, cur, deadline, capped, executed>>
       ELSE Examine
    /\ UNCHANGED <<stopped, built>>
    /\ threadUnchanged

\* The timed wait ends without a signal.
TimeOut ==
    /\ pc = "timed"
    /\ clock >= deadline
    /\ pc' = "timedOut"
    /\ UNCHANGED <<lifeVars, list, nextId, posting, cur, deadline, capped, clock, due, history>>

\* POSIX allows either wait to return for no reason.
SpuriousWake ==
    /\ pc \in {"empty", "timed"}
    /\ pc' = IF pc = "empty" THEN "emptyWoken" ELSE "timedWoken"
    /\ UNCHANGED <<lifeVars, list, nextId, posting, cur, deadline, capped, clock, due, history>>

\* Released by a signal: the first entry is looked at again.
TimedWake ==
    /\ pc = "timedWoken"
    /\ Examine
    /\ UNCHANGED <<stopped, built>>
    /\ threadUnchanged

\* Mutant of TimedExpire: the entry seen before the wait is executed unchecked.
TimedExpireBlind ==
    /\ pc = "timedOut"
    /\ pc' = "invoke"
    /\ executed' = executed \cup ({cur.event} \ {Abort})
    /\ UNCHANGED <<list, cur, deadline, capped, stopped, built>>
    /\ threadUnchanged

\* Out of time: the entry seen before the wait is looked up by its id, whatever is
\* first by now; a wait that was cut short goes back to the first entry.
TimedExpire ==
    /\ pc = "timedOut"
    /\ IF capped
       THEN Examine
       ELSE UNCHANGED <<cur, deadline, capped>> /\ CheckAndRemoveEventById(cur.id)
    /\ UNCHANGED <<stopped, built>>
    /\ threadUnchanged

\* The callback returns.
InvokeReturn ==
    /\ pc = "invoke"
    /\ pc' = "top"
    /\ UNCHANGED <<lifeVars, list, nextId, posting, cur, deadline, capped, clock, due, history>>

\* Mutant of RequestAbort: the flag is not set.
RequestAbortForgets ==
    /\ pc = "abort"
    /\ pc' = "top"
    /\ UNCHANGED <<stopped, built, list, cur, deadline, capped, executed>>
    /\ threadUnchanged

RequestAbort ==
    /\ pc = "abort"
    /\ stopped' = TRUE
    /\ pc' = "top"
    /\ UNCHANGED <<built, list, cur, deadline, capped, executed>>
    /\ threadUnchanged

Worker == \/ LoopTop \/ EmptyWake \/ TimeOut \/ TimedWake \/ TimedExpire
          \/ InvokeReturn \/ RequestAbort

Post ==
    \/ \E e \in Event :
        \/ PostEvent(e)
        \/ PostEventToBack(e)
        \/ \E d \in Delay : PostEventWithDelay(e, d)
    \/ \E p \in posting : PostTimedEvent(p)

Cancel ==
    \/ \E n \in DOMAIN list : CancelEvent(list[n].id)
    \/ CancelAllEvents

Owner == Startup \/ StartupFails \/ StartupDone \/ ShutdownFlush \/ ShutdownSkip \/ ShutdownAsync \/ ShutdownDone

Next == Tick \/ Post \/ Cancel \/ Owner \/ Worker \/ SpuriousWake

Spec == Init /\ [][Next]_vars

(***************************************************************************)
(* Time passes, the operating system runs the thread and whoever is inside *)
(* a call; callbacks return.                                               *)
(***************************************************************************)
FairSpec ==
    /\ Spec
    /\ WF_vars(Tick)
    /\ WF_vars(Worker)
    /\ WF_vars(StartupDone)
    /\ WF_vars(ShutdownDone)

-----------------------------------------------------------------------------
(* Properties. *)

\* Every field, entry and place keeps its type.
TypeOK ==
    /\ orderly \in BOOLEAN /\ started \in BOOLEAN /\ stopped \in BOOLEAN /\ built \in BOOLEAN
    /\ owner \in OwnerPC /\ starts \in 0..MaxStarts
    /\ list \in Seq(Entry)
    /\ nextId \in 0..IdRange-1
    /\ posting \subseteq [event : Event, time : Int, prev : BOOLEAN]
    /\ pc \in PC /\ cur \in Entry /\ deadline \in Int /\ capped \in BOOLEAN
    /\ clock \in 0..MaxClock
    /\ DOMAIN due \subseteq Event /\ \A e \in DOMAIN due : due[e] \in Int
    /\ executed \subseteq Event /\ cancelled \subseteq Event /\ flushed \subseteq Event

\* The thread never sleeps through something: not on the first condition variable
\* while an event is queued, and on the second never past the time of the entry
\* that is first now, which may have been posted or uncovered after it fell asleep.
NeverOversleeps ==
    /\ pc = "empty" => list = << >>
    /\ pc = "timed" => list # << >> /\ ~ (list[1].time < 0) /\ deadline <= list[1].time

\* From the first Startup that starts a thread until somebody calls Shutdown the queue
\* has its thread, its list and its condition variables.  Not so after a restart: the
\* new thread may have seen _bStopped, which is cleared late, and left.
FirstStartIsServed == (starts <= 1 /\ started /\ owner = "out") => built /\ pc # "off"

Flushed(e) == e \in executed \cup cancelled

\* A synchronous flushing Shutdown returns only when everything that was queued for
\* some time has been executed, or was cancelled meanwhile; entries posted to the
\* back are excepted.
FlushExecutesTimed ==
    (flushed # {} /\ owner = "out" /\ ~ started) => \A e \in flushed : due[e] < INT64_MAX => Flushed(e)

Contract == INSTANCE TimerContract WITH pending <- QueuedEvents

\* The queue implements its contract: at most once, not early, not after cancelling.
ImplementsContract == Contract!Spec

\* While the queue is not being stopped no event gets lost: what leaves the list was
\* handed to its callback or cancelled, also when other entries were put before it, the
\* first entry is not the one the thread waited for, or the queue is started again.
DroppedOnlyByShutdown ==
    [][\A e \in QueuedEvents \ QueuedEvents' : e \in executed' \cup cancelled' \/ stopped']_vars

\* Time permitting, an event does not stay queued for ever: it is executed, cancelled
\* or dropped by a shutdown.  (Not so one that a late PostTimedEvent puts into the list
\* a failed Startup has left behind: there is no thread.)
EventLeaves == \A e \in Event : (InList(e) /\ pc # "off") ~> ~ InList(e)

\* If nobody else calls the queue meanwhile, Shutdown returns and the thread is gone.
ShutdownReturns == (orderly /\ owner \in {"joining", "leaving"}) ~> (owner = "out" /\ pc = "off")
=============================================================================
