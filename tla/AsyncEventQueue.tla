---------------------------- MODULE AsyncEventQueue ----------------------------
(***************************************************************************)
(* class AsyncEventQueue of async/kf_async_event_queue.cxx: a queue of     *)
(* events that is read by blocking (GetEvent), or by asking to be called   *)
(* back (BeginGetEvent) and then fetching the event (EndGetEvent).  Both   *)
(* wait on one auto-reset event object; the callback runs on a serial      *)
(* worker of the queue's own, which is represented by the number of its    *)
(* pending work items and the place of the one it executes (OnInvoke).     *)
(*                                                                         *)
(* A critical section of `_mutex' is one step.  Looking for events, the    *)
(* wait or the reset, and taking an event are separate critical sections.  *)
(***************************************************************************)
EXTENDS KFEvent, Naturals, SequencesExt

CONSTANTS
  Consumer,    \* threads that call GetEvent
  Event,       \* the events; each is queued at most once
  Exec         \* the thread of _exec_thread

ASSUME EventQueueAssumption == Exec \notin Consumer

VARIABLES
  orderly,     \* chosen once: see below
  life,        \* "new", "open" after Startup, "closed" after Shutdown
  owner,       \* the creator still holds its reference
  queue,       \* _event_queue
  event,       \* _wake_queue_event
  waiting,     \* _waiting
  called,      \* the callback of the outstanding request has been invoked
  requests,    \* work items put on _exec_thread and not begun
  exec,        \* where the executing work item is in OnInvoke
  pc,          \* where each consumer is in GetEvent
  accepted,    \* history: the events queued, in order
  taken        \* history: the events handed out, in order

itemVars == <<requests, exec>>
readVars == <<waiting, called, itemVars>>
lifeVars == <<orderly, life, owner>>
vars == <<lifeVars, queue, event, readVars, pc, accepted, taken>>

(***************************************************************************)
(* orderly: the users read the queue one at a time, either by GetEvent or  *)
(* by BeginGetEvent followed, after the callback, by EndGetEvent, and the  *)
(* condition variable does not wake up without a reason.  Otherwise        *)
(* anybody calls anything at any moment.                                   *)
(*                                                                         *)
(* "reset" and "wait": before KFEventReset, at or in KFEventWait;          *)
(* "recycle": before the Recycle that follows; "take": before the last     *)
(* critical section of GetEvent; "peek": before that of OnInvoke.          *)
(***************************************************************************)
InCall == {"reset", "wait", "recycle"}
PC     == {"out", "take"} \cup InCall
ExecPC == {"idle", "reset", "wait", "peek", "callback"}

\* The counted references: the creator, a GetEvent that holds one, a work item.
Referenced ==
    owner \/ requests > 0 \/ exec # "idle" \/ \E c \in Consumer : pc[c] \in InCall

\* Who may call the queue: a holder of the creator's reference, or the callback.
Callable == owner \/ exec = "callback"

NoReader == ~ waiting /\ \A c \in Consumer : pc[c] = "out"

Init ==
    /\ orderly \in BOOLEAN
    /\ life = "new"
    /\ owner = TRUE
    /\ queue = << >>
    /\ event = KFEventCreate(FALSE)
    /\ waiting = FALSE
    /\ called = FALSE
    /\ requests = 0
    /\ exec = "idle"
    /\ pc = [c \in Consumer |-> "out"]
    /\ accepted = << >>
    /\ taken = << >>

-----------------------------------------------------------------------------
(* Startup, Shutdown, QueueEvent and the last Recycle of the creator. *)

\* A second Startup, also after Shutdown, is KF_RE_ENTRY.
Startup ==
    /\ owner
    /\ life = "new"
    /\ life' = "open"
    /\ UNCHANGED <<orderly, owner, queue, event, readVars, pc, accepted, taken>>

\* Mutant of Shutdown: nobody is told.
ShutdownSilent ==
    /\ Callable
    /\ life \in {"open", "closed"}
    /\ life' = "closed"
    /\ queue' = << >>
    /\ UNCHANGED <<orderly, owner, event, readVars, pc, accepted, taken>>

\* May be called again.
Shutdown ==
    /\ Callable
    /\ life \in {"open", "closed"}
    /\ life' = "closed"
    /\ queue' = << >>
    /\ event' \in KFEventSetAuto(event)
    /\ UNCHANGED <<orderly, owner, readVars, pc, accepted, taken>>

\* Mutant of QueueEvent: the event object is set only if an event was queued already.
QueueEventSetsLate(e) ==
    /\ Callable
    /\ life = "open"
    /\ e \notin ToSet(accepted)
    /\ queue' = Append(queue, e)
    /\ accepted' = Append(accepted, e)
    /\ event' \in IF queue # << >> THEN KFEventSetAuto(event) ELSE {event}
    /\ UNCHANGED <<lifeVars, readVars, pc, taken>>

\* QueueEvent, and the three helpers that create the event first.
QueueEvent(e) ==
    /\ Callable
    /\ life = "open"
    /\ e \notin ToSet(accepted)
    /\ queue' = Append(queue, e)
    /\ accepted' = Append(accepted, e)
    /\ event' \in KFEventSetAuto(event)
    /\ UNCHANGED <<lifeVars, readVars, pc, taken>>

Release ==
    /\ owner
    /\ owner' = FALSE
    /\ UNCHANGED <<orderly, life, queue, event, readVars, pc, accepted, taken>>

-----------------------------------------------------------------------------
(* GetEvent, called by consumer c. *)

Goto(c, from, to) == pc[c] = from /\ pc' = [pc EXCEPT ![c] = to]

GetEvent(c) ==
    /\ owner
    /\ life = "open"
    /\ orderly => NoReader
    /\ Goto(c, "out", IF queue = << >> THEN "wait" ELSE "reset")
    /\ UNCHANGED <<lifeVars, queue, event, readVars, accepted, taken>>

\* Mutant of GetReset: the Set of the event that is about to be taken stays.
GetResetForgotten(c) ==
    /\ Goto(c, "reset", "recycle")
    /\ UNCHANGED <<lifeVars, queue, event, readVars, accepted, taken>>

GetReset(c) ==
    /\ Goto(c, "reset", "recycle")
    /\ event' = KFEventReset(event)
    /\ UNCHANGED <<lifeVars, queue, readVars, accepted, taken>>

GetSleep(c) ==
    /\ pc[c] = "wait"
    /\ MustSleep(event, c)
    /\ event' = Sleep(event, c)
    /\ UNCHANGED <<lifeVars, queue, readVars, pc, accepted, taken>>

GetWake(c) ==
    /\ MayReturn(event, c)
    /\ Goto(c, "wait", "recycle")
    /\ event' = Return(event, c, FALSE)
    /\ UNCHANGED <<lifeVars, queue, readVars, accepted, taken>>

\* KF_TIMEOUT.
GetTimeOut(c) ==
    /\ MayGiveUp(event, c)
    /\ Goto(c, "wait", "out")
    /\ event' = TimeOut(event, c)
    /\ UNCHANGED <<lifeVars, queue, readVars, accepted, taken>>

\* Recycle() == 0: the object has just been destroyed, return KF_ABORT.
GetRecycle(c) ==
    /\ pc[c] = "recycle"
    /\ pc' = [pc EXCEPT ![c] =
                IF owner \/ requests > 0 \/ exec # "idle"
                   \/ \E d \in Consumer \ {c} : pc[d] \in InCall
                THEN "take" ELSE "out"]
    /\ UNCHANGED <<lifeVars, queue, event, readVars, accepted, taken>>

\* Mutant of GetTake: the event is looked at, not removed.
GetTakePeeks(c) ==
    /\ Referenced
    /\ Goto(c, "take", "out")
    /\ taken' = IF queue = << >> THEN taken ELSE Append(taken, Head(queue))
    /\ UNCHANGED <<lifeVars, queue, event, readVars, accepted>>

(***************************************************************************)
(* KF_SHUTDOWN if the queue was closed (it is empty then), KF_UNEXPECTED   *)
(* if there is no event, otherwise the first event.  If the object is gone *)
(* the step has no meaning: the model stops the consumer there.            *)
(***************************************************************************)
GetTake(c) ==
    /\ Referenced
    /\ Goto(c, "take", "out")
    /\ IF queue = << >>
       THEN UNCHANGED <<queue, taken>>
       ELSE /\ taken' = Append(taken, Head(queue))
            /\ queue' = Tail(queue)
    /\ UNCHANGED <<lifeVars, event, readVars, accepted>>

-----------------------------------------------------------------------------
(* BeginGetEvent, EndGetEvent, and OnInvoke on the worker's thread. *)

\* Refused (KF_ABORT) while a request is outstanding.
BeginGetEvent ==
    /\ Callable
    /\ life = "open"
    /\ ~ waiting
    /\ orderly => NoReader
    /\ waiting' = TRUE
    /\ requests' = requests + 1
    /\ UNCHANGED <<lifeVars, queue, event, called, exec, pc, accepted, taken>>

\* Mutant of EndGetEvent: the request stays outstanding.
EndGetEventKeepsWaiting ==
    /\ Callable
    /\ life = "open"
    /\ waiting
    /\ orderly => called
    /\ queue # << >>
    /\ taken' = Append(taken, Head(queue))
    /\ queue' = Tail(queue)
    /\ called' = FALSE
    /\ UNCHANGED <<lifeVars, event, waiting, itemVars, pc, accepted>>

\* KF_ABORT without a request and KF_UNEXPECTED without an event change nothing.
EndGetEvent ==
    /\ Callable
    /\ life = "open"
    /\ waiting
    /\ orderly => called
    /\ queue # << >>
    /\ taken' = Append(taken, Head(queue))
    /\ queue' = Tail(queue)
    /\ waiting' = FALSE
    /\ called' = FALSE
    /\ UNCHANGED <<lifeVars, event, itemVars, pc, accepted>>

\* The worker takes the next work item and OnInvoke looks for events.
InvokeBegin ==
    /\ requests > 0
    /\ exec = "idle"
    /\ requests' = requests - 1
    /\ exec' = IF queue = << >> THEN "wait" ELSE "reset"
    /\ UNCHANGED <<lifeVars, queue, event, waiting, called, pc, accepted, taken>>

InvokeReset ==
    /\ exec = "reset"
    /\ exec' = "peek"
    /\ event' = KFEventReset(event)
    /\ UNCHANGED <<lifeVars, queue, waiting, called, requests, pc, accepted, taken>>

InvokeSleep ==
    /\ exec = "wait"
    /\ MustSleep(event, Exec)
    /\ event' = Sleep(event, Exec)
    /\ UNCHANGED <<lifeVars, queue, readVars, pc, accepted, taken>>

InvokeWake ==
    /\ exec = "wait"
    /\ MayReturn(event, Exec)
    /\ exec' = "peek"
    /\ event' = Return(event, Exec, FALSE)
    /\ UNCHANGED <<lifeVars, queue, waiting, called, requests, pc, accepted, taken>>

\* Closed or empty: OnInvoke returns without a callback and _waiting stays true.
InvokePeek ==
    /\ exec = "peek"
    /\ IF life = "closed" \/ queue = << >>
       THEN exec' = "idle" /\ UNCHANGED called
       ELSE exec' = "callback" /\ called' = TRUE
    /\ UNCHANGED <<lifeVars, queue, event, waiting, requests, pc, accepted, taken>>

\* The user's callback returns and the work item is released.
InvokeReturn ==
    /\ exec = "callback"
    /\ exec' = "idle"
    /\ UNCHANGED <<lifeVars, queue, event, waiting, called, requests, pc, accepted, taken>>

\* pthread_cond_wait returns without a signal.
Spurious(t) ==
    /\ ~ orderly
    /\ MayGiveUp(event, t)
    /\ event' = SpuriousWake(event, t)
    /\ UNCHANGED <<lifeVars, queue, readVars, pc, accepted, taken>>

-----------------------------------------------------------------------------
\* The steps of a GetEvent in progress, and those of the worker.
GetStep(c) == GetReset(c) \/ GetSleep(c) \/ GetWake(c) \/ GetRecycle(c) \/ GetTake(c)

InvokeStep ==
    InvokeBegin \/ InvokeReset \/ InvokeSleep \/ InvokeWake \/ InvokePeek \/ InvokeReturn

Next ==
    \/ Startup \/ Shutdown \/ Release
    \/ \E e \in Event : QueueEvent(e)
    \/ \E c \in Consumer : GetEvent(c) \/ GetStep(c) \/ GetTimeOut(c)
    \/ BeginGetEvent \/ EndGetEvent
    \/ InvokeStep
    \/ \E t \in Consumer \cup {Exec} : Spurious(t)

SafeSpec == Init /\ [][Next]_vars

(***************************************************************************)
(* Fairness: a thread inside GetEvent runs when it can, the worker serves  *)
(* its items (ThreadWorker's ServesWorkQueue) and a callback returns.      *)
(* Nobody has to queue an event, time out, end a request or shut down.     *)
(***************************************************************************)
Spec == SafeSpec /\ WF_vars(InvokeStep) /\ \A c \in Consumer : WF_vars(GetStep(c))

-----------------------------------------------------------------------------
\* The values of the variables.
TypeOK ==
    /\ orderly \in BOOLEAN
    /\ life \in {"new", "open", "closed"}
    /\ owner \in BOOLEAN
    /\ queue \in Seq(Event)
    /\ event \in EventValue(Consumer \cup {Exec})
    /\ waiting \in BOOLEAN
    /\ called \in BOOLEAN
    /\ requests \in Nat
    /\ exec \in ExecPC
    /\ pc \in [Consumer -> PC]
    /\ accepted \in Seq(Event)
    /\ taken \in Seq(Event)

(***************************************************************************)
(* Whoever reads, by whichever call, and however many at a time: events    *)
(* are handed out in the order they were queued, each once, and only       *)
(* Shutdown discards any.                                                  *)
(***************************************************************************)
EventsInOrder ==
    /\ IsPrefix(taken, accepted)
    /\ life # "closed" => accepted = taken \o queue

(***************************************************************************)
(* With orderly users the Set of an event is never lost, although it may   *)
(* come before, during or after the reset of the reader that saw an        *)
(* earlier event: nobody sleeps while an event is queued.                  *)
(***************************************************************************)
NoSleepOnEvents == orderly /\ queue # << >> => event.waiting = {}

(***************************************************************************)
(* ... and no Set is left over to wake a reader for nothing: one that gets *)
(* as far as taking finds its event (never KF_UNEXPECTED), and a callback  *)
(* has an event and a request to end.                                      *)
(***************************************************************************)
ReaderFindsEvent ==
    orderly /\ life = "open" =>
        /\ (\E c \in Consumer : pc[c] \in {"recycle", "take"}) => queue # << >>
        /\ exec = "peek" \/ called => queue # << >> /\ waiting

\* A request of orderly users is answered by a callback once there is an event,
\* unless the queue is shut down first.
RequestIsAnswered ==
    (orderly /\ waiting /\ queue # << >>) ~> (called \/ life = "closed")

(***************************************************************************)
(* Shutdown releases the reader of orderly users: a GetEvent returns and   *)
(* the worker is free again.  (At "take" without a reference is the        *)
(* consumer whose queue was destroyed: see TakeFindsQueueAlive.)           *)
(***************************************************************************)
ShutdownReleasesReader ==
    (orderly /\ life = "closed") ~>
        /\ requests = 0 /\ exec = "idle"
        /\ \A c \in Consumer : pc[c] = "out" \/ (pc[c] = "take" /\ ~ Referenced)

(***************************************************************************)
(* kf_async_event_queue.cxx:111, "Hold KFEvent object!": GetEvent keeps    *)
(* the queue alive while it waits and returns KF_ABORT if it held the last *)
(* reference; when it goes on to lock the mutex the queue still exists.    *)
(***************************************************************************)
TakeFindsQueueAlive == (\E c \in Consumer : pc[c] = "take") => Referenced
=============================================================================
