------------------------------- MODULE KFEvent -------------------------------
(***************************************************************************)
(* The event object of sys/kf_sys_platform_event.c: a Boolean `state'      *)
(* guarded by a mutex and a condition variable.  This module gives the     *)
(* value of an event and the effect of each call on it; the components     *)
(* that own an event hold one of these values in a variable.               *)
(*                                                                         *)
(*   state    the C field `state'                                          *)
(*   waiting  threads blocked in pthread_cond_wait / _timedwait            *)
(*   woken    threads the condition variable has released, which have not  *)
(*            re-acquired the mutex and returned from the call yet         *)
(*                                                                         *)
(* KFEventWait tests `state' with an IF and not with a loop, so a released *)
(* thread returns whatever `state' has become in the meantime.             *)
(***************************************************************************)

EventValue(Threads) ==
    [state : BOOLEAN, waiting : SUBSET Threads, woken : SUBSET Threads]

KFEventCreate(init_state) ==
    [state |-> init_state, waiting |-> {}, woken |-> {}]

\* manual_reset: pthread_cond_broadcast.
KFEventSetManual(e) ==
    [state |-> TRUE, waiting |-> {}, woken |-> e.woken \cup e.waiting]

\* Otherwise pthread_cond_signal: the values that waking any one waiter leaves.
KFEventSetAuto(e) ==
    IF e.waiting = {}
    THEN {[e EXCEPT !.state = TRUE]}
    ELSE {[state |-> TRUE, waiting |-> e.waiting \ {t}, woken |-> e.woken \cup {t}]
            : t \in e.waiting}

KFEventReset(e) == [e EXCEPT !.state = FALSE]

-----------------------------------------------------------------------------
(* KFEventWait and KFEventWaitTimed, called by thread t. *)

\* The state is 0: t goes to sleep on the condition variable.
MustSleep(e, t) == ~ e.state /\ t \notin e.waiting /\ t \notin e.woken
Sleep(e, t)     == [e EXCEPT !.waiting = @ \cup {t}]

\* The state is 1, or the condition variable released t: the call returns.
MayReturn(e, t)      == t \in e.woken \/ (e.state /\ t \notin e.waiting)
Return(e, t, manual) == [e EXCEPT !.state = @ /\ manual, !.woken = @ \ {t}]

\* The sleep ends without a Set: ETIMEDOUT (the state is left alone), or the
\* spurious return that POSIX allows pthread_cond_wait.
MayGiveUp(e, t)     == t \in e.waiting
TimeOut(e, t)       == [e EXCEPT !.waiting = @ \ {t}]
SpuriousWake(e, t)  == [e EXCEPT !.waiting = @ \ {t}, !.woken = @ \cup {t}]
=============================================================================
