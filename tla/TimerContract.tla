---------------------------- MODULE TimerContract ----------------------------
(***************************************************************************)
(* What an IKFTimedEventQueue promises its users (async/kf_timed_event.hxx):*)
(* an event that was posted is invoked at most once, not before its time,  *)
(* and never after it was cancelled.  Events that are still pending when   *)
(* the queue is shut down are dropped.                                     *)
(***************************************************************************)
EXTENDS Integers

CONSTANTS
  Event,
  INT64_MAX  \* the time that means "at once, after all others"

VARIABLES
  clock,     \* what KFGetTick returns
  pending,   \* the events posted and not yet executed, cancelled or dropped
  due,       \* for each event ever posted the time it is meant for
  executed   \* the events whose callback was invoked

vars == <<clock, pending, due, executed>>

Due(time) == time <= clock \/ time = INT64_MAX

Init ==
    /\ clock = 0
    /\ pending = {}
    /\ due = << >>
    /\ executed = {}

Tick ==
    /\ clock' = clock + 1
    /\ UNCHANGED <<pending, due, executed>>

\* An event is posted once, for any time.
Post(e) ==
    /\ e \notin DOMAIN due
    /\ pending' = pending \cup {e}
    /\ DOMAIN due' = DOMAIN due \cup {e}
    /\ \A d \in DOMAIN due : due'[d] = due[d]
    /\ UNCHANGED <<clock, executed>>

Execute(e) ==
    /\ e \in pending
    /\ Due(due[e])
    /\ pending' = pending \ {e}
    /\ executed' = executed \cup {e}
    /\ UNCHANGED <<clock, due>>

\* Cancelled one by one, all at once, or dropped by a shutdown.
Drop(S) ==
    /\ S \subseteq pending
    /\ pending' = pending \ S
    /\ UNCHANGED <<clock, due, executed>>

Next ==
    \/ Tick
    \/ \E e \in Event :
        \/ Post(e)
        \/ Execute(e)
    \/ \E S \in SUBSET pending : Drop(S)

Spec == Init /\ [][Next]_vars
=============================================================================
