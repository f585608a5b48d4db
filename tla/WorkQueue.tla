------------------------------ MODULE WorkQueue ------------------------------
(***************************************************************************)
(* What one worker promises its users, whatever threads, locks and events  *)
(* it is built from: tasks are executed one at a time, each at most once,  *)
(* from the head of the pending sequence; closing the queue discards what  *)
(* is pending and lets the active task finish; while the queue is open     *)
(* every pending task is eventually executed.                              *)
(***************************************************************************)
EXTENDS Naturals, Sequences

CONSTANTS Item,        \* the work items that may be submitted
          Level        \* the priority levels submitted with them

VARIABLES submitted,   \* every item ever submitted
          pending,     \* the items to execute, first one first
          active,      \* the item being executed, if any
          done,        \* the items executed, in the order they finished
          closed       \* no more items are accepted

wqVars == <<submitted, pending, active, done, closed>>

WQInit ==
    /\ submitted = {}
    /\ pending = << >>
    /\ active = {}
    /\ done = << >>
    /\ closed = FALSE

\* Level0 goes to the tail, Level2 to the head, Level1 anywhere.
Submit(i, level) ==
    /\ ~ closed
    /\ i \notin submitted
    /\ submitted' = submitted \cup {i}
    /\ \/ level = "Level0" /\ pending' = Append(pending, i)
       \/ level = "Level2" /\ pending' = <<i>> \o pending
       \/ /\ level = "Level1"
          /\ \E k \in 0 .. Len(pending) :
                pending' = SubSeq(pending, 1, k) \o <<i>>
                             \o SubSeq(pending, k + 1, Len(pending))
    /\ UNCHANGED <<active, done, closed>>

Take ==
    /\ active = {}
    /\ pending # << >>
    /\ active' = {Head(pending)}
    /\ pending' = Tail(pending)
    /\ UNCHANGED <<submitted, done, closed>>

Finish ==
    /\ \E i \in active : active = {i} /\ done' = Append(done, i)
    /\ active' = {}
    /\ UNCHANGED <<submitted, pending, closed>>

Close ==
    /\ ~ closed
    /\ closed' = TRUE
    /\ pending' = << >>
    /\ UNCHANGED <<submitted, active, done>>

WQNext ==
    \/ \E i \in Item, level \in Level : Submit(i, level)
    \/ Take
    \/ Finish
    \/ Close

SafeSpec == WQInit /\ [][WQNext]_wqVars

Spec == SafeSpec /\ WF_wqVars(Take) /\ WF_wqVars(Finish)
=============================================================================
