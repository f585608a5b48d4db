-------------------------- MODULE ThreadWorkerProofs --------------------------
(***************************************************************************)
(* Inductive invariants of ThreadWorker and the theorems they prove.       *)
(***************************************************************************)
EXTENDS ThreadWorker, SequenceTheorems, TLAPS

-----------------------------------------------------------------------------
(* What the calls of IKFArrayList do, for a list of any length. *)

\* The list with x put after its first k elements.
PutAt(l, k, x) == SubSeq(l, 1, k) \o <<x>> \o SubSeq(l, k + 1, Len(l))

LEMMA PutAtIsSeq ==
  ASSUME NEW S, NEW l \in Seq(S), NEW x \in S, NEW k \in 0 .. Len(l)
  PROVE  /\ PutAt(l, k, x) \in Seq(S)
         /\ Len(PutAt(l, k, x)) = Len(l) + 1
<1> DEFINE p == SubSeq(l, 1, k)
           q == SubSeq(l, k + 1, Len(l))
           r == p \o <<x>>
<1>1. Len(l) \in Nat /\ \A i \in 1 .. Len(l) : l[i] \in S
  BY LenProperties
<1>2. p \in Seq(S) /\ Len(p) = k
  BY <1>1, SubSeqProperties
<1>3. q \in Seq(S) /\ Len(q) = Len(l) - k
  BY <1>1, SubSeqProperties
<1>4. <<x>> \in Seq(S) /\ Len(<<x>>) = 1
  OBVIOUS
<1>5. r \in Seq(S) /\ Len(r) = k + 1
  <2> HIDE DEF p
  <2> QED BY <1>2, <1>4, ConcatProperties
<1>6. r \o q \in Seq(S) /\ Len(r \o q) = Len(r) + Len(q)
  <2> HIDE DEF r, q
  <2> QED BY <1>3, <1>5, ConcatProperties
<1>7. PutAt(l, k, x) = r \o q
  BY DEF PutAt
<1> HIDE DEF p, q, r
<1>8. Len(r \o q) = Len(l) + 1
  BY <1>1, <1>3, <1>5, <1>6
<1> QED BY <1>6, <1>7, <1>8

LEMMA AddElementIsPutAt ==
  ASSUME NEW S, NEW l \in Seq(S), NEW x \in S
  PROVE  AddElement(l, x) = PutAt(l, Len(l), x)
<1>1. Len(l) \in Nat
  BY LenProperties
<1>2. SubSeq(l, 1, Len(l)) = l
  BY SubSeqFull
<1>3. SubSeq(l, Len(l) + 1, Len(l)) = << >>
  BY <1>1, SubSeqEmpty
<1>4. Append(l, x) = l \o <<x>> /\ l \o <<x>> \in Seq(S)
  BY AppendIsConcat, AppendProperties
<1>5. (l \o <<x>>) \o << >> = l \o <<x>>
  BY <1>4, ConcatEmptySeq
<1> QED BY <1>2, <1>3, <1>4, <1>5 DEF AddElement, PutAt

LEMMA InsertAtHeadIsPutAt ==
  ASSUME NEW S, NEW l \in Seq(S), NEW x \in S
  PROVE  /\ InsertElementAt(l, 0, x) = PutAt(l, 0, x)
         /\ InsertElementAt(l, 0, x) = <<x>> \o l
<1>1. Len(l) \in Nat
  BY LenProperties
<1>2. SubSeq(l, 1, 0) = << >> /\ SubSeq(l, 1, Len(l)) = l
  BY SubSeqEmpty, SubSeqFull
<1>3. << >> \o <<x>> = <<x>>
  BY <<x>> \in Seq(S), ConcatEmptySeq
<1>4. PutAt(l, 0, x) = <<x>> \o l
  BY <1>2, <1>3 DEF PutAt
<1>5. CASE Len(l) = 0
  <2>1. InsertElementAt(l, 0, x) = PutAt(l, 0, x)
    BY <1>5, AddElementIsPutAt DEF InsertElementAt
  <2> QED BY <2>1, <1>4
<1>6. CASE Len(l) # 0
  BY <1>4, <1>6 DEF InsertElementAt
<1> QED BY <1>5, <1>6

LEMMA InsertInsideIsPutAt ==
  ASSUME NEW S, NEW l \in Seq(S), NEW x \in S, NEW index \in 0 .. Len(l)
  PROVE  \E k \in 0 .. Len(l) : InsertElementAt(l, index, x) = PutAt(l, k, x)
<1>1. Len(l) \in Nat
  BY LenProperties
<1>2. CASE index = Len(l)
  BY <1>1, <1>2, AddElementIsPutAt DEF InsertElementAt
<1>3. CASE index = 0
  BY <1>1, <1>3, InsertAtHeadIsPutAt
<1>4. CASE index # 0 /\ index # Len(l)
  <2>1. index + 1 \in 0 .. Len(l) /\ (index + 1) + 1 = index + 2
    BY <1>1, <1>4
  <2> QED BY <1>4, <2>1 DEF InsertElementAt, PutAt
<1> QED BY <1>2, <1>3, <1>4

LEMMA RemoveFirstIsTail ==
  ASSUME NEW S, NEW l \in Seq(S), l # << >>
  PROVE  RemoveElement(l, 0) = Tail(l)
<1>1. Len(l) \in Nat
  BY LenProperties
<1>2. SubSeq(l, 1, 0) = << >>
  BY SubSeqEmpty
<1>3. SubSeq(l, 2, Len(l)) = Tail(l) /\ Tail(l) \in Seq(S)
  BY TailIsSubSeq, HeadTailProperties
<1>4. << >> \o Tail(l) = Tail(l)
  BY <1>3, ConcatEmptySeq
<1> QED BY <1>2, <1>3, <1>4 DEF RemoveElement

-----------------------------------------------------------------------------
(* Parts of the invariant that hold whatever the operating system does. *)

\* A thread serves the worker only under _thread_running or inside the start
\* handshake, and these exclude each other.
ThreadOwnership ==
    /\ running => call = "none"
    /\ call = "none" => starting = None /\ ~ started
    /\ call = "startup" => owner = "created"
    /\ call = "put" => owner = "open"
    /\ owner = "created" => ~ running
    /\ \A t \in Thread : pc[t] \in Alive => running \/ (call # "none" /\ t = starting)

\* Every thread past its Retain holds its reference; the owner holds one until
\* it releases the worker.
References ==
    /\ \A t \in Thread : pc[t] \in InLoop \cup {"exit"} => t \in holders
    /\ owner # "released" => Owner \in holders

\* An item that was removed from the queue is in the hands of the thread that
\* executes it, and of no other.
Hands == \A t \in Thread : cur[t] = None <=> pc[t] # "exec"

\* The RequestExit enters the queue with the shutdown and leaves it first; after
\* that nothing is removed any more.
ExitFirst ==
    /\ owner \in {"created", "open"} => queue \in Seq(Item)
    /\ owner = "created" => queue = << >>
    /\ \A t \in Thread : pc[t] = "quit" => Closed
    /\ Closed /\ queue # << >> =>
         Head(queue) = Exit \/ \E t \in Thread : pc[t] = "quit"

\* Only a thread at the wait is known to the event, asleep only when it is not set.
EventUse ==
    /\ \A t \in event.waiting \cup event.woken : pc[t] = "wait"
    /\ event.waiting \cap event.woken = {}
    /\ event.waiting # {} => ~ event.state

WorkerInv ==
    TypeOK /\ ThreadOwnership /\ SingleThread /\ References /\ Hands /\ ExitFirst
      /\ EventUse

-----------------------------------------------------------------------------
(* Parts that need an operating system without the faults of FaultKinds. *)

\* The event is set while something is queued; a PutItem that is starting the
\* thread has found it set or is going to set it.
EventCoversQueue ==
    /\ queue # << >> /\ ~ Locked => event.state
    /\ Locked => queue # << >> /\ (notify \/ event.state)
    /\ owner = "created" => ~ event.state

\* Conversely, outside the execution of a task a set event means a queued task.
NoFalseAlarm ==
    \A t \in Thread :
      /\ pc[t] # "empty"
      /\ pc[t] = "take" => queue # << >>
      /\ pc[t] \in {"entry", "begin", "wait", "expired"} /\ event.state => queue # << >>
      /\ t \in event.woken => event.state

\* A worker that believes its thread is running has one.
ThreadPresent ==
    /\ running /\ owner = "open" => \E t \in Thread : pc[t] \in Alive
    /\ ~ running /\ call = "none" /\ owner = "open" => queue = << >>
    /\ call # "none" => starting \in Thread /\ pc[starting] \in Alive

WakeupInv == WorkerInv /\ EventCoversQueue /\ NoFalseAlarm /\ ThreadPresent

-----------------------------------------------------------------------------
(* Where PutItem places an item, for a queue of any length. *)

LEMMA PlaceProperties ==
  ASSUME NEW S, NEW l \in Seq(S), NEW i \in S, NEW level \in Level
  PROVE  /\ \E k \in 0 .. Len(l) : Place(l, i, level) = PutAt(l, k, i)
         /\ level = "Level0" => Place(l, i, level) = Append(l, i)
         /\ level = "Level2" => Place(l, i, level) = <<i>> \o l
<1>1. Len(l) \in Nat /\ level \in {"Level0", "Level1", "Level2"}
  BY LenProperties, WorkerAssumption
<1>2. CASE level = "Level0"
  BY <1>1, <1>2, AddElementIsPutAt DEF Place, AddElement
<1>3. CASE level = "Level2"
  BY <1>1, <1>3, InsertAtHeadIsPutAt DEF Place
<1>4. CASE level = "Level1"
  <2>1. CASE Len(l) \div 2 = 0
    BY <1>1, <1>4, <2>1, AddElementIsPutAt DEF Place
  <2>2. CASE Len(l) \div 2 # 0
    <3>1. Len(l) \div 2 - 1 \in 0 .. Len(l)
      BY <1>1, <2>2
    <3>2. Place(l, i, level) = InsertElementAt(l, Len(l) \div 2 - 1, i)
      BY <1>4, <2>2 DEF Place
    <3> QED BY <1>4, <3>1, <3>2, InsertInsideIsPutAt
  <2> QED BY <2>1, <2>2
<1> QED BY <1>1, <1>2, <1>3, <1>4

\* Where a task is put, at any level, the queue stays one and is not empty.
COROLLARY PlaceIsSeq ==
  ASSUME NEW S, NEW l \in Seq(S), NEW i \in S, NEW level \in Level
  PROVE  Place(l, i, level) \in Seq(S) /\ Place(l, i, level) # << >>
<1>1. PICK k \in 0 .. Len(l) : Place(l, i, level) = PutAt(l, k, i)
  BY PlaceProperties
<1>2. PutAt(l, k, i) \in Seq(S) /\ Len(PutAt(l, k, i)) = Len(l) + 1
  BY PutAtIsSeq
<1>3. Len(l) \in Nat
  BY LenProperties
<1> QED BY <1>1, <1>2, <1>3, EmptySeq

-----------------------------------------------------------------------------
(* Type correctness. *)

LEMMA TypeStep == TypeOK /\ Hands /\ [Next]_vars => TypeOK'
<1> SUFFICES ASSUME TypeOK, Hands, [Next]_vars PROVE TypeOK'
  OBVIOUS
<1> USE DEF TypeOK, EventValue, OwnerStates, PC, Alive, InLoop, Goto, Locked,
            qVars, startVars, lifeVars, workVars
<1>1. CASE UNCHANGED vars
  BY <1>1 DEF vars
<1>2. CASE StartDone
  BY <1>2 DEF StartDone, KFEventSetManual
<1>3. CASE OwnerNext
  <2>1. CASE StartupDelayed
    BY <2>1 DEF StartupDelayed
  <2>2. ASSUME NEW t \in Thread, StartupThread(t) PROVE TypeOK'
    BY <2>2 DEF StartupThread, BeginStart
  <2>3. CASE StartupFails
    BY <2>3 DEF StartupFails
  <2>4. ASSUME NEW i \in Item, NEW level \in Level, Enqueue(i, level)
        PROVE  queue' \in Seq(Item \cup {Exit}) /\ submitted' \subseteq Item
    <3>1. i \in Item \cup {Exit}
      OBVIOUS
    <3>2. Place(queue, i, level) \in Seq(Item \cup {Exit})
      BY <3>1, PlaceIsSeq
    <3> QED BY <2>4, <3>2 DEF Enqueue
  <2>5. ASSUME NEW i \in Item, NEW level \in Level, PutItem(i, level) PROVE TypeOK'
    BY <2>4, <2>5 DEF PutItem, KFEventSetManual
  <2>6. ASSUME NEW i \in Item, NEW level \in Level, NEW t \in Thread,
               PutItemStart(i, level, t)
        PROVE  TypeOK'
    BY <2>4, <2>6 DEF PutItemStart, BeginStart
  <2>7. ASSUME NEW i \in Item, NEW level \in Level, PutItemAbort(i, level)
        PROVE  TypeOK'
    BY <2>4, <2>7 DEF PutItemAbort
  <2>8. CASE TaskQueueShutdown
    <3>1. InsertElementAt(queue, 0, Exit) = <<Exit>> \o queue
      BY InsertAtHeadIsPutAt
    <3>2. <<Exit>> \o queue \in Seq(Item \cup {Exit})
      BY ConcatProperties
    <3> QED BY <2>8, <3>1, <3>2 DEF TaskQueueShutdown, KFEventSetManual
  <2>9. CASE Release
    BY <2>9 DEF Release
  <2> QED BY <1>3, <2>1, <2>2, <2>3, <2>5, <2>6, <2>7, <2>8, <2>9 DEF OwnerNext
<1>4. ASSUME NEW t \in Thread, ThreadNext(t) PROVE TypeOK'
  <2>1. CASE ThreadEntry(t)
    BY <2>1 DEF ThreadEntry
  <2>2. CASE Retain(t)
    BY <2>2 DEF Retain
  <2>3. CASE WaitSleep(t)
    BY <2>3 DEF WaitSleep, Sleep
  <2>4. CASE WaitReturn(t)
    BY <2>4 DEF WaitReturn, Return
  <2>5. CASE Expired(t)
    BY <2>5 DEF Expired
  <2>6. CASE RemoveFirst(t)
    <3>1. queue # << >> /\ queue' = Tail(queue)
      BY <2>6, RemoveFirstIsTail DEF RemoveFirst
    <3>2. Head(queue) \in Item \cup {Exit} /\ Tail(queue) \in Seq(Item \cup {Exit})
      BY <3>1, HeadTailProperties
    <3> QED BY <2>6, <3>1, <3>2 DEF RemoveFirst
  <2>7. CASE RemoveNothing(t)
    BY <2>7 DEF RemoveNothing
  <2>8. CASE ResetEvent(t)
    BY <2>8 DEF ResetEvent, KFEventReset
  <2>9. CASE Execute(t)
    <3>1. cur[t] \in Item
      BY <2>9 DEF Execute, Hands
    <3>2. done' \in Seq(Item)
      BY <2>9, <3>1, AppendProperties DEF Execute
    <3> QED BY <2>9, <3>2 DEF Execute
  <2>10. CASE FinishTask(t)
    BY <2>10 DEF FinishTask, KFEventReset
  <2>11. CASE Quit(t)
    BY <2>11 DEF Quit, RemoveAllElements
  <2>12. CASE OnThreadExit(t)
    BY <2>12 DEF OnThreadExit
  <2> QED BY <1>4, <2>1, <2>2, <2>3, <2>4, <2>5, <2>6, <2>7, <2>8, <2>9, <2>10,
             <2>11, <2>12 DEF ThreadNext
<1>5. ASSUME NEW t \in Thread, WaitTimeOut(t) PROVE TypeOK'
  BY <1>5 DEF WaitTimeOut, TimeOut
<1>6. ASSUME NEW t \in Thread, WaitSpurious(t) PROVE TypeOK'
  BY <1>6 DEF WaitSpurious, SpuriousWake
<1> QED BY <1>1, <1>2, <1>3, <1>4, <1>5, <1>6 DEF Next

\* A thread holds an item exactly while it executes it.
LEMMA HandsStep ==
  TypeOK /\ Hands /\ [Next]_vars => Hands'
<1> SUFFICES ASSUME TypeOK, Hands, [Next]_vars PROVE Hands'
  OBVIOUS
<1> USE DEF TypeOK, Hands, Goto, Locked, qVars, startVars, lifeVars, workVars
<1>1. CASE UNCHANGED vars
  BY <1>1 DEF vars
<1>2. CASE StartDone
  BY <1>2 DEF StartDone
<1>3. CASE OwnerNext
  <2>1. CASE StartupDelayed
    BY <2>1 DEF StartupDelayed
  <2>2. ASSUME NEW t \in Thread, StartupThread(t)
       PROVE  Hands'
    BY <2>2 DEF StartupThread, BeginStart
  <2>3. CASE StartupFails
    BY <2>3 DEF StartupFails
  <2>4. ASSUME NEW i \in Item, NEW level \in Level, PutItem(i, level)
       PROVE  Hands'
    BY <2>4 DEF PutItem, Enqueue
  <2>5. ASSUME NEW i \in Item, NEW level \in Level, NEW t \in Thread, PutItemStart(i, level, t)
       PROVE  Hands'
    BY <2>5 DEF PutItemStart, Enqueue, BeginStart
  <2>6. ASSUME NEW i \in Item, NEW level \in Level, PutItemAbort(i, level)
       PROVE  Hands'
    BY <2>6 DEF PutItemAbort, Enqueue
  <2>7. CASE TaskQueueShutdown
    BY <2>7 DEF TaskQueueShutdown
  <2>8. CASE Release
    BY <2>8 DEF Release
  <2> QED BY <1>3, <2>1, <2>2, <2>3, <2>4, <2>5, <2>6, <2>7, <2>8 DEF OwnerNext
<1>4. ASSUME NEW t \in Thread, ThreadNext(t) PROVE Hands'
  <2>1. CASE ThreadEntry(t)
    BY <2>1 DEF ThreadEntry
  <2>2. CASE Retain(t)
    BY <2>2 DEF Retain
  <2>3. CASE WaitSleep(t)
    BY <2>3 DEF WaitSleep
  <2>4. CASE WaitReturn(t)
    BY <2>4 DEF WaitReturn
  <2>5. CASE Expired(t)
    BY <2>5 DEF Expired
  <2>6. CASE RemoveFirst(t)
    <3>1. Head(queue) \in Item \cup {Exit}
      BY <2>6, HeadTailProperties DEF RemoveFirst
    <3> QED BY <2>6, <3>1, WorkerAssumption DEF RemoveFirst
  <2>7. CASE RemoveNothing(t)
    BY <2>7 DEF RemoveNothing
  <2>8. CASE ResetEvent(t)
    BY <2>8 DEF ResetEvent
  <2>9. CASE Execute(t)
    BY <2>9 DEF Execute
  <2>10. CASE FinishTask(t)
    BY <2>10 DEF FinishTask
  <2>11. CASE Quit(t)
    BY <2>11 DEF Quit
  <2>12. CASE OnThreadExit(t)
    BY <2>12 DEF OnThreadExit
  <2> QED BY <1>4, <2>1, <2>2, <2>3, <2>4, <2>5, <2>6, <2>7, <2>8, <2>9, <2>10,
             <2>11, <2>12 DEF ThreadNext
<1>5. ASSUME NEW t \in Thread, WaitTimeOut(t) PROVE Hands'
  BY <1>5 DEF WaitTimeOut
<1>6. ASSUME NEW t \in Thread, WaitSpurious(t) PROVE Hands'
  BY <1>6 DEF WaitSpurious
<1> QED BY <1>1, <1>2, <1>3, <1>4, <1>5, <1>6 DEF Next


\* A second thread is started only when the first has left the loop.
LEMMA OwnershipStep ==
  TypeOK /\ ThreadOwnership /\ SingleThread /\ [Next]_vars => (ThreadOwnership /\ SingleThread)'
<1> SUFFICES ASSUME TypeOK, ThreadOwnership, SingleThread, [Next]_vars PROVE (ThreadOwnership /\ SingleThread)'
  OBVIOUS
<1> USE DEF TypeOK, ThreadOwnership, SingleThread, Alive, InLoop, Goto, Locked, qVars, startVars, lifeVars, workVars
<1>1. CASE UNCHANGED vars
  BY <1>1 DEF vars
<1>2. CASE StartDone
  BY <1>2 DEF StartDone
<1>3. CASE OwnerNext
  <2>1. CASE StartupDelayed
    BY <2>1 DEF StartupDelayed
  <2>2. ASSUME NEW t \in Thread, StartupThread(t)
       PROVE  (ThreadOwnership /\ SingleThread)'
    BY <2>2 DEF StartupThread, BeginStart
  <2>3. CASE StartupFails
    BY <2>3 DEF StartupFails
  <2>4. ASSUME NEW i \in Item, NEW level \in Level, PutItem(i, level)
       PROVE  (ThreadOwnership /\ SingleThread)'
    BY <2>4 DEF PutItem, Enqueue
  <2>5. ASSUME NEW i \in Item, NEW level \in Level, NEW t \in Thread, PutItemStart(i, level, t)
       PROVE  (ThreadOwnership /\ SingleThread)'
    BY <2>5 DEF PutItemStart, Enqueue, BeginStart
  <2>6. ASSUME NEW i \in Item, NEW level \in Level, PutItemAbort(i, level)
       PROVE  (ThreadOwnership /\ SingleThread)'
    BY <2>6 DEF PutItemAbort, Enqueue
  <2>7. CASE TaskQueueShutdown
    BY <2>7 DEF TaskQueueShutdown
  <2>8. CASE Release
    BY <2>8 DEF Release
  <2> QED BY <1>3, <2>1, <2>2, <2>3, <2>4, <2>5, <2>6, <2>7, <2>8 DEF OwnerNext
<1>4. ASSUME NEW t \in Thread, ThreadNext(t) PROVE (ThreadOwnership /\ SingleThread)'
  <2>1. CASE ThreadEntry(t)
    BY <2>1, WorkerAssumption DEF ThreadEntry
  <2>2. CASE Retain(t)
    BY <2>2 DEF Retain
  <2>3. CASE WaitSleep(t)
    BY <2>3 DEF WaitSleep
  <2>4. CASE WaitReturn(t)
    BY <2>4 DEF WaitReturn
  <2>5. CASE Expired(t)
    BY <2>5 DEF Expired
  <2>6. CASE RemoveFirst(t)
    BY <2>6 DEF RemoveFirst
  <2>7. CASE RemoveNothing(t)
    BY <2>7 DEF RemoveNothing
  <2>8. CASE ResetEvent(t)
    BY <2>8 DEF ResetEvent
  <2>9. CASE Execute(t)
    BY <2>9 DEF Execute
  <2>10. CASE FinishTask(t)
    BY <2>10 DEF FinishTask
  <2>11. CASE Quit(t)
    BY <2>11 DEF Quit
  <2>12. CASE OnThreadExit(t)
    BY <2>12 DEF OnThreadExit
  <2> QED BY <1>4, <2>1, <2>2, <2>3, <2>4, <2>5, <2>6, <2>7, <2>8, <2>9, <2>10,
             <2>11, <2>12 DEF ThreadNext
<1>5. ASSUME NEW t \in Thread, WaitTimeOut(t) PROVE (ThreadOwnership /\ SingleThread)'
  BY <1>5 DEF WaitTimeOut
<1>6. ASSUME NEW t \in Thread, WaitSpurious(t) PROVE (ThreadOwnership /\ SingleThread)'
  BY <1>6 DEF WaitSpurious
<1> QED BY <1>1, <1>2, <1>3, <1>4, <1>5, <1>6 DEF Next


\* Who runs the loop holds a reference.
LEMMA ReferencesStep ==
  TypeOK /\ ThreadOwnership /\ References /\ [Next]_vars => References'
<1> SUFFICES ASSUME TypeOK, ThreadOwnership, References, [Next]_vars PROVE References'
  OBVIOUS
<1> USE DEF TypeOK, ThreadOwnership, References, Alive, InLoop, OwnerStates, Goto, Locked, qVars, startVars, lifeVars, workVars
<1>1. CASE UNCHANGED vars
  BY <1>1 DEF vars
<1>2. CASE StartDone
  BY <1>2 DEF StartDone
<1>3. CASE OwnerNext
  <2>1. CASE StartupDelayed
    BY <2>1 DEF StartupDelayed
  <2>2. ASSUME NEW t \in Thread, StartupThread(t)
       PROVE  References'
    BY <2>2 DEF StartupThread, BeginStart
  <2>3. CASE StartupFails
    BY <2>3, WorkerAssumption DEF StartupFails
  <2>4. ASSUME NEW i \in Item, NEW level \in Level, PutItem(i, level)
       PROVE  References'
    BY <2>4 DEF PutItem, Enqueue
  <2>5. ASSUME NEW i \in Item, NEW level \in Level, NEW t \in Thread, PutItemStart(i, level, t)
       PROVE  References'
    BY <2>5 DEF PutItemStart, Enqueue, BeginStart
  <2>6. ASSUME NEW i \in Item, NEW level \in Level, PutItemAbort(i, level)
       PROVE  References'
    BY <2>6 DEF PutItemAbort, Enqueue
  <2>7. CASE TaskQueueShutdown
    BY <2>7 DEF TaskQueueShutdown
  <2>8. CASE Release
    BY <2>8, WorkerAssumption DEF Release
  <2> QED BY <1>3, <2>1, <2>2, <2>3, <2>4, <2>5, <2>6, <2>7, <2>8 DEF OwnerNext
<1>4. ASSUME NEW t \in Thread, ThreadNext(t) PROVE References'
  <2>1. CASE ThreadEntry(t)
    BY <2>1 DEF ThreadEntry
  <2>2. CASE Retain(t)
    BY <2>2 DEF Retain
  <2>3. CASE WaitSleep(t)
    BY <2>3 DEF WaitSleep
  <2>4. CASE WaitReturn(t)
    BY <2>4 DEF WaitReturn
  <2>5. CASE Expired(t)
    BY <2>5 DEF Expired
  <2>6. CASE RemoveFirst(t)
    BY <2>6 DEF RemoveFirst
  <2>7. CASE RemoveNothing(t)
    BY <2>7 DEF RemoveNothing
  <2>8. CASE ResetEvent(t)
    BY <2>8 DEF ResetEvent
  <2>9. CASE Execute(t)
    BY <2>9 DEF Execute
  <2>10. CASE FinishTask(t)
    BY <2>10 DEF FinishTask
  <2>11. CASE Quit(t)
    BY <2>11 DEF Quit
  <2>12. CASE OnThreadExit(t)
    BY <2>12, WorkerAssumption DEF OnThreadExit
  <2> QED BY <1>4, <2>1, <2>2, <2>3, <2>4, <2>5, <2>6, <2>7, <2>8, <2>9, <2>10,
             <2>11, <2>12 DEF ThreadNext
<1>5. ASSUME NEW t \in Thread, WaitTimeOut(t) PROVE References'
  BY <1>5 DEF WaitTimeOut
<1>6. ASSUME NEW t \in Thread, WaitSpurious(t) PROVE References'
  BY <1>6 DEF WaitSpurious
<1> QED BY <1>1, <1>2, <1>3, <1>4, <1>5, <1>6 DEF Next

\* The RequestExit is the last element that leaves the queue.
LEMMA ExitFirstStep ==
  TypeOK /\ ThreadOwnership /\ SingleThread /\ ExitFirst /\ [Next]_vars => ExitFirst'
<1> SUFFICES ASSUME TypeOK, ThreadOwnership, SingleThread, ExitFirst, [Next]_vars PROVE ExitFirst'
  OBVIOUS
<1> USE DEF TypeOK, ThreadOwnership, SingleThread, ExitFirst, Closed, Alive, InLoop, OwnerStates, Goto, Locked, qVars, startVars, lifeVars, workVars
<1>1. CASE UNCHANGED vars
  BY <1>1 DEF vars
<1>2. CASE StartDone
  BY <1>2 DEF StartDone
<1>3. CASE OwnerNext
  <2>1. CASE StartupDelayed
    BY <2>1 DEF StartupDelayed
  <2>2. ASSUME NEW t \in Thread, StartupThread(t)
       PROVE  ExitFirst'
    BY <2>2 DEF StartupThread, BeginStart
  <2>3. CASE StartupFails
    BY <2>3 DEF StartupFails
  <2>4. ASSUME NEW i \in Item, NEW level \in Level, PutItem(i, level)
       PROVE  ExitFirst'
    BY <2>4, PlaceIsSeq DEF PutItem, Enqueue
  <2>5. ASSUME NEW i \in Item, NEW level \in Level, NEW t \in Thread, PutItemStart(i, level, t)
       PROVE  ExitFirst'
    BY <2>5, PlaceIsSeq DEF PutItemStart, Enqueue, BeginStart
  <2>6. ASSUME NEW i \in Item, NEW level \in Level, PutItemAbort(i, level)
       PROVE  ExitFirst'
    BY <2>6, PlaceIsSeq DEF PutItemAbort, Enqueue
  <2>7. CASE TaskQueueShutdown
    <3>1. queue' = <<Exit>> \o queue
      BY <2>7, InsertAtHeadIsPutAt DEF TaskQueueShutdown
    <3>2. <<Exit>> \o queue # << >> /\ Head(<<Exit>> \o queue) = Exit
      BY ConcatProperties, LenProperties
    <3> QED BY <2>7, <3>1, <3>2 DEF TaskQueueShutdown
  <2>8. CASE Release
    BY <2>8 DEF Release
  <2> QED BY <1>3, <2>1, <2>2, <2>3, <2>4, <2>5, <2>6, <2>7, <2>8 DEF OwnerNext
<1>4. ASSUME NEW t \in Thread, ThreadNext(t) PROVE ExitFirst'
  <2>1. CASE ThreadEntry(t)
    BY <2>1 DEF ThreadEntry
  <2>2. CASE Retain(t)
    BY <2>2 DEF Retain
  <2>3. CASE WaitSleep(t)
    BY <2>3 DEF WaitSleep
  <2>4. CASE WaitReturn(t)
    BY <2>4 DEF WaitReturn
  <2>5. CASE Expired(t)
    BY <2>5 DEF Expired
  <2>6. CASE RemoveFirst(t)
    <3>1. queue # << >> /\ queue' = Tail(queue)
      BY <2>6, RemoveFirstIsTail DEF RemoveFirst
    <3>2. CASE Closed
      <4>1. Head(queue) = Exit
        BY <2>6, <3>1, <3>2 DEF RemoveFirst
      <4> QED BY <2>6, <3>2, <4>1 DEF RemoveFirst
    <3>3. CASE ~ Closed
      <4>1. queue \in Seq(Item)
        BY <3>3
      <4>2. Head(queue) \in Item /\ Tail(queue) \in Seq(Item)
        BY <3>1, <4>1, HeadTailProperties
      <4> QED BY <2>6, <3>1, <3>3, <4>2, WorkerAssumption DEF RemoveFirst
    <3> QED BY <3>2, <3>3
  <2>7. CASE RemoveNothing(t)
    BY <2>7 DEF RemoveNothing
  <2>8. CASE ResetEvent(t)
    BY <2>8 DEF ResetEvent
  <2>9. CASE Execute(t)
    BY <2>9 DEF Execute
  <2>10. CASE FinishTask(t)
    BY <2>10 DEF FinishTask
  <2>11. CASE Quit(t)
    BY <2>11 DEF Quit, RemoveAllElements
  <2>12. CASE OnThreadExit(t)
    BY <2>12 DEF OnThreadExit
  <2> QED BY <1>4, <2>1, <2>2, <2>3, <2>4, <2>5, <2>6, <2>7, <2>8, <2>9, <2>10,
             <2>11, <2>12 DEF ThreadNext
<1>5. ASSUME NEW t \in Thread, WaitTimeOut(t) PROVE ExitFirst'
  BY <1>5 DEF WaitTimeOut
<1>6. ASSUME NEW t \in Thread, WaitSpurious(t) PROVE ExitFirst'
  BY <1>6 DEF WaitSpurious
<1> QED BY <1>1, <1>2, <1>3, <1>4, <1>5, <1>6 DEF Next

\* The event knows only threads at the wait, and none sleeps while it is set.
LEMMA EventUseStep ==
  TypeOK /\ EventUse /\ [Next]_vars => EventUse'
<1> SUFFICES ASSUME TypeOK, EventUse, [Next]_vars PROVE EventUse'
  OBVIOUS
<1> USE DEF TypeOK, EventUse, EventValue, Goto, Locked, qVars, startVars, lifeVars, workVars
<1>1. CASE UNCHANGED vars
  BY <1>1 DEF vars
<1>2. CASE StartDone
  BY <1>2 DEF StartDone, KFEventSetManual
<1>3. CASE OwnerNext
  <2>1. CASE StartupDelayed
    BY <2>1 DEF StartupDelayed
  <2>2. ASSUME NEW t \in Thread, StartupThread(t)
       PROVE  EventUse'
    BY <2>2 DEF StartupThread, BeginStart
  <2>3. CASE StartupFails
    BY <2>3 DEF StartupFails
  <2>4. ASSUME NEW i \in Item, NEW level \in Level, PutItem(i, level)
       PROVE  EventUse'
    BY <2>4 DEF PutItem, Enqueue, KFEventSetManual
  <2>5. ASSUME NEW i \in Item, NEW level \in Level, NEW t \in Thread, PutItemStart(i, level, t)
       PROVE  EventUse'
    BY <2>5 DEF PutItemStart, Enqueue, BeginStart
  <2>6. ASSUME NEW i \in Item, NEW level \in Level, PutItemAbort(i, level)
       PROVE  EventUse'
    BY <2>6 DEF PutItemAbort, Enqueue
  <2>7. CASE TaskQueueShutdown
    BY <2>7 DEF TaskQueueShutdown, KFEventSetManual
  <2>8. CASE Release
    BY <2>8 DEF Release
  <2> QED BY <1>3, <2>1, <2>2, <2>3, <2>4, <2>5, <2>6, <2>7, <2>8 DEF OwnerNext
<1>4. ASSUME NEW t \in Thread, ThreadNext(t) PROVE EventUse'
  <2>1. CASE ThreadEntry(t)
    BY <2>1 DEF ThreadEntry
  <2>2. CASE Retain(t)
    BY <2>2 DEF Retain
  <2>3. CASE WaitSleep(t)
    BY <2>3 DEF WaitSleep, MustSleep, Sleep
  <2>4. CASE WaitReturn(t)
    BY <2>4 DEF WaitReturn, MayReturn, Return
  <2>5. CASE Expired(t)
    BY <2>5 DEF Expired
  <2>6. CASE RemoveFirst(t)
    BY <2>6 DEF RemoveFirst
  <2>7. CASE RemoveNothing(t)
    BY <2>7 DEF RemoveNothing
  <2>8. CASE ResetEvent(t)
    BY <2>8 DEF ResetEvent, KFEventReset
  <2>9. CASE Execute(t)
    BY <2>9 DEF Execute
  <2>10. CASE FinishTask(t)
    BY <2>10 DEF FinishTask, KFEventReset
  <2>11. CASE Quit(t)
    BY <2>11 DEF Quit
  <2>12. CASE OnThreadExit(t)
    BY <2>12 DEF OnThreadExit
  <2> QED BY <1>4, <2>1, <2>2, <2>3, <2>4, <2>5, <2>6, <2>7, <2>8, <2>9, <2>10,
             <2>11, <2>12 DEF ThreadNext
<1>5. ASSUME NEW t \in Thread, WaitTimeOut(t) PROVE EventUse'
  BY <1>5 DEF WaitTimeOut, MayGiveUp, TimeOut
<1>6. ASSUME NEW t \in Thread, WaitSpurious(t) PROVE EventUse'
  BY <1>6 DEF WaitSpurious, MayGiveUp, SpuriousWake
<1> QED BY <1>1, <1>2, <1>3, <1>4, <1>5, <1>6 DEF Next

-----------------------------------------------------------------------------
(* No lost wake-up, without the faults. *)

\* Whoever puts the first item sets the event, and it is reset only when the queue
\* is found empty under the lock.
LEMMA EventCoversQueueStep ==
  ASSUME Faults = {}, TypeOK, ThreadOwnership, ExitFirst, EventCoversQueue, NoFalseAlarm, [Next]_vars
  PROVE  EventCoversQueue'
<1> USE DEF TypeOK, EventValue, ThreadOwnership, ExitFirst, EventCoversQueue, NoFalseAlarm, Goto, Locked, qVars, startVars, lifeVars, workVars
<1>1. CASE UNCHANGED vars
  BY <1>1 DEF vars
<1>2. CASE StartDone
  BY <1>2 DEF StartDone, KFEventSetManual
<1>3. CASE OwnerNext
  <2>1. CASE StartupDelayed
    BY <2>1 DEF StartupDelayed
  <2>2. ASSUME NEW t \in Thread, StartupThread(t)
       PROVE  EventCoversQueue'
    BY <2>2 DEF StartupThread, BeginStart
  <2>3. CASE StartupFails
    BY <2>3 DEF StartupFails
  <2>4. ASSUME NEW i \in Item, NEW level \in Level, PutItem(i, level)
       PROVE  EventCoversQueue'
    <3>1. i \in Item \cup {Exit}
      OBVIOUS
    <3>2. queue' # << >>
      BY <2>4, <3>1, PlaceIsSeq DEF PutItem, Enqueue
    <3> QED BY <2>4, <3>2 DEF PutItem, Enqueue, KFEventSetManual
  <2>5. ASSUME NEW i \in Item, NEW level \in Level, NEW t \in Thread, PutItemStart(i, level, t)
       PROVE  EventCoversQueue'
    <3>1. i \in Item \cup {Exit}
      OBVIOUS
    <3>2. queue' # << >>
      BY <2>5, <3>1, PlaceIsSeq DEF PutItemStart, Enqueue
    <3> QED BY <2>5, <3>2 DEF PutItemStart, Enqueue, BeginStart
  <2>6. ASSUME NEW i \in Item, NEW level \in Level, PutItemAbort(i, level)
       PROVE  EventCoversQueue'
    BY <2>6 DEF PutItemAbort, Enqueue
  <2>7. CASE TaskQueueShutdown
    <3>1. queue' = <<Exit>> \o queue
      BY <2>7, InsertAtHeadIsPutAt DEF TaskQueueShutdown
    <3>2. queue' # << >>
      BY <3>1, ConcatProperties, LenProperties
    <3> QED BY <2>7, <3>2 DEF TaskQueueShutdown, KFEventSetManual
  <2>8. CASE Release
    BY <2>8 DEF Release
  <2> QED BY <1>3, <2>1, <2>2, <2>3, <2>4, <2>5, <2>6, <2>7, <2>8 DEF OwnerNext
<1>4. ASSUME NEW t \in Thread, ThreadNext(t) PROVE EventCoversQueue'
  <2>1. CASE ThreadEntry(t)
    BY <2>1 DEF ThreadEntry
  <2>2. CASE Retain(t)
    BY <2>2 DEF Retain
  <2>3. CASE WaitSleep(t)
    BY <2>3 DEF WaitSleep, MustSleep, Sleep
  <2>4. CASE WaitReturn(t)
    BY <2>4 DEF WaitReturn, MayReturn, Return
  <2>5. CASE Expired(t)
    BY <2>5 DEF Expired
  <2>6. CASE RemoveFirst(t)
    BY <2>6 DEF RemoveFirst
  <2>7. CASE RemoveNothing(t)
    BY <2>7 DEF RemoveNothing
  <2>8. CASE ResetEvent(t)
    BY <2>8 DEF ResetEvent, KFEventReset
  <2>9. CASE Execute(t)
    BY <2>9 DEF Execute
  <2>10. CASE FinishTask(t)
    BY <2>10 DEF FinishTask, KFEventReset
  <2>11. CASE Quit(t)
    BY <2>11 DEF Quit, RemoveAllElements
  <2>12. CASE OnThreadExit(t)
    BY <2>12 DEF OnThreadExit
  <2> QED BY <1>4, <2>1, <2>2, <2>3, <2>4, <2>5, <2>6, <2>7, <2>8, <2>9, <2>10,
             <2>11, <2>12 DEF ThreadNext
<1>5. ASSUME NEW t \in Thread, WaitTimeOut(t) PROVE EventCoversQueue'
  BY <1>5 DEF WaitTimeOut, MayGiveUp, TimeOut
<1>6. ASSUME NEW t \in Thread, WaitSpurious(t) PROVE EventCoversQueue'
  BY <1>6 DEF WaitSpurious
<1> QED BY <1>1, <1>2, <1>3, <1>4, <1>5, <1>6 DEF Next

\* A thread that returns from the wait finds an element to remove.
LEMMA NoFalseAlarmStep ==
  ASSUME Faults = {}, TypeOK, ThreadOwnership, SingleThread, ExitFirst, EventUse, EventCoversQueue, NoFalseAlarm, [Next]_vars
  PROVE  NoFalseAlarm'
<1> USE DEF TypeOK, EventValue, ThreadOwnership, SingleThread, ExitFirst, EventUse, EventCoversQueue,
           NoFalseAlarm, Alive, InLoop, Goto, Locked, qVars, startVars, lifeVars, workVars
<1>1. CASE UNCHANGED vars
  BY <1>1 DEF vars
<1>2. CASE StartDone
  BY <1>2 DEF StartDone, KFEventSetManual
<1>3. CASE OwnerNext
  <2>1. CASE StartupDelayed
    BY <2>1 DEF StartupDelayed
  <2>2. ASSUME NEW t \in Thread, StartupThread(t)
       PROVE  NoFalseAlarm'
    BY <2>2 DEF StartupThread, BeginStart
  <2>3. CASE StartupFails
    BY <2>3 DEF StartupFails
  <2>4. ASSUME NEW i \in Item, NEW level \in Level, PutItem(i, level)
       PROVE  NoFalseAlarm'
    <3>1. i \in Item \cup {Exit}
      OBVIOUS
    <3>2. queue' # << >>
      BY <2>4, <3>1, PlaceIsSeq DEF PutItem, Enqueue
    <3> QED BY <2>4, <3>2 DEF PutItem, Enqueue, KFEventSetManual
  <2>5. ASSUME NEW i \in Item, NEW level \in Level, NEW t \in Thread, PutItemStart(i, level, t)
       PROVE  NoFalseAlarm'
    <3>1. i \in Item \cup {Exit}
      OBVIOUS
    <3>2. queue' # << >>
      BY <2>5, <3>1, PlaceIsSeq DEF PutItemStart, Enqueue
    <3> QED BY <2>5, <3>2 DEF PutItemStart, Enqueue, BeginStart
  <2>6. ASSUME NEW i \in Item, NEW level \in Level, PutItemAbort(i, level)
       PROVE  NoFalseAlarm'
    BY <2>6 DEF PutItemAbort, Enqueue
  <2>7. CASE TaskQueueShutdown
    <3>1. queue' = <<Exit>> \o queue
      BY <2>7, InsertAtHeadIsPutAt DEF TaskQueueShutdown
    <3>2. queue' # << >>
      BY <3>1, ConcatProperties, LenProperties
    <3> QED BY <2>7, <3>2 DEF TaskQueueShutdown, KFEventSetManual
  <2>8. CASE Release
    BY <2>8 DEF Release
  <2> QED BY <1>3, <2>1, <2>2, <2>3, <2>4, <2>5, <2>6, <2>7, <2>8 DEF OwnerNext
<1>4. ASSUME NEW t \in Thread, ThreadNext(t) PROVE NoFalseAlarm'
  <2>1. CASE ThreadEntry(t)
    BY <2>1 DEF ThreadEntry
  <2>2. CASE Retain(t)
    BY <2>2 DEF Retain
  <2>3. CASE WaitSleep(t)
    BY <2>3 DEF WaitSleep, MustSleep, Sleep
  <2>4. CASE WaitReturn(t)
    BY <2>4 DEF WaitReturn, MayReturn, Return
  <2>5. CASE Expired(t)
    BY <2>5 DEF Expired
  <2>6. CASE RemoveFirst(t)
    BY <2>6 DEF RemoveFirst
  <2>7. CASE RemoveNothing(t)
    BY <2>7 DEF RemoveNothing
  <2>8. CASE ResetEvent(t)
    BY <2>8 DEF ResetEvent, KFEventReset
  <2>9. CASE Execute(t)
    BY <2>9 DEF Execute
  <2>10. CASE FinishTask(t)
    BY <2>10 DEF FinishTask, KFEventReset
  <2>11. CASE Quit(t)
    BY <2>11 DEF Quit, RemoveAllElements
  <2>12. CASE OnThreadExit(t)
    BY <2>12 DEF OnThreadExit
  <2> QED BY <1>4, <2>1, <2>2, <2>3, <2>4, <2>5, <2>6, <2>7, <2>8, <2>9, <2>10,
             <2>11, <2>12 DEF ThreadNext
<1>5. ASSUME NEW t \in Thread, WaitTimeOut(t) PROVE NoFalseAlarm'
  BY <1>5 DEF WaitTimeOut, MayGiveUp, TimeOut
<1>6. ASSUME NEW t \in Thread, WaitSpurious(t) PROVE NoFalseAlarm'
  BY <1>6 DEF WaitSpurious
<1> QED BY <1>1, <1>2, <1>3, <1>4, <1>5, <1>6 DEF Next

\* The thread of an open worker leaves only when the queue is empty, and says so.
LEMMA ThreadPresentStep ==
  ASSUME Faults = {}, TypeOK, ThreadOwnership, SingleThread, ExitFirst, NoFalseAlarm, ThreadPresent, [Next]_vars
  PROVE  ThreadPresent'
<1> USE DEF TypeOK, ThreadOwnership, SingleThread, ExitFirst, NoFalseAlarm, ThreadPresent, Closed,
           Alive, InLoop, Goto, Locked, qVars, startVars, lifeVars, workVars
<1>1. CASE UNCHANGED vars
  BY <1>1 DEF vars
<1>2. CASE StartDone
  BY <1>2 DEF StartDone
<1>3. CASE OwnerNext
  <2>1. CASE StartupDelayed
    BY <2>1 DEF StartupDelayed
  <2>2. ASSUME NEW t \in Thread, StartupThread(t)
       PROVE  ThreadPresent'
    BY <2>2 DEF StartupThread, BeginStart
  <2>3. CASE StartupFails
    BY <2>3 DEF StartupFails
  <2>4. ASSUME NEW i \in Item, NEW level \in Level, PutItem(i, level)
       PROVE  ThreadPresent'
    BY <2>4 DEF PutItem, Enqueue
  <2>5. ASSUME NEW i \in Item, NEW level \in Level, NEW t \in Thread, PutItemStart(i, level, t)
       PROVE  ThreadPresent'
    BY <2>5 DEF PutItemStart, Enqueue, BeginStart
  <2>6. ASSUME NEW i \in Item, NEW level \in Level, PutItemAbort(i, level)
       PROVE  ThreadPresent'
    BY <2>6 DEF PutItemAbort, Enqueue
  <2>7. CASE TaskQueueShutdown
    BY <2>7 DEF TaskQueueShutdown
  <2>8. CASE Release
    BY <2>8 DEF Release
  <2> QED BY <1>3, <2>1, <2>2, <2>3, <2>4, <2>5, <2>6, <2>7, <2>8 DEF OwnerNext
<1>4. ASSUME NEW t \in Thread, ThreadNext(t) PROVE ThreadPresent'
  <2>1. CASE ThreadEntry(t)
    BY <2>1 DEF ThreadEntry
  <2>2. CASE Retain(t)
    BY <2>2 DEF Retain
  <2>3. CASE WaitSleep(t)
    BY <2>3 DEF WaitSleep
  <2>4. CASE WaitReturn(t)
    BY <2>4 DEF WaitReturn
  <2>5. CASE Expired(t)
    BY <2>5 DEF Expired
  <2>6. CASE RemoveFirst(t)
    BY <2>6 DEF RemoveFirst
  <2>7. CASE RemoveNothing(t)
    BY <2>7 DEF RemoveNothing
  <2>8. CASE ResetEvent(t)
    BY <2>8 DEF ResetEvent
  <2>9. CASE Execute(t)
    BY <2>9 DEF Execute
  <2>10. CASE FinishTask(t)
    BY <2>10 DEF FinishTask
  <2>11. CASE Quit(t)
    BY <2>11 DEF Quit
  <2>12. CASE OnThreadExit(t)
    BY <2>12 DEF OnThreadExit
  <2> QED BY <1>4, <2>1, <2>2, <2>3, <2>4, <2>5, <2>6, <2>7, <2>8, <2>9, <2>10,
             <2>11, <2>12 DEF ThreadNext
<1>5. ASSUME NEW t \in Thread, WaitTimeOut(t) PROVE ThreadPresent'
  BY <1>5 DEF WaitTimeOut
<1>6. ASSUME NEW t \in Thread, WaitSpurious(t) PROVE ThreadPresent'
  BY <1>6 DEF WaitSpurious
<1> QED BY <1>1, <1>2, <1>3, <1>4, <1>5, <1>6 DEF Next

-----------------------------------------------------------------------------
(* The worker implements WorkQueue. *)

\* At most one thread executes an item: the active set of WorkQueue.
LEMMA ActiveItems ==
  ASSUME TypeOK, SingleThread, Hands, NEW t \in Thread
  PROVE  /\ pc[t] = "take" => Active = {}
         /\ pc[t] = "exec" => Active = {cur[t]}
<1> USE DEF TypeOK, SingleThread, Hands, Active, Alive, InLoop
<1>1. CASE pc[t] = "take"
  <2>1. \A u \in Thread : cur[u] = None
    BY <1>1
  <2> QED BY <1>1, <2>1
<1>2. CASE pc[t] = "exec"
  <2>1. \A u \in Thread : u # t => cur[u] = None
    BY <1>2
  <2>2. cur[t] # None
    BY <1>2
  <2> QED BY <1>2, <2>1, <2>2
<1> QED BY <1>1, <1>2

\* Every step of the worker is a step of WorkQueue or changes nothing it sees.
LEMMA WorkQueueStep ==
  ASSUME WorkerInv, [Next]_vars
  PROVE  [WQ!WQNext]_(WQ!wqVars)
<1> USE DEF Closed, Pending, Goto, Locked, qVars, startVars, lifeVars, workVars,
            WQ!wqVars
<1> DEFINE Stutter == UNCHANGED <<submitted, Pending, Active, done, Closed>>
<1>0. Stutter => [WQ!WQNext]_(WQ!wqVars)
  OBVIOUS
<1> TypeOK /\ ThreadOwnership /\ SingleThread /\ Hands /\ ExitFirst
  BY DEF WorkerInv
<1>1. CASE UNCHANGED vars
  BY <1>0, <1>1 DEF vars, Active
<1>2. CASE StartDone
  BY <1>0, <1>2 DEF StartDone, Active, ThreadOwnership, TypeOK
<1>3. CASE OwnerNext
  <2>1. CASE StartupDelayed
    BY <1>0, <2>1 DEF StartupDelayed, Active
  <2>2. ASSUME NEW t \in Thread, StartupThread(t) PROVE Stutter
    BY <2>2 DEF StartupThread, BeginStart, Active
  <2>3. CASE StartupFails
    <3>1. WQ!Close
      BY <2>3 DEF StartupFails, Active, WQ!Close
    <3> QED BY <3>1 DEF WQ!WQNext
  <2>4. ASSUME NEW i \in Item, NEW level \in Level, Enqueue(i, level),
               UNCHANGED <<owner, cur, done>>
        PROVE  WQ!WQNext
    <3>1. ~ Closed /\ Pending = queue /\ queue \in Seq(Item)
          /\ Pending' = Place(queue, i, level)
      BY <2>4 DEF Enqueue, ExitFirst
    <3>2. PICK k \in 0 .. Len(queue) :
             /\ Place(queue, i, level) = PutAt(queue, k, i)
             /\ level = "Level0" => Place(queue, i, level) = Append(queue, i)
             /\ level = "Level2" => Place(queue, i, level) = <<i>> \o queue
      BY <3>1, PlaceProperties
    <3>3. \/ level = "Level0" /\ Pending' = Append(Pending, i)
          \/ level = "Level2" /\ Pending' = <<i>> \o Pending
          \/ level = "Level1" /\ \E j \in 0 .. Len(Pending) :
                Pending' = SubSeq(Pending, 1, j) \o <<i>>
                             \o SubSeq(Pending, j + 1, Len(Pending))
      BY <3>1, <3>2, WorkerAssumption DEF PutAt
    <3>4. WQ!Submit(i, level)
      BY <2>4, <3>1, <3>3 DEF Enqueue, Active, WQ!Submit
    <3> QED BY <3>4 DEF WQ!WQNext
  <2>5. ASSUME NEW i \in Item, NEW level \in Level, PutItem(i, level)
        PROVE  WQ!WQNext
    BY <2>4, <2>5 DEF PutItem
  <2>6. ASSUME NEW i \in Item, NEW level \in Level, NEW t \in Thread,
               PutItemStart(i, level, t)
        PROVE  WQ!WQNext
    BY <2>4, <2>6 DEF PutItemStart
  <2>7. ASSUME NEW i \in Item, NEW level \in Level, PutItemAbort(i, level)
        PROVE  WQ!WQNext
    BY <2>4, <2>7 DEF PutItemAbort
  <2>8. CASE TaskQueueShutdown
    <3>1. WQ!Close
      BY <2>8 DEF TaskQueueShutdown, Active, WQ!Close
    <3> QED BY <3>1 DEF WQ!WQNext
  <2>9. CASE Release
    BY <1>0, <2>9 DEF Release, Active
  <2> QED BY <1>0, <1>3, <2>1, <2>2, <2>3, <2>5, <2>6, <2>7, <2>8, <2>9
          DEF OwnerNext
<1>4. ASSUME NEW t \in Thread, ThreadNext(t) PROVE [WQ!WQNext]_(WQ!wqVars)
  <2>1. CASE ThreadEntry(t) \/ Retain(t) \/ WaitSleep(t) \/ WaitReturn(t)
    BY <1>0, <2>1 DEF ThreadEntry, Retain, WaitSleep, WaitReturn, Active
  <2>2. CASE Expired(t) \/ RemoveNothing(t) \/ ResetEvent(t) \/ FinishTask(t)
    BY <1>0, <2>2 DEF Expired, RemoveNothing, ResetEvent, FinishTask, Active
  <2>3. CASE RemoveFirst(t) /\ Closed
    <3>1. Head(queue) = Exit
      BY <2>3 DEF RemoveFirst, ExitFirst, SingleThread, Alive, InLoop
    <3> QED BY <1>0, <2>3, <3>1 DEF RemoveFirst, Active
  <2>4. CASE RemoveFirst(t) /\ ~ Closed
    <3>1. queue \in Seq(Item) /\ queue # << >> /\ queue' = Tail(queue)
      BY <2>4, RemoveFirstIsTail DEF RemoveFirst, ExitFirst, TypeOK, OwnerStates
    <3>2. Head(queue) \in Item /\ Head(queue) # Exit /\ Head(queue) # None
      BY <3>1, HeadTailProperties, WorkerAssumption
    <3>3. pc[t] = "take" /\ cur' = [cur EXCEPT ![t] = Head(queue)]
      BY <2>4, <3>2 DEF RemoveFirst
    <3>4. Active = {} /\ \A u \in Thread : cur[u] = None
      BY <3>3, ActiveItems DEF Active
    <3>5. Active' = {Head(queue)}
      <4>1. \A u \in Thread : cur'[u] = IF u = t THEN Head(queue) ELSE None
        BY <3>3, <3>4 DEF TypeOK
      <4> QED BY <3>2, <4>1 DEF Active
    <3>6. WQ!Take
      BY <2>4, <3>1, <3>4, <3>5 DEF RemoveFirst, WQ!Take
    <3> QED BY <3>6 DEF WQ!WQNext
  <2>5. CASE Execute(t)
    <3>1. Active = {cur[t]}
      BY <2>5, ActiveItems DEF Execute
    <3>2. Active' = {}
      <4>1. \A u \in Thread : u # t => cur[u] = None
        BY <2>5 DEF Execute, SingleThread, Hands, Alive, InLoop
      <4>2. \A u \in Thread : cur'[u] = None
        BY <2>5, <4>1 DEF Execute, TypeOK
      <4> QED BY <4>2 DEF Active
    <3>3. WQ!Finish
      BY <2>5, <3>1, <3>2 DEF Execute, WQ!Finish
    <3> QED BY <3>3 DEF WQ!WQNext
  <2>6. CASE Quit(t)
    <3>1. Closed
      BY <2>6 DEF Quit, ExitFirst
    <3> QED BY <1>0, <2>6, <3>1 DEF Quit, Active
  <2>7. CASE OnThreadExit(t)
    BY <1>0, <2>7 DEF OnThreadExit, Active
  <2> QED BY <1>4, <2>1, <2>2, <2>3, <2>4, <2>5, <2>6, <2>7 DEF ThreadNext
<1>5. ASSUME NEW t \in Thread, WaitTimeOut(t) PROVE Stutter
  BY <1>5 DEF WaitTimeOut, Active
<1>6. ASSUME NEW t \in Thread, WaitSpurious(t) PROVE Stutter
  BY <1>6 DEF WaitSpurious, Active
<1> QED BY <1>0, <1>1, <1>2, <1>3, <1>4, <1>5, <1>6 DEF Next

-----------------------------------------------------------------------------
(* The theorems. *)

LEMMA InitWakeupInv == Init => WakeupInv
<1> SUFFICES ASSUME Init PROVE WakeupInv
  OBVIOUS
<1> USE WorkerAssumption DEF Init, KFEventCreate
<1>1. TypeOK
  <2>1. event \in EventValue(Thread)
    BY DEF EventValue
  <2>2. queue \in Seq(Item \cup {Exit}) /\ done \in Seq(Item)
    OBVIOUS
  <2>3. pc \in [Thread -> PC] /\ cur \in [Thread -> Item \cup {None}]
    BY DEF PC
  <2>4. holders \subseteq Thread \cup {Owner} /\ submitted \subseteq Item
    OBVIOUS
  <2> QED BY <2>1, <2>2, <2>3, <2>4 DEF TypeOK, OwnerStates
<1>2. ThreadOwnership /\ SingleThread
  BY DEF ThreadOwnership, SingleThread, Alive, InLoop
<1>3. References /\ Hands
  BY DEF References, Hands, InLoop
<1>4. ExitFirst /\ EventUse
  BY DEF ExitFirst, EventUse, Closed
<1>5. EventCoversQueue /\ NoFalseAlarm /\ ThreadPresent
  BY DEF EventCoversQueue, NoFalseAlarm, ThreadPresent, Locked
<1> QED BY <1>1, <1>2, <1>3, <1>4, <1>5 DEF WakeupInv, WorkerInv

LEMMA WorkerInvStep == WorkerInv /\ [Next]_vars => WorkerInv'
BY TypeStep, HandsStep, OwnershipStep, ReferencesStep, ExitFirstStep, EventUseStep
   DEF WorkerInv

\* The inductive invariant, for every number of threads and items, every choice of
\* priorities and all faults.
THEOREM WorkerInvariant == SafeSpec => []WorkerInv
<1>1. Init => WorkerInv
  BY InitWakeupInv DEF WakeupInv
<1> QED BY <1>1, WorkerInvStep, PTL DEF SafeSpec

\* Every variable of the worker keeps its type.
THEOREM TypeCorrect == SafeSpec => []TypeOK
<1>1. WorkerInv => TypeOK
  BY DEF WorkerInv
<1> QED BY <1>1, WorkerInvariant, PTL

\* _thread_running and the lock keep a second thread from serving the queue.
THEOREM OneThreadServes == SafeSpec => []SingleThread
<1>1. WorkerInv => SingleThread
  BY DEF WorkerInv
<1> QED BY <1>1, WorkerInvariant, PTL

\* The Retain at the top of OnThreadInvoke keeps the worker allocated until the
\* thread's own Recycle.
THEOREM WorkerOutlivesLoop == SafeSpec => []LoopFindsWorkerAlive
<1>1. WorkerInv => LoopFindsWorkerAlive
  BY DEF WorkerInv, References, LoopFindsWorkerAlive
<1> QED BY <1>1, WorkerInvariant, PTL

\* The worker refines the abstract queue: order, at most once, one at a time and
\* nothing after the shutdown.
THEOREM WorkerImplementsWorkQueue == SafeSpec => ImplementsWorkQueue
<1>1. Init => WQ!WQInit
  BY DEF Init, WQ!WQInit, Pending, Active, Closed
<1>2. WorkerInv /\ [Next]_vars => [WQ!WQNext]_(WQ!wqVars)
  BY WorkQueueStep
<1> QED BY <1>1, <1>2, WorkerInvariant, PTL
        DEF SafeSpec, ImplementsWorkQueue, WQ!SafeSpec

LEMMA WakeupInvStep ==
  ASSUME Faults = {}
  PROVE  WakeupInv /\ [Next]_vars => WakeupInv'
BY WorkerInvStep, EventCoversQueueStep, NoFalseAlarmStep, ThreadPresentStep
   DEF WakeupInv, WorkerInv

LEMMA WakeupInvariant ==
  ASSUME Faults = {}
  PROVE  SafeSpec => []WakeupInv
BY InitWakeupInv, WakeupInvStep, PTL DEF SafeSpec

\* Without the faults no put is lost: nobody sleeps while something is queued.
THEOREM NoLostWakeup ==
  ASSUME Faults = {}
  PROVE  SafeSpec => []NoSleepOnWork
<1>1. WakeupInv => NoSleepOnWork
  BY DEF WakeupInv, WorkerInv, EventUse, EventCoversQueue, NoSleepOnWork
<1> QED BY <1>1, WakeupInvariant, PTL

\* ... and an open worker with queued tasks has a thread, whatever the race between
\* its idle timeout and the next PutItem.
THEOREM QueuedTasksHaveAThread ==
  ASSUME Faults = {}
  PROVE  SafeSpec => []OpenWorkerIsServed
<1>1. WakeupInv => OpenWorkerIsServed
  BY DEF WakeupInv, ThreadPresent, OpenWorkerIsServed
<1> QED BY <1>1, WakeupInvariant, PTL
=============================================================================
