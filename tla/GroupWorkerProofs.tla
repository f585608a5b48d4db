--------------------------- MODULE GroupWorkerProofs ---------------------------
(***************************************************************************)
(* Proofs about GroupWorker.  What makes its choice of a worker right,     *)
(* although the counts it compares were read at different moments, is that *)
(* a queue can only shrink while the group's lock is held: Scan says what  *)
(* the two loops have established so far in terms of the counts that held  *)
(* when the call began, and every clause of it survives a shrinking queue. *)
(***************************************************************************)
EXTENDS GroupWorker, TLAPS

\* The list, the set of open workers and the life of the group.
Lists ==
    /\ OpenWorkersListed
    /\ Members \subseteq Worker
    /\ \A w \in Members : mode[w] # "none"
    /\ life = "created" => \A w \in Worker : mode[w] = "none"
    /\ life = "open" <=> threads # << >>
    /\ Locked => life = "open"

Bounded ==
    /\ life = "open" => max = Infinite \/ (max \in Nat /\ max > 0)
    /\ ThreadsBounded

\* The number of tasks threads[n] had when the call began.
Floor(n) == put.floor[threads[n]]

\* What the first loop has established, and what the second GetItemCount may find.
IdleLoop == put.at = "idle" => \A n \in 1 .. put.k - 1 : Floor(n) > 0

LoopLeft ==
    put.at = "recheck" =>
        \/ GetItemCount(threads[put.k]) = 0
        \/ put.k = Len(threads) /\ \A n \in 1 .. put.k - 1 : Floor(n) > 0

\* What the second loop has established.
LeastLoop ==
    put.at = "least" =>
        \/ put.k = 1 /\ put.tasks = 0
        \/ /\ put.tasks > 0
           /\ put.best \in 1 .. put.k - 1
           /\ GetItemCount(threads[put.best]) <= put.tasks
           /\ \A n \in 1 .. put.k - 1 : put.tasks <= Floor(n)

\* What InternalPutWorkItem knows at each point.
Scan ==
    Locked =>
        /\ put.k <= Len(threads)
        /\ \A n \in DOMAIN threads : GetItemCount(threads[n]) <= Floor(n)
        /\ put.at \in {"idle", "recheck", "create", "fill", "enter"} => CanCreate
        /\ IdleLoop
        /\ LoopLeft
        /\ LeastLoop
        /\ LeastLoaded
        /\ GrowsUnderLoad

GroupInv ==
    /\ TypeOK
    /\ Lists
    /\ Bounded
    /\ Scan

-----------------------------------------------------------------------------
LEMMA LockedType ==
    ASSUME TypeOK
    PROVE  /\ put.at \in Phase => put \in PutState /\ Locked
           /\ Locked => put \in PutState
BY DEF TypeOK, Locked, NoPut, PutState, Phase

LEMMA ThreadsType ==
    ASSUME TypeOK
    PROVE  /\ threads \in Seq(Worker) /\ Len(threads) \in Nat
           /\ DOMAIN threads = 1 .. Len(threads)
           /\ \A n \in DOMAIN threads : threads[n] \in Worker
           /\ \A w \in Worker : GetItemCount(w) \in Nat
           /\ ToSet(threads) \subseteq Worker
BY DEF TypeOK, GetItemCount, ToSet

LEMMA FloorType ==
    ASSUME TypeOK, Locked
    PROVE  /\ put \in PutState
           /\ \A n \in DOMAIN threads : Floor(n) \in Nat
BY LockedType, ThreadsType DEF Floor, PutState

\* The updates that the two loops make of their local variables.
LEMMA PutUpdate ==
    ASSUME NEW p \in PutState, NEW at \in Phase,
           NEW k \in Nat \ {0}, NEW best \in Nat \ {0}, NEW tasks \in Nat
    PROVE  /\ [p EXCEPT !.at = at] \in PutState
           /\ [p EXCEPT !.k = k] \in PutState
           /\ [p EXCEPT !.at = at, !.k = k] \in PutState
           /\ [p EXCEPT !.k = k, !.best = best, !.tasks = tasks] \in PutState
BY DEF PutState

LEMMA PutNew ==
    ASSUME NEW p \in PutState, NEW at \in Phase, NEW new \in Worker
    PROVE  [p EXCEPT !.at = at, !.new = new] \in PutState
BY DEF PutState

LEMMA PutFields ==
    ASSUME NEW p \in PutState
    PROVE  /\ p.at \in Phase /\ p.k \in Nat \ {0} /\ p.best \in Nat \ {0}
           /\ p.tasks \in Nat /\ p.k + 1 \in Nat \ {0}
BY DEF PutState

LEMMA PlaceType ==
    ASSUME TypeOK, Locked, NEW q \in Seq(Item)
    PROVE  Place(q) \in Seq(Item)
BY FloorType DEF Place, PutState

LEMMA NoneUnlisted ==
    put.at \notin {"fill", "enter"} => Unlisted = {} /\ Members = ToSet(threads)
BY DEF Unlisted, Members

LEMMA FreshType ==
    CanAllocate => Fresh \in Worker /\ mode[Fresh] = "none"
BY DEF CanAllocate, Fresh

LEMMA EffectiveMaxType ==
    ASSUME NEW p \in BOOLEAN, NEW r \in Request
    PROVE  EffectiveMax(p, r) = Infinite
             \/ (EffectiveMax(p, r) \in Nat /\ EffectiveMax(p, r) > 0)
BY GroupAssumption DEF EffectiveMax, Infinite

-----------------------------------------------------------------------------
(* Types. *)

LEMMA TypeStep == TypeOK /\ Lists /\ Scan /\ [Next]_vars => TypeOK'
<1> SUFFICES ASSUME TypeOK, Lists, Scan, [Next]_vars PROVE TypeOK'
  OBVIOUS
<1> USE DEF TypeOK
<1>1. ASSUME NEW p \in BOOLEAN, NEW r \in Request, Startup(p, r) PROVE TypeOK'
  <2>1. CanAllocate
    BY <1>1, GroupAssumption DEF Startup, Lists, CanAllocate
  <2> QED BY <1>1, <2>1, FreshType, EffectiveMaxType DEF Startup
<1>2. CASE Shutdown
  BY <1>2 DEF Shutdown
<1>3. ASSUME NEW i \in Item, NEW level \in Level, PutWorkItem(i, level) PROVE TypeOK'
  <2>1. put' \in PutState
    BY <1>3 DEF PutWorkItem, PutState, Phase, GetItemCount
  <2> QED BY <1>3, <2>1 DEF PutWorkItem, groupVars, workVars
<1>4. CASE ScanForIdle
  <2>1. put \in PutState
    BY <1>4, LockedType DEF ScanForIdle, Phase
  <2>2. \/ put' = [put EXCEPT !.at = "recheck"]
        \/ put' = [put EXCEPT !.k = put.k + 1]
    BY <1>4 DEF ScanForIdle
  <2>3. put' \in PutState
    BY <2>1, <2>2, PutUpdate, PutFields DEF Phase
  <2> QED BY <1>4, <2>3 DEF ScanForIdle, groupVars, workVars
<1>5. CASE Recheck
  <2>1. put' \in PutState
    BY <1>5, LockedType DEF Recheck, PutState, Phase
  <2> QED BY <1>5, <2>1 DEF Recheck, groupVars, workVars
<1>6. CASE ScanForLeast
  <2>1. put \in PutState
    BY <1>6, LockedType DEF ScanForLeast, Phase
  <2>2. put.k \in DOMAIN threads
    BY <1>6, <2>1, LockedType, PutFields, ThreadsType DEF ScanForLeast, Phase, Scan
  <2>3. GetItemCount(threads[put.k]) \in Nat
    BY <2>2, ThreadsType
  <2>4. put' \in PutState
    BY <1>6, <2>1, <2>3, PutUpdate, PutFields DEF ScanForLeast, Phase
  <2> QED BY <1>6, <2>4 DEF ScanForLeast, groupVars, workVars
<1>7. CASE Submit \/ SubmitAborts
  <2>1. Locked /\ put \in PutState
    BY <1>7, LockedType DEF Submit, SubmitAborts, Phase
  <2>2. \A w \in Worker : Place(pending[w]) \in Seq(Item)
    BY <2>1, PlaceType
  <2>3. put.item \in Item
    BY <2>1 DEF PutState
  <2>4. pending' \in [Worker -> Seq(Item)]
    <3>1. pending' = [pending EXCEPT ![threads[put.k]] = Place(pending[threads[put.k]])]
      BY <1>7 DEF Submit, SubmitAborts
    <3> QED BY <2>2, <3>1
  <2>5. mode' \in [Worker -> {"none", "off", "on", "stalled"}]
    BY <1>7 DEF Submit, SubmitAborts
  <2>6. accepted' \in Seq(Item)
    <3>1. accepted' = Append(accepted, put.item)
      BY <1>7 DEF Submit, SubmitAborts
    <3> QED BY <2>3, <3>1
  <2> QED BY <1>7, <2>4, <2>5, <2>6 DEF Submit, SubmitAborts, groupVars
<1>8. CASE StartWorker \/ FillWorker \/ FillWorkerAborts \/ EnterWorker
  <2>1. Locked /\ put \in PutState
    BY <1>8, LockedType DEF StartWorker, FillWorker, FillWorkerAborts, EnterWorker, Phase
  <2>2. CASE StartWorker
    <3>1. Fresh \in Worker
      BY <2>2, FreshType DEF StartWorker
    <3>2. put' \in PutState
      BY <2>1, <2>2, <3>1, PutNew DEF StartWorker, Phase
    <3> QED BY <2>2, <3>1, <3>2 DEF StartWorker, groupVars
  <2>3. CASE FillWorker
    <3>1. \A w \in Worker : Place(pending[w]) \in Seq(Item)
      BY <2>1, PlaceType
    <3>2. pending' \in [Worker -> Seq(Item)] /\ mode' \in [Worker -> {"none", "off", "on", "stalled"}]
      BY <2>3, <3>1 DEF FillWorker
    <3>3. put.item \in Item
      BY <2>1 DEF PutState
    <3>4. accepted' \in Seq(Item)
      BY <2>3, <3>3 DEF FillWorker
    <3>5. put' \in PutState
      BY <2>1, <2>3, PutUpdate, PutFields DEF FillWorker, Phase
    <3> QED BY <2>3, <3>2, <3>4, <3>5 DEF FillWorker, groupVars
  <2>4. CASE FillWorkerAborts
    BY <2>4 DEF FillWorkerAborts, groupVars
  <2>5. CASE EnterWorker
    <3>1. put.new \in Worker
      BY <2>5 DEF EnterWorker, Lists, Members, Unlisted
    <3>2. threads' \in Seq(Worker)
      BY <2>5, <3>1 DEF EnterWorker
    <3> QED BY <2>5, <3>2 DEF EnterWorker, workVars
  <2> QED BY <1>8, <2>2, <2>3, <2>4, <2>5
<1>9. CASE CreateWorkerFails
  BY <1>9 DEF CreateWorkerFails, groupVars, workVars
<1>10. ASSUME NEW w \in Worker, Take(w) \/ Finish(w) \/ Leave(w) PROVE TypeOK'
  <2>1. CASE Take(w)
    <3>1. Head(pending[w]) \in Item /\ Tail(pending[w]) \in Seq(Item)
      BY <2>1 DEF Take
    <3> QED BY <2>1, <3>1 DEF Take, groupVars
  <2>2. CASE Finish(w)
    <3>1. active[w] \in Item
      BY <2>2 DEF Finish
    <3> QED BY <2>2, <3>1 DEF Finish, groupVars
  <2>3. CASE Leave(w)
    BY <2>3 DEF Leave, groupVars
  <2> QED BY <1>10, <2>1, <2>2, <2>3
<1>11. CASE UNCHANGED vars
  BY <1>11 DEF vars, groupVars, workVars
<1> QED BY <1>1, <1>2, <1>3, <1>4, <1>5, <1>6, <1>7, <1>8, <1>9, <1>10, <1>11
        DEF Next, PutStep

-----------------------------------------------------------------------------
(* The list of workers and its bound. *)

\* The steps that touch neither the list nor the life of the group.
LEMMA SameLists ==
    ASSUME TypeOK, Lists, UNCHANGED <<groupVars, opened>>, Unlisted' = Unlisted,
           \A w \in Worker : mode[w] # "none" => mode'[w] # "none",
           life = "created" => UNCHANGED mode,
           Locked' => life = "open"
    PROVE  Lists'
<1>1. Members' = Members /\ threads' = threads /\ life' = life /\ opened' = opened
  BY DEF Members, groupVars
<1> QED BY <1>1 DEF Lists, OpenWorkersListed

LEMMA AppendToSet ==
    ASSUME NEW S, NEW s \in Seq(S), NEW x \in S
    PROVE  ToSet(Append(s, x)) = ToSet(s) \cup {x}
<1>1. Len(Append(s, x)) = Len(s) + 1 /\ Len(s) \in Nat
  OBVIOUS
<1>2. Append(s, x)[Len(s) + 1] = x
  OBVIOUS
<1>3. \A n \in 1 .. Len(s) : Append(s, x)[n] = s[n]
  OBVIOUS
<1>4. DOMAIN s = 1 .. Len(s) /\ DOMAIN Append(s, x) = 1 .. (Len(s) + 1)
  OBVIOUS
<1> QED BY <1>1, <1>2, <1>3, <1>4 DEF ToSet

LEMMA SeqSet ==
    ASSUME NEW S, NEW q \in Seq(S)
    PROVE  /\ Len(q) \in Nat /\ DOMAIN q = 1 .. Len(q)
           /\ ToSet(q) = {q[n] : n \in 1 .. Len(q)}
           /\ ToSet(q) \subseteq S
BY DEF ToSet

LEMMA AppendSet ==
    ASSUME NEW S, NEW q \in Seq(S), NEW x \in S
    PROVE  /\ ToSet(Append(q, x)) = ToSet(q) \cup {x}
           /\ IsInjective(q) /\ x \notin ToSet(q) => IsInjective(Append(q, x))
<1> SUFFICES ASSUME IsInjective(q), x \notin ToSet(q) PROVE IsInjective(Append(q, x))
  BY AppendToSet
<1>1. /\ DOMAIN q = 1 .. Len(q) /\ Len(q) \in Nat
      /\ DOMAIN Append(q, x) = 1 .. Len(q) + 1
      /\ \A n \in 1 .. Len(q) : Append(q, x)[n] = q[n] /\ q[n] # x
      /\ Append(q, x)[Len(q) + 1] = x
  BY SeqSet
<1> QED BY <1>1 DEF IsInjective

LEMMA ListsStep == TypeOK /\ Lists /\ [Next]_vars => Lists'
<1> SUFFICES ASSUME TypeOK, Lists, [Next]_vars PROVE Lists'
  OBVIOUS
<1>0. ASSUME ~ Locked' PROVE Unlisted' = {} /\ Members' = ToSet(threads')
  BY <1>0 DEF Locked, NoPut, Unlisted, Members
<1>1. ASSUME NEW p \in BOOLEAN, NEW r \in Request, Startup(p, r) PROVE Lists'
  <2>1. Fresh \in Worker /\ mode[Fresh] = "none"
    BY <1>1, GroupAssumption, FreshType DEF Startup, Lists, CanAllocate
  <2>2. threads = << >> /\ ~ Locked /\ put.at = "none"
    BY <1>1 DEF Startup, Lists, Locked, NoPut
  <2>3. opened = {} /\ opened' = {Fresh}
    BY <1>1, <2>2, NoneUnlisted DEF Startup, Lists, OpenWorkersListed, ToSet
  <2>4. threads' = <<Fresh>> /\ ToSet(threads') = {Fresh} /\ IsInjective(threads')
    BY <1>1 DEF Startup, ToSet, IsInjective
  <2>5. mode'[Fresh] # "none" /\ life' = "open" /\ ~ Locked'
    BY <1>1, <2>1, <2>2 DEF Startup, TypeOK, Locked
  <2> QED BY <1>0, <2>1, <2>3, <2>4, <2>5 DEF Lists, OpenWorkersListed
<1>2. CASE Shutdown
  <2>1. threads' = << >> /\ life' = "shutdown" /\ ~ Locked' /\ put.at = "none"
    BY <1>2 DEF Shutdown, Locked, NoPut
  <2>2. ToSet(threads') = {} /\ IsInjective(threads')
    BY <2>1 DEF ToSet, IsInjective
  <2>3. opened' = {}
    BY <1>2, <2>1, NoneUnlisted DEF Shutdown, Lists, OpenWorkersListed
  <2> QED BY <1>0, <2>1, <2>2, <2>3 DEF Lists, OpenWorkersListed
<1>3. ASSUME NEW i \in Item, NEW level \in Level, PutWorkItem(i, level) PROVE Lists'
  <2>1. Unlisted = {} /\ Unlisted' = {}
    BY <1>3 DEF PutWorkItem, Unlisted, Locked, NoPut
  <2> QED BY <1>3, <2>1, SameLists DEF PutWorkItem, groupVars, workVars
<1>4. CASE ScanForIdle \/ Recheck \/ ScanForLeast \/ CreateWorkerFails
  <2>1. Locked
    BY <1>4, LockedType DEF ScanForIdle, Recheck, ScanForLeast, CreateWorkerFails, Phase
  <2>2. UNCHANGED <<groupVars, workVars>>
    BY <1>4 DEF ScanForIdle, Recheck, ScanForLeast, CreateWorkerFails
  <2>3. put \in PutState
    BY <2>1, LockedType
  <2>4. put'.at \notin {"fill", "enter"}
    <3>1. CASE ScanForIdle
      BY <2>3, <3>1 DEF ScanForIdle, PutState
    <3>2. CASE Recheck \/ ScanForLeast
      BY <2>3, <3>2 DEF Recheck, ScanForLeast, PutState
    <3>3. CASE CreateWorkerFails
      BY <3>3 DEF CreateWorkerFails, NoPut
    <3> QED BY <1>4, <3>1, <3>2, <3>3
  <2>5. Unlisted = {} /\ Unlisted' = {}
    BY <1>4, <2>4 DEF ScanForIdle, Recheck, ScanForLeast, CreateWorkerFails, Unlisted
  <2> QED BY <2>1, <2>2, <2>5, SameLists DEF Lists, workVars
<1>5. CASE Submit \/ SubmitAborts
  <2>1. Locked
    BY <1>5, LockedType DEF Submit, SubmitAborts, Phase
  <2>2. UNCHANGED <<groupVars, opened>> /\ ~ Locked'
    BY <1>5 DEF Submit, SubmitAborts, Locked
  <2>3. \A w \in Worker : mode[w] # "none" => mode'[w] # "none"
    BY <1>5 DEF Submit, SubmitAborts, TypeOK
  <2>4. life = "open"
    BY <2>1 DEF Lists
  <2>5. Unlisted' = Unlisted
    BY <1>0, <1>5, <2>2, NoneUnlisted DEF Submit, SubmitAborts
  <2> QED BY <2>2, <2>3, <2>4, <2>5, SameLists
<1>6. CASE StartWorker
  <2>1. Locked /\ put \in PutState /\ Fresh \in Worker /\ mode[Fresh] = "none"
    BY <1>6, LockedType, FreshType DEF StartWorker, Phase
  <2>2. put'.at = "fill" /\ put'.new = Fresh /\ UNCHANGED groupVars
    BY <1>6, <2>1 DEF StartWorker, PutState
  <2>3. /\ Unlisted' = {Fresh} /\ Members' = Members \cup {Fresh}
        /\ Fresh \notin Members
    BY <1>6, <2>1, <2>2, NoneUnlisted DEF StartWorker, Unlisted, Members, groupVars, Lists
  <2>4. \A w \in Members' : mode'[w] # "none"
    BY <1>6, <2>1, <2>3 DEF StartWorker, Lists, TypeOK
  <2>5. opened' = Members' /\ Members' \subseteq Worker
    BY <1>6, <2>1, <2>3 DEF StartWorker, Lists, OpenWorkersListed
  <2>6. life = "open"
    BY <2>1 DEF Lists
  <2> QED BY <2>2, <2>3, <2>4, <2>5, <2>6 DEF Lists, OpenWorkersListed, Members, groupVars
<1>7. CASE FillWorker
  <2>1. Locked /\ put \in PutState
    BY <1>7, LockedType DEF FillWorker, Phase
  <2>2. Unlisted' = Unlisted
    BY <1>7, <2>1 DEF FillWorker, PutState, Unlisted
  <2>3. \A w \in Worker : mode[w] # "none" => mode'[w] # "none"
    BY <1>7 DEF FillWorker, TypeOK
  <2>4. life = "open" /\ UNCHANGED <<groupVars, opened>>
    BY <1>7, <2>1 DEF Lists, FillWorker
  <2> QED BY <2>2, <2>3, <2>4, SameLists
<1>8. CASE FillWorkerAborts
  <2>1. Locked /\ ~ Locked' /\ Unlisted = {put.new}
    BY <1>8, LockedType DEF FillWorkerAborts, Phase, Locked, Unlisted
  <2>2. UNCHANGED <<groupVars, mode>> /\ opened' = opened \ Unlisted
    BY <1>8, <2>1 DEF FillWorkerAborts
  <2>3. opened' = ToSet(threads')
    BY <2>1, <2>2 DEF Lists, OpenWorkersListed, Members, groupVars
  <2> QED BY <1>0, <2>1, <2>2, <2>3 DEF Lists, OpenWorkersListed, Members, groupVars
<1>9. CASE EnterWorker
  <2>1. Locked /\ ~ Locked' /\ Unlisted = {put.new}
    BY <1>9, LockedType DEF EnterWorker, Phase, Locked, Unlisted
  <2>2. /\ put.new \in Worker /\ put.new \notin ToSet(threads)
        /\ threads' = Append(threads, put.new) /\ UNCHANGED <<life, max, workVars>>
    BY <1>9, <2>1 DEF EnterWorker, Lists, OpenWorkersListed, Members
  <2>3. ToSet(threads') = Members /\ IsInjective(threads')
    BY <2>1, <2>2, AppendSet DEF Lists, OpenWorkersListed, Members, TypeOK
  <2>4. threads' # << >> /\ life = "open"
    BY <2>1, <2>2 DEF Lists, TypeOK
  <2> QED BY <1>0, <2>1, <2>2, <2>3, <2>4 DEF Lists, OpenWorkersListed, workVars
<1>10. ASSUME NEW w \in Worker, Take(w) \/ Finish(w) \/ Leave(w) PROVE Lists'
  <2>1. UNCHANGED <<groupVars, opened, put>>
    BY <1>10 DEF Take, Finish, Leave
  <2>2. UNCHANGED mode \/ (mode[w] = "on" /\ mode' = [mode EXCEPT ![w] = "off"])
    BY <1>10 DEF Take, Finish, Leave
  <2>3. \A v \in Worker : mode[v] # "none" => mode'[v] # "none"
    BY <2>2 DEF TypeOK
  <2>4. life = "created" => UNCHANGED mode
    BY <2>2 DEF Lists
  <2>5. Unlisted' = Unlisted
    BY <2>1 DEF Unlisted
  <2> QED BY <2>1, <2>3, <2>4, <2>5, SameLists DEF Lists, Locked
<1>11. CASE UNCHANGED vars
  <2>1. Unlisted' = Unlisted
    BY <1>11 DEF vars, Unlisted
  <2> QED BY <1>11, <2>1, SameLists DEF vars, groupVars, workVars, Lists, Locked
<1> QED BY <1>1, <1>2, <1>3, <1>4, <1>5, <1>6, <1>7, <1>8, <1>9, <1>10, <1>11
        DEF Next, PutStep

LEMMA BoundedStep == TypeOK /\ Lists /\ Bounded /\ Scan /\ [Next]_vars => Bounded'
<1> SUFFICES ASSUME TypeOK, Lists, Bounded, Scan, [Next]_vars PROVE Bounded'
  OBVIOUS
<1>1. ASSUME NEW p \in BOOLEAN, NEW r \in Request, Startup(p, r) PROVE Bounded'
  <2>1. max' = EffectiveMax(p, r) /\ Len(threads') = 1 /\ put' = put
    BY <1>1 DEF Startup
  <2>2. put' = NoPut
    BY <1>1, <2>1 DEF Startup, Lists, Locked
  <2> QED BY <2>1, <2>2, EffectiveMaxType DEF Bounded, ThreadsBounded, NoPut
<1>2. CASE Shutdown
  <2>1. Len(threads') = 0 /\ max' = max /\ put' = NoPut /\ life' = "shutdown"
    BY <1>2 DEF Shutdown, Locked
  <2>2. max \in Nat \cup {Infinite}
    BY DEF TypeOK
  <2> QED BY <2>1, <2>2 DEF Bounded, ThreadsBounded, NoPut
<1>3. CASE EnterWorker
  <2>1. Locked /\ put.new \in Worker
    BY <1>3, LockedType DEF EnterWorker, Phase, Lists, Members, Unlisted
  <2>2. CanCreate /\ max' = max /\ life' = life
    BY <1>3, <2>1 DEF EnterWorker, Scan
  <2>3. Len(threads') = Len(threads) + 1
    BY <1>3, <2>1 DEF EnterWorker, TypeOK
  <2>4. Len(threads) \in Nat /\ max \in Nat \cup {Infinite}
    BY DEF TypeOK
  <2> QED BY <2>2, <2>3, <2>4 DEF Bounded, ThreadsBounded, CanCreate
<1>4. CASE UNCHANGED groupVars
  BY <1>4 DEF Bounded, ThreadsBounded, groupVars
<1>5. CASE UNCHANGED vars
  BY <1>4, <1>5 DEF vars
<1> QED BY <1>1, <1>2, <1>3, <1>4, <1>5
        DEF Next, PutStep, PutWorkItem, ScanForIdle, Recheck, ScanForLeast, Submit,
            SubmitAborts, StartWorker, CreateWorkerFails, FillWorker, FillWorkerAborts,
            Take, Finish, Leave, groupVars

-----------------------------------------------------------------------------
(* The two loops. *)

\* The workers may drain their queues at any point of the call.
LEMMA ScanShrinks ==
    ASSUME TypeOK, TypeOK', Scan, UNCHANGED <<put, groupVars>>,
           \A w \in Worker : Len(pending'[w]) <= Len(pending[w])
    PROVE  Scan'
<1> SUFFICES ASSUME Locked PROVE Scan'
  BY DEF Scan, Locked
<1> DEFINE C(n) == GetItemCount(threads[n])
<1>1. put \in PutState /\ put' = put /\ threads' = threads /\ max' = max
  BY LockedType DEF groupVars
<1>2. \A n \in DOMAIN threads : Floor(n)' = Floor(n) /\ Floor(n) \in Nat
  BY <1>1, FloorType DEF Floor
<1>3. \A n \in DOMAIN threads : C(n)' <= C(n) /\ C(n)' \in Nat /\ C(n) \in Nat
  BY <1>1, ThreadsType DEF GetItemCount, TypeOK
<1>4. DOMAIN threads = 1 .. Len(threads) /\ Len(threads) \in Nat
  BY ThreadsType
<1>5. put.k \in DOMAIN threads
  BY <1>1, <1>4, PutFields DEF Scan
<1>6. LeastLoaded'
  BY <1>1, <1>2, <1>3, <1>5 DEF Scan, LeastLoaded, Floor
<1>7. GrowsUnderLoad'
  BY <1>1, <1>2 DEF Scan, GrowsUnderLoad, Floor
<1>8. CanCreate' <=> CanCreate
  BY <1>1 DEF CanCreate
<1>9. IdleLoop'
  <2>1. \A n \in 1 .. put.k - 1 : n \in DOMAIN threads
    BY <1>4, <1>5
  <2> QED BY <1>1, <1>2, <2>1 DEF Scan, IdleLoop
<1>10. LoopLeft'
  <2>1. \A n \in 1 .. put.k - 1 : n \in DOMAIN threads
    BY <1>4, <1>5
  <2>2. C(put.k) = 0 => C(put.k)' = 0
    BY <1>1, <1>3, <1>5
  <2> QED BY <1>1, <1>2, <2>1, <2>2 DEF Scan, LoopLeft
<1>11. LeastLoop'
  <2>1. \A n \in 1 .. put.k - 1 : n \in DOMAIN threads
    BY <1>4, <1>5
  <2>2. put.tasks \in Nat
    BY <1>1, PutFields
  <2> QED BY <1>1, <1>2, <1>3, <2>1, <2>2 DEF Scan, LeastLoop
<1>12. \A n \in DOMAIN threads' : GetItemCount(threads[n])' <= Floor(n)'
  BY <1>1, <1>2, <1>3 DEF Scan
<1> QED BY <1>1, <1>6, <1>7, <1>8, <1>9, <1>10, <1>11, <1>12 DEF Scan

\* The same list and counts, with the lock held by a call that began earlier.
LEMMA ScanStep ==
    TypeOK /\ TypeOK' /\ Lists /\ Scan /\ [Next]_vars => Scan'
<1> SUFFICES ASSUME TypeOK, TypeOK', Lists, Scan, [Next]_vars PROVE Scan'
  OBVIOUS
<1> DEFINE C(n) == GetItemCount(threads[n])
<1>0. /\ DOMAIN threads = 1 .. Len(threads) /\ Len(threads) \in Nat
      /\ \A n \in DOMAIN threads : C(n) \in Nat
  BY ThreadsType
<1>1. ASSUME NEW i \in Item, NEW level \in Level, PutWorkItem(i, level) PROVE Scan'
  <2>1. /\ UNCHANGED <<groupVars, pending>> /\ threads # << >>
        /\ put'.k = 1 /\ put'.tasks = 0
        /\ put'.floor = [w \in Worker |-> GetItemCount(w)]
        /\ put'.at = IF CanCreate THEN "idle"
                     ELSE IF Len(threads) = 1 THEN "submit" ELSE "least"
    BY <1>1 DEF PutWorkItem, workVars, groupVars, Lists
  <2>2. threads' = threads /\ CanCreate' = CanCreate /\ Len(threads) >= 1
    BY <2>1, <1>0 DEF groupVars, CanCreate
  <2>3. \A n \in DOMAIN threads : Floor(n)' = C(n) /\ GetItemCount(threads[n])' = C(n)
    BY <2>1, <2>2, ThreadsType DEF Floor, GetItemCount
  <2>4. IdleLoop' /\ LoopLeft' /\ LeastLoop' /\ GrowsUnderLoad'
    BY <2>1 DEF IdleLoop, LoopLeft, LeastLoop, GrowsUnderLoad
  <2>5. LeastLoaded'
    BY <1>0, <2>1, <2>2, <2>3 DEF LeastLoaded, Floor
  <2> QED BY <1>0, <2>1, <2>2, <2>3, <2>4, <2>5 DEF Scan
<1>2. ASSUME Locked, put \in PutState, UNCHANGED <<groupVars, pending>>,
             put'.floor = put.floor
      PROVE  /\ put.k \in DOMAIN threads /\ threads' = threads
             /\ \A n \in DOMAIN threads :
                  /\ Floor(n)' = Floor(n) /\ Floor(n) \in Nat
                  /\ GetItemCount(threads[n])' = C(n) /\ C(n) <= Floor(n)
             /\ CanCreate' = CanCreate
  <2>1. threads' = threads /\ max' = max
    BY <1>2 DEF groupVars
  <2>2. put.k \in DOMAIN threads
    BY <1>0, <1>2, PutFields DEF Scan
  <2>3. \A n \in DOMAIN threads : Floor(n)' = Floor(n) /\ GetItemCount(threads[n])' = C(n)
    BY <1>2, <2>1 DEF Floor, GetItemCount
  <2> QED BY <1>2, <2>1, <2>2, <2>3, FloorType DEF Scan, CanCreate
<1>3. CASE ScanForIdle
  <2>1. Locked /\ put \in PutState /\ put.at = "idle" /\ UNCHANGED <<groupVars, pending>>
    BY <1>3, LockedType DEF ScanForIdle, Phase, workVars
  <2>2. /\ put'.floor = put.floor
        /\ \/ put'.at = "recheck" /\ put'.k = put.k
              /\ (C(put.k) = 0 \/ put.k = Len(threads))
           \/ put'.at = "idle" /\ put'.k = put.k + 1 /\ C(put.k) # 0
              /\ put.k # Len(threads)
    BY <1>3, <2>1 DEF ScanForIdle, PutState
  <2>3. /\ put.k \in DOMAIN threads /\ threads' = threads
        /\ \A n \in DOMAIN threads :
             /\ Floor(n)' = Floor(n) /\ Floor(n) \in Nat
             /\ GetItemCount(threads[n])' = C(n) /\ C(n) <= Floor(n)
        /\ CanCreate' = CanCreate
    BY <1>2, <2>1, <2>2
  <2>4. CanCreate /\ \A n \in 1 .. put.k - 1 : Floor(n) > 0
    BY <2>1 DEF Scan, IdleLoop
  <2>5. \A n \in 1 .. put.k - 1 : n \in DOMAIN threads
    BY <1>0, <2>3
  <2>6. CASE put'.at = "recheck"
    <3>1. IdleLoop' /\ LeastLoop' /\ GrowsUnderLoad' /\ LeastLoaded'
      BY <2>6 DEF IdleLoop, LeastLoop, GrowsUnderLoad, LeastLoaded
    <3>2. LoopLeft'
      BY <2>2, <2>3, <2>4, <2>5, <2>6 DEF LoopLeft
    <3> QED BY <1>0, <2>2, <2>3, <2>4, <2>6, <3>1, <3>2 DEF Scan
  <2>7. CASE put'.at = "idle"
    <3>1. LoopLeft' /\ LeastLoop' /\ GrowsUnderLoad' /\ LeastLoaded'
      BY <2>7 DEF LoopLeft, LeastLoop, GrowsUnderLoad, LeastLoaded
    <3>2. put'.k = put.k + 1 /\ put.k + 1 <= Len(threads) /\ Floor(put.k) > 0
      BY <1>0, <2>2, <2>3, <2>7
    <3>3. \A n \in 1 .. put'.k - 1 : n \in 1 .. put.k - 1 \/ n = put.k
      BY <1>0, <2>3, <3>2
    <3>4. IdleLoop'
      BY <2>3, <2>4, <2>5, <3>2, <3>3 DEF IdleLoop
    <3> QED BY <2>3, <2>4, <2>7, <3>1, <3>2, <3>4 DEF Scan
  <2> QED BY <2>2, <2>6, <2>7
<1>4. CASE Recheck
  <2>1. Locked /\ put \in PutState /\ put.at = "recheck" /\ UNCHANGED <<groupVars, pending>>
    BY <1>4, LockedType DEF Recheck, Phase, workVars
  <2>2. /\ put'.floor = put.floor /\ put'.k = put.k
        /\ put'.at = IF C(put.k) = 0 THEN "submit" ELSE "create"
    BY <1>4, <2>1 DEF Recheck, PutState
  <2>3. /\ put.k \in DOMAIN threads /\ threads' = threads
        /\ \A n \in DOMAIN threads :
             /\ Floor(n)' = Floor(n) /\ Floor(n) \in Nat
             /\ GetItemCount(threads[n])' = C(n) /\ C(n) <= Floor(n)
        /\ CanCreate' = CanCreate
    BY <1>2, <2>1, <2>2
  <2>4. IdleLoop' /\ LoopLeft' /\ LeastLoop'
    BY <2>2 DEF IdleLoop, LoopLeft, LeastLoop
  <2>5. LeastLoaded'
    BY <2>2, <2>3 DEF LeastLoaded, Floor
  <2>6. GrowsUnderLoad'
    <3>1. SUFFICES ASSUME C(put.k) # 0 PROVE \A n \in DOMAIN threads : Floor(n) > 0
      BY <2>2, <2>3 DEF GrowsUnderLoad, Floor
    <3>2. put.k = Len(threads) /\ \A n \in 1 .. put.k - 1 : Floor(n) > 0
      BY <2>1, <3>1 DEF Scan, LoopLeft
    <3>3. Floor(put.k) > 0
      BY <1>0, <2>3, <3>1
    <3> QED BY <1>0, <3>2, <3>3
  <2> QED BY <2>1, <2>2, <2>3, <2>4, <2>5, <2>6 DEF Scan
<1>5. CASE ScanForLeast
  <2> DEFINE fewer == put.tasks = 0 \/ C(put.k) < put.tasks
             best == IF fewer THEN put.k ELSE put.best
             tasks == IF fewer THEN C(put.k) ELSE put.tasks
  <2>1. Locked /\ put \in PutState /\ put.at = "least" /\ UNCHANGED <<groupVars, pending>>
    BY <1>5, LockedType DEF ScanForLeast, Phase, workVars
  <2>2. /\ put'.floor = put.floor
        /\ \/ C(put.k) = 0 /\ put'.at = "submit" /\ put'.k = put.k
           \/ /\ C(put.k) # 0 /\ put.k = Len(threads)
              /\ put'.at = "submit" /\ put'.k = best
           \/ /\ C(put.k) # 0 /\ put.k # Len(threads) /\ put'.at = "least"
              /\ put'.k = put.k + 1 /\ put'.best = best /\ put'.tasks = tasks
    BY <1>5, <2>1 DEF ScanForLeast, PutState
  <2>3. /\ put.k \in DOMAIN threads /\ threads' = threads
        /\ \A n \in DOMAIN threads :
             /\ Floor(n)' = Floor(n) /\ Floor(n) \in Nat
             /\ GetItemCount(threads[n])' = C(n) /\ C(n) <= Floor(n)
        /\ CanCreate' = CanCreate
    BY <1>2, <2>1, <2>2
  <2>4. \A n \in 1 .. put.k : n \in DOMAIN threads
    BY <1>0, <2>3
  <2>5. put.tasks \in Nat /\ put.k \in Nat \ {0} /\ put.best \in Nat
    BY <2>1, PutFields
  <2>6. C(put.k) \in Nat /\ C(put.k) <= Floor(put.k)
    BY <1>0, <2>3
  <2>7. \/ put.k = 1 /\ put.tasks = 0
        \/ /\ put.tasks > 0 /\ put.best \in 1 .. put.k - 1 /\ C(put.best) <= put.tasks
           /\ \A n \in 1 .. put.k - 1 : put.tasks <= Floor(n)
    BY <2>1 DEF Scan, LeastLoop
  \* The loop's invariant with threads[k] looked at.
  <2>8. C(put.k) # 0 => /\ tasks \in Nat /\ tasks > 0
                       /\ best \in 1 .. put.k /\ C(best) <= tasks
                       /\ \A n \in 1 .. put.k : tasks <= Floor(n)
    <3>1. CASE fewer
      <4>1. tasks = C(put.k) /\ best = put.k
        BY <3>1
      <4>2. \A n \in 1 .. put.k - 1 : C(put.k) <= Floor(n)
        BY <2>3, <2>4, <2>5, <2>6, <2>7, <3>1
      <4> QED BY <2>5, <2>6, <4>1, <4>2
    <3>2. CASE ~ fewer
      <4>1. tasks = put.tasks /\ best = put.best /\ put.tasks <= Floor(put.k)
        BY <2>3, <2>5, <2>6, <3>2
      <4> QED BY <2>5, <2>7, <3>2, <4>1
    <3> QED BY <3>1, <3>2
  <2>9. IdleLoop' /\ LoopLeft' /\ GrowsUnderLoad'
    BY <2>2 DEF IdleLoop, LoopLeft, GrowsUnderLoad
  <2>10. CASE C(put.k) = 0
    <3>1. LeastLoop' /\ LeastLoaded'
      BY <2>2, <2>3, <2>10 DEF LeastLoop, LeastLoaded, Floor
    <3> QED BY <1>0, <2>2, <2>3, <2>9, <2>10, <3>1 DEF Scan
  <2>11. CASE C(put.k) # 0 /\ put.k = Len(threads)
    <3>1. put'.at = "submit" /\ put'.k = best /\ best \in DOMAIN threads
      BY <1>0, <2>2, <2>4, <2>8, <2>11
    <3>2. \A n \in DOMAIN threads : C(best) <= Floor(n)
      BY <1>0, <2>3, <2>8, <2>11, <3>1
    <3>3. LeastLoop' /\ LeastLoaded'
      BY <2>3, <3>1, <3>2 DEF LeastLoop, LeastLoaded, Floor
    <3> QED BY <1>0, <2>3, <2>9, <3>1, <3>3 DEF Scan
  <2>12. CASE C(put.k) # 0 /\ put.k # Len(threads)
    <3>1. /\ put'.at = "least" /\ put'.k = put.k + 1 /\ put'.best = best
          /\ put'.tasks = tasks /\ put.k + 1 <= Len(threads)
      BY <1>0, <2>2, <2>3, <2>12
    <3>2. best \in DOMAIN threads /\ 1 .. put'.k - 1 = 1 .. put.k
      BY <2>4, <2>5, <2>8, <2>12, <3>1
    <3>3. LeastLoop'
      BY <2>3, <2>4, <2>8, <2>12, <3>1, <3>2 DEF LeastLoop
    <3>4. LeastLoaded'
      BY <3>1 DEF LeastLoaded
    <3> QED BY <2>3, <2>9, <3>1, <3>3, <3>4 DEF Scan
  <2> QED BY <2>10, <2>11, <2>12
<1>6. CASE Submit \/ SubmitAborts \/ CreateWorkerFails \/ FillWorkerAborts \/ EnterWorker
  <2>1. ~ Locked'
    BY <1>6 DEF Submit, SubmitAborts, CreateWorkerFails, FillWorkerAborts, EnterWorker, Locked
  <2> QED BY <2>1 DEF Scan
\* The new worker is not among those that were looked at.
<1>10. CASE StartWorker \/ FillWorker
  <2>1. Locked /\ put \in PutState /\ UNCHANGED groupVars
    BY <1>10, LockedType DEF StartWorker, FillWorker, Phase
  <2>2. put'.floor = put.floor /\ put'.k = put.k /\ put'.at \in {"fill", "enter"}
    BY <1>10, <2>1 DEF StartWorker, FillWorker, PutState
  <2>3. threads' = threads /\ max' = max /\ CanCreate
    BY <1>10, <2>1 DEF StartWorker, FillWorker, groupVars, Scan
  <2>4. \A n \in DOMAIN threads : pending'[threads[n]] = pending[threads[n]]
    <3>1. CASE StartWorker
      BY <3>1 DEF StartWorker
    <3>2. CASE FillWorker
      <4>1. \A n \in DOMAIN threads : threads[n] # put.new /\ threads[n] \in Worker
        BY <3>2, ThreadsType DEF FillWorker, Lists, OpenWorkersListed, Unlisted, ToSet
      <4> QED BY <3>2, <4>1 DEF FillWorker, TypeOK
    <3> QED BY <1>10, <3>1, <3>2
  <2>5. \A n \in DOMAIN threads : GetItemCount(threads[n])' = C(n) /\ Floor(n)' = Floor(n)
    BY <2>2, <2>3, <2>4 DEF GetItemCount, Floor
  <2>6. IdleLoop' /\ LoopLeft' /\ LeastLoop' /\ LeastLoaded' /\ GrowsUnderLoad'
    BY <2>2 DEF IdleLoop, LoopLeft, LeastLoop, LeastLoaded, GrowsUnderLoad
  <2>7. CanCreate'
    BY <2>3 DEF CanCreate
  <2> QED BY <2>1, <2>2, <2>3, <2>5, <2>6, <2>7 DEF Scan
<1>7. ASSUME NEW w \in Worker, Take(w) \/ Finish(w) \/ Leave(w) PROVE Scan'
  <2>1. UNCHANGED <<put, groupVars>>
    BY <1>7 DEF Take, Finish, Leave
  <2>2. UNCHANGED pending \/ (pending[w] # << >> /\ pending' = [pending EXCEPT ![w] = Tail(@)])
    BY <1>7 DEF Take, Finish, Leave
  <2>3. \A v \in Worker : Len(pending'[v]) <= Len(pending[v])
    <3>1. \A v \in Worker : pending[v] \in Seq(Item)
      BY DEF TypeOK
    <3>2. CASE pending[w] # << >> /\ pending' = [pending EXCEPT ![w] = Tail(@)]
      <4>1. Len(Tail(pending[w])) <= Len(pending[w])
        BY <3>1, <3>2
      <4>2. \A v \in Worker : pending'[v] = IF v = w THEN Tail(pending[w]) ELSE pending[v]
        BY <3>2 DEF TypeOK
      <4>3. \A v \in Worker : Len(pending[v]) \in Nat
        BY <3>1
      <4>4. \A v \in Worker : Len(pending[v]) <= Len(pending[v])
        BY <4>3
      <4> QED BY <4>1, <4>2, <4>4
    <3>3. CASE UNCHANGED pending
      <4>1. \A v \in Worker : Len(pending[v]) \in Nat
        BY <3>1
      <4> QED BY <3>3, <4>1
    <3> QED BY <2>2, <3>2, <3>3
  <2> QED BY <2>1, <2>3, ScanShrinks
<1>8. CASE Shutdown \/ \E p \in BOOLEAN, r \in Request : Startup(p, r)
  <2>1. ~ Locked'
    BY <1>8 DEF Shutdown, Startup, Lists, Locked
  <2> QED BY <2>1 DEF Scan
<1>9. CASE UNCHANGED vars
  <2>1. \A v \in Worker : Len(pending'[v]) <= Len(pending[v])
    BY <1>9 DEF vars, workVars, TypeOK
  <2> QED BY <1>9, <2>1, ScanShrinks DEF vars
<1> QED BY <1>1, <1>3, <1>4, <1>5, <1>6, <1>7, <1>8, <1>9, <1>10 DEF Next, PutStep

-----------------------------------------------------------------------------
(* The theorems. *)

LEMMA InitGroupInv == Init => GroupInv
<1> SUFFICES ASSUME Init PROVE GroupInv
  OBVIOUS
<1>1. ~ Locked /\ threads = << >> /\ put.at = "none" /\ life = "created"
  BY DEF Init, Locked, NoPut
<1>2. TypeOK
  BY DEF Init, TypeOK
<1>3. Lists
  <2>1. Unlisted = {} /\ Members = {}
    BY <1>1 DEF Unlisted, Members, ToSet
  <2> QED BY <1>1, <2>1 DEF Init, Lists, OpenWorkersListed, IsInjective
<1>4. Bounded /\ Scan
  BY <1>1 DEF Init, Bounded, ThreadsBounded, Scan, Infinite
<1> QED BY <1>2, <1>3, <1>4 DEF GroupInv

\* The list of workers, the scans' index and the counts they read stay in step with the
\* workers, which drain their queues meanwhile.
THEOREM GroupInvariant == SafeSpec => []GroupInv
<1>1. GroupInv /\ [Next]_vars => GroupInv'
  BY TypeStep, ListsStep, BoundedStep, ScanStep DEF GroupInv
<1> QED BY <1>1, InitGroupInv, PTL DEF SafeSpec

\* Every variable of the group keeps its type.
THEOREM GroupTypeCorrect == SafeSpec => []TypeOK
<1>1. GroupInv => TypeOK
  BY DEF GroupInv
<1> QED BY <1>1, GroupInvariant, PTL

\* InternalPutWorkItem never grows the group beyond _max_threads.
THEOREM GroupBounded == SafeSpec => []ThreadsBounded
<1>1. GroupInv => ThreadsBounded
  BY DEF GroupInv, Bounded
<1> QED BY <1>1, GroupInvariant, PTL

\* Every worker that was started and never told to leave is in the list, once, or in the
\* hands of the put that creates it, at each step of a creation and whatever fails.
THEOREM NoWorkerForgotten == SafeSpec => []OpenWorkersListed
<1>1. GroupInv => OpenWorkersListed
  BY DEF GroupInv, Lists
<1> QED BY <1>1, GroupInvariant, PTL

\* The choice of a worker is right for the counts the call began with.
THEOREM ChoosesLeastLoaded == SafeSpec => []LeastLoaded
<1>1. GroupInv => LeastLoaded
  BY LockedType DEF GroupInv, Scan, LeastLoaded, Phase
<1> QED BY <1>1, GroupInvariant, PTL

\* A thread is added only to a group whose workers all had queued tasks.
THEOREM CreatesOnlyUnderLoad == SafeSpec => []GrowsUnderLoad
<1>1. GroupInv => GrowsUnderLoad
  BY LockedType DEF GroupInv, Scan, GrowsUnderLoad, Phase
<1> QED BY <1>1, GroupInvariant, PTL

\* Both: a group grows only under load, and never beyond what Startup fixed.
THEOREM GrowsAsAllowedHolds == SafeSpec => []GrowsAsAllowed
<1>1. ThreadsBounded /\ GrowsUnderLoad => GrowsAsAllowed
  BY DEF GrowsAsAllowed
<1> QED BY <1>1, GroupBounded, CreatesOnlyUnderLoad, PTL

-----------------------------------------------------------------------------
(* Where the items are. *)

\* A worker that does not exist has nothing, and one that is closed has nothing queued.
Unused ==
    /\ \A w \in Worker : mode[w] = "none" => pending[w] = << >> /\ active[w] = None
    /\ \A w \in Worker : w \notin opened => pending[w] = << >>
    /\ put.at = "fill" => pending[put.new] = << >> /\ active[put.new] = None
    /\ life = "created" => max = 0 /\ accepted = << >> /\ done = << >>

\* Nothing is anywhere that was not accepted, and the item of a put is not there yet.
Known ==
    /\ \A w \in Worker : Held(w) \subseteq ToSet(accepted)
    /\ ToSet(done) \subseteq ToSet(accepted)
    /\ put.at \in Phase \ {"enter"} => put.item \notin ToSet(accepted)

\* A serial group has one worker in all its life.
OneWorker ==
    Serial => \A v, w \in Worker : mode[v] # "none" /\ mode[w] # "none" => v = w

ItemsInv == Unused /\ Known /\ OneWorker /\ EachItemOnce

LEMMA PushSet ==
    ASSUME NEW S, NEW q \in Seq(S), NEW x \in S
    PROVE  /\ ToSet(<<x>> \o q) = ToSet(q) \cup {x}
           /\ IsInjective(q) /\ x \notin ToSet(q) => IsInjective(<<x>> \o q)
<1> DEFINE s == <<x>> \o q
<1>1. /\ DOMAIN q = 1 .. Len(q) /\ Len(q) \in Nat
      /\ DOMAIN s = 1 .. Len(q) + 1
      /\ s[1] = x
      /\ \A n \in 2 .. Len(q) + 1 : s[n] = q[n - 1]
  OBVIOUS
<1> HIDE DEF s
<1>2. ToSet(s) = ToSet(q) \cup {x}
  <2>1. ASSUME NEW n \in 1 .. Len(q) PROVE q[n] \in ToSet(s)
    <3>1. n + 1 \in DOMAIN s /\ s[n + 1] = q[n]
      BY <1>1
    <3> QED BY <3>1 DEF ToSet
  <2>2. x \in ToSet(s)
    BY <1>1 DEF ToSet
  <2>3. ASSUME NEW n \in 1 .. Len(q) + 1 PROVE s[n] \in ToSet(q) \cup {x}
    <3>1. CASE n = 1
      BY <1>1, <3>1
    <3>2. CASE n # 1
      <4>1. n - 1 \in DOMAIN q /\ s[n] = q[n - 1]
        BY <1>1, <3>2
      <4> QED BY <4>1 DEF ToSet
    <3> QED BY <3>1, <3>2
  <2> QED BY <1>1, <2>1, <2>2, <2>3 DEF ToSet
<1>3. ASSUME IsInjective(q), x \notin ToSet(q) PROVE IsInjective(s)
  <2>1. \A n \in 1 .. Len(q) : q[n] # x
    BY <1>1, <1>3 DEF ToSet
  <2>2. SUFFICES ASSUME NEW i \in DOMAIN s, NEW j \in DOMAIN s, s[i] = s[j] PROVE i = j
    BY DEF IsInjective
  <2>3. i \in 1 .. Len(q) + 1 /\ j \in 1 .. Len(q) + 1 /\ Len(q) \in Nat
    BY <1>1
  <2>4. CASE i = 1 \/ j = 1
    BY <1>1, <2>1, <2>2, <2>3, <2>4
  <2>5. CASE i # 1 /\ j # 1
    <3>1. /\ i - 1 \in DOMAIN q /\ j - 1 \in DOMAIN q
          /\ s[i] = q[i - 1] /\ s[j] = q[j - 1]
      BY <1>1, <2>3, <2>5
    <3>2. i - 1 = j - 1
      BY <1>3, <2>2, <3>1 DEF IsInjective
    <3> QED BY <2>3, <3>2
  <2> QED BY <2>4, <2>5
<1> QED BY <1>2, <1>3 DEF s

LEMMA TailSet ==
    ASSUME NEW S, NEW q \in Seq(S), q # << >>
    PROVE  /\ Head(q) \in S /\ Tail(q) \in Seq(S)
           /\ ToSet(q) = ToSet(Tail(q)) \cup {Head(q)}
           /\ IsInjective(q) => IsInjective(Tail(q)) /\ Head(q) \notin ToSet(Tail(q))
<1>1. /\ DOMAIN q = 1 .. Len(q) /\ Len(q) \in Nat /\ Len(q) > 0
      /\ Tail(q) \in Seq(S) /\ Head(q) \in S /\ Head(q) = q[1]
      /\ DOMAIN Tail(q) = 1 .. Len(q) - 1
      /\ \A n \in 1 .. Len(q) - 1 : Tail(q)[n] = q[n + 1]
  OBVIOUS
<1>2. ToSet(q) \subseteq ToSet(Tail(q)) \cup {Head(q)}
  <2> SUFFICES ASSUME NEW n \in 1 .. Len(q) PROVE q[n] \in ToSet(Tail(q)) \cup {Head(q)}
    BY <1>1 DEF ToSet
  <2>1. CASE n = 1
    BY <1>1, <2>1
  <2>2. CASE n # 1
    <3>1. n - 1 \in DOMAIN Tail(q) /\ Tail(q)[n - 1] = q[n]
      BY <1>1, <2>2
    <3> QED BY <3>1 DEF ToSet
  <2> QED BY <2>1, <2>2
<1>3. ToSet(Tail(q)) \cup {Head(q)} \subseteq ToSet(q)
  <2>1. \A n \in 1 .. Len(q) - 1 : n + 1 \in 1 .. Len(q)
    BY <1>1
  <2>2. 1 \in 1 .. Len(q)
    BY <1>1
  <2> QED BY <1>1, <2>1, <2>2 DEF ToSet
<1>4. ASSUME IsInjective(q) PROVE IsInjective(Tail(q)) /\ Head(q) \notin ToSet(Tail(q))
  <2>1. \A n \in 1 .. Len(q) - 1 : n + 1 \in 1 .. Len(q) /\ n + 1 # 1
    BY <1>1
  <2>2. Head(q) \notin ToSet(Tail(q))
    BY <1>1, <1>4, <2>1 DEF ToSet, IsInjective
  <2>3. IsInjective(Tail(q))
    BY <1>1, <1>4, <2>1 DEF IsInjective
  <2> QED BY <2>2, <2>3
<1> QED BY <1>1, <1>2, <1>3, <1>4

LEMMA PlaceSet ==
    ASSUME TypeOK, Locked, NEW q \in Seq(Item)
    PROVE  /\ put.item \in Item
           /\ ToSet(Place(q)) = ToSet(q) \cup {put.item}
           /\ IsInjective(q) /\ put.item \notin ToSet(q) => IsInjective(Place(q))
<1>1. put.item \in Item
  BY LockedType DEF PutState
<1>2. CASE put.level = "Level2"
  BY <1>1, <1>2, PushSet DEF Place
<1>3. CASE put.level # "Level2"
  BY <1>1, <1>3, AppendSet DEF Place
<1> QED BY <1>1, <1>2, <1>3

-----------------------------------------------------------------------------
\* The item of the put that holds the lock is placed on worker w, and only there.
Placed(w) ==
    /\ put.at \in {"submit", "fill"} /\ put'.at \in {"none", "enter"}
    /\ pending' = [pending EXCEPT ![w] = Place(@)]
    /\ accepted' = Append(accepted, put.item)
    /\ UNCHANGED <<active, done>>

LEMMA PlacedOnce ==
    ASSUME TypeOK, Known, EachItemOnce, NEW w \in Worker, Placed(w)
    PROVE  Known' /\ EachItemOnce'
<1> DEFINE i == put.item
<1>1. /\ \A v \in Worker : pending[v] \in Seq(Item)
      /\ accepted \in Seq(Item) /\ i \in Item /\ i # None
  <2>1. Locked
    BY LockedType DEF Placed, Phase
  <2> QED BY <2>1, PlaceSet, GroupAssumption DEF TypeOK
<1>2. i \notin ToSet(accepted) /\ ToSet(accepted') = ToSet(accepted) \cup {i}
  BY <1>1, AppendToSet DEF Known, Placed, Phase, TypeOK
<1>3. /\ \A v \in Worker \ {w} : pending'[v] = pending[v]
      /\ pending'[w] = Place(pending[w])
      /\ active' = active /\ done' = done /\ put'.at \notin Phase \ {"enter"}
  BY DEF Placed, TypeOK, Phase
<1>4. i \notin Held(w) /\ i \notin ToSet(pending[w])
  BY <1>2 DEF Known, Held
<1>5. /\ ToSet(pending'[w]) = ToSet(pending[w]) \cup {i}
      /\ IsInjective(pending'[w])
  <2>1. Locked
    BY LockedType DEF Placed, Phase
  <2> QED BY <1>1, <1>3, <1>4, <2>1, PlaceSet DEF EachItemOnce
<1>6. /\ Held(w)' = Held(w) \cup {i}
      /\ \A v \in Worker \ {w} : Held(v)' = Held(v)
  BY <1>3, <1>5 DEF Held
<1>7. \A v \in Worker : i \notin Held(v) /\ i \notin ToSet(done)
  BY <1>2 DEF Known
<1>8. Known'
  BY <1>2, <1>3, <1>6 DEF Known
<1>9. EachItemOnce'
  <2>1. active[w] # i
    BY <1>1, <1>7 DEF Held
  <2>2. ASSUME NEW v \in Worker
        PROVE  /\ IsInjective(pending'[v]) /\ active'[v] \notin ToSet(pending'[v])
               /\ Held(v)' \cap ToSet(done') = {}
    BY <1>3, <1>5, <1>6, <1>7, <2>1 DEF EachItemOnce
  <2>3. ASSUME NEW u \in Worker, NEW v \in Worker, u # v
        PROVE  Held(u)' \cap Held(v)' = {}
    BY <1>6, <1>7, <2>3 DEF EachItemOnce
  <2> QED BY <1>3, <2>2, <2>3 DEF EachItemOnce
<1> QED BY <1>8, <1>9

LEMMA TakenOnce ==
    ASSUME TypeOK, Known, EachItemOnce, NEW w \in Worker, Take(w)
    PROVE  Known' /\ EachItemOnce'
<1> DEFINE q == pending[w]
<1>1. q \in Seq(Item) /\ q # << >> /\ active[w] = None
  BY DEF TypeOK, Take
<1>2. /\ pending'[w] = Tail(q) /\ active'[w] = Head(q)
      /\ \A v \in Worker \ {w} : pending'[v] = pending[v] /\ active'[v] = active[v]
      /\ UNCHANGED <<accepted, done, put>>
  BY DEF TypeOK, Take
<1>3. /\ ToSet(q) = ToSet(Tail(q)) \cup {Head(q)} /\ Head(q) \in Item
      /\ IsInjective(Tail(q)) /\ Head(q) \notin ToSet(Tail(q))
  BY <1>1, TailSet DEF EachItemOnce
<1>4. \A v \in Worker : Held(v)' = Held(v)
  BY <1>1, <1>2, <1>3, GroupAssumption DEF Held
<1>5. Known'
  BY <1>2, <1>4 DEF Known
<1>6. \A v \in Worker : IsInjective(pending'[v]) /\ active'[v] \notin ToSet(pending'[v])
  BY <1>2, <1>3 DEF EachItemOnce
<1> QED BY <1>2, <1>4, <1>5, <1>6 DEF EachItemOnce

LEMMA FinishedOnce ==
    ASSUME TypeOK, Known, EachItemOnce, NEW w \in Worker, Finish(w)
    PROVE  Known' /\ EachItemOnce'
<1> DEFINE i == active[w]
<1>1. /\ i \in Item /\ i # None /\ done \in Seq(Item) /\ i \in Held(w)
      /\ i \notin ToSet(done) /\ i \notin ToSet(pending[w])
  BY DEF TypeOK, Finish, EachItemOnce, Held
<1>2. /\ active'[w] = None
      /\ \A v \in Worker \ {w} : active'[v] = active[v]
      /\ done' = Append(done, i)
      /\ UNCHANGED <<accepted, pending, put>>
  BY DEF TypeOK, Finish
<1> HIDE DEF i
<1>3. ToSet(done') = ToSet(done) \cup {i} /\ IsInjective(done')
  <2>1. IsInjective(done)
    BY DEF EachItemOnce
  <2> QED BY <1>1, <1>2, <2>1, AppendSet
<1>4. /\ Held(w)' = Held(w) \ {i}
      /\ \A v \in Worker \ {w} : Held(v)' = Held(v) /\ i \notin Held(v)
  <2>1. Held(w) = ToSet(pending[w]) \cup {i} /\ Held(w)' = ToSet(pending[w])
    BY <1>1, <1>2 DEF Held, i
  <2>2. ASSUME NEW v \in Worker \ {w} PROVE Held(v)' = Held(v) /\ i \notin Held(v)
    <3>1. Held(v) \cap Held(w) = {}
      BY DEF EachItemOnce
    <3> QED BY <1>1, <1>2, <3>1 DEF Held
  <2> QED BY <1>1, <2>1, <2>2
<1>5. Known'
  BY <1>1, <1>2, <1>3, <1>4 DEF Known
<1>6. \A v \in Worker : IsInjective(pending'[v]) /\ active'[v] \notin ToSet(pending'[v])
  <2>1. None \notin ToSet(pending[w])
    <3>1. pending[w] \in Seq(Item)
      BY DEF TypeOK
    <3> QED BY <3>1, SeqSet, GroupAssumption
  <2> QED BY <1>2, <2>1 DEF EachItemOnce
<1>7. \A v \in Worker : Held(v)' \cap ToSet(done') = {}
  BY <1>3, <1>4 DEF EachItemOnce
<1>8. \A u, v \in Worker : u # v => Held(u)' \cap Held(v)' = {}
  BY <1>4 DEF EachItemOnce
<1> QED BY <1>3, <1>5, <1>6, <1>7, <1>8 DEF EachItemOnce

-----------------------------------------------------------------------------
LEMMA UnusedStep == GroupInv /\ Unused /\ [Next]_vars => Unused'
<1> SUFFICES ASSUME GroupInv, Unused, [Next]_vars PROVE Unused'
  OBVIOUS
<1> USE DEF GroupInv
<1>1. ASSUME NEW p \in BOOLEAN, NEW r \in Request, Startup(p, r) PROVE Unused'
  <2>1. Fresh \in Worker
    BY <1>1, GroupAssumption, FreshType DEF Startup, Lists, CanAllocate
  <2>2. put'.at = "none"
    BY <1>1 DEF Startup, Lists, Locked, NoPut
  <2> QED BY <1>1, <2>1, <2>2 DEF Startup, Unused, TypeOK
<1>2. CASE Shutdown
  <2>1. put'.at = "none"
    BY <1>2 DEF Shutdown, Locked, NoPut
  <2>2. \A w \in Worker : w \in opened' => w \in opened
    BY <1>2 DEF Shutdown
  <2>3. \A w \in Worker : w \notin opened' => pending'[w] = << >>
    BY <1>2 DEF Shutdown, Unused
  <2>4. \A w \in Worker : mode'[w] = "none" => pending'[w] = << >> /\ active'[w] = None
    BY <1>2 DEF Shutdown, Unused
  <2> QED BY <1>2, <2>1, <2>3, <2>4 DEF Shutdown, Unused
<1>3. ASSUME NEW i \in Item, NEW level \in Level, PutWorkItem(i, level) PROVE Unused'
  <2>1. put'.at # "fill"
    BY <1>3 DEF PutWorkItem
  <2> QED BY <1>3, <2>1 DEF PutWorkItem, Unused, groupVars, workVars
<1>4. CASE ScanForIdle \/ Recheck \/ ScanForLeast \/ CreateWorkerFails \/ EnterWorker
  <2>1. put.at \in Phase /\ put \in PutState
    BY <1>4, LockedType
       DEF ScanForIdle, Recheck, ScanForLeast, CreateWorkerFails, EnterWorker, Phase
  <2>2. put'.at # "fill"
    <3>1. CASE ScanForIdle
      BY <2>1, <3>1 DEF ScanForIdle, PutState
    <3>2. CASE Recheck \/ ScanForLeast
      BY <2>1, <3>2 DEF Recheck, ScanForLeast, PutState
    <3>3. CASE CreateWorkerFails \/ EnterWorker
      BY <3>3 DEF CreateWorkerFails, EnterWorker, NoPut
    <3> QED BY <1>4, <3>1, <3>2, <3>3
  <2>3. UNCHANGED <<life, max, workVars>>
    BY <1>4 DEF ScanForIdle, Recheck, ScanForLeast, CreateWorkerFails, EnterWorker, groupVars
  <2> QED BY <2>2, <2>3 DEF Unused, workVars
<1>5. ASSUME NEW w \in opened, Placed(w), UNCHANGED <<groupVars, opened>>,
             \A v \in Worker : mode'[v] = "none" => mode[v] = "none"
      PROVE  Unused'
  <2>1. w \in Worker /\ mode[w] # "none" /\ life = "open" /\ put'.at # "fill"
    BY <1>5, LockedType DEF Lists, OpenWorkersListed, TypeOK, Placed, Phase
  <2>2. \A v \in Worker \ {w} : pending'[v] = pending[v]
    BY <1>5 DEF Placed, TypeOK
  <2> QED BY <1>5, <2>1, <2>2 DEF Unused, Placed, groupVars
<1>6. CASE Submit \/ SubmitAborts
  <2>1. Locked /\ put \in PutState /\ put.k \in DOMAIN threads
    BY <1>6, LockedType, ThreadsType, PutFields DEF Submit, SubmitAborts, Phase, Scan
  <2>2. threads[put.k] \in opened /\ threads[put.k] \in Worker
    BY <2>1, ThreadsType DEF Lists, OpenWorkersListed, Members, ToSet
  <2>3. Placed(threads[put.k])
    BY <1>6, <2>1 DEF Submit, SubmitAborts, Placed, NoPut
  <2>4. \A v \in Worker : mode'[v] = "none" => mode[v] = "none"
    BY <1>6, <2>2 DEF Submit, SubmitAborts, TypeOK
  <2> QED BY <1>5, <1>6, <2>2, <2>3, <2>4 DEF Submit, SubmitAborts
<1>7. CASE StartWorker
  <2>1. Fresh \in Worker /\ put \in PutState /\ mode[Fresh] = "none"
    BY <1>7, FreshType, LockedType DEF StartWorker, Phase
  <2>2. \A v \in Worker \ {Fresh} : mode'[v] = mode[v]
    BY <1>7 DEF StartWorker, TypeOK
  <2>3. /\ mode'[Fresh] = "on" /\ opened' = opened \cup {Fresh}
        /\ UNCHANGED <<pending, active, life, put.item>> /\ put'.new = Fresh
    BY <1>7, <2>1 DEF StartWorker, TypeOK, groupVars, PutState
  <2>4. life' # "created"
    BY <1>7, LockedType DEF StartWorker, Lists, Phase, groupVars
  <2> QED BY <2>1, <2>2, <2>3, <2>4 DEF Unused
<1>12. CASE FillWorker
  <2>1. put \in PutState /\ put.new \in opened /\ put.new \in Worker
    BY <1>12, LockedType DEF FillWorker, Phase, Lists, OpenWorkersListed, Members, Unlisted
  <2>2. Placed(put.new)
    BY <1>12, <2>1 DEF FillWorker, Placed, PutState
  <2>3. \A v \in Worker : mode'[v] = "none" => mode[v] = "none"
    BY <1>12, <2>1 DEF FillWorker, TypeOK
  <2> QED BY <1>5, <1>12, <2>1, <2>2, <2>3 DEF FillWorker
<1>13. CASE FillWorkerAborts
  <2>1. life # "created"
    BY <1>13, LockedType DEF FillWorkerAborts, Phase, Lists
  <2> QED BY <1>13, <2>1 DEF FillWorkerAborts, Unused, NoPut, groupVars
<1>8. ASSUME NEW w \in Worker, Take(w) PROVE Unused'
  <2>1. w \in opened /\ mode[w] = "on"
    BY <1>8 DEF Take, Unused
  <2>2. \A v \in Worker \ {w} : pending'[v] = pending[v] /\ active'[v] = active[v]
    BY <1>8 DEF Take, TypeOK
  <2>3. put.at = "fill" => put.new # w /\ put.new \in Worker
    BY <1>8 DEF Take, Unused, Lists, Members, Unlisted
  <2> QED BY <1>8, <2>1, <2>2, <2>3 DEF Take, Unused, groupVars
<1>9. ASSUME NEW w \in Worker, Finish(w) PROVE Unused'
  <2>1. life # "created"
    BY <1>9 DEF Finish, Unused, Lists
  <2>2. \A v \in Worker : active[v] = None => active'[v] = None
    BY <1>9 DEF Finish, TypeOK
  <2>3. put.at = "fill" => put.new \in Worker
    BY DEF Lists, Members, Unlisted
  <2> QED BY <1>9, <2>1, <2>2, <2>3 DEF Finish, Unused, groupVars
<1>10. ASSUME NEW w \in Worker, Leave(w) PROVE Unused'
  BY <1>10 DEF Leave, Unused, groupVars, TypeOK
<1>11. CASE UNCHANGED vars
  BY <1>11 DEF vars, Unused, groupVars, workVars
<1> QED BY <1>1, <1>2, <1>3, <1>4, <1>6, <1>7, <1>8, <1>9, <1>10, <1>11, <1>12, <1>13
        DEF Next, PutStep

\* The worker that a group with one thread was started with is the only one.
LEMMA OneWorkerStep == GroupInv /\ Unused /\ OneWorker /\ [Next]_vars => OneWorker'
<1> SUFFICES ASSUME GroupInv, Unused, OneWorker, [Next]_vars, Serial' PROVE OneWorker'
  BY DEF OneWorker
<1> USE DEF GroupInv
<1>1. ASSUME NEW p \in BOOLEAN, NEW r \in Request, Startup(p, r) PROVE OneWorker'
  <2>1. \A v \in Worker : mode[v] = "none"
    BY <1>1 DEF Startup, Lists
  <2>2. mode' = [mode EXCEPT ![Fresh] = "off"]
    BY <1>1 DEF Startup
  <2> QED BY <2>1, <2>2 DEF OneWorker, TypeOK
<1>2. CASE StartWorker
  <2>1. Locked /\ CanCreate /\ life = "open"
    BY <1>2, LockedType DEF StartWorker, Scan, Lists, Phase
  <2>2. max = 1
    BY <1>2 DEF StartWorker, Serial, groupVars
  <2>3. Len(threads) < 1 /\ threads # << >> /\ threads \in Seq(Worker)
    BY <2>1, <2>2 DEF CanCreate, Infinite, Lists, TypeOK
  <2> QED BY <2>3
<1>3. ASSUME UNCHANGED max, \A v \in Worker : mode'[v] # "none" => mode[v] # "none"
      PROVE  OneWorker'
  BY <1>3 DEF OneWorker, Serial
<1>4. CASE Submit \/ SubmitAborts
  <2>1. Locked /\ put \in PutState /\ put.k \in DOMAIN threads
    BY <1>4, LockedType, ThreadsType, PutFields DEF Submit, SubmitAborts, Phase, Scan
  <2>2. mode[threads[put.k]] # "none"
    BY <2>1, ThreadsType DEF Lists, Members, ToSet
  <2>3. \A v \in Worker : mode'[v] # "none" => mode[v] # "none"
    BY <1>4, <2>2 DEF Submit, SubmitAborts, TypeOK
  <2> QED BY <1>3, <1>4, <2>3 DEF Submit, SubmitAborts, groupVars
<1>5. ASSUME NEW w \in Worker, Leave(w) PROVE OneWorker'
  <2>1. \A v \in Worker : mode'[v] # "none" => mode[v] # "none"
    BY <1>5 DEF Leave, TypeOK
  <2> QED BY <1>3, <1>5, <2>1 DEF Leave, groupVars
<1>6. CASE UNCHANGED <<max, mode>>
  BY <1>3, <1>6
<1>7. CASE FillWorker
  <2>1. put.new \in Members
    BY <1>7 DEF FillWorker, Members, Unlisted
  <2>2. \A v \in Worker : mode'[v] # "none" => mode[v] # "none"
    BY <1>7, <2>1 DEF FillWorker, Lists, TypeOK
  <2> QED BY <1>3, <1>7, <2>2 DEF FillWorker, groupVars
<1> QED BY <1>1, <1>2, <1>4, <1>5, <1>6, <1>7
        DEF Next, PutStep, Shutdown, PutWorkItem, ScanForIdle, Recheck, ScanForLeast,
            CreateWorkerFails, FillWorkerAborts, EnterWorker, Take, Finish, vars, groupVars,
            workVars

LEMMA OnceStep ==
    GroupInv /\ Unused /\ Known /\ EachItemOnce /\ [Next]_vars => Known' /\ EachItemOnce'
<1> SUFFICES ASSUME GroupInv, Unused, Known, EachItemOnce, [Next]_vars
             PROVE  Known' /\ EachItemOnce'
  OBVIOUS
<1> USE DEF GroupInv
<1>1. ASSUME UNCHANGED <<pending, active, done, accepted>>,
             put'.at \in Phase \ {"enter"} => put'.item \notin ToSet(accepted)
      PROVE  Known' /\ EachItemOnce'
  BY <1>1 DEF Known, EachItemOnce, Held
<1>2. ASSUME NEW p \in BOOLEAN, NEW r \in Request, Startup(p, r)
      PROVE  Known' /\ EachItemOnce'
  <2>1. put'.at \notin Phase
    BY <1>2 DEF Startup, Lists, Locked, NoPut, Phase
  <2> QED BY <1>1, <1>2, <2>1 DEF Startup
<1>3. CASE Shutdown
  <2>1. /\ \A w \in Worker : pending'[w] = << >> \/ pending'[w] = pending[w]
        /\ UNCHANGED <<active, done, accepted>> /\ put'.at \notin Phase
    BY <1>3 DEF Shutdown, Locked, NoPut, Phase
  <2>2. \A w \in Worker : IsInjective(pending'[w]) /\ ToSet(pending'[w]) \subseteq ToSet(pending[w])
    <3> SUFFICES ASSUME NEW w \in Worker
                 PROVE  IsInjective(pending'[w]) /\ ToSet(pending'[w]) \subseteq ToSet(pending[w])
      OBVIOUS
    <3>1. CASE pending'[w] = << >>
      BY <3>1 DEF ToSet, IsInjective
    <3>2. CASE pending'[w] = pending[w]
      BY <3>2 DEF EachItemOnce
    <3> QED BY <2>1, <3>1, <3>2
  <2>3. \A w \in Worker : Held(w)' \subseteq Held(w)
    BY <2>1, <2>2 DEF Held
  <2> QED BY <2>1, <2>2, <2>3 DEF Known, EachItemOnce
<1>4. ASSUME NEW i \in Item, NEW level \in Level, PutWorkItem(i, level)
      PROVE  Known' /\ EachItemOnce'
  BY <1>1, <1>4 DEF PutWorkItem, workVars
<1>5. CASE ScanForIdle \/ Recheck \/ ScanForLeast \/ StartWorker
  <2>1. put \in PutState /\ put.at \in Phase \ {"enter"}
    BY <1>5, LockedType DEF ScanForIdle, Recheck, ScanForLeast, StartWorker, Phase
  <2>2. put'.item = put.item
    BY <1>5, <2>1 DEF ScanForIdle, Recheck, ScanForLeast, StartWorker, PutState
  <2> QED BY <1>1, <1>5, <2>1, <2>2
          DEF ScanForIdle, Recheck, ScanForLeast, StartWorker, workVars, Known
<1>6. CASE CreateWorkerFails \/ FillWorkerAborts \/ EnterWorker
  <2>1. put'.at \notin Phase
    BY <1>6 DEF CreateWorkerFails, FillWorkerAborts, EnterWorker, NoPut, Phase
  <2> QED BY <1>1, <1>6, <2>1 DEF CreateWorkerFails, FillWorkerAborts, EnterWorker, workVars
<1>7. CASE Submit \/ SubmitAborts
  <2>1. Locked /\ put \in PutState /\ put.k \in DOMAIN threads
    BY <1>7, LockedType, ThreadsType, PutFields DEF Submit, SubmitAborts, Phase, Scan
  <2>2. threads[put.k] \in Worker
    BY <2>1, ThreadsType
  <2>3. Placed(threads[put.k])
    BY <1>7, <2>1 DEF Submit, SubmitAborts, Placed, NoPut
  <2> QED BY <2>2, <2>3, PlacedOnce
<1>8. CASE FillWorker
  <2>1. put \in PutState /\ put.new \in Worker
    BY <1>8, LockedType DEF FillWorker, Phase, Lists, Members, Unlisted
  <2>2. Placed(put.new)
    BY <1>8, <2>1 DEF FillWorker, Placed, PutState
  <2> QED BY <2>1, <2>2, PlacedOnce
<1>9. ASSUME NEW w \in Worker, Take(w) \/ Finish(w) \/ Leave(w)
      PROVE  Known' /\ EachItemOnce'
  <2>1. CASE Leave(w)
    BY <1>1, <2>1 DEF Leave, Known
  <2> QED BY <1>9, <2>1, TakenOnce, FinishedOnce
<1>10. CASE UNCHANGED vars
  BY <1>1, <1>10 DEF vars, workVars, Known
<1> QED BY <1>2, <1>3, <1>4, <1>5, <1>6, <1>7, <1>8, <1>9, <1>10 DEF Next, PutStep

LEMMA InitItemsInv == Init => ItemsInv
<1> SUFFICES ASSUME Init PROVE ItemsInv
  OBVIOUS
<1>1. Unused /\ OneWorker /\ put.at = "none"
  BY DEF Init, Unused, OneWorker, NoPut
<1>2. \A w \in Worker : Held(w) = {} /\ active[w] = None /\ pending[w] = << >>
  BY DEF Init, Held, ToSet
<1>3. IsInjective(<< >>) /\ ToSet(<< >>) = {}
  BY DEF IsInjective, ToSet
<1> QED BY <1>1, <1>2, <1>3 DEF Init, ItemsInv, Known, EachItemOnce, Phase

\* At every step of a put, of the workers and of Shutdown every item that was accepted is
\* in one place, and the item of the put under way in none yet.
THEOREM ItemsInvariant == SafeSpec => []ItemsInv
<1>1. GroupInv /\ ItemsInv /\ [Next]_vars => ItemsInv'
  BY UnusedStep, OneWorkerStep, OnceStep DEF ItemsInv
<1> QED BY <1>1, InitItemsInv, GroupInvariant, PTL DEF SafeSpec

\* An item that was put is queued, executing or executed in one place, and once there.
THEOREM NoItemTwice == SafeSpec => []EachItemOnce
<1>1. ItemsInv => EachItemOnce
  BY DEF ItemsInv
<1> QED BY <1>1, ItemsInvariant, PTL

-----------------------------------------------------------------------------
(* No item is stranded. *)

\* Worker w has item i, and will come to it unless its thread could not be started.
Serves(w, i) ==
    \/ mode[w] = "on" /\ i \in Held(w)
    \/ mode[w] = "stalled" /\ i \in ToSet(pending[w])

\* A step that accepts and executes nothing, and takes nothing from a member.
LEMMA ServedStay ==
    ASSUME NothingStranded, UNCHANGED <<accepted, done>>, life' # "shutdown", life # "shutdown",
           Members \subseteq Members',
           \A w \in Members : \A i : Serves(w, i) => Serves(w, i)'
    PROVE  NothingStranded'
BY DEF NothingStranded, Serves

\* The item of the put is accepted by a worker that runs or is stalled, and all others
\* stay with theirs.
LEMMA PlacedIsServed ==
    ASSUME TypeOK, Members \subseteq Worker, NothingStranded, NEW w \in Worker, Placed(w), life # "shutdown",
           UNCHANGED life, Members' = Members \cup {w},
           \A v \in Worker \ {w} : mode'[v] = mode[v],
           mode[w] = "on" => mode'[w] = "on",
           mode[w] = "stalled" => mode'[w] = "stalled",
           mode'[w] \in {"on", "stalled"}
    PROVE  NothingStranded'
<1>0. Locked
  BY LockedType DEF Placed, Phase
<1>1. /\ pending[w] \in Seq(Item) /\ put.item \in Item
      /\ \A v \in Worker \ {w} : pending'[v] = pending[v]
      /\ pending'[w] = Place(pending[w])
      /\ accepted' = Append(accepted, put.item) /\ UNCHANGED <<active, done>>
  BY <1>0, PlaceSet DEF TypeOK, Placed
<1>2. ToSet(accepted') = ToSet(accepted) \cup {put.item}
  BY <1>1, AppendSet DEF TypeOK
<1>3. ToSet(pending'[w]) = ToSet(pending[w]) \cup {put.item}
  BY <1>0, <1>1, PlaceSet
<1>4. ASSUME NEW v \in Worker, NEW i, Serves(v, i) PROVE Serves(v, i)'
  BY <1>1, <1>3, <1>4 DEF Serves, Held
<1>5. ASSUME NEW i, i = put.item PROVE Serves(w, i)'
  <2>1. i \in ToSet(pending'[w]) /\ mode'[w] \in {"on", "stalled"}
    BY <1>3, <1>5
  <2> QED BY <2>1 DEF Serves, Held
<1>7. ASSUME NEW i \in ToSet(accepted') \ ToSet(done')
      PROVE  \E v \in Members' : Serves(v, i)'
  <2>1. CASE i = put.item
    BY <1>5, <2>1
  <2>2. CASE i # put.item
    <3>1. i \in ToSet(accepted) \ ToSet(done)
      BY <1>1, <1>2, <2>2
    <3>2. PICK v \in Members : Serves(v, i)
      BY <3>1 DEF NothingStranded, Serves
    <3>3. v \in Worker /\ v \in Members'
      OBVIOUS
    <3>4. Serves(v, i)'
      BY <1>4, <3>2, <3>3
    <3> QED BY <3>3, <3>4
  <2> QED BY <2>1, <2>2
<1> QED BY <1>7 DEF NothingStranded, Serves

LEMMA StrandedStep == GroupInv /\ Unused /\ NothingStranded /\ [Next]_vars => NothingStranded'
<1> SUFFICES ASSUME GroupInv, Unused, NothingStranded, [Next]_vars PROVE NothingStranded'
  OBVIOUS
<1> USE DEF GroupInv
<1>1. Members \subseteq Worker
  BY DEF Lists
<1>2. ASSUME UNCHANGED <<life, mode, pending, active, accepted, done>>, Members \subseteq Members'
      PROVE  NothingStranded'
  <2>1. \A w : \A i : Serves(w, i) => Serves(w, i)'
    BY <1>2 DEF Serves, Held
  <2> QED BY <1>2, <2>1 DEF NothingStranded, Serves
<1>10. ASSUME put.at \notin {"fill", "enter"}, UNCHANGED threads
       PROVE  Members \subseteq Members'
  BY <1>10, NoneUnlisted DEF Members
<1>14. ASSUME UNCHANGED <<groupVars, put>> PROVE Members' = Members
  BY <1>14 DEF Members, Unlisted, groupVars
<1>3. ASSUME NEW p \in BOOLEAN, NEW r \in Request, Startup(p, r) PROVE NothingStranded'
  <2>1. accepted' = << >>
    BY <1>3 DEF Startup, Unused
  <2>2. ToSet(accepted') = {}
    BY <2>1 DEF ToSet
  <2> QED BY <2>2 DEF NothingStranded
<1>4. CASE Shutdown
  BY <1>4 DEF Shutdown, NothingStranded
<1>5. CASE Submit \/ SubmitAborts
  <2> DEFINE w == threads[put.k]
  <2>1. Locked /\ put \in PutState /\ put.k \in DOMAIN threads /\ life = "open"
    BY <1>5, LockedType, ThreadsType, PutFields DEF Submit, SubmitAborts, Phase, Scan, Lists
  <2>2. w \in ToSet(threads) /\ w \in Worker /\ mode[w] # "none"
    BY <2>1, ThreadsType DEF Lists, Members, ToSet
  <2>3. Placed(w) /\ UNCHANGED <<life, threads>> /\ put'.at = "none" /\ put.at = "submit"
    BY <1>5, <2>1 DEF Submit, SubmitAborts, Placed, NoPut, groupVars
  <2>4. mode[w] \in {"off", "on", "stalled"}
    BY <2>2 DEF TypeOK
  <2>5. /\ \A v \in Worker \ {w} : mode'[v] = mode[v]
        /\ mode[w] = "on" => mode'[w] = "on"
        /\ mode[w] = "stalled" => mode'[w] = "stalled"
        /\ mode'[w] \in {"on", "stalled"}
    <3>1. CASE Submit
      BY <2>2, <2>4, <3>1 DEF Submit, TypeOK
    <3>2. CASE SubmitAborts
      BY <2>2, <2>4, <3>2 DEF SubmitAborts, TypeOK
    <3> QED BY <1>5, <3>1, <3>2
  <2>6. Members' = Members \cup {w}
    BY <2>2, <2>3 DEF Members, Unlisted
  <2> HIDE DEF w
  <2> QED BY <1>1, <2>1, <2>2, <2>3, <2>5, <2>6, PlacedIsServed
<1>6. CASE FillWorker
  <2> DEFINE w == put.new
  <2>1. put \in PutState /\ Locked /\ w \in Members /\ w \in Worker
    BY <1>1, <1>6, LockedType DEF FillWorker, Phase, Members, Unlisted
  <2>2. life = "open" /\ UNCHANGED <<life, threads>>
    BY <1>6, <2>1 DEF FillWorker, Lists, groupVars
  <2>3. Placed(w) /\ put'.at = "enter" /\ put'.new = w
    BY <1>6, <2>1 DEF FillWorker, Placed, PutState
  <2>4. /\ \A v \in Worker \ {w} : mode'[v] = mode[v]
        /\ mode[w] = "on" => mode'[w] = "on"
        /\ mode[w] = "stalled" => mode'[w] = "stalled"
        /\ mode'[w] \in {"on", "stalled"}
    BY <1>6, <2>1 DEF FillWorker, Lists, TypeOK
  <2>6. Members' = Members \cup {w}
    BY <1>6, <2>1, <2>2, <2>3 DEF FillWorker, Members, Unlisted
  <2> HIDE DEF w
  <2> QED BY <1>1, <2>1, <2>2, <2>3, <2>4, <2>6, PlacedIsServed
<1>11. CASE StartWorker
  <2>1. put.at \notin {"fill", "enter"} /\ Fresh \in Worker /\ mode[Fresh] = "none"
        /\ UNCHANGED <<groupVars, pending, active, accepted, done>>
    BY <1>11, FreshType DEF StartWorker
  <2>2. Members \subseteq Members'
    BY <1>10, <2>1 DEF groupVars
  <2>3. \A v \in Worker : v # Fresh => mode'[v] = mode[v]
    BY <1>11 DEF StartWorker, TypeOK
  <2>4. \A v \in Members : \A i : Serves(v, i) => Serves(v, i)'
    BY <1>1, <2>1, <2>3 DEF Serves, Held
  <2>5. life = "open"
    BY <1>11, LockedType DEF StartWorker, Phase, Lists
  <2> QED BY <2>1, <2>2, <2>4, <2>5, ServedStay DEF groupVars
\* The worker that is given back has nothing.
<1>12. CASE FillWorkerAborts
  <2>1. /\ Unlisted = {put.new} /\ put'.at = "none" /\ life = "open"
        /\ UNCHANGED <<groupVars, mode, pending, active, accepted, done>>
    BY <1>12, LockedType DEF FillWorkerAborts, Unlisted, NoPut, Phase, Lists
  <2>2. Held(put.new) = {} /\ ToSet(pending[put.new]) = {}
    BY <1>12 DEF FillWorkerAborts, Unused, Held, ToSet
  <2>3. Members' = ToSet(threads)
    BY <2>1 DEF Members, Unlisted, groupVars
  <2>4. ASSUME NEW i \in ToSet(accepted) \ ToSet(done)
        PROVE  \E v \in ToSet(threads) : Serves(v, i)'
    <3>1. PICK v \in Members : Serves(v, i)
      BY <2>1, <2>4 DEF NothingStranded, Serves
    <3>2. v # put.new
      BY <2>2, <3>1 DEF Serves
    <3>3. v \in ToSet(threads) /\ Serves(v, i)'
      BY <2>1, <3>1, <3>2 DEF Members, Serves, Held
    <3> QED BY <3>3
  <2> QED BY <2>1, <2>3, <2>4 DEF NothingStranded, Serves
<1>13. CASE EnterWorker
  <2>1. /\ Unlisted = {put.new} /\ put.new \in Worker
        /\ threads' = Append(threads, put.new) /\ UNCHANGED <<life, workVars>>
    BY <1>13 DEF EnterWorker, Unlisted, Lists, Members
  <2>2. Members \subseteq Members'
    BY <2>1, AppendToSet DEF Members, TypeOK
  <2> QED BY <1>2, <2>1, <2>2 DEF workVars
<1>7. ASSUME NEW w \in Worker, Take(w) PROVE NothingStranded'
  <2>1. pending[w] # << >> /\ mode[w] = "on" /\ UNCHANGED <<groupVars, put, mode, accepted, done>>
    BY <1>7 DEF Take
  <2>2. pending[w] \in Seq(Item) /\ ToSet(pending[w]) = ToSet(Tail(pending[w])) \cup {Head(pending[w])}
    BY <2>1, TailSet DEF TypeOK
  <2>3. Head(pending[w]) \in Item /\ Head(pending[w]) # None
    BY <2>1, <2>2, GroupAssumption
  <2>4. /\ active[w] = None /\ active'[w] = Head(pending[w]) /\ pending'[w] = Tail(pending[w])
        /\ \A v \in Worker \ {w} : active'[v] = active[v] /\ pending'[v] = pending[v]
    BY <1>7 DEF Take, TypeOK
  <2>5. Held(w)' = Held(w)
    BY <2>2, <2>3, <2>4 DEF Held
  <2>6. \A v \in Worker : \A i : Serves(v, i) => Serves(v, i)'
    BY <2>1, <2>4, <2>5 DEF Serves, Held
  <2>7. CASE life = "shutdown"
    BY <2>1, <2>7 DEF NothingStranded, groupVars
  <2>8. CASE life # "shutdown"
    BY <1>1, <1>14, <2>1, <2>6, <2>8, ServedStay DEF groupVars
  <2> QED BY <2>7, <2>8
<1>8. ASSUME NEW w \in Worker, Finish(w) PROVE NothingStranded'
  <2>1. active[w] # None /\ UNCHANGED <<groupVars, put, mode, pending, accepted>>
    BY <1>8 DEF Finish
  <2>2. ToSet(done') = ToSet(done) \cup {active[w]}
    <3>1. active[w] \in Item /\ done' = Append(done, active[w])
      BY <1>8, <2>1 DEF Finish, TypeOK
    <3> QED BY <3>1, AppendSet DEF TypeOK
  <2>3. \A v \in Worker : v # w => active'[v] = active[v]
    BY <1>8 DEF Finish, TypeOK
  <2>4. \A v \in Worker : \A i : i # active[w] /\ Serves(v, i) => Serves(v, i)'
    BY <2>1, <2>3 DEF Serves, Held
  <2>5. ASSUME life # "shutdown", NEW i \in ToSet(accepted) \ ToSet(done')
        PROVE  \E v \in Members : Serves(v, i)'
    <3>1. i \in ToSet(accepted) \ ToSet(done) /\ i # active[w]
      BY <2>2, <2>5
    <3>2. PICK v \in Members : Serves(v, i)
      BY <2>5, <3>1 DEF NothingStranded, Serves
    <3> QED BY <1>1, <2>4, <3>1, <3>2
  <2> QED BY <1>14, <2>1, <2>5 DEF NothingStranded, Serves, groupVars
<1>9. ASSUME NEW w \in Worker, Leave(w) PROVE NothingStranded'
  <2>1. /\ active[w] = None /\ pending[w] = << >>
        /\ UNCHANGED <<groupVars, put, pending, active, accepted, done>>
    BY <1>9 DEF Leave
  <2>2. Held(w) = {} /\ ToSet(pending[w]) = {}
    BY <2>1 DEF Held, ToSet
  <2>3. \A v \in Worker : v # w => mode'[v] = mode[v]
    BY <1>9 DEF Leave, TypeOK
  <2>4. \A v \in Worker : \A i : Serves(v, i) => Serves(v, i)'
    BY <2>1, <2>2, <2>3 DEF Serves, Held
  <2>5. CASE life = "shutdown"
    BY <2>1, <2>5 DEF NothingStranded, groupVars
  <2>6. CASE life # "shutdown"
    BY <1>1, <1>14, <2>1, <2>4, <2>6, ServedStay DEF groupVars
  <2> QED BY <2>5, <2>6
<1>15. ASSUME NEW i \in Item, NEW level \in Level, PutWorkItem(i, level)
       PROVE  NothingStranded'
  <2>1. put.at \notin {"fill", "enter"}
    BY <1>15 DEF PutWorkItem, Locked, NoPut
  <2> QED BY <1>2, <1>10, <1>15, <2>1 DEF PutWorkItem, groupVars, workVars
<1>16. CASE ScanForIdle \/ Recheck \/ ScanForLeast \/ CreateWorkerFails
  <2>1. put.at \notin {"fill", "enter"} /\ UNCHANGED <<groupVars, workVars>>
    BY <1>16 DEF ScanForIdle, Recheck, ScanForLeast, CreateWorkerFails
  <2> QED BY <1>2, <1>10, <2>1 DEF groupVars, workVars
<1>17. CASE UNCHANGED vars
  BY <1>2, <1>14, <1>17 DEF vars, groupVars, workVars
<1> QED BY <1>3, <1>4, <1>5, <1>6, <1>7, <1>8, <1>9, <1>11, <1>12, <1>13, <1>15, <1>16, <1>17
        DEF Next, PutStep

\* Until Shutdown every accepted item has been executed, or a worker of the list has it
\* whose thread runs, or was tried to be started and could not.
THEOREM NothingStrandedHolds == SafeSpec => []NothingStranded
<1>1. Init => NothingStranded
  BY DEF Init, NothingStranded, ToSet
<1>2. GroupInv /\ ItemsInv /\ NothingStranded /\ [Next]_vars => NothingStranded'
  BY StrandedStep DEF ItemsInv
<1> QED BY <1>1, <1>2, GroupInvariant, ItemsInvariant, PTL DEF SafeSpec

-----------------------------------------------------------------------------
(* The serial group as a WorkQueue. *)

Executing == {active[w] : w \in Worker} \ {None}

LEMMA SerialActive ==
    ASSUME Unused, OneWorker, Serial, NEW w \in Worker, mode[w] # "none"
    PROVE  Executing = {active[w]} \ {None}
<1>1. \A v \in Worker : v # w => active[v] = None
  BY DEF Unused, OneWorker
<1> QED BY <1>1 DEF Executing

LEMMA SerialList ==
    ASSUME GroupInv, Serial, life = "open"
    PROVE  /\ threads # << >> /\ threads[1] \in Worker
           /\ DOMAIN threads = {1} /\ ToSet(threads) = {threads[1]}
           /\ mode[threads[1]] # "none"
<1>1. threads # << >> /\ Len(threads) <= 1 /\ threads \in Seq(Worker)
  BY DEF GroupInv, Lists, Bounded, ThreadsBounded, Serial, Infinite, TypeOK
<1>2. Len(threads) = 1 /\ DOMAIN threads = {1} /\ threads[1] \in Worker
  <2>1. Len(threads) \in Nat /\ Len(threads) # 0 /\ DOMAIN threads = 1 .. Len(threads)
    BY <1>1
  <2>2. Len(threads) = 1 /\ 1 .. 1 = {1}
    BY <1>1, <2>1
  <2> QED BY <1>1, <2>1, <2>2
<1>3. ToSet(threads) = {threads[1]}
  BY <1>2 DEF ToSet
<1> QED BY <1>1, <1>2, <1>3 DEF GroupInv, Lists, Members

\* What the refinement mapping shows of a step that it hides.
LEMMA SerialStutter ==
    ASSUME UNCHANGED <<accepted, done, active, pending, groupVars>>
    PROVE  UNCHANGED SerialQueue!wqVars
BY DEF SerialQueue!wqVars, Serial, groupVars

LEMMA SerialStep ==
    ASSUME GroupInv, ItemsInv, [Next]_vars
    PROVE  [SerialQueue!WQNext]_(SerialQueue!wqVars)
<1> USE DEF ItemsInv
<1> DEFINE u == threads[1]
<1>1. ASSUME NEW p \in BOOLEAN, NEW r \in Request, Startup(p, r)
      PROVE  UNCHANGED SerialQueue!wqVars
  <2>1. /\ \A w \in Worker : mode[w] = "none" /\ pending[w] = << >> /\ active[w] = None
        /\ max = 0 /\ accepted = << >> /\ done = << >>
    BY <1>1 DEF Startup, GroupInv, Lists, Unused
  <2>2. Fresh \in Worker
    BY <2>1, GroupAssumption, FreshType DEF CanAllocate
  <2>3. /\ threads' = <<Fresh>> /\ life' = "open"
        /\ UNCHANGED <<pending, active, accepted, done>>
    BY <1>1 DEF Startup
  <2>4. pending'[threads'[1]] = << >> /\ ToSet(accepted) = {}
    BY <2>1, <2>2, <2>3 DEF ToSet
  <2>5. {active[w] : w \in Worker} \ {None} = {}
    BY <2>1
  <2> QED BY <1>1, <2>1, <2>3, <2>4, <2>5 DEF SerialQueue!wqVars, Serial, Startup
<1>2. ASSUME ~ Serial, ~ Serial' PROVE UNCHANGED SerialQueue!wqVars
  BY <1>2 DEF SerialQueue!wqVars
<1>3. ASSUME Serial, Shutdown PROVE SerialQueue!Close
  <2>1. life = "open" /\ life' = "shutdown" /\ threads' = << >> /\ Serial'
        /\ UNCHANGED <<active, accepted, done>>
    BY <1>3 DEF Shutdown, Serial
  <2> QED BY <1>3, <2>1 DEF SerialQueue!Close
<1>4. ASSUME Serial, Submit \/ SubmitAborts PROVE SerialQueue!WQNext
  <2>1. Locked /\ put \in PutState /\ put.k \in DOMAIN threads /\ life = "open"
    BY <1>4, LockedType, ThreadsType, PutFields
       DEF Submit, SubmitAborts, Phase, GroupInv, Scan, Lists
  <2>2. threads # << >> /\ u \in Worker /\ put.k = 1
    BY <1>4, <2>1, SerialList
  <2>3. /\ pending' = [pending EXCEPT ![u] = Place(@)]
        /\ accepted' = Append(accepted, put.item)
        /\ UNCHANGED <<groupVars, active, done>>
    BY <1>4, <2>2 DEF Submit, SubmitAborts
  <2>4. pending'[u] = Place(pending[u])
    BY <2>2, <2>3 DEF GroupInv, TypeOK
  <2>5. /\ put.item \in Item /\ put.level \in Level /\ put.level \in {"Level0", "Level2"}
        /\ put.item \notin ToSet(accepted)
    BY <1>4, <2>1, GroupAssumption DEF PutState, Known, Submit, SubmitAborts, Phase
  <2>6. ToSet(accepted') = ToSet(accepted) \cup {put.item}
    BY <2>3, <2>5, AppendToSet DEF GroupInv, TypeOK
  <2>7. Serial' /\ threads' = threads /\ life' = life /\ active' = active /\ done' = done
    BY <1>4, <2>3 DEF Serial, groupVars
  <2>8. SerialQueue!Submit(put.item, put.level)
    <3>1. CASE put.level = "Level2"
      BY <1>4, <2>1, <2>2, <2>4, <2>5, <2>6, <2>7, <3>1 DEF SerialQueue!Submit, Place
    <3>2. CASE put.level = "Level0"
      BY <1>4, <2>1, <2>2, <2>4, <2>5, <2>6, <2>7, <3>2 DEF SerialQueue!Submit, Place
    <3> QED BY <2>5, <3>1, <3>2
  <2> QED BY <2>5, <2>8 DEF SerialQueue!WQNext
<1>5. ASSUME Serial, StartWorker \/ FillWorker \/ FillWorkerAborts \/ EnterWorker
      PROVE  FALSE
  <2>1. put.at \in {"create", "fill", "enter"}
    BY <1>5 DEF StartWorker, FillWorker, FillWorkerAborts, EnterWorker
  <2>2. CanCreate /\ life = "open"
    BY <2>1, LockedType DEF GroupInv, Scan, Lists, Phase
  <2>3. Len(threads) < 1 /\ threads # << >> /\ threads \in Seq(Worker)
    BY <1>5, <2>2 DEF CanCreate, Serial, Infinite, GroupInv, Lists, TypeOK
  <2> QED BY <2>3
<1>6. ASSUME Serial, NEW w \in Worker, Take(w) PROVE SerialQueue!Take
  <2>1. w \in opened /\ mode[w] # "none" /\ active[w] = None /\ pending[w] # << >>
    BY <1>6 DEF Take, Unused
  <2>2. life = "open"
    <3>1. threads # << >> \/ Locked
      BY <2>1, LockedType
         DEF GroupInv, Lists, OpenWorkersListed, Members, Unlisted, Phase, ToSet
    <3> QED BY <3>1 DEF GroupInv, Lists
  <2>3. w = u /\ threads # << >>
    BY <1>6, <2>1, <2>2, SerialList DEF OneWorker
  <2>4. Executing = {}
    BY <1>6, <2>1, SerialActive
  <2>5. /\ active' = [active EXCEPT ![w] = Head(pending[w])]
        /\ pending'[w] = Tail(pending[w])
        /\ UNCHANGED <<groupVars, mode, accepted, done>>
    BY <1>6 DEF Take, GroupInv, TypeOK
  <2>6. Head(pending[w]) \in Item
    BY <2>1 DEF GroupInv, TypeOK
  <2>7. Executing' = {Head(pending[w])}
    <3>1. \A v \in Worker : v # w => active'[v] = None
      BY <1>6, <2>1, <2>5 DEF Unused, OneWorker, GroupInv, TypeOK
    <3>2. active'[w] = Head(pending[w]) /\ active'[w] # None
      BY <2>5, <2>6, GroupAssumption DEF GroupInv, TypeOK
    <3> QED BY <3>1, <3>2 DEF Executing
  <2> QED BY <1>6, <2>2, <2>3, <2>1, <2>4, <2>5, <2>7
          DEF SerialQueue!Take, Executing, Serial, groupVars
<1>7. ASSUME Serial, NEW w \in Worker, Finish(w) PROVE SerialQueue!Finish
  <2>1. mode[w] # "none" /\ active[w] # None
    BY <1>7 DEF Finish, Unused
  <2>2. Executing = {active[w]}
    BY <1>7, <2>1, SerialActive
  <2>3. /\ active' = [active EXCEPT ![w] = None]
        /\ done' = Append(done, active[w])
        /\ UNCHANGED <<groupVars, pending, accepted>>
    BY <1>7 DEF Finish
  <2>4. Executing' = {}
    <3>1. \A v \in Worker : active'[v] = None
      BY <1>7, <2>1, <2>3 DEF Unused, OneWorker, GroupInv, TypeOK
    <3> QED BY <3>1 DEF Executing
  <2> QED BY <1>7, <2>2, <2>3, <2>4 DEF SerialQueue!Finish, Executing, Serial, groupVars
<1>8. CASE UNCHANGED <<accepted, done, active, pending, groupVars>>
  BY <1>8, SerialStutter
<1>9. ASSUME ~ Serial, UNCHANGED max PROVE UNCHANGED SerialQueue!wqVars
  BY <1>2, <1>9 DEF Serial
<1>10. \/ UNCHANGED max
       \/ \E p \in BOOLEAN, r \in Request : Startup(p, r)
  BY DEF Next, PutStep, Shutdown, PutWorkItem, ScanForIdle, Recheck, ScanForLeast, Submit,
         SubmitAborts, StartWorker, CreateWorkerFails, FillWorker, FillWorkerAborts,
         EnterWorker, Take, Finish, Leave, vars, groupVars
<1>11. CASE Serial
  BY <1>1, <1>3, <1>4, <1>5, <1>6, <1>7, <1>8, <1>11
     DEF Next, PutStep, PutWorkItem, ScanForIdle, Recheck, ScanForLeast, CreateWorkerFails,
         Leave, vars, workVars, SerialQueue!WQNext
<1> QED BY <1>1, <1>9, <1>10, <1>11

\* A group created with one thread is a WorkQueue: items start in the order in which
\* they were put, one at a time, each at most once, and none after Shutdown.
THEOREM SerialGroupIsWorkQueue == SafeSpec => SerialImplementsWorkQueue
<1>1. Init => SerialQueue!WQInit
  BY DEF Init, SerialQueue!WQInit, Serial
<1>2. GroupInv /\ ItemsInv /\ [Next]_vars => [SerialQueue!WQNext]_(SerialQueue!wqVars)
  BY SerialStep
<1> QED BY <1>1, <1>2, GroupInvariant, ItemsInvariant, PTL
        DEF SafeSpec, SerialImplementsWorkQueue, SerialQueue!SafeSpec
=============================================================================
