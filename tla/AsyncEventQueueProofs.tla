------------------------- MODULE AsyncEventQueueProofs -------------------------
(***************************************************************************)
(* Theorems about the event queue for any number of consumers and events.  *)
(***************************************************************************)
EXTENDS AsyncEventQueue, SequenceTheorems, TLAPS

\* What is queued is what was accepted and not taken; Shutdown discards it.
Contents ==
    /\ life # "closed" => accepted = taken \o queue
    /\ life # "open" => queue = << >>
    /\ Len(taken) <= Len(accepted)
    /\ \A n \in 1 .. Len(taken) : taken[n] = accepted[n]

\* Whoever is on the event's condition variable is at its wait.
Sleepers ==
    /\ event.waiting \cap event.woken = {}
    /\ \A c \in Consumer : c \in event.waiting \cup event.woken => pc[c] = "wait"
    /\ Exec \in event.waiting \cup event.woken => exec = "wait"

InvokeBusy == exec \in {"reset", "wait", "peek"}

\* There is one reader, and one stage of its request.
OneReader ==
    /\ \A c, d \in Consumer : pc[c] # "out" /\ pc[d] # "out" => c = d
    /\ \A c \in Consumer : pc[c] # "out" => ~ waiting
    /\ requests <= 1
    /\ requests = 1 => waiting /\ ~ called /\ ~ InvokeBusy
    /\ InvokeBusy => waiting /\ ~ called
    /\ called => waiting

\* A reader that has reset the event, or was woken, and has not taken yet.
AtTake ==
    \/ \E c \in Consumer : pc[c] \in {"recycle", "take"}
    \/ exec = "peek"
    \/ called

AtWait(t) == IF t = Exec THEN exec = "wait" ELSE pc[t] = "wait"

(***************************************************************************)
(* The state of the event: set only if there is an event, and one more     *)
(* than the reader is about to take; if an event is queued, a reader on    *)
(* its way to sleep finds the state set.                                   *)
(***************************************************************************)
EventState ==
    /\ event.waiting # {} => ~ event.state /\ queue = << >>
    /\ \A t \in Consumer \cup {Exec} :
          AtWait(t) /\ t \notin event.woken /\ queue # << >> => event.state
    /\ life # "closed" =>
          /\ event.state \/ event.woken # {} => queue # << >>
          /\ AtTake => queue # << >>
          /\ AtTake /\ event.state => Len(queue) >= 2
          /\ (\E c \in Consumer : pc[c] = "reset") \/ exec = "reset" => queue # << >>

EventQueueInv ==
    /\ TypeOK
    /\ Contents
    /\ Sleepers
    /\ orderly => OneReader /\ EventState

-----------------------------------------------------------------------------
\* The first event is queued behind those taken: taking it keeps them in order.
LEMMA MoveHead ==
    ASSUME NEW S, NEW s \in Seq(S), NEW q \in Seq(S), q # << >>
    PROVE  /\ Append(s, Head(q)) \in Seq(S) /\ Tail(q) \in Seq(S)
           /\ Append(s, Head(q)) \o Tail(q) = s \o q
           /\ Len(Append(s, Head(q))) <= Len(s \o q)
           /\ \A n \in 1 .. Len(Append(s, Head(q))) :
                 Append(s, Head(q))[n] = (s \o q)[n]
<1>1. q = <<Head(q)>> \o Tail(q) /\ Head(q) \in S /\ Tail(q) \in Seq(S)
  OBVIOUS
<1>2. Append(s, Head(q)) = s \o <<Head(q)>>
  BY <1>1, AppendIsConcat
<1>3. (s \o <<Head(q)>>) \o Tail(q) = s \o (<<Head(q)>> \o Tail(q))
  BY <1>1, ConcatAssociative
<1>4. Append(s, Head(q)) \in Seq(S)
  BY <1>1
<1>5. Append(s, Head(q)) \o Tail(q) = s \o q
  BY <1>1, <1>2, <1>3
<1> QED BY <1>1, <1>4, <1>5, ConcatProperties

\* Setting the event: the state is set and at most one sleeper becomes woken.
LEMMA SetEvent ==
    ASSUME TypeOK, event' \in KFEventSetAuto(event)
    PROVE  /\ event' \in EventValue(Consumer \cup {Exec})
           /\ event'.state = TRUE
           /\ event'.waiting \cup event'.woken = event.waiting \cup event.woken
           /\ event.waiting \cap event.woken = {} =>
                 event'.waiting \cap event'.woken = {}
           /\ (\A s, t \in event.waiting : s = t) => event'.waiting = {}
<1> USE DEF TypeOK, EventValue, KFEventSetAuto
<1>1. CASE event.waiting = {}
  BY <1>1
<1>2. CASE event.waiting # {}
  <2>1. PICK t \in event.waiting :
          event' = [state |-> TRUE, waiting |-> event.waiting \ {t},
                    woken |-> event.woken \cup {t}]
    BY <1>2
  <2> QED BY <2>1
<1> QED BY <1>1, <1>2

\* With one reader there is one thread on the condition variable.
LEMMA OneSleeper ==
    ASSUME TypeOK, Sleepers, OneReader
    PROVE  \A s, t \in event.waiting \cup event.woken : s = t
BY EventQueueAssumption DEF TypeOK, EventValue, Sleepers, OneReader, InvokeBusy

-----------------------------------------------------------------------------
LEMMA InitStep == Init => EventQueueInv
<1> SUFFICES ASSUME Init PROVE EventQueueInv
  OBVIOUS
<1> USE DEF Init, KFEventCreate
<1>1. TypeOK
  <2>1. event \in EventValue(Consumer \cup {Exec})
    BY DEF EventValue
  <2>2. pc \in [Consumer -> PC]
    BY DEF PC
  <2>3. << >> \in Seq(Event) /\ exec \in ExecPC
    BY DEF ExecPC
  <2>4. orderly \in BOOLEAN /\ life \in {"new", "open", "closed"}
    OBVIOUS
  <2> QED BY <2>1, <2>2, <2>3, <2>4 DEF TypeOK
<1>2. Contents
  <2>1. << >> \o << >> = << >> /\ Len(<< >>) = 0 /\ 1 .. 0 = {}
    OBVIOUS
  <2>2. taken = << >> /\ accepted = << >> /\ queue = << >>
    OBVIOUS
  <2> HIDE DEF Init
  <2> QED BY <2>1, <2>2 DEF Contents
<1>3. Sleepers
  BY DEF Sleepers
<1>4. OneReader
  BY DEF OneReader, InvokeBusy
<1>5. EventState
  BY EventQueueAssumption DEF EventState, AtTake, AtWait
<1> QED BY <1>1, <1>2, <1>3, <1>4, <1>5 DEF EventQueueInv

LEMMA TakeType ==
    ASSUME TypeOK, queue # << >>
    PROVE  Append(taken, Head(queue)) \in Seq(Event) /\ Tail(queue) \in Seq(Event)
BY MoveHead DEF TypeOK

LEMMA TypeStep == TypeOK /\ [Next]_vars => TypeOK'
<1> SUFFICES ASSUME TypeOK, [Next]_vars PROVE TypeOK'
  OBVIOUS
<1> USE DEF TypeOK, PC, ExecPC, InCall, Goto, vars, lifeVars, readVars, itemVars
<1>1. ASSUME Startup \/ Release PROVE TypeOK'
  BY <1>1 DEF Startup, Release
<1>2. CASE Shutdown
  <2>1. event' \in EventValue(Consumer \cup {Exec})
    BY <1>2, SetEvent DEF Shutdown
  <2> QED BY <1>2, <2>1 DEF Shutdown
<1>3. ASSUME NEW e \in Event, QueueEvent(e) PROVE TypeOK'
  <2>1. event' \in EventValue(Consumer \cup {Exec})
    BY <1>3, SetEvent DEF QueueEvent
  <2> QED BY <1>3, <2>1 DEF QueueEvent
<1>4. ASSUME NEW c \in Consumer, GetEvent(c) PROVE TypeOK'
  BY <1>4 DEF GetEvent
<1>5. ASSUME NEW c \in Consumer, GetReset(c) PROVE TypeOK'
  BY <1>5 DEF GetReset, KFEventReset, EventValue
<1>6. ASSUME NEW c \in Consumer, GetSleep(c) PROVE TypeOK'
  BY <1>6 DEF GetSleep, Sleep, EventValue
<1>7. ASSUME NEW c \in Consumer, GetWake(c) PROVE TypeOK'
  BY <1>7 DEF GetWake, Return, EventValue
<1>8. ASSUME NEW c \in Consumer, GetTimeOut(c) PROVE TypeOK'
  BY <1>8 DEF GetTimeOut, TimeOut, EventValue
<1>9. ASSUME NEW c \in Consumer, GetRecycle(c) PROVE TypeOK'
  BY <1>9 DEF GetRecycle
<1>10. ASSUME NEW c \in Consumer, GetTake(c) PROVE TypeOK'
  BY <1>10, TakeType DEF GetTake
<1>11. CASE BeginGetEvent
  BY <1>11 DEF BeginGetEvent
<1>12. CASE EndGetEvent
  BY <1>12, TakeType DEF EndGetEvent
<1>13. CASE InvokeBegin
  BY <1>13 DEF InvokeBegin
<1>14. CASE InvokeReset
  BY <1>14 DEF InvokeReset, KFEventReset, EventValue
<1>15. CASE InvokeSleep
  BY <1>15 DEF InvokeSleep, Sleep, EventValue
<1>16. CASE InvokeWake
  BY <1>16 DEF InvokeWake, Return, EventValue
<1>17. CASE InvokePeek
  BY <1>17 DEF InvokePeek
<1>18. CASE InvokeReturn
  BY <1>18 DEF InvokeReturn
<1>19. ASSUME NEW t \in Consumer \cup {Exec}, Spurious(t) PROVE TypeOK'
  BY <1>19 DEF Spurious, SpuriousWake, EventValue
<1>20. CASE UNCHANGED vars
  BY <1>20
<1> QED BY <1>1, <1>2, <1>3, <1>4, <1>5, <1>6, <1>7, <1>8, <1>9, <1>10, <1>11, <1>12,
           <1>13, <1>14, <1>15, <1>16, <1>17, <1>18, <1>19, <1>20
        DEF Next, GetStep, InvokeStep

LEMMA ContentsStep == TypeOK /\ Contents /\ [Next]_vars => Contents'
<1> SUFFICES ASSUME TypeOK, Contents, [Next]_vars PROVE Contents'
  OBVIOUS
<1> USE DEF Contents, vars, lifeVars, readVars, itemVars
<1>1. CASE Startup
  BY <1>1 DEF Startup
<1>2. CASE Shutdown
  BY <1>2 DEF Shutdown, TypeOK
<1>3. ASSUME NEW e \in Event, QueueEvent(e) PROVE Contents'
  <2>1. /\ life = "open" /\ life' = life /\ taken' = taken
        /\ queue' = Append(queue, e) /\ accepted' = Append(accepted, e)
    BY <1>3 DEF QueueEvent
  <2>2. Append(taken \o queue, e) = taken \o Append(queue, e)
    <3>1. /\ Append(queue, e) = queue \o <<e>>
          /\ Append(taken \o queue, e) = (taken \o queue) \o <<e>>
          /\ <<e>> \in Seq(Event)
      BY AppendIsConcat DEF TypeOK
    <3> QED BY <3>1, ConcatAssociative DEF TypeOK
  <2>3. \A n \in 1 .. Len(accepted) : accepted'[n] = accepted[n]
    BY <2>1 DEF TypeOK
  <2>4. Len(accepted') = Len(accepted) + 1
    BY <2>1 DEF TypeOK
  <2>5. \A n \in 1 .. Len(taken') : taken'[n] = accepted'[n] /\ n <= Len(accepted')
    <3>1. Len(taken) \in Nat /\ Len(accepted) \in Nat
      BY DEF TypeOK
    <3> QED BY <2>1, <2>3, <2>4, <3>1
  <2>6. Len(taken') <= Len(accepted')
    BY <2>1, <2>4 DEF TypeOK
  <2> QED BY <2>1, <2>2, <2>5, <2>6
<1>4. ASSUME queue # << >>, taken' = Append(taken, Head(queue)), queue' = Tail(queue),
             UNCHANGED <<life, accepted>>
      PROVE  Contents'
  <2>1. life = "open" /\ accepted = taken \o queue
    BY <1>4 DEF TypeOK
  <2> QED BY <1>4, <2>1, MoveHead DEF TypeOK
<1>5. ASSUME NEW c \in Consumer, GetTake(c) PROVE Contents'
  BY <1>4, <1>5 DEF GetTake
<1>6. CASE EndGetEvent
  BY <1>4, <1>6 DEF EndGetEvent
<1>7. ASSUME UNCHANGED <<life, queue, accepted, taken>> PROVE Contents'
  BY <1>7
<1>8. ASSUME NEW c \in Consumer,
             \/ GetEvent(c) \/ GetReset(c) \/ GetSleep(c) \/ GetWake(c)
             \/ GetTimeOut(c) \/ GetRecycle(c)
      PROVE  Contents'
  BY <1>7, <1>8 DEF GetEvent, GetReset, GetSleep, GetWake, GetTimeOut, GetRecycle
<1>9. CASE Release \/ BeginGetEvent \/ InvokeStep \/ UNCHANGED vars
  BY <1>7, <1>9 DEF Release, BeginGetEvent, InvokeStep, InvokeBegin, InvokeReset,
     InvokeSleep, InvokeWake, InvokePeek, InvokeReturn
<1>10. ASSUME NEW t \in Consumer \cup {Exec}, Spurious(t) PROVE Contents'
  BY <1>7, <1>10 DEF Spurious
<1> QED BY <1>1, <1>2, <1>3, <1>5, <1>6, <1>8, <1>9, <1>10 DEF Next, GetStep

LEMMA SleepersStep == TypeOK /\ Sleepers /\ [Next]_vars => Sleepers'
<1> SUFFICES ASSUME TypeOK, Sleepers, [Next]_vars PROVE Sleepers'
  OBVIOUS
<1> USE EventQueueAssumption
    DEF Sleepers, TypeOK, EventValue, Goto, vars, lifeVars, readVars, itemVars
<1>1. CASE Shutdown
  BY <1>1, SetEvent DEF Shutdown
<1>2. ASSUME NEW e \in Event, QueueEvent(e) PROVE Sleepers'
  BY <1>2, SetEvent DEF QueueEvent
<1>3. ASSUME NEW c \in Consumer, GetEvent(c) PROVE Sleepers'
  BY <1>3 DEF GetEvent
<1>4. ASSUME NEW c \in Consumer, GetReset(c) PROVE Sleepers'
  BY <1>4 DEF GetReset, KFEventReset
<1>5. ASSUME NEW c \in Consumer, GetSleep(c) PROVE Sleepers'
  BY <1>5 DEF GetSleep, MustSleep, Sleep
<1>6. ASSUME NEW c \in Consumer, GetWake(c) PROVE Sleepers'
  BY <1>6 DEF GetWake, MayReturn, Return
<1>7. ASSUME NEW c \in Consumer, GetTimeOut(c) PROVE Sleepers'
  BY <1>7 DEF GetTimeOut, MayGiveUp, TimeOut
<1>8. ASSUME NEW c \in Consumer, GetRecycle(c) \/ GetTake(c) PROVE Sleepers'
  BY <1>8 DEF GetRecycle, GetTake
<1>9. CASE InvokeBegin \/ InvokePeek \/ InvokeReturn
  BY <1>9 DEF InvokeBegin, InvokePeek, InvokeReturn
<1>10. CASE InvokeReset
  BY <1>10 DEF InvokeReset, KFEventReset
<1>11. CASE InvokeSleep
  BY <1>11 DEF InvokeSleep, MustSleep, Sleep
<1>12. CASE InvokeWake
  BY <1>12 DEF InvokeWake, MayReturn, Return
<1>13. ASSUME NEW t \in Consumer \cup {Exec}, Spurious(t) PROVE Sleepers'
  BY <1>13 DEF Spurious, MayGiveUp, SpuriousWake
<1>14. CASE Startup \/ Release \/ BeginGetEvent \/ EndGetEvent \/ UNCHANGED vars
  BY <1>14 DEF Startup, Release, BeginGetEvent, EndGetEvent
<1> QED BY <1>1, <1>2, <1>3, <1>4, <1>5, <1>6, <1>7, <1>8, <1>9, <1>10, <1>11, <1>12,
           <1>13, <1>14
        DEF Next, GetStep, InvokeStep

LEMMA OneReaderStep == TypeOK /\ orderly /\ OneReader /\ [Next]_vars => OneReader'
<1> SUFFICES ASSUME TypeOK, orderly, OneReader, [Next]_vars PROVE OneReader'
  OBVIOUS
<1> USE DEF OneReader, InvokeBusy, TypeOK, Goto, vars, lifeVars, readVars, itemVars
<1>1. ASSUME NEW c \in Consumer, GetEvent(c) PROVE OneReader'
  BY <1>1 DEF GetEvent, NoReader
<1>2. ASSUME NEW c \in Consumer, NEW from, NEW to, Goto(c, from, to), from # "out",
             UNCHANGED readVars
      PROVE  OneReader'
  BY <1>2
<1>3. ASSUME NEW c \in Consumer, GetReset(c) \/ GetWake(c) \/ GetTimeOut(c) \/ GetTake(c)
      PROVE  OneReader'
  BY <1>2, <1>3 DEF GetReset, GetWake, GetTimeOut, GetTake
<1>4. ASSUME NEW c \in Consumer, GetRecycle(c) PROVE OneReader'
  BY <1>4 DEF GetRecycle
<1>5. CASE BeginGetEvent
  BY <1>5 DEF BeginGetEvent, NoReader
<1>6. CASE EndGetEvent
  BY <1>6 DEF EndGetEvent
<1>7. CASE InvokeBegin
  BY <1>7 DEF InvokeBegin
<1>8. ASSUME exec' = "peek", exec \in {"reset", "wait"},
             UNCHANGED <<pc, waiting, called, requests>>
      PROVE  OneReader'
  BY <1>8
<1>9. CASE InvokeReset \/ InvokeWake
  BY <1>8, <1>9 DEF InvokeReset, InvokeWake
<1>15. CASE InvokePeek
  <2>1. InvokeBusy /\ requests # 1 /\ waiting
    BY <1>15 DEF InvokePeek
  <2> QED BY <1>15, <2>1 DEF InvokePeek
<1>16. CASE InvokeReturn
  BY <1>16 DEF InvokeReturn
<1>10. ASSUME UNCHANGED <<pc, readVars>> PROVE OneReader'
  BY <1>10
<1>11. CASE Startup \/ Shutdown \/ Release \/ InvokeSleep \/ UNCHANGED vars
  BY <1>10, <1>11 DEF Startup, Shutdown, Release, InvokeSleep
<1>12. ASSUME NEW e \in Event, QueueEvent(e) PROVE OneReader'
  BY <1>10, <1>12 DEF QueueEvent
<1>13. ASSUME NEW c \in Consumer, GetSleep(c) PROVE OneReader'
  BY <1>10, <1>13 DEF GetSleep
<1>14. ASSUME NEW t \in Consumer \cup {Exec}, Spurious(t) PROVE OneReader'
  BY <1>10, <1>14 DEF Spurious
<1> QED BY <1>1, <1>3, <1>4, <1>5, <1>6, <1>7, <1>8, <1>9, <1>11, <1>12, <1>13, <1>14,
           <1>15, <1>16
        DEF Next, GetStep, InvokeStep

-----------------------------------------------------------------------------
\* A Set leaves nobody asleep, and raises the state.
LEMMA SetKeepsEventState ==
    ASSUME TypeOK, Sleepers, OneReader, EventState, event' \in KFEventSetAuto(event),
           UNCHANGED <<exec, called, pc>>,
           \/ life' = "closed"
           \/ life # "closed" /\ Len(queue') = Len(queue) + 1 /\ queue' # << >>
    PROVE  EventState'
<1>1. event'.state = TRUE /\ event'.waiting = {}
  BY SetEvent, OneSleeper
<1>2. AtTake' = AtTake
  BY DEF AtTake
<1>3. ASSUME AtTake, life' # "closed" PROVE Len(queue') >= 2
  <2>1. queue # << >>
    BY <1>3 DEF EventState
  <2>2. Len(queue) \in Nat /\ Len(queue) # 0
    BY <2>1 DEF TypeOK
  <2> QED BY <1>3, <2>2
<1> QED BY <1>1, <1>2, <1>3 DEF EventState

LEMMA EventStateStep ==
    ASSUME EventQueueInv, orderly, [Next]_vars
    PROVE  EventState'
<1>1. TypeOK /\ Contents /\ Sleepers /\ OneReader /\ EventState
  BY DEF EventQueueInv
<1>2. Len(queue) \in Nat /\ (Len(queue) = 0 <=> queue = << >>)
  BY <1>1 DEF TypeOK
<1> USE EventQueueAssumption DEF vars, lifeVars, readVars, itemVars
<1>3. CASE Startup
  <2>1. queue = << >> /\ queue' = queue
    BY <1>1, <1>3 DEF Startup, Contents
  <2>2. UNCHANGED <<event, exec, called, pc>> /\ life # "closed"
    BY <1>3 DEF Startup
  <2>3. AtTake' = AtTake
    BY <2>2 DEF AtTake
  <2> QED BY <1>1, <2>1, <2>2, <2>3 DEF EventState, AtWait
<1>4. CASE Shutdown
  BY <1>1, <1>4, SetKeepsEventState DEF Shutdown
<1>5. ASSUME NEW e \in Event, QueueEvent(e) PROVE EventState'
  <2>1. Len(queue') = Len(queue) + 1 /\ queue' # << >>
    BY <1>1, <1>5, AppendProperties DEF QueueEvent, TypeOK
  <2> QED BY <1>1, <1>5, <2>1, SetKeepsEventState DEF QueueEvent
\* A step of consumer c, the one reader.
<1>6. ASSUME NEW c \in Consumer, pc[c] # "out"
      PROVE  /\ ~ waiting /\ ~ called /\ ~ InvokeBusy
             /\ \A d \in Consumer : d # c => pc[d] = "out"
             /\ event.waiting \cup event.woken \subseteq {c}
  <2>1. ~ waiting /\ \A d \in Consumer : d # c => pc[d] = "out"
    BY <1>1, <1>6 DEF OneReader
  <2>2. ~ called /\ ~ InvokeBusy
    BY <1>1, <2>1 DEF OneReader
  <2>3. event.waiting \cup event.woken \subseteq Consumer \cup {Exec}
    BY <1>1 DEF TypeOK, EventValue
  <2> QED BY <1>1, <2>1, <2>2, <2>3 DEF Sleepers, InvokeBusy
<1>7. ASSUME NEW c \in Consumer, GetEvent(c) PROVE EventState'
  <2>1. ~ called /\ ~ InvokeBusy /\ event.waiting = {} /\ event.woken = {}
    <3>1. ~ waiting /\ \A d \in Consumer : pc[d] = "out"
      BY <1>7 DEF GetEvent, NoReader
    <3>2. ~ called /\ ~ InvokeBusy
      BY <1>1, <3>1 DEF OneReader
    <3>3. event.waiting \subseteq Consumer \cup {Exec} /\ event.woken \subseteq Consumer \cup {Exec}
      BY <1>1 DEF TypeOK, EventValue
    <3> QED BY <1>1, <3>1, <3>2, <3>3 DEF Sleepers, InvokeBusy
  <2>2. /\ \A d \in Consumer : pc[d] = "out"
        /\ pc' = [pc EXCEPT ![c] = IF queue = << >> THEN "wait" ELSE "reset"]
    BY <1>7 DEF GetEvent, NoReader, Goto
  <2>3. UNCHANGED <<life, queue, event, exec, called>>
    BY <1>7 DEF GetEvent
  <2>4. \A d \in Consumer : pc'[d] # "out" =>
            pc'[d] = (IF queue = << >> THEN "wait" ELSE "reset")
    BY <2>2, <1>1 DEF TypeOK
  <2>5. ~ AtTake'
    BY <2>1, <2>3, <2>4 DEF AtTake, InvokeBusy
  <2> QED BY <1>1, <2>1, <2>3, <2>4, <2>5 DEF EventState, AtWait, InvokeBusy
<1>8. ASSUME NEW c \in Consumer, GetReset(c) PROVE EventState'
  <2>1. pc[c] = "reset" /\ pc' = [pc EXCEPT ![c] = "recycle"]
    BY <1>8 DEF GetReset, Goto
  <2>2. \A d \in Consumer : pc'[d] \in {"out", "recycle"}
    BY <1>1, <1>6, <2>1 DEF TypeOK
  <2>3. UNCHANGED <<life, queue, exec, called>> /\ event'.state = FALSE
        /\ event'.waiting = event.waiting /\ event'.woken = event.woken
    BY <1>1, <1>8 DEF GetReset, KFEventReset, TypeOK, EventValue
  <2>4. event.waiting = {} /\ event.woken = {}
    BY <1>1, <1>6, <2>1 DEF Sleepers, TypeOK, EventValue
  <2>5. life # "closed" => queue # << >>
    BY <1>1, <2>1 DEF EventState
  <2> QED BY <1>1, <1>6, <2>1, <2>2, <2>3, <2>4, <2>5 DEF EventState, AtWait, InvokeBusy
<1>9. ASSUME NEW c \in Consumer, GetSleep(c) PROVE EventState'
  <2>1. /\ pc[c] = "wait" /\ ~ event.state /\ c \notin event.woken
        /\ UNCHANGED <<life, queue, exec, called, pc>>
        /\ event'.state = event.state /\ event'.woken = event.woken
    BY <1>1, <1>9 DEF GetSleep, MustSleep, Sleep, TypeOK, EventValue
  <2>2. queue = << >>
    BY <1>1, <2>1 DEF EventState, AtWait
  <2>3. AtTake' = AtTake
    BY <2>1 DEF AtTake
  <2> QED BY <1>1, <2>1, <2>2, <2>3 DEF EventState
<1>10. ASSUME NEW c \in Consumer, GetWake(c) PROVE EventState'
  <2>1. /\ pc[c] = "wait" /\ pc' = [pc EXCEPT ![c] = "recycle"]
        /\ c \in event.woken \/ (event.state /\ c \notin event.waiting)
        /\ UNCHANGED <<life, queue, exec, called>>
        /\ event'.state = FALSE /\ event'.waiting = event.waiting
        /\ event'.woken = event.woken \ {c}
    BY <1>1, <1>10 DEF GetWake, MayReturn, Return, Goto, TypeOK, EventValue
  <2>2. \A d \in Consumer : pc'[d] \in {"out", "recycle"}
    BY <1>1, <1>6, <2>1 DEF TypeOK
  <2>3. event.waiting = {} /\ event'.woken = {}
    BY <1>1, <1>6, <2>1 DEF Sleepers
  <2>4. life # "closed" => queue # << >>
    BY <1>1, <2>1 DEF EventState
  <2> QED BY <1>1, <1>6, <2>1, <2>2, <2>3, <2>4 DEF EventState, AtWait, InvokeBusy
<1>11. ASSUME NEW c \in Consumer, GetTimeOut(c) PROVE EventState'
  <2>1. /\ pc[c] = "wait" /\ pc' = [pc EXCEPT ![c] = "out"]
        /\ UNCHANGED <<life, queue, exec, called>>
        /\ event'.state = event.state /\ event'.woken = event.woken
        /\ event'.waiting = event.waiting \ {c}
    BY <1>1, <1>11 DEF GetTimeOut, TimeOut, Goto, TypeOK, EventValue
  <2>2. \A d \in Consumer : pc'[d] = "out"
    BY <1>1, <1>6, <2>1 DEF TypeOK
  <2>3. ~ AtTake'
    BY <1>6, <2>1, <2>2 DEF AtTake, InvokeBusy
  <2> QED BY <1>1, <1>6, <2>1, <2>2, <2>3 DEF EventState, AtWait, InvokeBusy
\* The same for the last two steps of GetEvent, where nobody is at its wait.
<1>12. ASSUME NEW c \in Consumer, pc[c] \in {"recycle", "take"}
       PROVE  /\ event.waiting = {} /\ event.woken = {} /\ AtTake
              /\ \A t \in Consumer \cup {Exec} : ~ AtWait(t)
  <2>1. pc[c] # "out" /\ pc[c] # "wait"
    BY <1>12
  <2>2. event.waiting = {} /\ event.woken = {}
    BY <1>1, <1>6, <2>1 DEF Sleepers
  <2>3. \A t \in Consumer \cup {Exec} : ~ AtWait(t)
    BY <1>6, <2>1 DEF AtWait, InvokeBusy
  <2> QED BY <1>12, <2>2, <2>3 DEF AtTake
<1>13. ASSUME NEW c \in Consumer, GetRecycle(c) PROVE EventState'
  <2>1. /\ pc[c] = "recycle" /\ UNCHANGED <<life, queue, exec, called, event>>
        /\ \A d \in Consumer : pc'[d] \in {"out", "take"}
    BY <1>1, <1>6, <1>13 DEF GetRecycle, TypeOK
  <2>2. \A t \in Consumer \cup {Exec} : ~ AtWait(t)'
    BY <1>6, <2>1 DEF AtWait, InvokeBusy
  <2> QED BY <1>1, <1>6, <1>12, <2>1, <2>2 DEF EventState, InvokeBusy
<1>14. ASSUME NEW c \in Consumer, GetTake(c) PROVE EventState'
  <2>1. /\ pc[c] = "take" /\ UNCHANGED <<life, exec, called, event>>
        /\ pc' = [pc EXCEPT ![c] = "out"]
        /\ queue' = queue \/ (queue # << >> /\ Len(queue') = Len(queue) - 1)
        /\ queue' \in Seq(Event) /\ (queue = << >> => queue' = queue)
    BY <1>1, <1>14, HeadTailProperties DEF GetTake, Goto, TypeOK
  <2>2. \A d \in Consumer : pc'[d] = "out"
    BY <1>1, <1>6, <2>1 DEF TypeOK
  <2>3. ~ AtTake' /\ \A t \in Consumer \cup {Exec} : ~ AtWait(t)'
    BY <1>6, <2>1, <2>2 DEF AtTake, AtWait, InvokeBusy
  <2>4. life # "closed" /\ event.state => queue' # << >>
    BY <1>1, <1>2, <1>12, <2>1 DEF EventState
  <2> QED BY <1>6, <1>12, <2>1, <2>2, <2>3, <2>4 DEF EventState, InvokeBusy
<1>15. ASSUME UNCHANGED <<life, queue, event, exec, called, pc>> PROVE EventState'
  BY <1>1, <1>15 DEF EventState, AtTake, AtWait
<1>16. CASE Release \/ BeginGetEvent \/ UNCHANGED vars
  BY <1>15, <1>16 DEF Release, BeginGetEvent
<1>17. CASE EndGetEvent
  <2>1. /\ called /\ called' = FALSE /\ UNCHANGED <<life, exec, event, pc>>
        /\ queue # << >> /\ life = "open"
        /\ queue' \in Seq(Event) /\ Len(queue') = Len(queue) - 1
    BY <1>1, <1>17, HeadTailProperties DEF EndGetEvent, TypeOK
  <2>2. ~ InvokeBusy /\ waiting
    BY <1>1, <2>1 DEF OneReader
  <2>3. \A c \in Consumer : pc[c] = "out"
    BY <1>1, <2>2 DEF OneReader
  <2>4. event.waiting = {} /\ event.woken = {}
    <3>1. event.waiting \subseteq Consumer \cup {Exec} /\ event.woken \subseteq Consumer \cup {Exec}
      BY <1>1 DEF TypeOK, EventValue
    <3> QED BY <1>1, <2>2, <2>3, <3>1 DEF Sleepers, InvokeBusy
  <2>5. ~ AtTake' /\ AtTake /\ \A t \in Consumer \cup {Exec} : ~ AtWait(t)'
    BY <2>1, <2>2, <2>3 DEF AtTake, AtWait, InvokeBusy
  <2>6. event.state => queue' # << >>
    BY <1>1, <1>2, <2>1, <2>5 DEF EventState
  <2> QED BY <2>1, <2>2, <2>3, <2>4, <2>5, <2>6 DEF EventState, InvokeBusy
\* A step of the worker with a request in hand: no consumer reads.
<1>18. ASSUME InvokeBusy
       PROVE  /\ ~ called /\ \A c \in Consumer : pc[c] = "out"
              /\ event.waiting \cup event.woken \subseteq {Exec}
  <2>1. ~ called /\ \A c \in Consumer : pc[c] = "out"
    BY <1>1, <1>18 DEF OneReader
  <2>2. event.waiting \cup event.woken \subseteq Consumer \cup {Exec}
    BY <1>1 DEF TypeOK, EventValue
  <2> QED BY <1>1, <2>1, <2>2 DEF Sleepers
<1>19. CASE InvokeBegin
  <2>1. /\ requests > 0 /\ exec = "idle" /\ UNCHANGED <<life, queue, event, called, pc>>
        /\ exec' = (IF queue = << >> THEN "wait" ELSE "reset")
    BY <1>19 DEF InvokeBegin
  <2>2. ~ called /\ waiting
    <3>1. requests = 1
      BY <1>1, <2>1 DEF OneReader, TypeOK
    <3> QED BY <1>1, <3>1 DEF OneReader
  <2>3. \A c \in Consumer : pc[c] = "out"
    BY <1>1, <2>2 DEF OneReader
  <2>4. event.waiting = {} /\ event.woken = {}
    <3>1. event.waiting \subseteq Consumer \cup {Exec} /\ event.woken \subseteq Consumer \cup {Exec}
      BY <1>1 DEF TypeOK, EventValue
    <3> QED BY <1>1, <2>1, <2>3, <3>1 DEF Sleepers
  <2>5. ~ AtTake'
    BY <2>1, <2>2, <2>3 DEF AtTake
  <2> QED BY <1>1, <2>1, <2>3, <2>4, <2>5 DEF EventState, AtWait
<1>20. CASE InvokeReset
  <2>1. /\ exec = "reset" /\ exec' = "peek" /\ UNCHANGED <<life, queue, called, pc>>
        /\ event'.state = FALSE
        /\ event'.waiting = event.waiting /\ event'.woken = event.woken
    BY <1>1, <1>20 DEF InvokeReset, KFEventReset, TypeOK, EventValue
  <2>2. event.waiting = {} /\ event.woken = {}
    BY <1>1, <1>18, <2>1 DEF Sleepers, InvokeBusy
  <2>3. life # "closed" => queue # << >>
    BY <1>1, <2>1 DEF EventState
  <2> QED BY <1>18, <2>1, <2>2, <2>3 DEF EventState, AtWait, InvokeBusy
<1>21. CASE InvokeSleep
  <2>1. /\ exec = "wait" /\ ~ event.state /\ Exec \notin event.woken
        /\ UNCHANGED <<life, queue, exec, called, pc>>
        /\ event'.state = event.state /\ event'.woken = event.woken
    BY <1>1, <1>21 DEF InvokeSleep, MustSleep, Sleep, TypeOK, EventValue
  <2>2. queue = << >>
    BY <1>1, <2>1 DEF EventState, AtWait
  <2>3. AtTake' = AtTake
    BY <2>1 DEF AtTake
  <2> QED BY <1>1, <2>1, <2>2, <2>3 DEF EventState
<1>22. CASE InvokeWake
  <2>1. /\ exec = "wait" /\ exec' = "peek" /\ UNCHANGED <<life, queue, called, pc>>
        /\ Exec \in event.woken \/ (event.state /\ Exec \notin event.waiting)
        /\ event'.state = FALSE /\ event'.waiting = event.waiting
        /\ event'.woken = event.woken \ {Exec}
    BY <1>1, <1>22 DEF InvokeWake, MayReturn, Return, TypeOK, EventValue
  <2>2. event.waiting = {} /\ event'.woken = {}
    BY <1>1, <1>18, <2>1 DEF Sleepers, InvokeBusy
  <2>3. life # "closed" => queue # << >>
    BY <1>1, <2>1 DEF EventState
  <2> QED BY <1>18, <2>1, <2>2, <2>3 DEF EventState, AtWait, InvokeBusy
<1>23. CASE InvokePeek
  <2>1. /\ exec = "peek" /\ exec' \in {"idle", "callback"}
        /\ UNCHANGED <<life, queue, event, pc>>
    BY <1>23 DEF InvokePeek
  <2>2. AtTake /\ \A c \in Consumer : pc[c] = "out"
    BY <1>18, <2>1 DEF AtTake, InvokeBusy
  <2>3. event.waiting = {} /\ event.woken = {}
    BY <1>1, <1>18, <2>1 DEF Sleepers, InvokeBusy
  <2>4. \A t \in Consumer \cup {Exec} : ~ AtWait(t)'
    BY <2>1, <2>2 DEF AtWait
  <2> QED BY <1>1, <2>1, <2>2, <2>3, <2>4 DEF EventState
<1>24. CASE InvokeReturn
  <2>1. /\ exec = "callback" /\ exec' = "idle"
        /\ UNCHANGED <<life, queue, event, called, pc>>
    BY <1>24 DEF InvokeReturn
  <2>2. AtTake' = AtTake
    BY <2>1 DEF AtTake
  <2> QED BY <1>1, <2>1, <2>2 DEF EventState, AtWait
<1>25. ASSUME NEW t \in Consumer \cup {Exec}, Spurious(t) PROVE EventState'
  BY <1>25 DEF Spurious
<1> QED BY <1>3, <1>4, <1>5, <1>7, <1>8, <1>9, <1>10, <1>11, <1>13, <1>14, <1>16, <1>17,
           <1>19, <1>20, <1>21, <1>22, <1>23, <1>24, <1>25
        DEF Next, GetStep, InvokeStep

-----------------------------------------------------------------------------
\* The inductive invariant, for any consumers and events and all of their calls.
THEOREM EventQueueInvariant == SafeSpec => []EventQueueInv
<1>1. EventQueueInv /\ [Next]_vars => EventQueueInv'
  <2> SUFFICES ASSUME EventQueueInv, [Next]_vars PROVE EventQueueInv'
    OBVIOUS
  <2>1. TypeOK' /\ Contents' /\ Sleepers'
    BY TypeStep, ContentsStep, SleepersStep DEF EventQueueInv
  <2>2. orderly' => orderly
    BY DEF Next, vars, lifeVars, Startup, Shutdown, Release, QueueEvent, GetEvent, GetStep,
       GetReset, GetSleep, GetWake, GetRecycle, GetTake, GetTimeOut, BeginGetEvent,
       EndGetEvent, InvokeStep, InvokeBegin, InvokeReset, InvokeSleep, InvokeWake,
       InvokePeek, InvokeReturn, Spurious
  <2>3. orderly => OneReader' /\ EventState'
    BY OneReaderStep, EventStateStep DEF EventQueueInv
  <2> QED BY <2>1, <2>2, <2>3 DEF EventQueueInv
<1> QED BY <1>1, InitStep, PTL DEF SafeSpec

\* Every variable of the event queue keeps its type.
THEOREM EventQueueTypeCorrect == SafeSpec => []TypeOK
<1>1. EventQueueInv => TypeOK
  BY DEF EventQueueInv
<1> QED BY <1>1, EventQueueInvariant, PTL

\* However many readers and writers: in order, each event once, none dropped before
\* Shutdown.
THEOREM EventsKeepTheirOrder == SafeSpec => []EventsInOrder
<1>1. EventQueueInv => EventsInOrder
  <2> SUFFICES ASSUME EventQueueInv PROVE EventsInOrder
    OBVIOUS
  <2>1. /\ taken \in Seq(Event) /\ accepted \in Seq(Event)
        /\ Len(taken) <= Len(accepted)
        /\ \A n \in 1 .. Len(taken) : taken[n] = accepted[n]
    BY DEF EventQueueInv, TypeOK, Contents
  <2>2. SubSeq(taken, 1, Len(taken)) = SubSeq(accepted, 1, Len(taken))
    <3>1. Len(taken) \in Nat /\ Len(accepted) \in Nat
      BY <2>1
    <3> QED BY <2>1, <3>1
  <2> QED BY <2>1, <2>2 DEF EventsInOrder, IsPrefix, EventQueueInv, Contents
<1> QED BY <1>1, EventQueueInvariant, PTL

\* With users who read one at a time nobody sleeps while an event is queued.
THEOREM NoEventIsSleptOn == SafeSpec => []NoSleepOnEvents
<1>1. EventQueueInv => NoSleepOnEvents
  BY DEF EventQueueInv, EventState, NoSleepOnEvents
<1> QED BY <1>1, EventQueueInvariant, PTL

\* ... and a reader that is woken finds an event and its request.
THEOREM ReadersFindTheirEvent == SafeSpec => []ReaderFindsEvent
<1>1. EventQueueInv => ReaderFindsEvent
  BY DEF EventQueueInv, EventState, OneReader, AtTake, InvokeBusy, ReaderFindsEvent
<1> QED BY <1>1, EventQueueInvariant, PTL
=============================================================================
