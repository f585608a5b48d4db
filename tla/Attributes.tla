------------------------------ MODULE Attributes ------------------------------
(***************************************************************************)
(* class Attributes of base/kf_attr.cxx: stores of named, typed values,    *)
(* each behind a readers/writer lock, which threads read, change, copy     *)
(* into one another, compare, save and load.                               *)
(*                                                                         *)
(* A call on one store locks it once and is one step.  The calls that take *)
(* a second store keep the first one locked for reading while they call    *)
(* the second, and are one step per call they make; LoadFromBuffer locks   *)
(* its store once per item.  Which locks a thread holds follows from where *)
(* it is, and no thread is between two steps with a store locked for       *)
(* writing.  Neither KFCreateAttributes nor KFCreateAttributesWithoutObserver *)
(* creates the list of observers, so nobody is ever notified.              *)
(***************************************************************************)
EXTENDS AttrStore

CONSTANTS
  Thread,
  Store,      \* the Attributes objects
  Self,       \* the contents of an object value that is a store
  Given,      \* the items that are set; the name of one may be ""
  Received,   \* buffers from elsewhere, which may hold what is never saved
  MaxCalls,   \* bound on the calls of a thread
  MaxRank     \* see SomeoneGoesOn

Name  == {item.name : item \in Given}
Value == {item.value : item \in Given}
Item  == [name : Name, value : Value \cup {Invalid}]

ASSUME AttributesAssumption ==
    /\ Store # {} /\ MaxCalls \in Nat /\ MaxRank \in Nat
    /\ Self \in [Store -> STRING]
    /\ Given \subseteq [name : STRING, value : [type : STRING, data : STRING]]
    /\ \A item \in Given : item.value.type # "INVALID"
    /\ Received \subseteq Seq(Item)

VARIABLES
  writersFirst,  \* chosen once: a reader waits if a writer is waiting
  items,         \* _list of each store
  saved,         \* a buffer SaveToBuffer has filled
  call,          \* the call each thread is in
  calls          \* how many calls each thread has begun

vars == <<writersFirst, items, saved, call, calls>>

\* A call: what it is, the store it is made on, the other one, what it does next,
\* and the items it still has to go through.
Frame(op, src, dst, step, todo) ==
    [op |-> op, src |-> src, dst |-> dst, step |-> step, todo |-> todo]

NoCall == LET s == CHOOSE s \in Store : TRUE IN Frame("none", s, s, "out", << >>)

Idle(t)   == call[t].op = "none"
Return(t) == call' = [call EXCEPT ![t] = NoCall]
Go(t, step, todo) == call' = [call EXCEPT ![t].step = step, ![t].todo = todo]

Init ==
    /\ writersFirst \in BOOLEAN
    /\ items = [s \in Store |-> << >>]
    /\ saved = << >>
    /\ call = [t \in Thread |-> NoCall]
    /\ calls = [t \in Thread |-> 0]

-----------------------------------------------------------------------------
(* The locks: who holds store s for reading, who waits to write to it. *)

\* Mutant of Reads: a copy gives its own store back before it calls the other one.
ReadsWhileMatching(t, s) ==
    \/ call[t].op \in {"matchItem", "matchAll"}
       /\ call[t].step # "lock" /\ call[t].src = s
    \/ call[t].op = "matchAll" /\ call[t].step \in {"type", "value"} /\ call[t].dst = s

Reads(t, s) ==
    \/ call[t].op \in {"copyItem", "copyAll", "matchItem", "matchAll"}
       /\ call[t].step # "lock" /\ call[t].src = s
    \/ call[t].op = "matchAll" /\ call[t].step \in {"type", "value"} /\ call[t].dst = s

\* The next item is not set, and the store not even locked: it has no value, its type is
\* not one LoadFromBuffer knows, or it is the store itself.
Refused(t) ==
    LET value == call[t].todo[1].value IN
    /\ call[t].step = "set"
    /\ \/ value.type = "INVALID"
       \/ call[t].op = "load" /\ UnknownType(value)
       \/ value.type = "OBJECT" /\ value.data = Self[call[t].dst]

WantsWrite(t, s) ==
    call[t].step \in {"set", "delete", "clear"} /\ call[t].dst = s /\ ~ Refused(t)

CanRead(t, s)  == writersFirst => \A u \in Thread \ {t} : ~ WantsWrite(u, s)

CanWrite(t, s) == \A u \in Thread : ~ Reads(u, s)

-----------------------------------------------------------------------------
(* The calls. *)

Begin(t, frame) ==
    /\ calls' = [calls EXCEPT ![t] = @ + 1]
    /\ call' = [call EXCEPT ![t] = frame]
    /\ UNCHANGED <<writersFirst, items, saved>>

BeginSet(t, s, item)    == Begin(t, Frame("set", s, s, "set", <<item>>))
BeginDelete(t, s, name) == Begin(t, Frame("delete", s, s, "delete", <<[name |-> name, value |-> Invalid]>>))
BeginClear(t, s)        == Begin(t, Frame("clear", s, s, "clear", << >>))

\* A buffer too short for one item is refused at once.
BeginLoad(t, s, buffer) == buffer # << >> /\ Begin(t, Frame("load", s, s, "set", buffer))

\* A store cannot be copied into itself.
BeginCopyItem(t, src, dst, name) ==
    /\ src # dst
    /\ Begin(t, Frame("copyItem", src, dst, "lock", <<[name |-> name, value |-> Invalid]>>))

\* Mutant of BeginCopyAll: a store may be copied into itself.
BeginCopyAllSelf(t, src, dst) ==
    Begin(t, Frame("copyAll", src, dst, "lock", << >>))

BeginCopyAll(t, src, dst) ==
    /\ src # dst
    /\ Begin(t, Frame("copyAll", src, dst, "lock", << >>))

\* Comparing a store with itself succeeds at once.
BeginMatchItem(t, src, dst, name) ==
    /\ src # dst
    /\ Begin(t, Frame("matchItem", src, dst, "lock", <<[name |-> name, value |-> Invalid]>>))

BeginMatchAll(t, src, dst) ==
    /\ src # dst
    /\ Begin(t, Frame("matchAll", src, dst, "lock", << >>))

Save(t, s) ==
    /\ Idle(t) /\ CanRead(t, s)
    /\ Saveable(items[s])
    /\ saved' = SaveToBuffer(items[s])
    /\ UNCHANGED <<writersFirst, items, call, calls>>

-----------------------------------------------------------------------------
(* The steps inside a call. *)

callUnchanged == UNCHANGED <<writersFirst, saved, calls>>

\* The store the call is made on is locked for reading, and the items looked up.
LockSource(t) ==
    LET src  == call[t].src
        n    == SearchStore(items[src], call[t].todo[1].name)
        todo == IF call[t].op \in {"copyAll", "matchAll"} THEN items[src]
                ELSE IF n = 0 THEN << >> ELSE <<items[src][n]>>
    IN /\ call[t].step = "lock"
       /\ CanRead(t, src)
       /\ IF todo = << >> THEN Return(t)
          ELSE Go(t, CASE call[t].op = "copyItem"  -> "has"
                       [] call[t].op = "copyAll"   -> "set"
                       [] call[t].op = "matchItem" -> "type"
                       [] call[t].op = "matchAll"  -> "inner", todo)
       /\ UNCHANGED items /\ callUnchanged

\* CopyItem asks the other store, and deletes the item there before it sets it.
HasItem(t) ==
    LET dst == call[t].dst IN
    /\ call[t].step = "has"
    /\ CanRead(t, dst)
    /\ Go(t, IF SearchStore(items[dst], call[t].todo[1].name) # 0 THEN "delete" ELSE "set",
          call[t].todo)
    /\ UNCHANGED items /\ callUnchanged

DeleteStep(t) ==
    LET dst == call[t].dst IN
    /\ call[t].step = "delete"
    /\ CanWrite(t, dst)
    /\ items' = [items EXCEPT ![dst] = DeleteItem(@, call[t].todo[1].name)]
    /\ IF call[t].op = "copyItem" THEN Go(t, "set", call[t].todo) ELSE Return(t)
    /\ callUnchanged

ClearStep(t) ==
    /\ call[t].step = "clear"
    /\ CanWrite(t, call[t].dst)
    /\ items' = [items EXCEPT ![call[t].dst] = DeleteAllItems(@)]
    /\ Return(t)
    /\ callUnchanged

SetStep(t) ==
    /\ call[t].step = "set"
    /\ ~ Refused(t)
    /\ CanWrite(t, call[t].dst)
    /\ items' = [items EXCEPT ![call[t].dst] = SetItem(@, call[t].todo[1])]
    /\ IF Len(call[t].todo) = 1 THEN Return(t) ELSE Go(t, "set", Tail(call[t].todo))
    /\ callUnchanged

\* A refused item ends the call, a copy or a load of several items too.
SetRefused(t) ==
    /\ Refused(t)
    /\ Return(t)
    /\ UNCHANGED items /\ callUnchanged

\* MatchAllItems calls MatchItem of the other store for the next name, which locks
\* that store and looks the name up.
MatchInner(t) ==
    LET dst == call[t].dst IN
    /\ call[t].step = "inner"
    /\ CanRead(t, dst)
    /\ IF SearchStore(items[dst], call[t].todo[1].name) = 0 THEN Return(t)
       ELSE Go(t, "type", call[t].todo)
    /\ UNCHANGED items /\ callUnchanged

\* MatchItem, made on `mine' with `other' as its argument, asks `other' for the type,
\* then for the value.  An object matches only if it is `other' itself.
Mine(t)  == IF call[t].op = "matchAll" THEN call[t].dst ELSE call[t].src
Other(t) == IF call[t].op = "matchAll" THEN call[t].src ELSE call[t].dst
MineValue(t) == items[Mine(t)][SearchStore(items[Mine(t)], call[t].todo[1].name)].value

Matched(t) ==
    IF Len(call[t].todo) > 1 THEN Go(t, "inner", Tail(call[t].todo)) ELSE Return(t)

MatchType(t) ==
    LET mine == MineValue(t)
        same == mine.type = GetItemType(items[Other(t)], call[t].todo[1].name)
        itself == mine.type = "OBJECT" /\ mine.data = Self[Other(t)]
    IN /\ call[t].step = "type"
       /\ CanRead(t, Other(t))
       /\ \/ same /\ ~ UnknownType(mine) /\ Go(t, "value", call[t].todo)
          \/ same /\ itself /\ Matched(t)
          \/ ~ (same /\ (itself \/ ~ UnknownType(mine))) /\ Return(t)
       /\ UNCHANGED items /\ callUnchanged

MatchValue(t) ==
    /\ call[t].step = "value"
    /\ CanRead(t, Other(t))
    /\ IF MineValue(t) = GetItem(items[Other(t)], call[t].todo[1].name, MineValue(t).type)
       THEN Matched(t)
       ELSE Return(t)
    /\ UNCHANGED items /\ callUnchanged

-----------------------------------------------------------------------------
Begins(t) ==
    /\ Idle(t)
    /\ calls[t] < MaxCalls
    /\ \/ \E s \in Store : \E item \in Given : BeginSet(t, s, item)
       \/ \E s \in Store : \E name \in Name : BeginDelete(t, s, name)
       \/ \E s \in Store : BeginClear(t, s)
       \/ \E s \in Store : \E buffer \in {saved} \cup Received : BeginLoad(t, s, buffer)
       \/ \E s, d \in Store : \E name \in Name : BeginCopyItem(t, s, d, name)
       \/ \E s, d \in Store : BeginCopyAll(t, s, d)
       \/ \E s, d \in Store : \E name \in Name : BeginMatchItem(t, s, d, name)
       \/ \E s, d \in Store : BeginMatchAll(t, s, d)

Step(t) ==
    \/ LockSource(t) \/ HasItem(t) \/ DeleteStep(t) \/ ClearStep(t)
    \/ SetStep(t) \/ SetRefused(t)
    \/ MatchInner(t) \/ MatchType(t) \/ MatchValue(t)

Next == \E t \in Thread : Begins(t) \/ (\E s \in Store : Save(t, s)) \/ Step(t)

Spec == Init /\ [][Next]_vars

-----------------------------------------------------------------------------
(* Properties. *)

\* The shapes of the state; in particular the empty string is never stored.
StoredItem == [name : Name, value : {v \in Value : ~ IsEmptyString(v)} \cup {Invalid}]
Op == {"none", "set", "delete", "clear", "load", "copyItem", "copyAll", "matchItem", "matchAll"}
Stage == {"out", "lock", "has", "delete", "clear", "set", "inner", "type", "value"}
Frames == [op : Op, src : Store, dst : Store, step : Stage, todo : Seq(Item)]

\* Every store, buffer and call keeps its shape.
TypeOK ==
    /\ writersFirst \in BOOLEAN
    /\ items \in [Store -> Seq(StoredItem)]
    /\ saved \in Seq(StoredItem)
    /\ call \in [Thread -> Frames]
    /\ calls \in [Thread -> 0..MaxCalls]

\* However setters, copies, loads and deletions of several threads interleave, a store
\* never holds two items of one name, so that what a getter finds is what was set last
\* (kf_attr.cxx: every setter looks the name up and creates the item under one write
\* lock).  Items with the empty name are the exception: they are never found.
NamesUnique ==
    \A s \in Store : \A m, n \in DOMAIN items[s] :
        items[s][m].name = items[s][n].name /\ items[s][m].name # EmptyString => m = n

\* The list s has the items of l but those that hold an object, in their order.
Restores(s, l) ==
    \E from \in [DOMAIN s -> DOMAIN l] :
        /\ \A i, j \in DOMAIN s : i < j => from[i] < from[j]
        /\ \A i \in DOMAIN s : s[i] = l[from[i]]
        /\ \A n \in DOMAIN l : l[n].value.type # "OBJECT" <=> \E i \in DOMAIN s : from[i] = n

\* Whatever a store went through, what SaveToBuffer writes of it is taken back: into an
\* empty store LoadFromBuffer restores the items but those that hold an object, in their
\* order.
SavedStoreLoads ==
    \A s \in Store :
        Saveable(items[s]) => Restores(LoadFromBuffer(<< >>, SaveToBuffer(items[s])), items[s])

\* While a call goes through a store and calls another one in between, the store does
\* not change under it: what is left to do is still there, at its place.
SourceStable ==
    \A t \in Thread :
        /\ call[t].op \in {"copyItem", "matchItem"} /\ call[t].step # "lock" =>
              call[t].todo[1] \in ToSet(items[call[t].src])
        /\ call[t].op \in {"copyAll", "matchAll"} /\ call[t].step # "lock" =>
              IsSuffix(call[t].todo, items[call[t].src])

\* The store whose lock the call of t takes next, and whether the lock is free for it.
Awaits(t) ==
    CASE call[t].step = "lock"              -> call[t].src
      [] call[t].step \in {"type", "value"} -> Other(t)
      [] OTHER                              -> call[t].dst

Granted(t) ==
    IF call[t].step \in {"set", "delete", "clear"} THEN Refused(t) \/ CanWrite(t, Awaits(t))
    ELSE CanRead(t, Awaits(t))

\* The copies and comparisons under way between two stores all go down the ranks r, and
\* MatchAllItems, which locks its own store for reading again and again, is not called
\* where a waiting writer keeps readers out.
GoDown(r) ==
    \A t \in Thread :
        /\ call[t].src # call[t].dst => r[call[t].dst] < r[call[t].src]
        /\ call[t].op = "matchAll" => ~ writersFirst

\* Threads wait for one another in a circle only if their copies and comparisons form
\* one, or a waiting writer keeps MatchAllItems from its own store: otherwise, of the
\* calls under way, each of which keeps a store locked while it waits for the next one
\* (kf_attr.cxx:652, :696, :809), one can go on.
SomeoneGoesOn ==
    (\E r \in [Store -> 0..MaxRank] : GoDown(r)) /\ (\E t \in Thread : ~ Idle(t))
        => \E t \in Thread : ~ Idle(t) /\ Granted(t)
=============================================================================
