------------------------ MODULE TimedEventQueueProofs ------------------------
(***************************************************************************)
(* Theorems about the timed event queue for any number of events, starts   *)
(* and delays.                                                             *)
(***************************************************************************)
EXTENDS TimedEventQueue, SequenceTheorems, WellFoundedInduction, TLAPS

-----------------------------------------------------------------------------
(* The list. *)

LEMMA LeastExists ==
    ASSUME NEW T, T \subseteq Nat, T # {}
    PROVE  \E m \in T : \A k \in T : m <= k
<1> DEFINE R == OpToRel(<, Nat)
<1>1. IsWellFoundedOn(R, Nat)
  BY NatLessThanWellFounded
<1>2. \A m, k \in Nat : k < m => <<k, m>> \in R
  BY DEF OpToRel
<1> HIDE DEF R
<1>3. PICK m \in T : \A k \in T : ~ (<<k, m>> \in R)
  BY <1>1, WFMin
<1>4. \A k \in T : m <= k
  <2> TAKE k \in T
  <2>1. m \in Nat /\ k \in Nat
    OBVIOUS
  <2>2. ~ (k < m)
    BY <1>2, <1>3
  <2> QED BY <2>1, <2>2
<1> QED BY <1>4

\* Both searches of the file return the first position that qualifies, or 0.
LEMMA FirstExists ==
    ASSUME NEW n \in Nat, NEW Good, \E i \in 1 .. n : i \in Good
    PROVE  \E i \in 1 .. n : i \in Good /\ \A k \in 1 .. i - 1 : k \notin Good
<1> DEFINE T == {i \in 1 .. n : i \in Good}
<1>1. T \subseteq Nat /\ T # {}
  OBVIOUS
<1>2. PICK m \in T : \A k \in T : m <= k
  <2> HIDE DEF T
  <2> QED BY <1>1, LeastExists
<1> QED BY <1>2

\* s is l with x put after its first m entries; s is l without its n-th entry.
Inserted(s, l, m, x) ==
    /\ Len(s) = Len(l) + 1
    /\ \A i \in 1 .. Len(l) + 1 :
          s[i] = IF i <= m THEN l[i] ELSE IF i = m + 1 THEN x ELSE l[i - 1]

Removed(s, l, n) ==
    /\ Len(s) = Len(l) - 1
    /\ \A i \in 1 .. Len(l) - 1 : s[i] = IF i < n THEN l[i] ELSE l[i + 1]

LEMMA PushFrontInserts ==
    ASSUME NEW S, NEW l \in Seq(S), NEW x \in S
    PROVE  PushFront(l, x) \in Seq(S) /\ Inserted(PushFront(l, x), l, 0, x)
<1>1. <<x>> \in Seq(S) /\ Len(<<x>>) = 1 /\ <<x>>[1] = x
  OBVIOUS
<1>2. Len(l) \in Nat
  OBVIOUS
<1>3. /\ <<x>> \o l \in Seq(S)
      /\ Len(<<x>> \o l) = 1 + Len(l)
      /\ \A i \in 1 .. 1 + Len(l) : (<<x>> \o l)[i] = IF i <= 1 THEN <<x>>[i] ELSE l[i - 1]
  BY <1>1, ConcatProperties
<1> QED BY <1>1, <1>2, <1>3 DEF PushFront, Inserted

LEMMA InsertBackInserts ==
    ASSUME NEW S, NEW l \in Seq(S), NEW x \in S, NEW n \in 0 .. Len(l)
    PROVE  /\ InsertBack(l, n, x) \in Seq(S)
           /\ Inserted(InsertBack(l, n, x), l, IF n = 0 THEN Len(l) ELSE n, x)
<1>1. Len(l) \in Nat /\ \A i \in 1 .. Len(l) : l[i] \in S
  BY LenProperties
<1>2. CASE n = 0
  <2>1. /\ Append(l, x) \in Seq(S) /\ Len(Append(l, x)) = Len(l) + 1
        /\ \A i \in 1 .. Len(l) : Append(l, x)[i] = l[i]
        /\ Append(l, x)[Len(l) + 1] = x
    BY AppendProperties
  <2> QED BY <1>1, <1>2, <2>1 DEF InsertBack, PushBack, Inserted
<1>3. CASE n # 0
  <2> DEFINE p == SubSeq(l, 1, n)
             q == SubSeq(l, n + 1, Len(l))
             r == p \o <<x>>
  <2>1. p \in Seq(S) /\ Len(p) = n /\ \A i \in 1 .. n : p[i] = l[i]
    BY <1>1, <1>3, SubSeqProperties
  <2>2. q \in Seq(S) /\ Len(q) = Len(l) - n /\ \A i \in 1 .. Len(l) - n : q[i] = l[n + i]
    BY <1>1, <1>3, SubSeqProperties
  <2>3. InsertBack(l, n, x) = r \o q
    BY <1>3 DEF InsertBack
  <2>4. <<x>> \in Seq(S) /\ Len(<<x>>) = 1 /\ <<x>>[1] = x
    OBVIOUS
  <2> HIDE DEF p, q
  <2>5. /\ r \in Seq(S) /\ Len(r) = n + 1
        /\ \A i \in 1 .. n + 1 : r[i] = IF i <= n THEN p[i] ELSE <<x>>[i - n]
    BY <2>1, <2>4, ConcatProperties
  <2> HIDE DEF r
  <2>6. /\ r \o q \in Seq(S) /\ Len(r \o q) = Len(l) + 1
        /\ \A i \in 1 .. Len(l) + 1 : (r \o q)[i] = IF i <= n + 1 THEN r[i] ELSE q[i - (n + 1)]
    BY <1>1, <2>2, <2>5, ConcatProperties
  <2>7. \A i \in 1 .. n : r[i] = l[i]
    BY <2>1, <2>5
  <2>8. r[n + 1] = x
    BY <2>4, <2>5
  <2>9. \A i \in n + 2 .. Len(l) + 1 : q[i - (n + 1)] = l[i - 1]
    BY <1>1, <2>2
  <2>10. \A i \in 1 .. Len(l) + 1 :
            (r \o q)[i] = IF i <= n THEN l[i] ELSE IF i = n + 1 THEN x ELSE l[i - 1]
    <3> TAKE i \in 1 .. Len(l) + 1
    <3>1. CASE i <= n
      BY <1>1, <2>6, <2>7, <3>1
    <3>2. CASE i = n + 1
      BY <1>1, <2>6, <2>8, <3>2
    <3>3. CASE i > n + 1
      BY <1>1, <2>6, <2>9, <3>3
    <3>4. i <= n \/ i = n + 1 \/ i > n + 1
      BY <1>1
    <3> QED BY <3>1, <3>2, <3>3, <3>4
  <2> QED BY <1>1, <1>3, <2>3, <2>6, <2>10 DEF Inserted
<1> QED BY <1>2, <1>3

LEMMA RemoveRemoves ==
    ASSUME NEW S, NEW l \in Seq(S), NEW n \in 1 .. Len(l)
    PROVE  Remove(l, n) \in Seq(S) /\ Removed(Remove(l, n), l, n)
<1>1. Len(l) \in Nat /\ \A i \in 1 .. Len(l) : l[i] \in S
  BY LenProperties
<1> DEFINE p == SubSeq(l, 1, n - 1)
           q == SubSeq(l, n + 1, Len(l))
<1>2. p \in Seq(S) /\ Len(p) = n - 1 /\ \A i \in 1 .. n - 1 : p[i] = l[i]
  BY <1>1, SubSeqProperties
<1>3. q \in Seq(S) /\ Len(q) = Len(l) - n /\ \A i \in 1 .. Len(l) - n : q[i] = l[n + i]
  BY <1>1, SubSeqProperties
<1>4. Remove(l, n) = p \o q
  BY DEF Remove
<1> HIDE DEF p, q
<1>5. /\ p \o q \in Seq(S) /\ Len(p \o q) = Len(l) - 1
      /\ \A i \in 1 .. Len(l) - 1 : (p \o q)[i] = IF i <= n - 1 THEN p[i] ELSE q[i - (n - 1)]
  <2>1. /\ p \o q \in Seq(S) /\ Len(p \o q) = Len(p) + Len(q)
        /\ \A i \in 1 .. Len(p) + Len(q) :
              (p \o q)[i] = IF i <= Len(p) THEN p[i] ELSE q[i - Len(p)]
    BY <1>2, <1>3, ConcatProperties
  <2>2. Len(p) + Len(q) = Len(l) - 1
    BY <1>1, <1>2, <1>3
  <2> QED BY <1>2, <2>1, <2>2
<1>6. \A i \in n .. Len(l) - 1 : q[i - (n - 1)] = l[i + 1]
  BY <1>1, <1>3
<1>7. \A i \in 1 .. Len(l) - 1 : (p \o q)[i] = IF i < n THEN l[i] ELSE l[i + 1]
  <2> TAKE i \in 1 .. Len(l) - 1
  <2>1. CASE i < n
    <3>1. i <= n - 1 /\ i \in 1 .. n - 1
      BY <1>1, <2>1
    <3> QED BY <1>2, <1>5, <2>1, <3>1
  <2>2. CASE ~ (i < n)
    <3>1. ~ (i <= n - 1) /\ i \in n .. Len(l) - 1
      BY <1>1, <2>2
    <3> QED BY <1>5, <1>6, <2>2, <3>1
  <2> QED BY <2>1, <2>2
<1> QED BY <1>4, <1>5, <1>7 DEF Removed

LEMMA FirstNotEarlierFinds ==
    ASSUME NEW l \in Seq(Entry), NEW x \in Entry
    PROVE  LET saved == FirstNotEarlier(l, x.time) IN
           /\ saved \in 0 .. Len(l)
           /\ saved = 0 => \A i \in 1 .. Len(l) : l[i].time < x.time
           /\ saved # 0 => /\ l[saved].time >= x.time
                           /\ \A i \in 1 .. saved - 1 : l[i].time < x.time
<1>1. Len(l) \in Nat /\ DOMAIN l = 1 .. Len(l)
  OBVIOUS
<1>2. \A i \in 1 .. Len(l) : l[i].time \in Int
  <2>1. \A i \in 1 .. Len(l) : l[i] \in Entry
    BY LenProperties
  <2> QED BY <2>1 DEF Entry
<1>3. x.time \in Int
  BY DEF Entry
<1>4. CASE \E n \in DOMAIN l : l[n].time >= x.time
  <2> DEFINE P(n) == l[n].time >= x.time /\ \A k \in 1 .. n - 1 : l[k].time < x.time
             Good == {n \in 1 .. Len(l) : l[n].time >= x.time}
  <2>1. PICK n \in 1 .. Len(l) : n \in Good /\ \A k \in 1 .. n - 1 : k \notin Good
    <3>1. \E i \in 1 .. Len(l) : i \in Good
      BY <1>1, <1>4
    <3> HIDE DEF Good
    <3> QED BY <1>1, <3>1, FirstExists
  <2>2. n \in DOMAIN l /\ P(n)
    BY <1>1, <1>2, <1>3, <2>1
  <2>3. LET c == CHOOSE i \in DOMAIN l : P(i) IN c \in DOMAIN l /\ P(c)
    BY <2>2
  <2>4. FirstNotEarlier(l, x.time) = CHOOSE i \in DOMAIN l : P(i)
    BY <1>4 DEF FirstNotEarlier
  <2> HIDE DEF P
  <2>5. FirstNotEarlier(l, x.time) \in 1 .. Len(l) /\ P(FirstNotEarlier(l, x.time))
    BY <1>1, <2>3, <2>4
  <2> QED BY <2>5 DEF P
<1>5. CASE ~ \E n \in DOMAIN l : l[n].time >= x.time
  BY <1>1, <1>2, <1>3, <1>5 DEF FirstNotEarlier
<1> QED BY <1>4, <1>5

\* An entry put at the back of a longer list, or behind its first entry, is not first.
LEMMA InsertInserts ==
    ASSUME NEW l \in Seq(Entry), NEW x \in Entry, NEW prev \in BOOLEAN
    PROVE  /\ Insert(l, x, prev) \in Seq(Entry)
           /\ \E m \in 0 .. Len(l) :
                 /\ Inserted(Insert(l, x, prev), l, m, x)
                 /\ ~ AtFront(l, x.time) => l # << >> /\ m > 0
<1> DEFINE saved == FirstNotEarlier(l, x.time)
           node  == IF saved # 0 /\ prev /\ l[saved].time # x.time THEN Prev(l, saved) ELSE saved
<1>1. Len(l) \in Nat /\ DOMAIN l = 1 .. Len(l) /\ (l = << >> <=> Len(l) = 0)
  OBVIOUS
<1>2. \A i \in 1 .. Len(l) : l[i].time \in Int
  <2>1. \A i \in 1 .. Len(l) : l[i] \in Entry
    BY LenProperties
  <2> QED BY <2>1 DEF Entry
<1>3. x.time \in Int
  BY DEF Entry
<1>4. saved \in 0 .. Len(l)
  BY FirstNotEarlierFinds
<1> HIDE DEF saved
<1>5. node \in 0 .. Len(l) /\ (saved > 1 => node > 0)
  BY <1>1, <1>4 DEF Prev
<1>6. Insert(l, x, prev) = IF saved = Begin(l) THEN PushFront(l, x) ELSE InsertBack(l, node, x)
  BY DEF Insert, saved
<1>7. AtFront(l, x.time) <=> saved = Begin(l)
  BY DEF AtFront, saved
<1>8. CASE saved = Begin(l)
  BY <1>1, <1>6, <1>7, <1>8, PushFrontInserts
<1>9. CASE saved # Begin(l)
  <2>1. l # << >> /\ saved # 1
    BY <1>1, <1>4, <1>9 DEF Begin
  <2> DEFINE m == IF node = 0 THEN Len(l) ELSE node
  <2>2. m \in 0 .. Len(l) /\ m > 0
    BY <1>1, <1>4, <1>5, <2>1
  <2>3. Insert(l, x, prev) \in Seq(Entry) /\ Inserted(Insert(l, x, prev), l, m, x)
    <3> HIDE DEF node
    <3> QED BY <1>5, <1>6, <1>9, InsertBackInserts
  <2> HIDE DEF m
  <2> QED BY <2>1, <2>2, <2>3
<1> QED BY <1>8, <1>9
\* What is in the list afterwards.
LEMMA InsertedFrom ==
    ASSUME NEW l, Len(l) \in Nat, NEW s, NEW x, \E m \in 0 .. Len(l) : Inserted(s, l, m, x)
    PROVE  \A i \in 1 .. Len(s) : s[i] = x \/ \E j \in 1 .. Len(l) : s[i] = l[j]
<1>1. PICK m \in 0 .. Len(l) : Inserted(s, l, m, x)
  OBVIOUS
<1> SUFFICES ASSUME NEW i \in 1 .. Len(s) PROVE s[i] = x \/ \E j \in 1 .. Len(l) : s[i] = l[j]
  OBVIOUS
<1>2. i \in 1 .. Len(l) + 1
  BY <1>1 DEF Inserted
<1>3. CASE i <= m
  BY <1>1, <1>2, <1>3 DEF Inserted
<1>4. CASE i = m + 1
  BY <1>1, <1>2, <1>4 DEF Inserted
<1>5. CASE i > m + 1
  <2>1. i - 1 \in 1 .. Len(l) /\ s[i] = l[i - 1]
    BY <1>1, <1>2, <1>5 DEF Inserted
  <2> QED BY <2>1
<1> QED BY <1>2, <1>3, <1>4, <1>5

LEMMA RemovedFrom ==
    ASSUME NEW S, NEW l \in Seq(S), NEW n \in 1 .. Len(l), NEW s, s = Remove(l, n)
    PROVE  \A i \in 1 .. Len(s) : \E j \in 1 .. Len(l) : s[i] = l[j]
<1>1. Removed(s, l, n) /\ Len(l) \in Nat
  BY RemoveRemoves
<1> SUFFICES ASSUME NEW i \in 1 .. Len(s) PROVE \E j \in 1 .. Len(l) : s[i] = l[j]
  OBVIOUS
<1>2. i \in 1 .. Len(l) - 1
  BY <1>1 DEF Removed
<1>3. i \in 1 .. Len(l) /\ i + 1 \in 1 .. Len(l)
  BY <1>1, <1>2
<1> QED BY <1>1, <1>2, <1>3 DEF Removed

LEMMA FindIdFinds ==
    ASSUME NEW l \in Seq(Entry), NEW id, FindId(l, id) # 0
    PROVE  FindId(l, id) \in 1 .. Len(l) /\ l[FindId(l, id)].id = id
<1> DEFINE P(n) == l[n].id = id /\ \A k \in 1 .. n - 1 : l[k].id # id
           Good == {n \in 1 .. Len(l) : l[n].id = id}
<1>1. Len(l) \in Nat /\ DOMAIN l = 1 .. Len(l)
  OBVIOUS
<1>2. \E n \in DOMAIN l : l[n].id = id
  BY DEF FindId
<1>3. PICK n \in 1 .. Len(l) : n \in Good /\ \A k \in 1 .. n - 1 : k \notin Good
  <2>1. \E n \in 1 .. Len(l) : n \in Good
    BY <1>1, <1>2
  <2> HIDE DEF Good
  <2> QED BY <1>1, <2>1, FirstExists
<1>4. n \in DOMAIN l /\ P(n)
  BY <1>1, <1>3
<1>5. LET c == CHOOSE i \in DOMAIN l : P(i) IN c \in DOMAIN l /\ P(c)
  BY <1>4
<1> QED BY <1>1, <1>2, <1>5 DEF FindId

-----------------------------------------------------------------------------
(* What one step of the thread with the mutex held amounts to. *)

ThreadStep == LoopTop \/ EmptyWake \/ TimedWake \/ TimedExpire

Nothing ==
    /\ list' = list /\ executed' = executed
    /\ pc' \in {"empty", "abort", "top"}
    /\ pc' = "empty" => list = << >>
    /\ pc' = "abort" => \/ cur.event = Abort /\ pc \in {"timedWoken", "timedOut"}
                        \/ list # << >> /\ list[1].id = 0 /\ list[1].event = Abort

FallAsleep ==
    /\ list # << >> /\ ~ IsDue(list[1])
    /\ list' = list /\ executed' = executed
    /\ pc' = "timed" /\ cur' = list[1]
    /\ deadline' = clock + Min2(list[1].time - clock, Cap)
    /\ capped' = (list[1].time - clock > Cap)

Take ==
    \E n \in 1 .. Len(list) :
        /\ list' = Remove(list, n)
        /\ pc' = IF cur'.event = Abort THEN "abort" ELSE "invoke"
        /\ executed' = IF cur'.event = Abort THEN executed ELSE executed \cup {cur'.event}
        /\ \/ n = 1 /\ IsDue(list[n]) /\ cur' = list[n]
           \/ pc = "timedOut" /\ ~ capped /\ list[n].id = cur.id /\ cur' = cur

Leave ==
    /\ stopped /\ ~ built'
    /\ list' = << >> /\ executed' = executed
    /\ pc' = "off"

LEMMA TakesById ==
    ASSUME TypeOK, NEW id, CheckAndRemoveEventById(id),
           pc \in {"timedWoken", "timedOut"}, cur' = cur
    PROVE  \/ Nothing
           \/ \E n \in 1 .. Len(list) :
                 /\ list[n].id = id
                 /\ list' = Remove(list, n)
                 /\ pc' = IF cur'.event = Abort THEN "abort" ELSE "invoke"
                 /\ executed' = IF cur'.event = Abort THEN executed
                                                       ELSE executed \cup {cur'.event}
<1>1. CASE id # 0 /\ FindId(list, id) # 0
  <2>1. FindId(list, id) \in 1 .. Len(list) /\ list[FindId(list, id)].id = id
    BY <1>1, FindIdFinds DEF TypeOK
  <2>2. TakeEntry(FindId(list, id))
    BY <1>1 DEF CheckAndRemoveEventById
  <2> QED BY <2>1, <2>2 DEF TakeEntry
<1>2. CASE ~ (id # 0 /\ FindId(list, id) # 0)
  BY <1>2 DEF CheckAndRemoveEventById, TakeNothing, Nothing
<1> QED BY <1>1, <1>2

LEMMA ExamineCases ==
    ASSUME TypeOK, Examine, list = << >> => pc \in {"timedWoken", "timedOut"}
    PROVE  /\ Nothing \/ FallAsleep \/ Take
           /\ cur' \in Entry /\ deadline' \in Int /\ capped' \in BOOLEAN
<1>1. CASE list = << >>
  BY <1>1 DEF Examine, TakeNothing, Nothing, TypeOK
<1>2. CASE list # << >>
  <2>1. list \in Seq(Entry) /\ Len(list) \in Nat /\ 1 \in 1 .. Len(list) /\ Head(list) = list[1]
    BY <1>2 DEF TypeOK
  <2>2. list[1] \in Entry
    BY <2>1
  <2>3. cur' = list[1]
    BY <1>2, <2>1 DEF Examine
  <2>4. CASE IsDue(list[1])
    <3>1. /\ CheckAndRemoveEventById(list[1].id)
          /\ deadline' = deadline /\ capped' = capped
      BY <1>2, <2>1, <2>4 DEF Examine
    <3>2. FindId(list, list[1].id) = 1
      <4> DEFINE P(n) == list[n].id = list[1].id /\ \A k \in 1 .. n - 1 : list[k].id # list[1].id
      <4>1. 1 \in DOMAIN list /\ P(1)
        BY <2>1
      <4>2. \A n \in DOMAIN list : P(n) => n = 1
        BY <2>1
      <4>3. (CHOOSE n \in DOMAIN list : P(n)) = 1
        BY <4>1, <4>2
      <4> QED BY <4>1, <4>3 DEF FindId
    <3>3. CASE list[1].id # 0
      <4>1. TakeEntry(1)
        BY <3>1, <3>2, <3>3 DEF CheckAndRemoveEventById
      <4>2. Take
        BY <2>1, <2>3, <2>4, <4>1 DEF TakeEntry, Take
      <4> QED BY <2>2, <2>3, <3>1, <4>2 DEF TypeOK
    <3>4. CASE list[1].id = 0
      BY <1>2, <2>2, <2>3, <3>1, <3>4 DEF CheckAndRemoveEventById, TakeNothing, Nothing, TypeOK
    <3> QED BY <3>3, <3>4
  <2>5. CASE ~ IsDue(list[1])
    <3>1. FallAsleep
      BY <1>2, <2>1, <2>5 DEF Examine, FallAsleep
    <3>2. list[1].time \in Int /\ clock \in Int /\ Cap \in Int
      BY <2>2, TimedAssumption DEF Entry, TypeOK
    <3>3. deadline' \in Int /\ capped' \in BOOLEAN
      BY <3>1, <3>2 DEF FallAsleep, Min2
    <3> QED BY <2>2, <2>3, <3>1, <3>3
  <2> QED BY <2>4, <2>5
<1> QED BY <1>1, <1>2

LEMMA ThreadStepCases ==
    ASSUME TypeOK, ThreadStep
    PROVE  /\ Nothing \/ FallAsleep \/ Take \/ Leave
           /\ cur' \in Entry /\ deadline' \in Int /\ capped' \in BOOLEAN
           /\ stopped' = stopped /\ built' \in BOOLEAN
           /\ Leave \/ built' = built
           /\ pc # "off" /\ threadUnchanged
<1>1. CASE LoopTop
  <2>1. CASE stopped
    BY <1>1, <2>1 DEF LoopTop, Leave, Clear, TypeOK
  <2>2. CASE ~ stopped /\ list = << >>
    BY <1>1, <2>2 DEF LoopTop, Nothing, TypeOK
  <2>3. CASE ~ stopped /\ list # << >>
    <3>1. Examine /\ built' = built /\ stopped' = stopped /\ pc = "top" /\ threadUnchanged
      BY <1>1, <2>3 DEF LoopTop
    <3> QED BY <2>3, <3>1, ExamineCases DEF TypeOK
  <2> QED BY <2>1, <2>2, <2>3
<1>2. CASE EmptyWake
  <2>1. pc = "emptyWoken" /\ stopped' = stopped /\ built' = built /\ threadUnchanged
    BY <1>2 DEF EmptyWake
  <2>2. CASE list = << >>
    BY <1>2, <2>1, <2>2 DEF EmptyWake, Nothing, TypeOK
  <2>3. CASE list # << >>
    <3>1. Examine
      BY <1>2, <2>3 DEF EmptyWake
    <3> QED BY <2>1, <2>3, <3>1, ExamineCases DEF TypeOK
  <2> QED BY <2>2, <2>3
<1>3. CASE TimedWake
  <2>1. pc = "timedWoken" /\ Examine /\ stopped' = stopped /\ built' = built /\ threadUnchanged
    BY <1>3 DEF TimedWake
  <2> QED BY <2>1, ExamineCases DEF TypeOK
<1>4. CASE TimedExpire
  <2>1. pc = "timedOut" /\ stopped' = stopped /\ built' = built /\ threadUnchanged
    BY <1>4 DEF TimedExpire
  <2>2. CASE capped
    <3>1. Examine
      BY <1>4, <2>2 DEF TimedExpire
    <3> QED BY <2>1, <3>1, ExamineCases DEF TypeOK
  <2>3. CASE ~ capped
    <3>1. /\ cur' = cur /\ deadline' = deadline /\ capped' = capped
          /\ CheckAndRemoveEventById(cur.id)
      BY <1>4, <2>3 DEF TimedExpire
    <3>2. Nothing \/ Take
      BY <2>1, <2>3, <3>1, TakesById DEF Take
    <3> QED BY <2>1, <3>1, <3>2 DEF TypeOK
  <2> QED BY <2>2, <2>3
<1> QED BY <1>1, <1>2, <1>3, <1>4 DEF ThreadStep
-----------------------------------------------------------------------------
(* Types, and what the thread sleeps through. *)

LEMMA NextIdInRange ==
    ASSUME NEW n \in 0 .. IdRange - 1
    PROVE  (n + 1) % IdRange \in 0 .. IdRange - 1
BY TimedAssumption

\* An entry put into the list by a post or by the posting of a QueueAbort.
LEMMA InsertTypes ==
    ASSUME TypeOK, NEW e \in Event \cup {Abort}, NEW time \in Int, NEW prev \in BOOLEAN,
           list' = Insert(list, [event |-> e, id |-> nextId, time |-> time], prev),
           nextId' = (nextId + 1) % IdRange,
           pc' = Signals(pc, list, time)
    PROVE  /\ list' \in Seq(Entry) /\ nextId' \in 0 .. IdRange - 1 /\ pc' \in PC
           /\ pc' # "empty"
           /\ pc' = "timed" => pc = "timed" /\ list # << >> /\ list'[1] = list[1]
           /\ pc' \in {pc, "emptyWoken", "timedWoken"}
           /\ pc' = "timedWoken" => pc \in {"timed", "timedWoken"}
<1> DEFINE x == [event |-> e, id |-> nextId, time |-> time]
<1>1. x \in Entry
  BY DEF Entry, TypeOK
<1>2. list \in Seq(Entry) /\ pc \in PC /\ nextId \in 0 .. IdRange - 1
  BY DEF TypeOK
<1>3. /\ list' \in Seq(Entry)
      /\ \E m \in 0 .. Len(list) :
            /\ Inserted(list', list, m, x)
            /\ ~ AtFront(list, x.time) => list # << >> /\ m > 0
  <2> HIDE DEF x
  <2>1. list' = Insert(list, x, prev)
    BY DEF x
  <2> QED BY <1>1, <1>2, <2>1, InsertInserts
<1>4. nextId' \in 0 .. IdRange - 1
  BY <1>2, NextIdInRange
<1>5. /\ pc' \in PC /\ pc' # "empty"
      /\ pc' = "timed" => pc = "timed" /\ ~ AtFront(list, time)
      /\ pc' \in {pc, "emptyWoken", "timedWoken"}
      /\ pc' = "timedWoken" => pc \in {"timed", "timedWoken"}
  BY <1>2 DEF PC, Signals, SignalNotEmpty, SignalHeadChanged
<1>6. ~ AtFront(list, time) => list # << >> /\ list'[1] = list[1]
  <2> HAVE ~ AtFront(list, time)
  <2>1. PICK m \in 0 .. Len(list) : Inserted(list', list, m, x) /\ list # << >> /\ m > 0
    BY <1>3
  <2>2. 1 \in 1 .. Len(list) + 1 /\ 1 <= m
    BY <1>2, <2>1
  <2> QED BY <2>1, <2>2 DEF Inserted
<1> QED BY <1>3, <1>4, <1>5, <1>6

LEMMA TypesInitially == Init => TypeOK
<1> SUFFICES ASSUME Init PROVE TypeOK
  OBVIOUS
<1>1. cur \in Entry
  BY TimedAssumption DEF Init, Entry
<1>2. DOMAIN due = {}
  BY DEF Init
<1>3. list \in Seq(Entry)
  BY DEF Init
<1>4. nextId \in 0 .. IdRange - 1 /\ starts \in 0 .. MaxStarts /\ clock \in 0 .. MaxClock
  BY TimedAssumption DEF Init
<1>5. DOMAIN due \subseteq Event /\ \A e \in DOMAIN due : due[e] \in Int
  BY <1>2
<1>6. posting \subseteq [event : Event, time : Int, prev : BOOLEAN]
  BY DEF Init
<1>7. /\ orderly \in BOOLEAN /\ started \in BOOLEAN /\ stopped \in BOOLEAN
      /\ built \in BOOLEAN /\ capped \in BOOLEAN
  BY DEF Init
<1>8. /\ owner \in OwnerPC /\ pc \in PC /\ deadline \in Int
      /\ executed \subseteq Event /\ cancelled \subseteq Event /\ flushed \subseteq Event
  BY DEF Init, OwnerPC, PC
<1> QED BY <1>1, <1>3, <1>4, <1>5, <1>6, <1>7, <1>8 DEF TypeOK

LEMMA TypesPreserved == TypeOK /\ [Next]_vars => TypeOK'
<1> SUFFICES ASSUME TypeOK, [Next]_vars PROVE TypeOK'
  OBVIOUS
<1> USE TimedAssumption
<1>1. CASE Tick
  BY <1>1 DEF Tick, TypeOK, threadVars, lifeVars, history
<1>2. ASSUME NEW e \in Event, NEW time \in Int, NEW prev \in BOOLEAN, BeginPost(e, time, prev)
      PROVE  TypeOK'
  <2>1. posting' \subseteq [event : Event, time : Int, prev : BOOLEAN]
    BY <1>2 DEF BeginPost, TypeOK
  <2> QED BY <1>2, <2>1 DEF BeginPost, TypeOK, threadVars, lifeVars, history
<1>3. ASSUME NEW p \in posting, PostTimedEvent(p) PROVE TypeOK'
  <2>1. p.event \in Event /\ p.time \in Int /\ p.prev \in BOOLEAN
    BY DEF TypeOK
  <2>2. list' \in Seq(Entry) /\ nextId' \in 0 .. IdRange - 1 /\ pc' \in PC
    BY <1>3, <2>1, InsertTypes DEF PostTimedEvent
  <2>3. DOMAIN due' \subseteq Event /\ \A e \in DOMAIN due' : due'[e] \in Int
    BY <1>3, <2>1 DEF PostTimedEvent, TypeOK
  <2>4. posting' \subseteq [event : Event, time : Int, prev : BOOLEAN]
    BY <1>3 DEF PostTimedEvent, TypeOK
  <2> QED BY <1>3, <2>2, <2>3, <2>4 DEF PostTimedEvent, TypeOK, lifeVars, history
<1>4. ASSUME NEW id, CancelEvent(id) PROVE TypeOK'
  <2> DEFINE n == FindId(list, id)
  <2>1. n \in 1 .. Len(list)
    BY <1>4, FindIdFinds DEF CancelEvent, TypeOK
  <2>2. list' \in Seq(Entry)
    BY <1>4, <2>1, RemoveRemoves DEF CancelEvent, TypeOK
  <2>3. list[n] \in Entry /\ list[n].event # Abort
    BY <1>4, <2>1 DEF CancelEvent, TypeOK
  <2>4. cancelled' \subseteq Event
    BY <1>4, <2>3 DEF CancelEvent, TypeOK, Entry
  <2>5. pc' \in PC
    BY <1>4 DEF CancelEvent, TypeOK, SignalHeadChanged, PC
  <2> QED BY <1>4, <2>2, <2>4, <2>5 DEF CancelEvent, TypeOK, lifeVars
<1>5. QueuedEvents \subseteq Event
  <2>1. \A n \in DOMAIN list : list[n] \in Entry
    BY DEF TypeOK
  <2> QED BY <2>1 DEF QueuedEvents, Entry
<1>6. CASE CancelAllEvents
  <2>1. pc' \in PC
    BY <1>6 DEF CancelAllEvents, TypeOK, SignalHeadChanged, PC
  <2> QED BY <1>5, <1>6, <2>1 DEF CancelAllEvents, TypeOK, lifeVars, Clear
<1>7. CASE Startup
  BY <1>7 DEF Startup, TypeOK, OwnerPC, PC, history
<1>8. CASE StartupDone \/ StartupFails
  <2>1. CASE StartupDone
    BY <2>1 DEF StartupDone, TypeOK, OwnerPC, threadVars, history
  <2>2. CASE StartupFails
    BY <2>2 DEF StartupFails, TypeOK, threadVars, history
  <2> QED BY <1>8, <2>1, <2>2
<1>9. ASSUME NEW time \in Int, NEW prev \in BOOLEAN, PostAbort(time, prev),
             owner' \in OwnerPC, flushed' \in {flushed, QueuedEvents}
      PROVE  TypeOK'
  <2>1. list' \in Seq(Entry) /\ nextId' \in 0 .. IdRange - 1 /\ pc' \in PC
    BY <1>9, InsertTypes DEF PostAbort
  <2> QED BY <1>5, <1>9, <2>1 DEF PostAbort, TypeOK
<1>10. CASE ShutdownDone
  <2>1. list' \in {list, << >>} /\ built' \in {built, FALSE}
    BY <1>10 DEF ShutdownDone, Clear
  <2>2. list' \in Seq(Entry) /\ built' \in BOOLEAN
    <3>1. list' = list \/ list' = << >>
      BY <2>1
    <3> QED BY <2>1, <3>1, EmptySeq DEF TypeOK
  <2> QED BY <1>10, <2>2 DEF ShutdownDone, TypeOK, OwnerPC, threadVars, history
<1>11. CASE ThreadStep
  <2>1. /\ Nothing \/ FallAsleep \/ Take \/ Leave
        /\ cur' \in Entry /\ deadline' \in Int /\ capped' \in BOOLEAN
        /\ stopped' = stopped /\ built' \in BOOLEAN
        /\ threadUnchanged
    BY <1>11, ThreadStepCases
  <2>2. CASE Nothing \/ FallAsleep \/ Leave
    <3>1. /\ list' \in {list, << >>} /\ executed' = executed
          /\ pc' \in {"empty", "abort", "top", "timed", "off"}
      BY <2>2 DEF Nothing, FallAsleep, Leave
    <3>2. list' \in Seq(Entry) /\ pc' \in PC
      <4>1. list' = list \/ list' = << >>
        BY <3>1
      <4> QED BY <3>1, <4>1, EmptySeq DEF TypeOK, PC
    <3> QED BY <2>1, <3>1, <3>2 DEF threadUnchanged, TypeOK
  <2>3. CASE Take
    <3>1. PICK n \in 1 .. Len(list) :
              /\ list' = Remove(list, n)
              /\ pc' = IF cur'.event = Abort THEN "abort" ELSE "invoke"
              /\ executed' = IF cur'.event = Abort THEN executed
                                                    ELSE executed \cup {cur'.event}
      BY <2>3 DEF Take
    <3>2. list' \in Seq(Entry)
      BY <3>1, RemoveRemoves DEF TypeOK
    <3>3. executed' \subseteq Event
      BY <2>1, <3>1 DEF TypeOK, Entry
    <3>4. pc' \in PC
      BY <3>1 DEF PC
    <3> QED BY <2>1, <3>2, <3>3, <3>4 DEF threadUnchanged, TypeOK
  <2> QED BY <2>1, <2>2, <2>3
<1>12. CASE TimeOut \/ InvokeReturn \/ SpuriousWake
  BY <1>12 DEF TimeOut, InvokeReturn, SpuriousWake, TypeOK, PC, lifeVars, history
<1>13. CASE RequestAbort
  BY <1>13 DEF RequestAbort, threadUnchanged, TypeOK, PC
<1>14. CASE UNCHANGED vars
  BY <1>14 DEF vars, lifeVars, threadVars, history, TypeOK
<1>15. CASE Post
  <2>1. ASSUME NEW e \in Event, NEW d \in Delay, PostEventWithDelay(e, d) PROVE TypeOK'
    <3>1. clock + d \in Int
      BY DEF TypeOK
    <3> QED BY <1>2, <2>1, <3>1 DEF PostEventWithDelay
  <2>2. ASSUME NEW e \in Event, PostEvent(e) \/ PostEventToBack(e) PROVE TypeOK'
    <3>1. AtOnce \in Int /\ INT64_MAX \in Int /\ FALSE \in BOOLEAN
      BY DEF AtOnce
    <3>2. BeginPost(e, AtOnce, FALSE) \/ BeginPost(e, INT64_MAX, FALSE)
      BY <2>2 DEF PostEvent, PostEventToBack
    <3> QED BY <1>2, <3>1, <3>2
  <2> QED BY <1>3, <1>15, <2>1, <2>2 DEF Post
<1>16. CASE Cancel
  BY <1>4, <1>6, <1>16 DEF Cancel
<1>17. CASE Owner
  <2>1. ASSUME ShutdownFlush \/ ShutdownSkip \/ ShutdownAsync PROVE TypeOK'
    <3>1. owner' \in OwnerPC /\ flushed' \in {flushed, QueuedEvents}
      BY <2>1 DEF ShutdownFlush, ShutdownSkip, ShutdownAsync, OwnerPC
    <3>2. PostAbort(INT64_MAX, FALSE) \/ PostAbort(INT64_MIN, TRUE)
      BY <2>1 DEF ShutdownFlush, ShutdownSkip, ShutdownAsync
    <3>3. INT64_MAX \in Int /\ INT64_MIN \in Int
      BY DEF INT64_MIN
    <3> QED BY <1>9, <3>1, <3>2, <3>3
  <2> QED BY <1>7, <1>8, <1>10, <1>17, <2>1 DEF Owner
<1>18. CASE Worker
  BY <1>11, <1>12, <1>13, <1>18 DEF Worker, ThreadStep
<1> QED BY <1>1, <1>12, <1>14, <1>15, <1>16, <1>17, <1>18 DEF Next
\* Every variable keeps its type, whatever the users do.
THEOREM TypeCorrect == Spec => []TypeOK
<1> QED BY TypesInitially, TypesPreserved, PTL DEF Spec

LEMMA WakesPreserved == TypeOK /\ NeverOversleeps /\ [Next]_vars => NeverOversleeps'
<1> SUFFICES ASSUME TypeOK, NeverOversleeps, [Next]_vars PROVE NeverOversleeps'
  OBVIOUS
<1> USE TimedAssumption
<1>1. CASE list' = list /\ deadline' = deadline /\ pc' = pc
  BY <1>1 DEF NeverOversleeps
<1>2. CASE pc' \notin {"empty", "timed"}
  BY <1>2 DEF NeverOversleeps
<1>3. ASSUME NEW e \in Event \cup {Abort}, NEW time \in Int, NEW prev \in BOOLEAN,
             list' = Insert(list, [event |-> e, id |-> nextId, time |-> time], prev),
             nextId' = (nextId + 1) % IdRange,
             pc' = Signals(pc, list, time),
             deadline' = deadline
      PROVE  NeverOversleeps'
  <2>1. pc' # "empty" /\ (pc' = "timed" => pc = "timed" /\ list # << >> /\ list'[1] = list[1])
    BY <1>3, InsertTypes
  <2>2. CASE pc' # "timed"
    BY <2>1, <2>2 DEF NeverOversleeps
  <2>3. CASE pc' = "timed"
    <3>1. PICK m \in 0 .. Len(list) :
              Inserted(list', list, m, [event |-> e, id |-> nextId, time |-> time])
      <4>1. [event |-> e, id |-> nextId, time |-> time] \in Entry
        BY DEF Entry, TypeOK
      <4> QED BY <1>3, <4>1, InsertInserts DEF TypeOK
    <3>2. list' # << >>
      BY <3>1 DEF Inserted, TypeOK
    <3> QED BY <1>3, <2>1, <2>3, <3>2 DEF NeverOversleeps
  <2> QED BY <2>2, <2>3
<1>4. ASSUME NEW p \in posting, PostTimedEvent(p) PROVE NeverOversleeps'
  <2>1. p.event \in Event /\ p.time \in Int /\ p.prev \in BOOLEAN
    BY DEF TypeOK
  <2> QED BY <1>3, <1>4, <2>1 DEF PostTimedEvent
<1>5. ASSUME NEW time \in Int, NEW prev \in BOOLEAN, PostAbort(time, prev) PROVE NeverOversleeps'
  BY <1>3, <1>5 DEF PostAbort
<1>6. ASSUME NEW id, CancelEvent(id) PROVE NeverOversleeps'
  <2> DEFINE n == FindId(list, id)
  <2>1. n \in 1 .. Len(list) /\ list \in Seq(Entry) /\ list # << >>
    BY <1>6, FindIdFinds DEF CancelEvent, TypeOK
  <2>2. Removed(list', list, n) /\ list' \in Seq(Entry)
    BY <1>6, <2>1, RemoveRemoves DEF CancelEvent
  <2>3. deadline' = deadline /\ pc' = IF n = Begin(list) THEN SignalHeadChanged(pc) ELSE pc
    BY <1>6 DEF CancelEvent
  <2>4. pc' # "empty"
    BY <2>1, <2>3 DEF NeverOversleeps, SignalHeadChanged
  <2>5. pc' = "timed" => pc = "timed" /\ n > 1
    BY <2>1, <2>3 DEF SignalHeadChanged, Begin
  <2>6. n > 1 => list' # << >> /\ list'[1] = list[1]
    BY <2>1, <2>2 DEF Removed
  <2> QED BY <2>3, <2>4, <2>5, <2>6 DEF NeverOversleeps
<1>7. CASE CancelAllEvents
  <2>1. list' = << >> /\ pc' # "timed"
    BY <1>7 DEF CancelAllEvents, Clear, SignalHeadChanged
  <2> QED BY <2>1 DEF NeverOversleeps
<1>8. CASE ShutdownDone
  <2>1. CASE pc = "off"
    BY <1>2, <1>8, <2>1 DEF ShutdownDone, threadVars
  <2>2. CASE pc # "off"
    BY <1>1, <1>8, <2>2 DEF ShutdownDone, threadVars
  <2> QED BY <2>1, <2>2
<1>9. CASE ThreadStep
  <2>1. Nothing \/ FallAsleep \/ Take \/ Leave
    BY <1>9, ThreadStepCases
  <2>2. CASE Nothing
    BY <2>2 DEF Nothing, NeverOversleeps
  <2>3. CASE FallAsleep
    <3>1. list[1].time \in Int /\ clock \in Int
      <4>1. list[1] \in Entry
        BY <2>3 DEF FallAsleep, TypeOK
      <4> QED BY <4>1 DEF Entry, TypeOK
    <3>2. ~ (list[1].time < 0) /\ deadline' <= list[1].time
      BY <2>3, <3>1 DEF FallAsleep, IsDue, Min2
    <3> QED BY <2>3, <3>2 DEF FallAsleep, NeverOversleeps
  <2>4. CASE Take \/ Leave
    BY <1>2, <2>4 DEF Take, Leave
  <2> QED BY <2>1, <2>2, <2>3, <2>4
<1>10. CASE Tick
  BY <1>1, <1>10 DEF Tick, threadVars
<1>11. ASSUME NEW e, NEW time, NEW prev, BeginPost(e, time, prev) PROVE NeverOversleeps'
  BY <1>1, <1>11 DEF BeginPost, threadVars
<1>12. CASE Post
  BY <1>4, <1>11, <1>12 DEF Post, PostEvent, PostEventToBack, PostEventWithDelay
<1>13. CASE Cancel
  BY <1>6, <1>7, <1>13 DEF Cancel
<1>14. CASE Owner
  <2>1. ASSUME ShutdownFlush \/ ShutdownSkip \/ ShutdownAsync PROVE NeverOversleeps'
    <3>1. PostAbort(INT64_MAX, FALSE) \/ PostAbort(INT64_MIN, TRUE)
      BY <2>1 DEF ShutdownFlush, ShutdownSkip, ShutdownAsync
    <3>2. INT64_MAX \in Int /\ INT64_MIN \in Int
      BY DEF INT64_MIN
    <3> QED BY <1>5, <3>1, <3>2
  <2>2. ASSUME Startup \/ StartupFails PROVE NeverOversleeps'
    BY <1>2, <2>2 DEF Startup, StartupFails, threadVars
  <2>3. ASSUME StartupDone PROVE NeverOversleeps'
    BY <1>1, <2>3 DEF StartupDone, threadVars
  <2> QED BY <1>8, <1>14, <2>1, <2>2, <2>3 DEF Owner
<1>15. CASE Worker
  <2>1. ASSUME TimeOut \/ InvokeReturn \/ RequestAbort PROVE NeverOversleeps'
    BY <1>2, <2>1 DEF TimeOut, InvokeReturn, RequestAbort
  <2> QED BY <1>9, <1>15, <2>1 DEF Worker, ThreadStep
<1>16. CASE SpuriousWake
  BY <1>2, <1>16 DEF SpuriousWake
<1>17. CASE UNCHANGED vars
  BY <1>1, <1>17 DEF vars, threadVars
<1> QED BY <1>10, <1>12, <1>13, <1>14, <1>15, <1>16, <1>17 DEF Next

\* Whatever is posted, cancelled or shut down, in any order: the thread does not
\* sleep on the first condition variable while an event is queued, and on the
\* second not past the time of the entry that is first now.
THEOREM NeverOversleepsHolds == Spec => []NeverOversleeps
<1>1. Init => NeverOversleeps
  BY DEF Init, NeverOversleeps
<1> QED BY <1>1, TypeCorrect, WakesPreserved, PTL DEF Spec
-----------------------------------------------------------------------------
(* What Startup promises. *)

Serving == owner = "starting" \/ (owner = "out" /\ started)

NotYetStarted == ~ stopped /\ ~ started /\ owner = "out" /\ pc = "off"

\* Nothing that could end the thread: no flag, no QueueAbort queued, taken or waited for.
ThreadServes ==
    /\ built /\ ~ stopped
    /\ pc \notin {"off", "abort"}
    /\ \A i \in 1 .. Len(list) : list[i].event # Abort
    /\ pc \in {"timed", "timedWoken", "timedOut"} => cur.event # Abort

ServedInv ==
    /\ starts = 0 => NotYetStarted
    /\ starts <= 1 /\ Serving => ThreadServes

\* Entries of events come and go, and the thread is woken at most.
LEMMA ServedKept ==
    ASSUME ServedInv, UNCHANGED <<started, stopped, built, owner, starts>>,
           \A i \in 1 .. Len(list') :
               list'[i].event # Abort \/ \E j \in 1 .. Len(list) : list'[i] = list[j],
           pc = "off" <=> pc' = "off",
           pc' = "abort" => pc = "abort",
           pc' \in {"timed", "timedWoken", "timedOut"} =>
               pc \in {"timed", "timedWoken", "timedOut"} /\ cur' = cur
    PROVE  ServedInv'
BY DEF ServedInv, NotYetStarted, Serving, ThreadServes

LEMMA ServedByThread ==
    ASSUME TypeOK, ServedInv, ThreadStep
    PROVE  ServedInv'
<1>1. /\ Nothing \/ FallAsleep \/ Take \/ Leave
      /\ Leave \/ built' = built
      /\ stopped' = stopped /\ pc # "off"
      /\ UNCHANGED <<started, owner, starts>>
  BY ThreadStepCases DEF threadUnchanged
<1>2. starts' # 0
  BY <1>1 DEF ServedInv, NotYetStarted
<1> SUFFICES ASSUME starts' <= 1, Serving' PROVE ThreadServes'
  BY <1>2 DEF ServedInv
<1>3. ThreadServes
  BY <1>1 DEF ServedInv, Serving
<1>4. built' /\ ~ stopped'
  BY <1>1, <1>3 DEF ThreadServes, Leave
<1>5. list \in Seq(Entry) /\ Len(list) \in Nat /\ (list # << >> => 1 \in 1 .. Len(list))
  BY DEF TypeOK
<1>6. CASE Nothing
  BY <1>3, <1>4, <1>5, <1>6 DEF Nothing, ThreadServes
<1>7. CASE FallAsleep
  BY <1>3, <1>4, <1>5, <1>7 DEF FallAsleep, ThreadServes
<1>8. CASE Take
  <2>1. PICK n \in 1 .. Len(list) :
            /\ list' = Remove(list, n)
            /\ pc' = IF cur'.event = Abort THEN "abort" ELSE "invoke"
            /\ \/ cur' = list[n]
               \/ pc = "timedOut" /\ cur' = cur
    BY <1>8 DEF Take
  <2>2. pc' = "invoke"
    BY <1>3, <2>1 DEF ThreadServes
  <2>3. \A i \in 1 .. Len(list') : \E j \in 1 .. Len(list) : list'[i] = list[j]
    BY <1>5, <2>1, RemovedFrom
  <2> QED BY <1>3, <1>4, <2>2, <2>3 DEF ThreadServes
<1>9. CASE Leave
  BY <1>3, <1>9 DEF Leave, ThreadServes
<1> QED BY <1>1, <1>6, <1>7, <1>8, <1>9

LEMMA ServedByUsers ==
    ASSUME TypeOK, ServedInv, Post \/ Cancel
    PROVE  ServedInv'
<1>1. ASSUME NEW e, NEW time, NEW prev, BeginPost(e, time, prev) PROVE ServedInv'
  BY <1>1, ServedKept DEF BeginPost, lifeVars, threadVars
<1>2. ASSUME NEW p \in posting, PostTimedEvent(p) PROVE ServedInv'
  <2> DEFINE x == [event |-> p.event, id |-> nextId, time |-> p.time]
  <2>1. p.event \in Event /\ p.time \in Int /\ p.prev \in BOOLEAN
    BY DEF TypeOK
  <2>2. /\ list' = Insert(list, x, p.prev) /\ nextId' = (nextId + 1) % IdRange
        /\ pc' = Signals(pc, list, p.time)
        /\ cur' = cur /\ UNCHANGED <<started, stopped, built, owner, starts>>
    BY <1>2 DEF PostTimedEvent, lifeVars
  <2>3. /\ pc' \in {pc, "emptyWoken", "timedWoken"} /\ (pc = "off" => pc' = "off")
        /\ pc' \in {"timed", "timedWoken"} => pc \in {"timed", "timedWoken"}
    BY <2>2 DEF Signals, SignalNotEmpty, SignalHeadChanged
  <2>4. x \in Entry /\ x.event # Abort /\ list \in Seq(Entry) /\ Len(list) \in Nat
    BY <2>1, TimedAssumption DEF Entry, TypeOK
  <2>5. \E m \in 0 .. Len(list) : Inserted(list', list, m, x)
    <3> HIDE DEF x
    <3> QED BY <2>1, <2>2, <2>4, InsertInserts
  <2>6. \A i \in 1 .. Len(list') : list'[i] = x \/ \E j \in 1 .. Len(list) : list'[i] = list[j]
    <3> HIDE DEF x
    <3> QED BY <2>4, <2>5, InsertedFrom
  <2> HIDE DEF x
  <2> QED BY <2>2, <2>3, <2>4, <2>6, ServedKept
<1>3. ASSUME NEW id, CancelEvent(id) PROVE ServedInv'
  <2>1. FindId(list, id) \in 1 .. Len(list) /\ list \in Seq(Entry) /\ Len(list) \in Nat
    BY <1>3, FindIdFinds DEF CancelEvent, TypeOK
  <2>2. /\ list' = Remove(list, FindId(list, id))
        /\ pc' \in {pc, SignalHeadChanged(pc)}
        /\ cur' = cur /\ UNCHANGED <<started, stopped, built, owner, starts>>
    BY <1>3 DEF CancelEvent, lifeVars
  <2>3. \A i \in 1 .. Len(list') : \E j \in 1 .. Len(list) : list'[i] = list[j]
    BY <2>1, <2>2, RemovedFrom
  <2> QED BY <2>2, <2>3, ServedKept DEF SignalHeadChanged
<1>4. CASE CancelAllEvents
  <2>1. /\ list' = << >> /\ pc' = SignalHeadChanged(pc)
        /\ cur' = cur /\ UNCHANGED <<started, stopped, built, owner, starts>>
    BY <1>4 DEF CancelAllEvents, Clear, lifeVars
  <2>2. 1 .. Len(list') = {}
    BY <2>1
  <2> QED BY <2>1, <2>2, ServedKept DEF SignalHeadChanged
<1>5. Post => ServedInv'
  BY <1>1, <1>2 DEF Post, PostEvent, PostEventToBack, PostEventWithDelay
<1> QED BY <1>3, <1>4, <1>5 DEF Cancel

LEMMA ServedByOwner ==
    ASSUME TypeOK, ServedInv, Owner
    PROVE  ServedInv'
<1>1. starts \in Nat
  BY TimedAssumption DEF TypeOK
<1>2. CASE Startup
  <2>1. /\ list' = << >> /\ pc' = "top" /\ built' /\ stopped' = stopped
        /\ starts' = starts + 1 /\ owner' = "starting"
    BY <1>2 DEF Startup
  <2>2. starts' # 0 /\ (starts' <= 1 => starts = 0)
    BY <1>1, <2>1
  <2>3. 1 .. Len(list') = {}
    BY <2>1
  <2> QED BY <2>1, <2>2, <2>3 DEF ServedInv, NotYetStarted, ThreadServes
<1>3. CASE StartupDone \/ StartupFails
  BY <1>3 DEF StartupDone, StartupFails, ServedInv, NotYetStarted, Serving, ThreadServes, threadVars
<1>4. CASE ShutdownFlush \/ ShutdownSkip \/ ShutdownAsync
  <2>1. PostAbort(INT64_MAX, FALSE) \/ PostAbort(INT64_MIN, TRUE)
    BY <1>4 DEF ShutdownFlush, ShutdownSkip, ShutdownAsync
  <2>2. started /\ starts' = starts
    BY <2>1 DEF PostAbort
  <2>3. owner' \in {"joining", "leaving"}
    BY <1>4 DEF ShutdownFlush, ShutdownSkip, ShutdownAsync
  <2> QED BY <2>2, <2>3 DEF ServedInv, NotYetStarted, Serving
<1>5. CASE ShutdownDone
  BY <1>5 DEF ShutdownDone, ServedInv, NotYetStarted, Serving
<1> QED BY <1>2, <1>3, <1>4, <1>5 DEF Owner

LEMMA ServedPreserved == TypeOK /\ ServedInv /\ [Next]_vars => ServedInv'
<1> SUFFICES ASSUME TypeOK, ServedInv, [Next]_vars PROVE ServedInv'
  OBVIOUS
<1>1. CASE Tick \/ TimeOut \/ InvokeReturn \/ SpuriousWake \/ UNCHANGED vars
  <2>1. /\ UNCHANGED <<started, stopped, built, owner, starts, list, cur>>
        /\ pc = "off" <=> pc' = "off"
        /\ pc' = "abort" => pc = "abort"
        /\ pc' \in {"timed", "timedWoken", "timedOut"} => pc \in {"timed", "timedWoken", "timedOut"}
    BY <1>1 DEF Tick, TimeOut, InvokeReturn, SpuriousWake, vars, lifeVars, threadVars
  <2> QED BY <2>1, ServedKept
<1>2. CASE RequestAbort
  BY <1>2 DEF RequestAbort, threadUnchanged, ServedInv, NotYetStarted, Serving, ThreadServes
<1>3. Worker => ThreadStep \/ TimeOut \/ InvokeReturn \/ RequestAbort
  BY DEF Worker, ThreadStep
<1> QED BY <1>1, <1>2, <1>3, ServedByThread, ServedByUsers, ServedByOwner DEF Next

\* After the first Startup has returned the queue keeps its thread, its list and its
\* condition variables until somebody calls Shutdown, whatever is posted and cancelled
\* and even when the counter of ids wraps.  (A second Startup does not promise that:
\* the flags are set after its thread was started.)
THEOREM FirstStartIsServedHolds == Spec => []FirstStartIsServed
<1>1. Init => ServedInv
  BY DEF Init, ServedInv, NotYetStarted, Serving
<1>2. ServedInv => FirstStartIsServed
  BY DEF ServedInv, Serving, ThreadServes, FirstStartIsServed
<1> QED BY <1>1, <1>2, TypeCorrect, ServedPreserved, PTL DEF Spec
-----------------------------------------------------------------------------
(* What is lost: nothing, while the queue is not being stopped. *)

\* The thread clears the list when it leaves, and nobody fills it without a thread but
\* a late post to a stopped queue whose restart has failed.
OffIsEmpty ==
    /\ ~ started /\ ~ stopped => posting = {}
    /\ pc = "off" => \/ ~ built /\ list = << >>
                     \/ ~ started /\ owner = "out" /\ (stopped \/ list = << >>)

\* What the property says of one step.
NoneDropped == \A e \in QueuedEvents \ QueuedEvents' : e \in executed' \cup cancelled' \/ stopped'

\* An entry that is put in pushes no other one out.
LEMMA InsertedKeeps ==
    ASSUME NEW l, Len(l) \in Nat, NEW s, NEW x, NEW m \in 0 .. Len(l), Inserted(s, l, m, x)
    PROVE  \A i \in 1 .. Len(l) : \E j \in 1 .. Len(s) : s[j] = l[i]
<1>1. Inserted(s, l, m, x)
  OBVIOUS
<1> SUFFICES ASSUME NEW i \in 1 .. Len(l) PROVE \E j \in 1 .. Len(s) : s[j] = l[i]
  OBVIOUS
<1>2. CASE i <= m
  BY <1>1, <1>2 DEF Inserted
<1>3. CASE i > m
  <2>1. /\ i + 1 \in 1 .. Len(l) + 1 /\ ~ (i + 1 <= m) /\ i + 1 # m + 1
        /\ (i + 1) - 1 = i
    BY <1>1, <1>3
  <2>2. s[i + 1] = l[i]
    BY <1>1, <2>1 DEF Inserted
  <2> QED BY <1>1, <2>1, <2>2 DEF Inserted
<1> QED BY <1>1, <1>2, <1>3

\* Only the entry that is taken out goes.
LEMMA RemovedKeeps ==
    ASSUME NEW S, NEW l \in Seq(S), NEW n \in 1 .. Len(l), NEW s, s = Remove(l, n)
    PROVE  \A i \in 1 .. Len(l) : i # n => \E j \in 1 .. Len(s) : s[j] = l[i]
<1>1. Removed(s, l, n) /\ Len(l) \in Nat
  BY RemoveRemoves
<1> SUFFICES ASSUME NEW i \in 1 .. Len(l), i # n PROVE \E j \in 1 .. Len(s) : s[j] = l[i]
  OBVIOUS
<1>2. CASE i < n
  BY <1>1, <1>2 DEF Removed
<1>3. CASE i > n
  <2>1. i - 1 \in 1 .. Len(l) - 1 /\ ~ (i - 1 < n) /\ (i - 1) + 1 = i
    BY <1>1, <1>3
  <2>2. s[i - 1] = l[i]
    BY <1>1, <2>1 DEF Removed
  <2> QED BY <1>1, <2>1, <2>2 DEF Removed
<1> QED BY <1>1, <1>2, <1>3

\* It is enough to look at the entries that are gone.
LEMMA DroppedFrom ==
    ASSUME TypeOK, list' \in Seq(Entry),
           \A i \in 1 .. Len(list) :
               \/ list[i].event \in {Abort} \cup executed' \cup cancelled'
               \/ \E j \in 1 .. Len(list') : list'[j] = list[i]
    PROVE  NoneDropped
<1>1. DOMAIN list = 1 .. Len(list) /\ DOMAIN list' = 1 .. Len(list')
  BY DEF TypeOK
<1> SUFFICES ASSUME NEW e \in QueuedEvents \ QueuedEvents' PROVE e \in executed' \cup cancelled'
  BY DEF NoneDropped
<1>2. PICK i \in 1 .. Len(list) : list[i].event = e /\ e # Abort
  BY <1>1 DEF QueuedEvents
<1>3. ~ \E j \in 1 .. Len(list') : list'[j] = list[i]
  <2> SUFFICES ASSUME NEW j \in 1 .. Len(list'), list'[j] = list[i] PROVE FALSE
    OBVIOUS
  <2>1. list'[j].event = e /\ j \in DOMAIN list'
    BY <1>1, <1>2
  <2>2. e \in QueuedEvents'
    BY <1>2, <2>1 DEF QueuedEvents
  <2> QED BY <2>2
<1> QED BY <1>2, <1>3

LEMMA NoneDroppedByInsert ==
    ASSUME TypeOK, NEW e \in Event \cup {Abort}, NEW time \in Int, NEW prev \in BOOLEAN,
           list' = Insert(list, [event |-> e, id |-> nextId, time |-> time], prev)
    PROVE  NoneDropped
<1> DEFINE x == [event |-> e, id |-> nextId, time |-> time]
<1>1. list \in Seq(Entry) /\ Len(list) \in Nat /\ x \in Entry
  BY DEF Entry, TypeOK
<1>2. list' \in Seq(Entry) /\ \E m \in 0 .. Len(list) : Inserted(list', list, m, x)
  <2> HIDE DEF x
  <2>1. list' = Insert(list, x, prev)
    BY DEF x
  <2> QED BY <1>1, <2>1, InsertInserts
<1>3. \A i \in 1 .. Len(list) : \E j \in 1 .. Len(list') : list'[j] = list[i]
  <2> HIDE DEF x
  <2>1. PICK m \in 0 .. Len(list) : Inserted(list', list, m, x)
    BY <1>2
  <2>2. \A i \in 1 .. Len(list) : \E j \in 1 .. Len(list') : list'[j] = list[i]
    <3> DEFINE s == list'
    <3>1. Inserted(s, list, m, x)
      BY <2>1
    <3> HIDE DEF s
    <3>2. \A i \in 1 .. Len(list) : \E j \in 1 .. Len(s) : s[j] = list[i]
      BY <1>1, <3>1, InsertedKeeps
    <3> QED BY <3>2 DEF s
  <2> QED BY <2>2
<1> HIDE DEF x
<1> QED BY <1>2, <1>3, DroppedFrom

LEMMA NoneDroppedByRemove ==
    ASSUME TypeOK, NEW n \in 1 .. Len(list), list' = Remove(list, n),
           list[n].event \in {Abort} \cup executed' \cup cancelled'
    PROVE  NoneDropped
<1>1. list \in Seq(Entry)
  BY DEF TypeOK
<1>2. list' \in Seq(Entry)
  BY <1>1, RemoveRemoves
<1>3. \A i \in 1 .. Len(list) : i # n => \E j \in 1 .. Len(list') : list'[j] = list[i]
  BY <1>1, RemovedKeeps
<1> QED BY <1>2, <1>3, DroppedFrom

LEMMA NoneDroppedBySameList == list' = list => NoneDropped
BY DEF NoneDropped, QueuedEvents

LEMMA OffIsEmptyPreserved == TypeOK /\ OffIsEmpty /\ [Next]_vars => OffIsEmpty'
<1> SUFFICES ASSUME TypeOK, OffIsEmpty, [Next]_vars PROVE OffIsEmpty'
  OBVIOUS
<1>1. ASSUME UNCHANGED <<started, stopped, posting, owner, pc, list, built>> PROVE OffIsEmpty'
  BY <1>1 DEF OffIsEmpty
<1>2. ASSUME pc' # "off", UNCHANGED <<started, stopped, posting>> PROVE OffIsEmpty'
  BY <1>2 DEF OffIsEmpty
<1>3. CASE ThreadStep
  <2>1. /\ Nothing \/ FallAsleep \/ Take \/ Leave
        /\ UNCHANGED <<started, stopped, posting>>
    BY <1>3, ThreadStepCases DEF threadUnchanged
  <2> QED BY <2>1 DEF OffIsEmpty, Nothing, FallAsleep, Take, Leave
<1>4. CASE TimeOut \/ InvokeReturn \/ SpuriousWake
  BY <1>2, <1>4 DEF TimeOut, InvokeReturn, SpuriousWake, lifeVars
<1>5. CASE RequestAbort
  BY <1>5 DEF RequestAbort, OffIsEmpty
<1>6. CASE Tick \/ UNCHANGED vars
  BY <1>1, <1>6 DEF Tick, vars, lifeVars, threadVars
<1>7. ASSUME NEW e, NEW time, NEW prev, BeginPost(e, time, prev) PROVE OffIsEmpty'
  <2>1. started /\ UNCHANGED <<started, stopped, owner, pc, list, built>>
    BY <1>7 DEF BeginPost, lifeVars, threadVars
  <2> QED BY <2>1 DEF OffIsEmpty
<1>8. ASSUME NEW p, PostTimedEvent(p) PROVE OffIsEmpty'
  <2>1. /\ p \in posting /\ built /\ posting' = posting \ {p}
        /\ UNCHANGED <<started, stopped, owner, built>>
        /\ pc' = Signals(pc, list, p.time)
    BY <1>8 DEF PostTimedEvent, lifeVars
  <2>2. pc' = "off" => pc = "off"
    BY <2>1 DEF Signals, SignalNotEmpty, SignalHeadChanged
  <2>3. pc = "off" => ~ started /\ owner = "out" /\ stopped
    BY <2>1 DEF OffIsEmpty
  <2> QED BY <2>1, <2>2, <2>3 DEF OffIsEmpty
<1>9. CASE Post
  BY <1>7, <1>8, <1>9 DEF Post, PostEvent, PostEventToBack, PostEventWithDelay
<1>10. ASSUME NEW id, CancelEvent(id) PROVE OffIsEmpty'
  <2>1. /\ built /\ pc' \in {pc, SignalHeadChanged(pc)} /\ list # << >>
        /\ UNCHANGED <<started, stopped, owner, built, posting>>
    <3>1. FindId(list, id) \in 1 .. Len(list)
      BY <1>10, FindIdFinds DEF CancelEvent, TypeOK
    <3> QED BY <1>10, <3>1 DEF CancelEvent, lifeVars
  <2> QED BY <2>1 DEF OffIsEmpty, SignalHeadChanged
<1>11. CASE CancelAllEvents
  BY <1>11 DEF CancelAllEvents, OffIsEmpty, SignalHeadChanged, Clear, lifeVars
<1>12. ASSUME NEW time, NEW prev, PostAbort(time, prev) PROVE OffIsEmpty'
  <2>1. pc # "off" /\ pc' = Signals(pc, list, time) /\ UNCHANGED <<started, stopped, posting>>
    BY <1>12 DEF PostAbort, OffIsEmpty
  <2> QED BY <1>2, <2>1 DEF Signals, SignalNotEmpty, SignalHeadChanged
<1>13. CASE Owner
  <2>1. CASE Startup
    BY <1>2, <2>1 DEF Startup
  <2>2. CASE StartupFails
    BY <2>2 DEF StartupFails, OffIsEmpty
  <2>3. CASE StartupDone
    BY <2>3 DEF StartupDone, OffIsEmpty, threadVars
  <2>4. CASE ShutdownFlush \/ ShutdownSkip \/ ShutdownAsync
    BY <1>12, <2>4 DEF ShutdownFlush, ShutdownSkip, ShutdownAsync
  <2>5. CASE ShutdownDone
    BY <2>5 DEF ShutdownDone, OffIsEmpty, threadVars, Clear
  <2> QED BY <1>13, <2>1, <2>2, <2>3, <2>4, <2>5 DEF Owner
<1> QED BY <1>3, <1>4, <1>5, <1>6, <1>9, <1>10, <1>11, <1>13 DEF Next, Worker, ThreadStep, Cancel

LEMMA OffIsEmptyHolds == Spec => []OffIsEmpty
<1>1. Init => OffIsEmpty
  BY DEF Init, OffIsEmpty
<1> QED BY <1>1, TypeCorrect, OffIsEmptyPreserved, PTL DEF Spec

-----------------------------------------------------------------------------
(***************************************************************************)
(* The contract.  Ids are taken from a counter of 2^32 values: once it has *)
(* wrapped, a timed wait that ends may find another event under the id it  *)
(* has kept.  The theorem is about the behaviours in which it does not     *)
(* wrap.                                                                   *)
(***************************************************************************)
NoWrap == nextId # 0

Ids ==
    \A i, j \in 1 .. Len(list) :
        /\ 1 <= list[i].id /\ list[i].id < nextId
        /\ list[i].id = list[j].id => i = j

Events ==
    \A i, j \in 1 .. Len(list) :
        (list[i].event # Abort /\ list[i].event = list[j].event) => i = j

Dues ==
    \A i \in 1 .. Len(list) :
        list[i].event # Abort =>
            list[i].event \in DOMAIN due /\ due[list[i].event] = list[i].time

Posts ==
    /\ \A p \in posting : p.event \notin DOMAIN due
    /\ \A p, q \in posting : p.event = q.event => p = q

\* What the thread knows of the entry it waits for.
Waits ==
    pc \in {"timed", "timedWoken", "timedOut"} =>
        /\ 1 <= cur.id /\ cur.id < nextId
        /\ \A i \in 1 .. Len(list) : list[i].id = cur.id => list[i] = cur
        /\ (pc = "timed" /\ ~ capped) => cur.time <= deadline
        /\ (pc = "timedOut" /\ ~ capped) => cur.time <= clock

ContractInv == Ids /\ Events /\ Dues /\ Posts /\ Waits

\* The entry that is taken out is the one whose callback is invoked.
LEMMA TakesWhatIsFound ==
    ASSUME ContractInv, Take
    PROVE  \E n \in 1 .. Len(list) :
              /\ list' = Remove(list, n)
              /\ pc' = IF list[n].event = Abort THEN "abort" ELSE "invoke"
              /\ executed' = IF list[n].event = Abort THEN executed
                                                       ELSE executed \cup {list[n].event}
              /\ (n = 1 /\ IsDue(list[n])) \/ (pc = "timedOut" /\ ~ capped /\ list[n].id = cur.id)
<1>1. PICK n \in 1 .. Len(list) :
          /\ list' = Remove(list, n)
          /\ pc' = IF cur'.event = Abort THEN "abort" ELSE "invoke"
          /\ executed' = IF cur'.event = Abort THEN executed ELSE executed \cup {cur'.event}
          /\ \/ n = 1 /\ IsDue(list[n]) /\ cur' = list[n]
             \/ pc = "timedOut" /\ ~ capped /\ list[n].id = cur.id /\ cur' = cur
  BY DEF Take
<1>2. cur' = list[n]
  BY <1>1 DEF ContractInv, Waits
<1> QED BY <1>1, <1>2

LEMMA NextIdGrows ==
    ASSUME NEW n \in 0 .. IdRange - 1, (n + 1) % IdRange # 0
    PROVE  (n + 1) % IdRange = n + 1
<1>1. CASE n + 1 = IdRange
  BY <1>1, TimedAssumption
<1>2. CASE n + 1 < IdRange
  BY <1>2, TimedAssumption
<1> QED BY <1>1, <1>2, TimedAssumption

\* An entry with a fresh id, and an event the list does not have, keeps the list in order.
LEMMA ContractOfInsert ==
    ASSUME TypeOK, ContractInv, NoWrap, NoWrap',
           NEW e \in Event \cup {Abort}, NEW time \in Int, NEW prev \in BOOLEAN,
           list' = Insert(list, [event |-> e, id |-> nextId, time |-> time], prev),
           nextId' = (nextId + 1) % IdRange,
           pc' = Signals(pc, list, time),
           UNCHANGED <<cur, deadline, capped, clock>>,
           e # Abort => e \notin DOMAIN due,
           e # Abort => e \in DOMAIN due' /\ due'[e] = time,
           \A d \in DOMAIN due : d \in DOMAIN due' /\ due'[d] = due[d]
    PROVE  /\ Ids' /\ Events' /\ Dues' /\ Waits'
           /\ QueuedEvents' = QueuedEvents \cup ({e} \ {Abort})
<1> DEFINE x == [event |-> e, id |-> nextId, time |-> time]
<1>1. x \in Entry
  BY DEF Entry, TypeOK
<1>2. list \in Seq(Entry) /\ Len(list) \in Nat /\ nextId \in 0 .. IdRange - 1
  BY DEF TypeOK
<1>3. list' \in Seq(Entry) /\ \E m \in 0 .. Len(list) : Inserted(list', list, m, x)
  <2> HIDE DEF x
  <2>1. list' = Insert(list, x, prev)
    BY DEF x
  <2> QED BY <1>1, <1>2, <2>1, InsertInserts
<1>4. PICK m \in 0 .. Len(list) : Inserted(list', list, m, x)
  BY <1>3
<1>5. nextId' = nextId + 1 /\ 1 <= nextId
  BY <1>2, NextIdGrows DEF NoWrap
<1> DEFINE old(i) == IF i <= m THEN i ELSE i - 1
<1>6. /\ Len(list') = Len(list) + 1
      /\ list'[m + 1] = x /\ m + 1 \in 1 .. Len(list')
      /\ \A i \in 1 .. Len(list') :
            i # m + 1 => old(i) \in 1 .. Len(list) /\ list'[i] = list[old(i)]
      /\ \A i, j \in 1 .. Len(list') : (i # m + 1 /\ j # m + 1 /\ old(i) = old(j)) => i = j
  BY <1>2, <1>4 DEF Inserted
<1>7. \A i \in 1 .. Len(list) : \E j \in 1 .. Len(list') : list'[j] = list[i]
  <2> TAKE i \in 1 .. Len(list)
  <2>1. CASE i <= m
    BY <1>2, <1>4, <2>1 DEF Inserted
  <2>2. CASE i > m
    <3>1. i + 1 \in 1 .. Len(list) + 1 /\ ~ (i + 1 <= m) /\ i + 1 # m + 1 /\ (i + 1) - 1 = i
      BY <1>2, <2>2
    <3>2. list'[i + 1] = list[i]
      BY <1>4, <3>1 DEF Inserted
    <3> QED BY <1>6, <3>1, <3>2
  <2> QED BY <2>1, <2>2
<1>8. x.event = e /\ x.id = nextId /\ x.time = time
  OBVIOUS
<1> HIDE DEF x, old
<1>9. /\ \A i \in 1 .. Len(list) : list[i].id \in Nat /\ 1 <= list[i].id /\ list[i].id < nextId
      /\ \A i, j \in 1 .. Len(list) : list[i].id = list[j].id => i = j
  <2>1. \A i \in 1 .. Len(list) : list[i] \in Entry
    BY <1>2
  <2>2. \A i \in 1 .. Len(list) : list[i].id \in Nat
    BY <2>1 DEF Entry
  <2> QED BY <2>2 DEF ContractInv, Ids
<1>10. \A i \in 1 .. Len(list) : list[i].event # Abort => list[i].event # e
  BY DEF ContractInv, Dues
<1>11. Ids'
  <2>1. \A i \in 1 .. Len(list') : 1 <= list'[i].id /\ list'[i].id < nextId'
    <3> TAKE i \in 1 .. Len(list')
    <3>1. CASE i = m + 1
      BY <1>2, <1>5, <1>6, <1>8, <3>1
    <3>2. CASE i # m + 1
      <4>1. PICK k \in 1 .. Len(list) : list'[i] = list[k]
        BY <1>6, <3>2
      <4>2. 1 <= list[k].id /\ list[k].id < nextId /\ list[k].id \in Nat
        BY <1>9
      <4> QED BY <1>2, <1>5, <4>1, <4>2
    <3> QED BY <3>1, <3>2
  <2>2. \A i, j \in 1 .. Len(list') : list'[i].id = list'[j].id => i = j
    <3> SUFFICES ASSUME NEW i \in 1 .. Len(list'), NEW j \in 1 .. Len(list'),
                        list'[i].id = list'[j].id
                 PROVE  i = j
      OBVIOUS
    <3>1. CASE i = m + 1 /\ j # m + 1
      BY <1>2, <1>6, <1>8, <1>9, <3>1
    <3>2. CASE i # m + 1 /\ j = m + 1
      BY <1>2, <1>6, <1>8, <1>9, <3>2
    <3>3. CASE i # m + 1 /\ j # m + 1
      <4>1. /\ old(i) \in 1 .. Len(list) /\ list'[i] = list[old(i)]
            /\ old(j) \in 1 .. Len(list) /\ list'[j] = list[old(j)]
        BY <1>6, <3>3
      <4>2. old(i) = old(j)
        BY <1>9, <4>1
      <4> QED BY <1>6, <3>3, <4>2
    <3> QED BY <3>1, <3>2, <3>3
  <2> QED BY <2>1, <2>2 DEF Ids
<1>12. Events'
  <2> SUFFICES ASSUME NEW i \in 1 .. Len(list'), NEW j \in 1 .. Len(list'),
                      list'[i].event # Abort, list'[i].event = list'[j].event
               PROVE  i = j
    BY DEF Events
  <2>1. CASE i = m + 1 /\ j # m + 1
    BY <1>6, <1>8, <1>10, <2>1
  <2>2. CASE i # m + 1 /\ j = m + 1
    BY <1>6, <1>8, <1>10, <2>2
  <2>3. CASE i # m + 1 /\ j # m + 1
    BY <1>6, <2>3 DEF ContractInv, Events
  <2> QED BY <2>1, <2>2, <2>3
<1>13. Dues'
  <2> SUFFICES ASSUME NEW i \in 1 .. Len(list'), list'[i].event # Abort
               PROVE  list'[i].event \in DOMAIN due' /\ due'[list'[i].event] = list'[i].time
    BY DEF Dues
  <2>1. CASE i = m + 1
    BY <1>6, <1>8, <2>1
  <2>2. CASE i # m + 1
    BY <1>6, <2>2 DEF ContractInv, Dues
  <2> QED BY <2>1, <2>2
<1>14. Waits'
  <2> SUFFICES ASSUME pc' \in {"timed", "timedWoken", "timedOut"}
               PROVE  /\ 1 <= cur'.id /\ cur'.id < nextId'
                      /\ \A i \in 1 .. Len(list') : list'[i].id = cur'.id => list'[i] = cur'
                      /\ (pc' = "timed" /\ ~ capped') => cur'.time <= deadline'
                      /\ (pc' = "timedOut" /\ ~ capped') => cur'.time <= clock'
    BY DEF Waits
  <2>1. /\ pc \in {"timed", "timedWoken", "timedOut"}
        /\ pc' = "timed" => pc = "timed"
        /\ pc' = "timedOut" => pc = "timedOut"
    BY InsertTypes
  <2>2. cur' = cur /\ cur.id \in Nat
    BY DEF TypeOK, Entry
  <2>3. 1 <= cur.id /\ cur.id < nextId
    BY <2>1 DEF ContractInv, Waits
  <2>4. \A i \in 1 .. Len(list') : list'[i].id = cur.id => list'[i] = cur
    <3> SUFFICES ASSUME NEW i \in 1 .. Len(list'), list'[i].id = cur.id PROVE list'[i] = cur
      OBVIOUS
    <3>1. i # m + 1
      BY <1>2, <1>6, <1>8, <2>2, <2>3
    <3> QED BY <1>6, <2>1, <3>1 DEF ContractInv, Waits
  <2> QED BY <1>2, <1>5, <2>1, <2>2, <2>3, <2>4 DEF ContractInv, Waits
<1>15. QueuedEvents' = QueuedEvents \cup ({e} \ {Abort})
  <2>1. DOMAIN list = 1 .. Len(list) /\ DOMAIN list' = 1 .. Len(list')
    BY <1>2, <1>3
  <2>2. \A d : d \in QueuedEvents' => d \in QueuedEvents \cup ({e} \ {Abort})
    BY <1>6, <1>8, <2>1 DEF QueuedEvents
  <2>3. \A d : d \in QueuedEvents => d \in QueuedEvents'
    BY <1>7, <2>1 DEF QueuedEvents
  <2>4. e # Abort => e \in QueuedEvents'
    BY <1>6, <1>8, <2>1 DEF QueuedEvents
  <2> QED BY <2>2, <2>3, <2>4
<1> QED BY <1>11, <1>12, <1>13, <1>14, <1>15

\* Without its n-th entry the list has one event less.
LEMMA ContractOfRemove ==
    ASSUME TypeOK, ContractInv, NEW n \in 1 .. Len(list), list' = Remove(list, n),
           nextId' = nextId, due' = due
    PROVE  /\ Ids' /\ Events' /\ Dues'
           /\ \A i \in 1 .. Len(list') : \E j \in 1 .. Len(list) : list'[i] = list[j]
           /\ QueuedEvents' = QueuedEvents \ {list[n].event}
<1> DEFINE old(i) == IF i < n THEN i ELSE i + 1
<1>1. list \in Seq(Entry) /\ Len(list) \in Nat
  BY DEF TypeOK
<1>2. list' \in Seq(Entry) /\ Removed(list', list, n)
  BY <1>1, RemoveRemoves
<1>3. /\ \A i \in 1 .. Len(list') :
            old(i) \in 1 .. Len(list) /\ old(i) # n /\ list'[i] = list[old(i)]
      /\ \A i, j \in 1 .. Len(list') : old(i) = old(j) => i = j
  BY <1>1, <1>2 DEF Removed
<1>4. \A i \in 1 .. Len(list) : i # n => \E j \in 1 .. Len(list') : list'[j] = list[i]
  <2> SUFFICES ASSUME NEW i \in 1 .. Len(list), i # n
               PROVE  \E j \in 1 .. Len(list') : list'[j] = list[i]
    OBVIOUS
  <2>1. CASE i < n
    BY <1>1, <1>2, <2>1 DEF Removed
  <2>2. CASE i > n
    <3>1. i - 1 \in 1 .. Len(list) - 1 /\ ~ (i - 1 < n) /\ (i - 1) + 1 = i
      BY <1>1, <2>2
    <3>2. list'[i - 1] = list[i]
      BY <1>2, <3>1 DEF Removed
    <3> QED BY <1>2, <3>1, <3>2 DEF Removed
  <2> QED BY <2>1, <2>2
<1> HIDE DEF old
<1>5. Ids'
  BY <1>3 DEF ContractInv, Ids
<1>6. Events'
  BY <1>3 DEF ContractInv, Events
<1>7. Dues'
  BY <1>3 DEF ContractInv, Dues
<1>8. QueuedEvents' = QueuedEvents \ {list[n].event}
  <2>1. DOMAIN list = 1 .. Len(list) /\ DOMAIN list' = 1 .. Len(list')
    BY <1>1, <1>2
  <2>2. \A d : d \in QueuedEvents' => d \in QueuedEvents /\ d # list[n].event
    BY <1>3, <2>1 DEF QueuedEvents, ContractInv, Events
  <2>3. \A d : (d \in QueuedEvents /\ d # list[n].event) => d \in QueuedEvents'
    BY <1>4, <2>1 DEF QueuedEvents
  <2> QED BY <2>2, <2>3
<1> QED BY <1>3, <1>5, <1>6, <1>7, <1>8

LEMMA ContractOfEmpty ==
    ASSUME list' = << >>
    PROVE  Ids' /\ Events' /\ Dues' /\ QueuedEvents' = {}
<1>1. Len(list') = 0 /\ DOMAIN list' = {}
  OBVIOUS
<1> QED BY <1>1 DEF Ids, Events, Dues, QueuedEvents
StepGoal == ContractInv' /\ [Contract!Next]_(Contract!vars)

LEMMA ContractStutters ==
    ASSUME UNCHANGED <<clock, due, executed>>, QueuedEvents' = QueuedEvents
    PROVE  [Contract!Next]_(Contract!vars)
BY DEF Contract!vars

LEMMA ContractDrops ==
    ASSUME UNCHANGED <<clock, due, executed>>,
           NEW S, S \subseteq QueuedEvents, QueuedEvents' = QueuedEvents \ S
    PROVE  [Contract!Next]_(Contract!vars)
<1>1. Contract!Drop(S) /\ S \in SUBSET QueuedEvents
  BY DEF Contract!Drop
<1> QED BY <1>1 DEF Contract!Next

LEMMA ContractOfSameList ==
    ASSUME ContractInv, UNCHANGED <<list, nextId, due>>
    PROVE  Ids' /\ Events' /\ Dues' /\ QueuedEvents' = QueuedEvents
BY DEF ContractInv, Ids, Events, Dues, QueuedEvents

LEMMA ContractOfSamePosts ==
    ASSUME ContractInv, UNCHANGED <<posting, due>>
    PROVE  Posts'
BY DEF ContractInv, Posts

\* Entries only leave, and the thread wakes at most.
LEMMA ContractOfWake ==
    ASSUME TypeOK, ContractInv, UNCHANGED <<cur, deadline, capped, nextId>>, clock' \in {clock, clock + 1},
           \A i \in 1 .. Len(list') : \E j \in 1 .. Len(list) : list'[i] = list[j],
           pc' = pc \/ pc' \notin {"timed", "timedOut"},
           pc' = "timedWoken" => pc \in {"timed", "timedWoken"}
    PROVE  Waits'
<1>1. clock \in Int /\ cur.time \in Int
  BY DEF TypeOK, Entry
<1>2. pc' \in {"timed", "timedWoken", "timedOut"} => pc \in {"timed", "timedWoken", "timedOut"}
  OBVIOUS
<1>3. pc' \in {"timed", "timedWoken", "timedOut"}
        => \A i \in 1 .. Len(list') : list'[i].id = cur.id => list'[i] = cur
  BY <1>2 DEF ContractInv, Waits
<1> QED BY <1>1, <1>2, <1>3 DEF ContractInv, Waits

LEMMA ContractOfThread ==
    ASSUME TypeOK, ContractInv, ThreadStep
    PROVE  StepGoal
<1>1. (Nothing \/ FallAsleep \/ Take \/ Leave) /\ threadUnchanged
  BY ThreadStepCases
<1>2. UNCHANGED <<nextId, posting, clock, due>> /\ Posts'
  BY <1>1, ContractOfSamePosts DEF threadUnchanged
<1>3. list \in Seq(Entry) /\ \A i \in 1 .. Len(list) : list[i] \in Entry
  BY DEF TypeOK
<1>4. CASE Nothing
  <2>1. Ids' /\ Events' /\ Dues' /\ QueuedEvents' = QueuedEvents
    BY <1>2, <1>4, ContractOfSameList DEF Nothing
  <2>2. Waits'
    BY <1>4 DEF Nothing, Waits
  <2> QED BY <1>2, <1>4, <2>1, <2>2, ContractStutters DEF Nothing, StepGoal, ContractInv
<1>5. CASE FallAsleep
  <2>1. Ids' /\ Events' /\ Dues' /\ QueuedEvents' = QueuedEvents
    BY <1>2, <1>5, ContractOfSameList DEF FallAsleep
  <2>2. 1 \in 1 .. Len(list) /\ list[1] \in Entry
    BY <1>3, <1>5 DEF FallAsleep
  <2>3. list[1].time \in Int /\ clock \in Int /\ Cap \in Int
    BY <2>2, TimedAssumption DEF Entry, TypeOK
  <2>4. ~ capped' => list[1].time <= deadline'
    <3>1. /\ capped' <=> (list[1].time - clock > Cap)
          /\ deadline' = clock + Min2(list[1].time - clock, Cap)
      BY <1>5 DEF FallAsleep
    <3> QED BY <2>3, <3>1 DEF Min2
  <2>5. /\ 1 <= list[1].id /\ list[1].id < nextId
        /\ \A i \in 1 .. Len(list) : list[i].id = list[1].id => list[i] = list[1]
    BY <2>2 DEF ContractInv, Ids
  <2>6. Waits'
    BY <1>2, <1>5, <2>4, <2>5 DEF FallAsleep, Waits
  <2> QED BY <1>2, <1>5, <2>1, <2>6, ContractStutters DEF FallAsleep, StepGoal, ContractInv
<1>6. CASE Take
  <2>1. PICK n \in 1 .. Len(list) :
            /\ list' = Remove(list, n)
            /\ pc' = IF list[n].event = Abort THEN "abort" ELSE "invoke"
            /\ executed' = IF list[n].event = Abort THEN executed ELSE executed \cup {list[n].event}
            /\ (n = 1 /\ IsDue(list[n])) \/ (pc = "timedOut" /\ ~ capped /\ list[n].id = cur.id)
    BY <1>6, TakesWhatIsFound
  <2>2. /\ Ids' /\ Events' /\ Dues'
        /\ QueuedEvents' = QueuedEvents \ {list[n].event}
    BY <1>2, <2>1, ContractOfRemove
  <2>3. Waits'
    BY <2>1 DEF Waits
  <2>4. [Contract!Next]_(Contract!vars)
    <3>1. CASE list[n].event = Abort
      <4>1. QueuedEvents' = QueuedEvents /\ executed' = executed
        BY <2>1, <2>2, <3>1 DEF QueuedEvents
      <4> QED BY <1>2, <4>1, ContractStutters
    <3>2. CASE list[n].event # Abort
      <4> DEFINE e == list[n].event
      <4>1. e \in Event /\ list[n].time \in Int /\ clock \in Nat
        BY <1>3, <3>2 DEF Entry, TypeOK
      <4>2. e \in QueuedEvents
        BY <1>3, <3>2 DEF QueuedEvents
      <4>3. due[e] = list[n].time
        BY <3>2 DEF ContractInv, Dues
      <4>4. list[n].time <= clock \/ list[n].time = INT64_MAX
        <5>1. CASE IsDue(list[n])
          BY <4>1, <5>1 DEF IsDue
        <5>2. CASE pc = "timedOut" /\ ~ capped /\ list[n].id = cur.id
          BY <5>2 DEF ContractInv, Waits
        <5> QED BY <2>1, <5>1, <5>2
      <4>5. Contract!Execute(e)
        BY <1>2, <2>1, <2>2, <3>2, <4>2, <4>3, <4>4 DEF Contract!Execute, Contract!Due
      <4> QED BY <4>1, <4>5 DEF Contract!Next
    <3> QED BY <3>1, <3>2
  <2> QED BY <1>2, <2>2, <2>3, <2>4 DEF StepGoal, ContractInv
<1>7. CASE Leave
  <2>1. Ids' /\ Events' /\ Dues' /\ QueuedEvents' = QueuedEvents \ QueuedEvents
    BY <1>7, ContractOfEmpty DEF Leave
  <2>2. Waits'
    BY <1>7 DEF Leave, Waits
  <2> QED BY <1>2, <1>7, <2>1, <2>2, ContractDrops DEF Leave, StepGoal, ContractInv
<1> QED BY <1>1, <1>4, <1>5, <1>6, <1>7

LEMMA ContractOfUsers ==
    ASSUME TypeOK, ContractInv, NoWrap, NoWrap', Post \/ Cancel
    PROVE  StepGoal
<1>1. ASSUME NEW e, NEW time, NEW prev, BeginPost(e, time, prev) PROVE StepGoal
  <2>1. UNCHANGED <<list, nextId, pc, cur, deadline, capped, clock, due, executed>>
    BY <1>1 DEF BeginPost, threadVars, history
  <2>2. Ids' /\ Events' /\ Dues' /\ QueuedEvents' = QueuedEvents
    BY <2>1, ContractOfSameList
  <2>3. Waits'
    BY <2>1, ContractOfWake
  <2>4. Posts'
    BY <1>1, <2>1 DEF BeginPost, ContractInv, Posts
  <2> QED BY <2>1, <2>2, <2>3, <2>4, ContractStutters DEF StepGoal, ContractInv
<1>2. ASSUME NEW p \in posting, PostTimedEvent(p) PROVE StepGoal
  <2>1. p.event \in Event /\ p.time \in Int /\ p.prev \in BOOLEAN /\ p.event # Abort
    BY TimedAssumption DEF TypeOK
  <2>2. p.event \notin DOMAIN due
    BY DEF ContractInv, Posts
  <2>3. /\ DOMAIN due' = DOMAIN due \cup {p.event}
        /\ due'[p.event] = p.time
        /\ \A d \in DOMAIN due : due'[d] = due[d]
    BY <1>2, <2>2 DEF PostTimedEvent
  <2>4. UNCHANGED <<cur, deadline, capped, clock, executed>> /\ posting' = posting \ {p}
    BY <1>2 DEF PostTimedEvent, history
  <2>5. /\ Ids' /\ Events' /\ Dues' /\ Waits'
        /\ QueuedEvents' = QueuedEvents \cup {p.event}
    <3>1. /\ list' = Insert(list, [event |-> p.event, id |-> nextId, time |-> p.time], p.prev)
          /\ nextId' = (nextId + 1) % IdRange
          /\ pc' = Signals(pc, list, p.time)
      BY <1>2 DEF PostTimedEvent
    <3> QED BY <2>1, <2>2, <2>3, <2>4, <3>1, ContractOfInsert
  <2>6. Posts'
    BY <2>3, <2>4 DEF ContractInv, Posts
  <2>7. Contract!Post(p.event)
    BY <2>2, <2>3, <2>4, <2>5 DEF Contract!Post
  <2> QED BY <2>1, <2>5, <2>6, <2>7 DEF StepGoal, ContractInv, Contract!Next
<1>3. ASSUME NEW id, CancelEvent(id) PROVE StepGoal
  <2> DEFINE n == FindId(list, id)
  <2>1. n \in 1 .. Len(list)
    BY <1>3, FindIdFinds DEF CancelEvent, TypeOK
  <2>2. /\ UNCHANGED <<nextId, posting, cur, deadline, capped, clock, due, executed>>
        /\ list[n].event # Abort
        /\ pc' = IF n = Begin(list) THEN SignalHeadChanged(pc) ELSE pc
        /\ list' = Remove(list, n)
    BY <1>3 DEF CancelEvent
  <2> HIDE DEF n
  <2>3. /\ Ids' /\ Events' /\ Dues'
        /\ \A i \in 1 .. Len(list') : \E j \in 1 .. Len(list) : list'[i] = list[j]
        /\ QueuedEvents' = QueuedEvents \ {list[n].event}
    BY <2>1, <2>2, ContractOfRemove
  <2>4. Posts'
    BY <2>2, ContractOfSamePosts
  <2>5. Waits'
    <3>1. (pc' = pc \/ pc' \notin {"timed", "timedOut"}) /\ (pc' = "timedWoken" => pc \in {"timed", "timedWoken"})
      BY <2>2 DEF SignalHeadChanged
    <3> QED BY <2>2, <2>3, <3>1, ContractOfWake
  <2>6. {list[n].event} \subseteq QueuedEvents
    BY <2>1, <2>2 DEF QueuedEvents, TypeOK
  <2> QED BY <2>2, <2>3, <2>4, <2>5, <2>6, ContractDrops DEF StepGoal, ContractInv
<1>4. CASE CancelAllEvents
  <2>1. /\ UNCHANGED <<nextId, posting, cur, deadline, capped, clock, due, executed>>
        /\ pc' = SignalHeadChanged(pc) /\ list' = << >>
    BY <1>4 DEF CancelAllEvents, Clear
  <2>2. Ids' /\ Events' /\ Dues' /\ QueuedEvents' = QueuedEvents \ QueuedEvents
    BY <2>1, ContractOfEmpty
  <2>3. Posts'
    BY <2>1, ContractOfSamePosts
  <2>4. Waits'
    <3>1. (pc' = pc \/ pc' \notin {"timed", "timedOut"}) /\ (pc' = "timedWoken" => pc \in {"timed", "timedWoken"})
      BY <2>1 DEF SignalHeadChanged
    <3>2. 1 .. Len(list') = {}
      BY <2>1
    <3> QED BY <2>1, <3>1, <3>2, ContractOfWake
  <2> QED BY <2>1, <2>2, <2>3, <2>4, ContractDrops DEF StepGoal, ContractInv
<1>5. Post => StepGoal
  BY <1>1, <1>2 DEF Post, PostEvent, PostEventToBack, PostEventWithDelay
<1>6. Cancel => StepGoal
  BY <1>3, <1>4 DEF Cancel
<1> QED BY <1>5, <1>6

LEMMA ContractOfOwner ==
    ASSUME TypeOK, ContractInv, NoWrap, NoWrap', Owner
    PROVE  StepGoal
<1> USE TimedAssumption
<1>1. CASE Startup \/ StartupFails
  <2>1. /\ UNCHANGED <<posting, clock, due, executed>>
        /\ list' = << >> /\ pc' \in {"top", "off"}
    BY <1>1 DEF Startup, StartupFails, history, threadVars
  <2>2. Ids' /\ Events' /\ Dues' /\ QueuedEvents' = QueuedEvents \ QueuedEvents
    BY <2>1, ContractOfEmpty
  <2>3. Posts' /\ Waits'
    BY <2>1, ContractOfSamePosts DEF Waits
  <2> QED BY <2>1, <2>2, <2>3, ContractDrops DEF StepGoal, ContractInv
<1>2. CASE StartupDone
  <2>1. UNCHANGED <<list, nextId, posting, pc, cur, deadline, capped, clock, due, executed>>
    BY <1>2 DEF StartupDone, threadVars, history
  <2>2. Ids' /\ Events' /\ Dues' /\ QueuedEvents' = QueuedEvents
    BY <2>1, ContractOfSameList
  <2>3. Posts' /\ Waits'
    BY <2>1, ContractOfSamePosts, ContractOfWake
  <2> QED BY <2>1, <2>2, <2>3, ContractStutters DEF StepGoal, ContractInv
<1>3. ASSUME NEW time \in Int, NEW prev \in BOOLEAN, PostAbort(time, prev) PROVE StepGoal
  <2>1. /\ UNCHANGED <<posting, cur, deadline, capped, clock, due, executed>>
        /\ list' = Insert(list, [event |-> Abort, id |-> nextId, time |-> time], prev)
        /\ nextId' = (nextId + 1) % IdRange
        /\ pc' = Signals(pc, list, time)
    BY <1>3 DEF PostAbort
  <2>2. /\ Ids' /\ Events' /\ Dues' /\ Waits'
        /\ QueuedEvents' = QueuedEvents
    BY <2>1, ContractOfInsert
  <2>3. Posts'
    BY <2>1, ContractOfSamePosts
  <2> QED BY <2>1, <2>2, <2>3, ContractStutters DEF StepGoal, ContractInv
<1>4. CASE ShutdownFlush \/ ShutdownSkip \/ ShutdownAsync
  <2>1. PostAbort(INT64_MAX, FALSE) \/ PostAbort(INT64_MIN, TRUE)
    BY <1>4 DEF ShutdownFlush, ShutdownSkip, ShutdownAsync
  <2>2. INT64_MAX \in Int /\ INT64_MIN \in Int
    BY DEF INT64_MIN
  <2> QED BY <1>3, <2>1, <2>2
<1>5. CASE ShutdownDone
  <2>1. UNCHANGED <<nextId, posting, pc, cur, deadline, capped, clock, due, executed>>
    BY <1>5 DEF ShutdownDone, threadVars, history
  <2>2. Posts'
    BY <2>1, ContractOfSamePosts
  <2>3. CASE list' = list
    <3>1. Ids' /\ Events' /\ Dues' /\ QueuedEvents' = QueuedEvents
      BY <2>1, <2>3, ContractOfSameList
    <3>2. Waits'
      BY <2>1, <2>3, ContractOfWake
    <3> QED BY <2>1, <2>2, <3>1, <3>2, ContractStutters DEF StepGoal, ContractInv
  <2>4. CASE list' = << >>
    <3>1. Ids' /\ Events' /\ Dues' /\ QueuedEvents' = QueuedEvents \ QueuedEvents
      BY <2>4, ContractOfEmpty
    <3>2. 1 .. Len(list') = {}
      BY <2>4
    <3>3. Waits'
      BY <2>1, <3>2, ContractOfWake
    <3> QED BY <2>1, <2>2, <3>1, <3>3, ContractDrops DEF StepGoal, ContractInv
  <2> QED BY <1>5, <2>3, <2>4 DEF ShutdownDone, Clear
<1> QED BY <1>1, <1>2, <1>4, <1>5 DEF Owner

LEMMA ContractStep ==
    ASSUME TypeOK, ContractInv, NoWrap, NoWrap', [Next]_vars
    PROVE  StepGoal
<1>1. CASE Tick
  <2>1. UNCHANGED <<list, nextId, posting, pc, cur, deadline, capped, due, executed>> /\ clock' = clock + 1
    BY <1>1 DEF Tick, threadVars, history
  <2>2. Ids' /\ Events' /\ Dues' /\ QueuedEvents' = QueuedEvents
    BY <2>1, ContractOfSameList
  <2>3. Posts' /\ Waits'
    BY <2>1, ContractOfSamePosts, ContractOfWake
  <2>4. Contract!Tick
    BY <2>1, <2>2 DEF Contract!Tick
  <2> QED BY <2>2, <2>3, <2>4 DEF StepGoal, ContractInv, Contract!Next
<1>2. CASE TimeOut
  <2>1. UNCHANGED <<list, nextId, posting, cur, deadline, capped, clock, due, executed>>
    BY <1>2 DEF TimeOut, history
  <2>2. Ids' /\ Events' /\ Dues' /\ QueuedEvents' = QueuedEvents
    BY <2>1, ContractOfSameList
  <2>3. ~ capped => cur.time <= clock
    <3>1. cur.time \in Int /\ clock \in Int /\ deadline \in Int
      BY DEF TypeOK, Entry
    <3> QED BY <1>2, <3>1 DEF TimeOut, ContractInv, Waits
  <2>4. Waits'
    BY <1>2, <2>1, <2>3 DEF TimeOut, ContractInv, Waits
  <2> QED BY <2>1, <2>2, <2>4, ContractOfSamePosts, ContractStutters DEF StepGoal, ContractInv
<1>3. CASE InvokeReturn \/ RequestAbort \/ SpuriousWake \/ UNCHANGED vars
  <2>1. /\ UNCHANGED <<list, nextId, posting, cur, deadline, capped, clock, due, executed>>
        /\ pc' = pc \/ pc' \notin {"timed", "timedOut"}
        /\ pc' = "timedWoken" => pc \in {"timed", "timedWoken"}
    BY <1>3 DEF InvokeReturn, RequestAbort, SpuriousWake, threadUnchanged, vars, threadVars, history
  <2>2. Ids' /\ Events' /\ Dues' /\ QueuedEvents' = QueuedEvents
    BY <2>1, ContractOfSameList
  <2>3. Posts' /\ Waits'
    BY <2>1, ContractOfSamePosts, ContractOfWake
  <2> QED BY <2>1, <2>2, <2>3, ContractStutters DEF StepGoal, ContractInv
<1>4. Worker => ThreadStep \/ TimeOut \/ InvokeReturn \/ RequestAbort
  BY DEF Worker, ThreadStep
<1> QED BY <1>1, <1>2, <1>3, <1>4, ContractOfThread, ContractOfUsers, ContractOfOwner DEF Next

LEMMA ContractInvHolds == Spec /\ []NoWrap => []ContractInv
<1>1. Init => ContractInv
  <2> SUFFICES ASSUME Init PROVE ContractInv
    OBVIOUS
  <2>1. Len(list) = 0
    BY DEF Init
  <2> QED BY <2>1 DEF Init, ContractInv, Ids, Events, Dues, Posts, Waits
<1>2. TypeOK /\ ContractInv /\ NoWrap /\ NoWrap' /\ [Next]_vars => ContractInv'
  BY ContractStep DEF StepGoal
<1> QED BY <1>1, <1>2, TypeCorrect, PTL DEF Spec

\* As long as the counter of ids has not wrapped, the queue implements its contract:
\* an event is executed at most once, not before its time, and not after CancelEvent,
\* CancelAllEvents or a shutdown has taken it out.
THEOREM ImplementsContractHolds == Spec /\ []NoWrap => ImplementsContract
<1>1. Init => Contract!Init
  <2> SUFFICES ASSUME Init PROVE Contract!Init
    OBVIOUS
  <2>1. QueuedEvents = {}
    BY DEF Init, QueuedEvents
  <2> QED BY <2>1 DEF Init, Contract!Init
<1>2. TypeOK /\ ContractInv /\ NoWrap /\ NoWrap' /\ [Next]_vars => [Contract!Next]_(Contract!vars)
  BY ContractStep DEF StepGoal
<1> QED BY <1>1, <1>2, TypeCorrect, ContractInvHolds, PTL DEF Spec, ImplementsContract, Contract!Spec

LEMMA NoneDroppedByStep == TypeOK /\ ContractInv /\ OffIsEmpty /\ [Next]_vars => NoneDropped
<1> SUFFICES ASSUME TypeOK, ContractInv, OffIsEmpty, [Next]_vars PROVE NoneDropped
  OBVIOUS
<1>1. CASE ThreadStep
  <2>1. Nothing \/ FallAsleep \/ Take \/ Leave
    BY <1>1, ThreadStepCases
  <2>2. CASE Nothing \/ FallAsleep
    BY <2>2, NoneDroppedBySameList DEF Nothing, FallAsleep
  <2>3. CASE Take
    <3>1. PICK n \in 1 .. Len(list) :
              /\ list' = Remove(list, n)
              /\ executed' = IF list[n].event = Abort THEN executed
                                                      ELSE executed \cup {list[n].event}
      BY <2>3, TakesWhatIsFound
    <3> QED BY <3>1, NoneDroppedByRemove
  <2>4. CASE Leave
    BY <1>1, <2>4, ThreadStepCases DEF Leave, NoneDropped
  <2> QED BY <2>1, <2>2, <2>3, <2>4
<1>2. CASE Tick \/ TimeOut \/ InvokeReturn \/ RequestAbort \/ SpuriousWake \/ UNCHANGED vars
  BY <1>2, NoneDroppedBySameList
     DEF Tick, TimeOut, InvokeReturn, RequestAbort, SpuriousWake, vars
<1>3. CASE Post
  <2>1. ASSUME NEW e, NEW time, NEW prev, BeginPost(e, time, prev) PROVE NoneDropped
    BY <2>1, NoneDroppedBySameList DEF BeginPost
  <2>2. ASSUME NEW p \in posting, PostTimedEvent(p) PROVE NoneDropped
    <3>1. p.event \in Event /\ p.time \in Int /\ p.prev \in BOOLEAN
      BY DEF TypeOK
    <3>2. list' = Insert(list, [event |-> p.event, id |-> nextId, time |-> p.time], p.prev)
      BY <2>2 DEF PostTimedEvent
    <3> QED BY <3>1, <3>2, NoneDroppedByInsert
  <2> QED BY <1>3, <2>1, <2>2 DEF Post, PostEvent, PostEventToBack, PostEventWithDelay
<1>4. CASE Cancel
  <2>1. ASSUME NEW id, CancelEvent(id) PROVE NoneDropped
    <3>1. FindId(list, id) \in 1 .. Len(list)
      BY <2>1, FindIdFinds DEF CancelEvent, TypeOK
    <3>2. /\ list' = Remove(list, FindId(list, id))
          /\ list[FindId(list, id)].event \in cancelled'
      BY <2>1 DEF CancelEvent
    <3> QED BY <3>1, <3>2, NoneDroppedByRemove
  <2>2. CASE CancelAllEvents
    BY <2>2 DEF CancelAllEvents, NoneDropped
  <2> QED BY <1>4, <2>1, <2>2 DEF Cancel
<1>5. CASE Owner
  <2>1. CASE Startup \/ StartupFails
    <3>1. list' = << >> /\ stopped' = stopped /\ (list = << >> \/ stopped)
      BY <2>1 DEF Startup, StartupFails, OffIsEmpty
    <3> QED BY <3>1, NoneDroppedBySameList DEF NoneDropped
  <2>2. CASE StartupDone
    BY <2>2, NoneDroppedBySameList DEF StartupDone
  <2>3. ASSUME NEW time \in Int, NEW prev \in BOOLEAN, PostAbort(time, prev) PROVE NoneDropped
    BY <2>3, NoneDroppedByInsert DEF PostAbort
  <2>4. CASE ShutdownFlush \/ ShutdownSkip \/ ShutdownAsync
    <3>1. PostAbort(INT64_MAX, FALSE) \/ PostAbort(INT64_MIN, TRUE)
      BY <2>4 DEF ShutdownFlush, ShutdownSkip, ShutdownAsync
    <3>2. INT64_MAX \in Int /\ INT64_MIN \in Int
      BY TimedAssumption DEF INT64_MIN
    <3> QED BY <2>3, <3>1, <3>2
  <2>5. CASE ShutdownDone
    BY <2>5 DEF ShutdownDone, NoneDropped
  <2> QED BY <1>5, <2>1, <2>2, <2>3, <2>4, <2>5 DEF Owner
<1> QED BY <1>1, <1>2, <1>3, <1>4, <1>5 DEF Next, Worker, ThreadStep

\* For any number of starts, failed ones among them, and as long as the counter of ids
\* has not wrapped: an event leaves the list only into its own callback, by a
\* cancellation, or when the queue is stopped.
THEOREM DroppedOnlyByShutdownHolds == Spec /\ []NoWrap => DroppedOnlyByShutdown
<1>1. TypeOK /\ ContractInv /\ OffIsEmpty /\ [Next]_vars => [NoneDropped]_vars
  BY NoneDroppedByStep
<1>2. Spec /\ []NoWrap => [][NoneDropped]_vars
  BY <1>1, TypeCorrect, ContractInvHolds, OffIsEmptyHolds, PTL DEF Spec
<1> QED BY <1>2 DEF DroppedOnlyByShutdown, NoneDropped

-----------------------------------------------------------------------------
(***************************************************************************)
(* A flushing Shutdown of the timed event queue loses no timed event.  The *)
(* argument: while the queue is open, nothing that has a time is behind an *)
(* entry posted to the back; so the QueueAbort of a flush is put behind    *)
(* everything timed; what is before it can only be executed or cancelled;  *)
(* and the thread takes the QueueAbort only when it is first.              *)
(***************************************************************************)

\* The owner may still call Shutdown.
Open == owner = "starting" \/ (owner = "out" /\ ~ stopped)

IsAbort(i) == list[i].event = Abort

\* One QueueAbort at most, and none while the queue is open.
AbortOnce ==
    /\ Open => pc # "abort" /\ \A i \in 1 .. Len(list) : ~ IsAbort(i)
    /\ \A i, j \in 1 .. Len(list) : IsAbort(i) /\ IsAbort(j) => i = j

Timely(p) == p.time \in AtOnce .. INT64_MAX /\ (p.prev \/ p.time \in {AtOnce, INT64_MAX})

\* The times that occur, and that nobody waits for a QueueAbort.
Times ==
    /\ \A i \in 1 .. Len(list) : ~ IsAbort(i) => list[i].time \in AtOnce .. INT64_MAX
    /\ \A p \in posting : Timely(p)
    /\ \A i \in 1 .. Len(list) : IsAbort(i) => list[i].time \in {INT64_MIN, INT64_MAX}
    /\ pc \in {"timed", "timedWoken", "timedOut"} => cur.event # Abort

LastOf(l) == \A i, j \in 1 .. Len(l) : (i < j /\ l[i].time = INT64_MAX) => l[j].time = INT64_MAX

MaxLast == Open => LastOf(list)

Finished == \A e \in flushed : due[e] < INT64_MAX => Flushed(e)

\* Everything timed is done with or before the QueueAbort, at k.
Before(k) ==
    /\ IsAbort(k)
    /\ \A e \in flushed :
          due[e] < INT64_MAX => Flushed(e) \/ \E i \in 1 .. k - 1 : list[i].event = e

Flushing ==
    \/ Finished
    \/ /\ owner = "joining" /\ ~ stopped /\ pc \notin {"abort", "off"}
       /\ \E k \in 1 .. Len(list) : Before(k)

ShutdownInv ==
    /\ AbortOnce /\ Times /\ MaxLast /\ Flushing
    /\ flushed \subseteq DOMAIN due

Premises == TypeOK /\ OffIsEmpty /\ ContractInv /\ NoWrap /\ NoWrap' /\ ShutdownInv

-----------------------------------------------------------------------------
(* Where an entry goes in an ordered list. *)

LEMMA InsertPlace ==
    ASSUME NEW l \in Seq(Entry), NEW x \in Entry, NEW prev \in BOOLEAN,
           \A i \in 1 .. Len(l) : l[i].time \in AtOnce .. INT64_MAX,
           LastOf(l),
           x.time \in INT64_MIN .. INT64_MAX,
           prev \/ x.time \in {AtOnce, INT64_MAX}
    PROVE  \E m \in 0 .. Len(l) :
              /\ Inserted(Insert(l, x, prev), l, m, x)
              /\ x.time = INT64_MAX => \A i \in m + 1 .. Len(l) : l[i].time = INT64_MAX
              /\ x.time < INT64_MAX => \A i \in 1 .. m : l[i].time < INT64_MAX
<1> DEFINE saved == FirstNotEarlier(l, x.time)
           node  == IF saved # 0 /\ prev /\ l[saved].time # x.time THEN Prev(l, saved) ELSE saved
           m     == IF saved = Begin(l) THEN 0 ELSE IF node = 0 THEN Len(l) ELSE node
<1>1. Len(l) \in Nat /\ INT64_MAX \in Nat /\ AtOnce = -1 /\ INT64_MIN = -2 /\ x.time \in Int
  BY TimedAssumption DEF AtOnce, INT64_MIN, Entry
<1>2. \A i \in 1 .. Len(l) : l[i].time \in Int /\ l[i].time >= -1 /\ l[i].time <= INT64_MAX
  BY <1>1
<1>3. /\ saved \in 0 .. Len(l)
      /\ saved = 0 => \A i \in 1 .. Len(l) : l[i].time < x.time
      /\ saved # 0 => /\ l[saved].time >= x.time
                      /\ \A i \in 1 .. saved - 1 : l[i].time < x.time
  BY FirstNotEarlierFinds
<1>4. Insert(l, x, prev) = IF saved = Begin(l) THEN PushFront(l, x) ELSE InsertBack(l, node, x)
  BY DEF Insert
<1>5. l = << >> <=> Len(l) = 0
  OBVIOUS
<1> HIDE DEF saved
<1>6. node \in 0 .. Len(l) /\ m \in 0 .. Len(l)
  BY <1>1, <1>3 DEF Prev
<1>7. Inserted(Insert(l, x, prev), l, m, x)
  <2>1. CASE saved = Begin(l)
    BY <1>4, <2>1, PushFrontInserts
  <2>2. CASE saved # Begin(l)
    <3>1. m = IF node = 0 THEN Len(l) ELSE node
      BY <2>2
    <3> HIDE DEF node, m
    <3>2. Inserted(InsertBack(l, node, x), l, IF node = 0 THEN Len(l) ELSE node, x)
      BY <1>6, InsertBackInserts
    <3> QED BY <1>4, <2>2, <3>1, <3>2
  <2> QED BY <2>1, <2>2
<1>8. CASE saved = 0
  <2>1. \A i \in 1 .. Len(l) : l[i].time < INT64_MAX
    BY <1>1, <1>2, <1>3, <1>8
  <2>2. m = Len(l)
    BY <1>1, <1>5, <1>8 DEF Begin
  <2> QED BY <1>1, <1>6, <1>7, <2>1, <2>2
<1>9. CASE saved = 1
  <2>1. m = 0
    BY <1>1, <1>3, <1>5, <1>9 DEF Begin
  <2>2. x.time = INT64_MAX => \A i \in 1 .. Len(l) : l[i].time = INT64_MAX
    <3> SUFFICES ASSUME x.time = INT64_MAX, NEW i \in 1 .. Len(l) PROVE l[i].time = INT64_MAX
      OBVIOUS
    <3>1. 1 \in 1 .. Len(l) /\ l[1].time = INT64_MAX
      BY <1>1, <1>2, <1>3, <1>9
    <3>2. i = 1 \/ 1 < i
      OBVIOUS
    <3> QED BY <3>1, <3>2 DEF LastOf
  <2> QED BY <1>1, <1>6, <1>7, <2>1, <2>2
<1>10. CASE saved > 1
  <2>1. /\ saved \in 1 .. Len(l) /\ saved # Begin(l)
        /\ \A i \in 1 .. saved - 1 : l[i].time < x.time
        /\ l[saved].time >= x.time
    BY <1>1, <1>3, <1>10 DEF Begin
  <2>2. CASE l[saved].time = x.time
    <3>1. m = saved
      BY <1>10, <2>1, <2>2
    <3>2. x.time = INT64_MAX => \A i \in saved + 1 .. Len(l) : l[i].time = INT64_MAX
      <4> SUFFICES ASSUME x.time = INT64_MAX, NEW i \in saved + 1 .. Len(l) PROVE l[i].time = INT64_MAX
        OBVIOUS
      <4>1. i \in 1 .. Len(l) /\ saved < i
        BY <1>1, <2>1
      <4> QED BY <2>1, <2>2, <4>1 DEF LastOf
    <3>3. x.time < INT64_MAX => \A i \in 1 .. saved : l[i].time < INT64_MAX
      <4> SUFFICES ASSUME x.time < INT64_MAX, NEW i \in 1 .. saved PROVE l[i].time < INT64_MAX
        OBVIOUS
      <4>1. i \in 1 .. saved - 1 \/ i = saved
        BY <2>1
      <4>2. i \in 1 .. Len(l) /\ l[i].time \in Int
        BY <1>1, <1>2, <2>1
      <4> QED BY <1>1, <2>1, <2>2, <4>1, <4>2
    <3> HIDE DEF m
    <3> QED BY <1>6, <1>7, <3>1, <3>2, <3>3
  <2>3. CASE l[saved].time # x.time
    <3>1. x.time < INT64_MAX
      BY <1>1, <1>2, <2>1, <2>3
    <3>2. x.time # AtOnce
      <4>1. 1 \in 1 .. saved - 1 /\ 1 \in 1 .. Len(l)
        BY <1>1, <1>10, <2>1
      <4>2. l[1].time < x.time /\ l[1].time >= -1 /\ l[1].time \in Int
        BY <1>2, <2>1, <4>1
      <4> QED BY <1>1, <4>2
    <3>3. prev
      BY <1>1, <3>1, <3>2
    <3>4. m = saved - 1
      BY <1>10, <2>1, <2>3, <3>3 DEF Prev
    <3>5. \A i \in 1 .. saved - 1 : l[i].time < INT64_MAX
      <4> TAKE i \in 1 .. saved - 1
      <4>1. i \in 1 .. Len(l) /\ l[i].time \in Int /\ l[i].time < x.time
        BY <1>1, <1>2, <2>1
      <4> QED BY <1>1, <3>1, <4>1
    <3> HIDE DEF m
    <3> QED BY <1>1, <1>6, <1>7, <3>1, <3>4, <3>5
  <2> QED BY <2>2, <2>3
<1> QED BY <1>3, <1>8, <1>9, <1>10
-----------------------------------------------------------------------------
(* Entries keep their order when one is put in or taken out. *)

New(m, i)  == IF i <= m THEN i ELSE i + 1
Kept(n, i) == IF i < n THEN i ELSE i - 1

LEMMA InsertOrder ==
    ASSUME NEW l, Len(l) \in Nat, NEW s, NEW m \in 0 .. Len(l), NEW x, Inserted(s, l, m, x)
    PROVE  /\ Len(s) = Len(l) + 1 /\ m + 1 \in 1 .. Len(s) /\ s[m + 1] = x
           /\ \A i \in 1 .. Len(l) :
                 New(m, i) \in 1 .. Len(s) /\ New(m, i) # m + 1 /\ s[New(m, i)] = l[i]
           /\ \A j \in 1 .. Len(s) : j = m + 1 \/ \E i \in 1 .. Len(l) : j = New(m, i)
           /\ \A i, j \in 1 .. Len(l) : i < j => New(m, i) < New(m, j)
<1>1. Len(s) = Len(l) + 1 /\ m + 1 \in 1 .. Len(s) /\ s[m + 1] = x
  BY DEF Inserted
<1>2. \A i \in 1 .. Len(l) :
          New(m, i) \in 1 .. Len(s) /\ New(m, i) # m + 1 /\ s[New(m, i)] = l[i]
  <2> TAKE i \in 1 .. Len(l)
  <2>1. CASE i <= m
    BY <1>1, <2>1 DEF New, Inserted
  <2>2. CASE i > m
    <3>1. i + 1 \in 1 .. Len(l) + 1 /\ ~ (i + 1 <= m) /\ i + 1 # m + 1 /\ (i + 1) - 1 = i
      BY <2>2
    <3>2. s[i + 1] = l[i]
      BY <3>1 DEF Inserted
    <3> QED BY <1>1, <2>2, <3>1, <3>2 DEF New
  <2> QED BY <2>1, <2>2
<1>3. \A j \in 1 .. Len(s) : j = m + 1 \/ \E i \in 1 .. Len(l) : j = New(m, i)
  <2> SUFFICES ASSUME NEW j \in 1 .. Len(s), j # m + 1 PROVE \E i \in 1 .. Len(l) : j = New(m, i)
    OBVIOUS
  <2>1. CASE j <= m
    BY <1>1, <2>1 DEF New
  <2>2. CASE j > m + 1
    <3>1. j - 1 \in 1 .. Len(l) /\ j = New(m, j - 1)
      BY <1>1, <2>2 DEF New
    <3> QED BY <3>1
  <2> QED BY <1>1, <2>1, <2>2
<1>4. \A i, j \in 1 .. Len(l) : i < j => New(m, i) < New(m, j)
  BY DEF New
<1> QED BY <1>1, <1>2, <1>3, <1>4

LEMMA RemoveOrder ==
    ASSUME NEW l, Len(l) \in Nat, NEW s, NEW n \in 1 .. Len(l), Removed(s, l, n)
    PROVE  /\ Len(s) \in Nat
           /\ \A i \in 1 .. Len(l) : i # n => Kept(n, i) \in 1 .. Len(s) /\ s[Kept(n, i)] = l[i]
           /\ \A j \in 1 .. Len(s) : \E i \in 1 .. Len(l) : i # n /\ j = Kept(n, i)
           /\ \A i, j \in 1 .. Len(l) :
                 (i # n /\ j # n) => (i < j <=> Kept(n, i) < Kept(n, j))
<1>1. Len(s) = Len(l) - 1 /\ Len(s) \in Nat
  BY DEF Removed
<1>2. \A i \in 1 .. Len(l) : i # n => Kept(n, i) \in 1 .. Len(s) /\ s[Kept(n, i)] = l[i]
  <2> SUFFICES ASSUME NEW i \in 1 .. Len(l), i # n
               PROVE  Kept(n, i) \in 1 .. Len(s) /\ s[Kept(n, i)] = l[i]
    OBVIOUS
  <2>1. CASE i < n
    BY <1>1, <2>1 DEF Kept, Removed
  <2>2. CASE i > n
    <3>1. i - 1 \in 1 .. Len(l) - 1 /\ ~ (i - 1 < n) /\ (i - 1) + 1 = i
      BY <2>2
    <3>2. s[i - 1] = l[i]
      BY <3>1 DEF Removed
    <3> QED BY <1>1, <2>2, <3>1, <3>2 DEF Kept
  <2> QED BY <2>1, <2>2
<1>3. \A j \in 1 .. Len(s) : \E i \in 1 .. Len(l) : i # n /\ j = Kept(n, i)
  <2> TAKE j \in 1 .. Len(s)
  <2>1. CASE j < n
    BY <1>1, <2>1 DEF Kept
  <2>2. CASE j >= n
    <3>1. j + 1 \in 1 .. Len(l) /\ j + 1 # n /\ j = Kept(n, j + 1)
      BY <1>1, <2>2 DEF Kept
    <3> QED BY <3>1
  <2> QED BY <1>1, <2>1, <2>2
<1>4. \A i, j \in 1 .. Len(l) : (i # n /\ j # n) => (i < j <=> Kept(n, i) < Kept(n, j))
  BY DEF Kept
<1> QED BY <1>1, <1>2, <1>3, <1>4

-----------------------------------------------------------------------------
(* What a step that puts in, or takes out, one entry preserves. *)

LEMMA FinishedStays ==
    ASSUME flushed \subseteq DOMAIN due, Finished, flushed' = flushed,
           \A e \in DOMAIN due : due'[e] = due[e],
           executed \subseteq executed', cancelled \subseteq cancelled'
    PROVE  Finished'
BY DEF Finished, Flushed

LEMMA FlushStays ==
    ASSUME ShutdownInv, NEW k \in 1 .. Len(list), Before(k),
           owner = "joining" /\ ~ stopped /\ pc \notin {"abort", "off"},
           UNCHANGED <<owner, stopped, flushed>>, pc' \notin {"abort", "off"},
           \A e \in DOMAIN due : due'[e] = due[e],
           executed \subseteq executed', cancelled \subseteq cancelled',
           NEW k2 \in 1 .. Len(list'), list'[k2] = list[k],
           \A i \in 1 .. k - 1 : \/ list[i].event \in executed' \cup cancelled'
                                 \/ \E j \in 1 .. k2 - 1 : list'[j] = list[i]
    PROVE  Flushing'
<1>1. flushed \subseteq DOMAIN due
  BY DEF ShutdownInv
<1>2. IsAbort(k2)'
  BY DEF Before, IsAbort
<1>3. ASSUME NEW e \in flushed', due'[e] < INT64_MAX
      PROVE  Flushed(e)' \/ \E j \in 1 .. k2 - 1 : list'[j].event = e
  <2>1. e \in flushed /\ due[e] < INT64_MAX
    BY <1>1, <1>3
  <2>2. Flushed(e) \/ \E i \in 1 .. k - 1 : list[i].event = e
    BY <2>1 DEF Before
  <2>3. CASE Flushed(e)
    BY <2>3 DEF Flushed
  <2>4. ASSUME NEW i \in 1 .. k - 1, list[i].event = e
        PROVE  Flushed(e)' \/ \E j \in 1 .. k2 - 1 : list'[j].event = e
    BY <2>4 DEF Flushed
  <2> QED BY <2>2, <2>3, <2>4
<1>4. Before(k2)'
  BY <1>2, <1>3 DEF Before
<1> QED BY <1>4 DEF Flushing

LEMMA InsertStays ==
    ASSUME Premises,
           NEW e \in Event, NEW time \in AtOnce .. INT64_MAX, NEW prev \in BOOLEAN,
           prev \/ time \in {AtOnce, INT64_MAX},
           list' = Insert(list, [event |-> e, id |-> nextId, time |-> time], prev),
           nextId' = (nextId + 1) % IdRange,
           pc' = Signals(pc, list, time),
           UNCHANGED <<owner, stopped, built, cur, executed, cancelled, flushed>>,
           posting' \subseteq posting,
           \A d \in DOMAIN due : d \in DOMAIN due' /\ due'[d] = due[d]
    PROVE  ShutdownInv'
<1> DEFINE x == [event |-> e, id |-> nextId, time |-> time]
<1> USE DEF Premises
<1>1. /\ list \in Seq(Entry) /\ Len(list) \in Nat /\ x \in Entry /\ time \in Int
      /\ x.event = e /\ x.time = time /\ e # Abort
  BY TimedAssumption DEF TypeOK, Entry, AtOnce
<1>2. /\ pc' \in {pc, "emptyWoken", "timedWoken"}
      /\ pc' \in {"timed", "timedWoken", "timedOut"} => pc \in {"timed", "timedWoken", "timedOut"}
  BY <1>1, InsertTypes
<1>3. PICK m \in 0 .. Len(list) : Inserted(list', list, m, x)
  <2> HIDE DEF x
  <2>1. list' = Insert(list, x, prev)
    BY DEF x
  <2> QED BY <1>1, <2>1, InsertInserts
<1> HIDE DEF x
<1>4. /\ \A i \in 1 .. Len(list) :
            New(m, i) \in 1 .. Len(list') /\ New(m, i) # m + 1 /\ list'[New(m, i)] = list[i]
      /\ \A j \in 1 .. Len(list') : j = m + 1 \/ \E i \in 1 .. Len(list) : j = New(m, i)
      /\ \A i, j \in 1 .. Len(list) : i < j => New(m, i) < New(m, j)
      /\ list'[m + 1] = x
  BY <1>1, <1>3, InsertOrder
<1>5. \A j \in 1 .. Len(list') :
          \/ list'[j] = x
          \/ \E i \in 1 .. Len(list) : j = New(m, i) /\ list'[j] = list[i]
  BY <1>4
<1>6. AbortOnce'
  BY <1>1, <1>2, <1>5 DEF ShutdownInv, AbortOnce, IsAbort, Open
<1>7. Times'
  BY <1>1, <1>2, <1>5 DEF ShutdownInv, Times, IsAbort
<1>8. MaxLast'
  <2> SUFFICES ASSUME Open PROVE LastOf(list')
    BY DEF MaxLast, Open
  <2>1. LastOf(list) /\ \A i \in 1 .. Len(list) : list[i].time \in AtOnce .. INT64_MAX
    BY DEF ShutdownInv, MaxLast, AbortOnce, Times
  <2>2. PICK n \in 0 .. Len(list) :
            /\ Inserted(list', list, n, x)
            /\ x.time = INT64_MAX => \A i \in n + 1 .. Len(list) : list[i].time = INT64_MAX
            /\ x.time < INT64_MAX => \A i \in 1 .. n : list[i].time < INT64_MAX
    <3>1. x.time \in INT64_MIN .. INT64_MAX
      BY <1>1, TimedAssumption DEF INT64_MIN, AtOnce
    <3>2. list' = Insert(list, x, prev) /\ (prev \/ x.time \in {AtOnce, INT64_MAX})
      BY <1>1 DEF x
    <3> QED BY <1>1, <2>1, <3>1, <3>2, InsertPlace
  <2>3. /\ list'[n + 1] = x
        /\ \A i \in 1 .. Len(list) : list'[New(n, i)] = list[i]
        /\ \A j \in 1 .. Len(list') : j = n + 1 \/ \E i \in 1 .. Len(list) : j = New(n, i)
        /\ \A i, j \in 1 .. Len(list) : New(n, i) < New(n, j) => i < j
        /\ \A i \in 1 .. Len(list) : (New(n, i) < n + 1 <=> i <= n) /\ (n + 1 < New(n, i) <=> i > n)
    <3>1. Inserted(list', list, n, x) /\ Len(list) \in Nat /\ n \in 0 .. Len(list)
      BY <1>1, <2>2
    <3>2. /\ list'[n + 1] = x
          /\ \A i \in 1 .. Len(list) : list'[New(n, i)] = list[i]
          /\ \A j \in 1 .. Len(list') : j = n + 1 \/ \E i \in 1 .. Len(list) : j = New(n, i)
      BY <3>1, InsertOrder
    <3>3. /\ \A i, j \in 1 .. Len(list) : New(n, i) < New(n, j) => i < j
          /\ \A i \in 1 .. Len(list) : (New(n, i) < n + 1 <=> i <= n) /\ (n + 1 < New(n, i) <=> i > n)
      BY <1>1 DEF New
    <3> QED BY <3>2, <3>3
  <2> SUFFICES ASSUME NEW i \in 1 .. Len(list'), NEW j \in 1 .. Len(list'), i < j,
                      list'[i].time = INT64_MAX
               PROVE  list'[j].time = INT64_MAX
    BY DEF LastOf
  <2>4. CASE i = n + 1
    <3>1. PICK b \in 1 .. Len(list) : j = New(n, b)
      BY <2>3, <2>4
    <3>2. b > n
      BY <2>3, <2>4, <3>1
    <3>3. b \in n + 1 .. Len(list)
      BY <3>2
    <3> QED BY <2>2, <2>3, <2>4, <3>1, <3>3
  <2>5. CASE j = n + 1
    <3>1. PICK a \in 1 .. Len(list) : i = New(n, a)
      BY <2>3, <2>5
    <3>2. a <= n
      BY <2>3, <2>5, <3>1
    <3>3. a \in 1 .. n
      BY <3>2
    <3>4. ~ (x.time < INT64_MAX)
      BY <2>2, <2>3, <3>1, <3>3, TimedAssumption
    <3> QED BY <1>1, <2>3, <2>5, <3>4, TimedAssumption
  <2>6. CASE i # n + 1 /\ j # n + 1
    <3>1. PICK a \in 1 .. Len(list) : i = New(n, a)
      BY <2>3, <2>6
    <3>2. PICK b \in 1 .. Len(list) : j = New(n, b)
      BY <2>3, <2>6
    <3> QED BY <2>1, <2>3, <3>1, <3>2 DEF LastOf
  <2> QED BY <2>4, <2>5, <2>6
<1>9. Flushing'
  <2>1. CASE Finished
    BY <2>1, FinishedStays DEF ShutdownInv, Flushing
  <2>2. CASE ~ Finished
    <3>1. PICK k \in 1 .. Len(list) : Before(k)
      BY <2>2 DEF ShutdownInv, Flushing
    <3>2. owner = "joining" /\ ~ stopped /\ pc \notin {"abort", "off"}
      BY <2>2 DEF ShutdownInv, Flushing
    <3>3. ASSUME NEW i \in 1 .. k - 1
          PROVE  \E j \in 1 .. New(m, k) - 1 : list'[j] = list[i]
      <4>1. i \in 1 .. Len(list) /\ i < k
        BY <1>1
      <4>2. New(m, i) \in 1 .. Len(list') /\ New(m, k) \in 1 .. Len(list') /\ New(m, i) < New(m, k)
        BY <1>4, <4>1
      <4>3. New(m, i) \in 1 .. New(m, k) - 1
        BY <4>2
      <4> QED BY <1>4, <4>1, <4>3
    <3>4. New(m, k) \in 1 .. Len(list') /\ list'[New(m, k)] = list[k]
      BY <1>4
    <3>5. pc' \notin {"abort", "off"}
      BY <1>2, <3>2
    <3> QED BY <3>1, <3>2, <3>3, <3>4, <3>5, FlushStays
  <2> QED BY <2>1, <2>2
<1>10. flushed' \subseteq DOMAIN due'
  BY DEF ShutdownInv
<1> QED BY <1>6, <1>7, <1>8, <1>9, <1>10 DEF ShutdownInv
\* The QueueAbort of a Shutdown.
LEMMA AbortStays ==
    ASSUME Premises, NEW time, NEW prev, PostAbort(time, prev),
           \/ time = INT64_MAX /\ prev = FALSE
           \/ time = INT64_MIN /\ prev = TRUE,
           \/ flushed' = flushed
           \/ time = INT64_MAX /\ flushed' = QueuedEvents /\ owner' = "joining",
           owner' \in {"joining", "leaving"}
    PROVE  ShutdownInv'
<1> DEFINE x == [event |-> Abort, id |-> nextId, time |-> time]
<1> USE DEF Premises
<1>1. /\ owner = "out" /\ ~ stopped /\ started /\ Open /\ built
      /\ list' = Insert(list, x, prev)
      /\ nextId' = (nextId + 1) % IdRange
      /\ pc' = Signals(pc, list, time)
      /\ UNCHANGED <<stopped, built, posting, cur, due, executed, cancelled>>
  BY DEF PostAbort, Open
<1>2. /\ list \in Seq(Entry) /\ Len(list) \in Nat /\ x \in Entry /\ prev \in BOOLEAN
      /\ time \in Int /\ time \in INT64_MIN .. INT64_MAX /\ (prev \/ time \in {AtOnce, INT64_MAX})
      /\ x.event = Abort /\ x.time = time
  <2>1. list \in Seq(Entry) /\ Len(list) \in Nat /\ nextId \in 0 .. IdRange - 1
    BY DEF TypeOK
  <2>2. /\ INT64_MAX \in Nat /\ INT64_MIN = -2 /\ prev \in BOOLEAN
        /\ time \in Int /\ time \in INT64_MIN .. INT64_MAX
    <3>1. INT64_MAX \in Nat /\ INT64_MIN = -2
      BY TimedAssumption DEF INT64_MIN
    <3>2. time = INT64_MAX \/ time = INT64_MIN
      OBVIOUS
    <3>3. prev \in BOOLEAN
      OBVIOUS
    <3> QED BY <3>1, <3>2, <3>3
  <2>3. prev \/ time \in {AtOnce, INT64_MAX}
    OBVIOUS
  <2> QED BY <2>1, <2>2, <2>3 DEF Entry
<1>3. /\ pc' \in {pc, "emptyWoken", "timedWoken"}
      /\ pc' \in {"timed", "timedWoken", "timedOut"} => pc \in {"timed", "timedWoken", "timedOut"}
  BY <1>1, <1>2, InsertTypes
<1>4. /\ pc \notin {"abort", "off"}
      /\ \A i \in 1 .. Len(list) : ~ IsAbort(i) /\ list[i].time \in AtOnce .. INT64_MAX
      /\ LastOf(list)
  BY <1>1 DEF ShutdownInv, AbortOnce, MaxLast, Times, OffIsEmpty
<1> HIDE DEF x
<1>5. PICK m \in 0 .. Len(list) :
          /\ Inserted(list', list, m, x)
          /\ x.time = INT64_MAX => \A i \in m + 1 .. Len(list) : list[i].time = INT64_MAX
  BY <1>1, <1>2, <1>4, InsertPlace
<1>6. /\ list'[m + 1] = x /\ m + 1 \in 1 .. Len(list')
      /\ \A i \in 1 .. Len(list) :
            New(m, i) \in 1 .. Len(list') /\ list'[New(m, i)] = list[i]
      /\ \A j \in 1 .. Len(list') : j = m + 1 \/ \E i \in 1 .. Len(list) : j = New(m, i)
  <2>1. Inserted(list', list, m, x) /\ Len(list) \in Nat /\ m \in 0 .. Len(list)
    BY <1>2, <1>5
  <2>2. /\ \A i \in 1 .. Len(list) :
              New(m, i) \in 1 .. Len(list') /\ New(m, i) # m + 1 /\ list'[New(m, i)] = list[i]
        /\ \A j \in 1 .. Len(list') : j = m + 1 \/ \E i \in 1 .. Len(list) : j = New(m, i)
    <3> DEFINE s == list'
    <3> HIDE DEF Premises
    <3>1. Inserted(s, list, m, x)
      BY <2>1
    <3> HIDE DEF s
    <3>2. /\ \A i \in 1 .. Len(list) :
                New(m, i) \in 1 .. Len(s) /\ New(m, i) # m + 1 /\ s[New(m, i)] = list[i]
          /\ \A j \in 1 .. Len(s) : j = m + 1 \/ \E i \in 1 .. Len(list) : j = New(m, i)
      BY <2>1, <3>1, InsertOrder, SMTT(30)
    <3> QED BY <3>2 DEF s
  <2>3. list'[m + 1] = x /\ m + 1 \in 1 .. Len(list')
    BY <2>1 DEF Inserted
  <2> QED BY <2>2, <2>3
<1>7. \A j \in 1 .. Len(list') :
          \/ j = m + 1 /\ list'[j] = x
          \/ \E i \in 1 .. Len(list) : list'[j] = list[i]
  BY <1>6
<1>8. ~ Open'
  BY DEF Open
<1>9. AbortOnce'
  BY <1>4, <1>7, <1>8 DEF AbortOnce, IsAbort
<1>10. Times'
  BY <1>1, <1>2, <1>3, <1>7 DEF ShutdownInv, Times, IsAbort
<1>11. Finished
  BY <1>1 DEF ShutdownInv, Flushing
<1>12. CASE flushed' = flushed
  <2>1. Finished'
    BY <1>1, <1>11, <1>12, FinishedStays DEF ShutdownInv
  <2> QED BY <1>1, <1>3, <1>8, <1>9, <1>10, <1>12, <2>1 DEF ShutdownInv, MaxLast, Flushing
<1>13. CASE time = INT64_MAX /\ flushed' = QueuedEvents /\ owner' = "joining"
  <2>1. ASSUME NEW e \in QueuedEvents
        PROVE  /\ e \in DOMAIN due
               /\ due[e] < INT64_MAX => \E j \in 1 .. m : list'[j].event = e
    <3>1. PICK i \in 1 .. Len(list) : list[i].event = e /\ e # Abort
      BY <1>2 DEF QueuedEvents
    <3>2. e \in DOMAIN due /\ due[e] = list[i].time
      BY <3>1 DEF ContractInv, Dues
    <3>3. ASSUME due[e] < INT64_MAX PROVE \E j \in 1 .. m : list'[j].event = e
      <4>1. list[i].time < INT64_MAX /\ list[i].time \in Int /\ INT64_MAX \in Int
        BY <1>4, <3>2, <3>3, TimedAssumption DEF AtOnce
      <4>2. i \notin m + 1 .. Len(list)
        BY <1>2, <1>5, <1>13, <4>1
      <4>3. i \in 1 .. m
        BY <1>2, <4>2
      <4>4. list'[i] = list[i]
        BY <1>6, <4>3 DEF New
      <4> QED BY <3>1, <4>3, <4>4
    <3> QED BY <3>2, <3>3
  <2>2. Before(m + 1)'
    <3>1. list'[m + 1].event = Abort
      BY <1>2, <1>6
    <3>2. \A e \in flushed' : due'[e] < INT64_MAX => \E j \in 1 .. (m + 1) - 1 : list'[j].event = e
      BY <1>1, <1>13, <2>1
    <3> QED BY <3>1, <3>2 DEF Before, IsAbort
  <2>3. Flushing'
    BY <1>1, <1>3, <1>4, <1>6, <1>13, <2>2 DEF Flushing
  <2>4. flushed' \subseteq DOMAIN due'
    BY <1>1, <1>13, <2>1
  <2> QED BY <1>1, <1>3, <1>4, <1>8, <1>9, <1>10, <2>3, <2>4 DEF ShutdownInv, MaxLast
<1> QED BY <1>12, <1>13

\* An event that is executed or cancelled.
LEMMA RemoveStays ==
    ASSUME Premises, NEW n \in 1 .. Len(list), list' = Remove(list, n), ~ IsAbort(n),
           list[n].event \in executed' \cup cancelled',
           executed \subseteq executed', cancelled \subseteq cancelled',
           UNCHANGED <<owner, stopped, posting, due, flushed>>,
           pc' \in {"abort", "off"} => pc' = pc /\ built' = built,
           pc' \in {"timed", "timedWoken", "timedOut"} =>
               cur' = cur /\ pc \in {"timed", "timedWoken", "timedOut"}
    PROVE  ShutdownInv'
<1> USE DEF Premises
<1>1. list \in Seq(Entry) /\ Len(list) \in Nat
  BY DEF TypeOK
<1>2. Removed(list', list, n)
  BY <1>1, RemoveRemoves
<1>3. /\ \A i \in 1 .. Len(list) :
            i # n => Kept(n, i) \in 1 .. Len(list') /\ list'[Kept(n, i)] = list[i]
      /\ \A j \in 1 .. Len(list') : \E i \in 1 .. Len(list) : i # n /\ j = Kept(n, i)
      /\ \A i, j \in 1 .. Len(list) : (i # n /\ j # n) => (i < j <=> Kept(n, i) < Kept(n, j))
  <2> HIDE DEF Premises
  <2> QED BY <1>1, <1>2, RemoveOrder, SMTT(60)
<1>4. \A j \in 1 .. Len(list') : \E i \in 1 .. Len(list) : i # n /\ j = Kept(n, i) /\ list'[j] = list[i]
  BY <1>3
<1>5. AbortOnce'
  <2> HIDE DEF Premises
  <2>1. AbortOnce
    BY DEF Premises, ShutdownInv
  <2>2. Open' => pc' # "abort" /\ \A j \in 1 .. Len(list') : ~ IsAbort(j)'
    BY <1>4, <2>1 DEF AbortOnce, IsAbort, Open
  <2>3. ASSUME NEW i \in 1 .. Len(list'), NEW j \in 1 .. Len(list'), IsAbort(i)', IsAbort(j)'
        PROVE  i = j
    <3>1. PICK a \in 1 .. Len(list) : i = Kept(n, a) /\ list'[i] = list[a]
      BY <1>4
    <3>2. PICK b \in 1 .. Len(list) : j = Kept(n, b) /\ list'[j] = list[b]
      BY <1>4
    <3>3. IsAbort(a) /\ IsAbort(b)
      BY <2>3, <3>1, <3>2 DEF IsAbort
    <3> QED BY <2>1, <3>1, <3>2, <3>3 DEF AbortOnce
  <2> QED BY <2>2, <2>3 DEF AbortOnce
<1>6. Times'
  BY <1>4 DEF ShutdownInv, Times, IsAbort
<1>7. MaxLast'
  <2> SUFFICES ASSUME Open, NEW i \in 1 .. Len(list'), NEW j \in 1 .. Len(list'), i < j,
                      list'[i].time = INT64_MAX
               PROVE  list'[j].time = INT64_MAX
    BY DEF MaxLast, LastOf, Open
  <2>1. LastOf(list)
    BY DEF ShutdownInv, MaxLast
  <2>2. PICK a \in 1 .. Len(list) : a # n /\ i = Kept(n, a) /\ list'[i] = list[a]
    BY <1>4
  <2>3. PICK b \in 1 .. Len(list) : b # n /\ j = Kept(n, b) /\ list'[j] = list[b]
    BY <1>4
  <2>4. a < b
    BY <1>3, <2>2, <2>3
  <2> QED BY <2>1, <2>2, <2>3, <2>4 DEF LastOf
<1>8. Flushing'
  <2>1. CASE Finished
    BY <2>1, FinishedStays DEF ShutdownInv, Flushing
  <2>2. CASE ~ Finished
    <3>1. PICK k \in 1 .. Len(list) : Before(k)
      BY <2>2 DEF ShutdownInv, Flushing
    <3>2. owner = "joining" /\ ~ stopped /\ pc \notin {"abort", "off"}
      BY <2>2 DEF ShutdownInv, Flushing
    <3>3. k # n
      BY <3>1 DEF Before
    <3>4. Kept(n, k) \in 1 .. Len(list') /\ list'[Kept(n, k)] = list[k]
      BY <1>3, <3>3
    <3>5. ASSUME NEW i \in 1 .. k - 1
          PROVE  \/ list[i].event \in executed' \cup cancelled'
                 \/ \E j \in 1 .. Kept(n, k) - 1 : list'[j] = list[i]
      <4>1. i \in 1 .. Len(list) /\ i < k
        BY <1>1
      <4>2. CASE i # n
        <5>1. Kept(n, i) \in 1 .. Len(list') /\ list'[Kept(n, i)] = list[i] /\ Kept(n, i) < Kept(n, k)
          BY <1>3, <3>3, <4>1, <4>2
        <5>2. Kept(n, i) \in 1 .. Kept(n, k) - 1
          BY <3>4, <5>1
        <5> QED BY <5>1, <5>2
      <4> QED BY <4>2
    <3>6. pc' \notin {"abort", "off"}
      BY <3>2
    <3> QED BY <3>1, <3>2, <3>4, <3>5, <3>6, FlushStays
  <2> QED BY <2>1, <2>2
<1> QED BY <1>5, <1>6, <1>7, <1>8 DEF ShutdownInv

\* The list stays, or is emptied when nothing is left to be flushed.
LEMMA OtherStays ==
    ASSUME ShutdownInv, UNCHANGED <<due, flushed>>, executed' = executed,
           cancelled \subseteq cancelled',
           \/ list' = list /\ (Open' => Open)
           \/ list' = << >> /\ Finished' /\ pc' # "abort",
           \A p \in posting' : p \in posting \/ Timely(p),
           \/ Finished \/ Finished'
           \/ UNCHANGED <<owner, stopped>> /\ pc' \notin {"abort", "off"},
           pc' = "abort" => pc = "abort",
           pc' \in {"timed", "timedWoken", "timedOut"} => cur'.event # Abort
    PROVE  ShutdownInv'
<1>1. CASE list' = list /\ (Open' => Open)
  <2>1. AbortOnce'
    BY <1>1 DEF ShutdownInv, AbortOnce, IsAbort
  <2>2. Times'
    <3>1. Times
      BY DEF ShutdownInv
    <3>2. \A p \in posting' : Timely(p)
      BY <3>1 DEF Times
    <3> QED BY <1>1, <3>1, <3>2 DEF Times, IsAbort
  <2>3. MaxLast'
    BY <1>1 DEF ShutdownInv, MaxLast
  <2>4. Flushing'
    <3>1. CASE Finished
      BY <3>1, FinishedStays DEF ShutdownInv, Flushing
    <3>2. CASE Finished'
      BY <3>2 DEF Flushing
    <3>3. CASE ~ Finished /\ UNCHANGED <<owner, stopped>> /\ pc' \notin {"abort", "off"}
      <4>1. PICK k \in 1 .. Len(list) : Before(k)
        BY <3>3 DEF ShutdownInv, Flushing
      <4>2. owner = "joining" /\ ~ stopped /\ pc \notin {"abort", "off"}
        BY <3>3 DEF ShutdownInv, Flushing
      <4>3. \A i \in 1 .. k - 1 : \E j \in 1 .. k - 1 : list'[j] = list[i]
        BY <1>1
      <4>4. k \in 1 .. Len(list') /\ list'[k] = list[k]
        BY <1>1
      <4> QED BY <3>3, <4>1, <4>2, <4>3, <4>4, FlushStays
    <3> QED BY <3>1, <3>2, <3>3
  <2> QED BY <2>1, <2>2, <2>3, <2>4 DEF ShutdownInv
<1>2. CASE list' = << >> /\ Finished' /\ pc' # "abort"
  <2>1. Len(list') = 0
    BY <1>2
  <2>2. AbortOnce' /\ MaxLast' /\ Flushing'
    BY <1>2, <2>1 DEF AbortOnce, MaxLast, LastOf, Flushing
  <2>3. Times'
    <3>1. Times
      BY DEF ShutdownInv
    <3>2. \A p \in posting' : Timely(p)
      BY <3>1 DEF Times
    <3> QED BY <2>1, <3>2 DEF Times
  <2> QED BY <2>2, <2>3 DEF ShutdownInv
<1> QED BY <1>1, <1>2
-----------------------------------------------------------------------------
(* The steps. *)

LEMMA ThreadStays == Premises /\ ThreadStep => ShutdownInv'
<1> SUFFICES ASSUME Premises, ThreadStep PROVE ShutdownInv'
  OBVIOUS
<1> USE DEF Premises
<1>1. /\ Nothing \/ FallAsleep \/ Take \/ Leave
      /\ stopped' = stopped /\ threadUnchanged
  BY ThreadStepCases
<1>2. UNCHANGED <<owner, posting, due, cancelled, flushed>> /\ (Open' = Open)
  BY <1>1 DEF threadUnchanged, Open
<1>3. list \in Seq(Entry) /\ Len(list) \in Nat /\ (list # << >> => 1 \in 1 .. Len(list))
  BY DEF TypeOK
<1>4. CASE Nothing
  <2>1. pc' \notin {"abort", "off", "timed", "timedWoken", "timedOut"}
    <3>1. list # << >> => list[1].id # 0
      BY <1>3 DEF ContractInv, Ids
    <3>2. pc \in {"timedWoken", "timedOut"} => cur.event # Abort
      BY DEF ShutdownInv, Times
    <3> QED BY <1>4, <3>1, <3>2 DEF Nothing
  <2>2. list' = list /\ executed' = executed
    BY <1>4 DEF Nothing
  <2> QED BY <1>1, <1>2, <2>1, <2>2, OtherStays
<1>5. CASE FallAsleep
  <2>1. list' = list /\ executed' = executed /\ pc' = "timed" /\ cur' = list[1]
    BY <1>5 DEF FallAsleep
  <2>2. list[1].event # Abort
    <3>1. 1 \in 1 .. Len(list) /\ ~ IsDue(list[1])
      BY <1>3, <1>5 DEF FallAsleep
    <3>2. IsAbort(1) => list[1].time \in {-2, INT64_MAX}
      BY <3>1 DEF ShutdownInv, Times, INT64_MIN
    <3> QED BY <3>1, <3>2 DEF IsAbort, IsDue
  <2> QED BY <1>1, <1>2, <2>1, <2>2, OtherStays
<1>6. CASE Take
  <2>1. PICK n \in 1 .. Len(list) :
            /\ list' = Remove(list, n)
            /\ pc' = IF list[n].event = Abort THEN "abort" ELSE "invoke"
            /\ executed' = IF list[n].event = Abort THEN executed ELSE executed \cup {list[n].event}
            /\ (n = 1 /\ IsDue(list[n])) \/ (pc = "timedOut" /\ ~ capped /\ list[n].id = cur.id)
    BY <1>6, TakesWhatIsFound
  <2>2. CASE ~ IsAbort(n)
    <3>1. /\ list[n].event \in executed' \cup cancelled' /\ pc' = "invoke"
          /\ executed \subseteq executed' /\ cancelled \subseteq cancelled'
      BY <1>2, <2>1, <2>2 DEF IsAbort
    <3> QED BY <1>1, <1>2, <2>1, <2>2, <3>1, RemoveStays
  <2>3. CASE IsAbort(n)
    <3>1. pc' = "abort" /\ executed' = executed
      BY <2>1, <2>3 DEF IsAbort
    <3>2. n = 1
      <4>1. CASE pc = "timedOut" /\ list[n].id = cur.id
        <5>1. list[n] = cur
          BY <4>1 DEF ContractInv, Waits
        <5>2. cur.event # Abort
          BY <4>1 DEF ShutdownInv, Times
        <5> QED BY <2>3, <5>1, <5>2 DEF IsAbort
      <4> QED BY <2>1, <4>1
    <3>3. \A j \in 1 .. Len(list') :
              \E i \in 1 .. Len(list) : i # n /\ list'[j] = list[i]
      <4>1. Removed(list', list, n)
        BY <1>3, <2>1, RemoveRemoves
      <4> QED BY <1>3, <4>1, RemoveOrder
    <3>4. \A j \in 1 .. Len(list') : ~ (list'[j].event = Abort)
      BY <2>3, <3>3 DEF ShutdownInv, AbortOnce, IsAbort
    <3>5. ~ Open
      BY <2>3 DEF ShutdownInv, AbortOnce
    <3>6. AbortOnce' /\ MaxLast'
      BY <1>2, <3>4, <3>5 DEF AbortOnce, MaxLast, IsAbort
    <3>7. Times'
      BY <1>2, <3>1, <3>3 DEF ShutdownInv, Times, IsAbort
    <3>8. Finished
      <4>1. ASSUME NEW k \in 1 .. Len(list), Before(k) PROVE Finished
        <5>1. k = 1
          BY <2>3, <3>2, <4>1 DEF Before, ShutdownInv, AbortOnce
        <5> QED BY <4>1, <5>1 DEF Before, Finished
      <4> QED BY <4>1 DEF ShutdownInv, Flushing
    <3>9. Finished'
      BY <1>2, <3>1, <3>8, FinishedStays DEF ShutdownInv
    <3> QED BY <1>2, <3>1, <3>6, <3>7, <3>9 DEF ShutdownInv, Flushing
  <2> QED BY <2>2, <2>3
<1>7. CASE Leave
  <2>1. stopped /\ ~ built' /\ list' = << >> /\ executed' = executed /\ pc' = "off"
    BY <1>7 DEF Leave
  <2>2. Finished
    BY <2>1 DEF ShutdownInv, Flushing
  <2>3. Finished'
    BY <1>2, <2>1, <2>2, FinishedStays DEF ShutdownInv
  <2> QED BY <1>2, <2>1, <2>3, OtherStays
<1> QED BY <1>1, <1>4, <1>5, <1>6, <1>7

LEMMA UsersStay == Premises /\ (Post \/ Cancel) => ShutdownInv'
<1> SUFFICES ASSUME Premises, Post \/ Cancel PROVE ShutdownInv'
  OBVIOUS
<1> USE DEF Premises
<1>1. ASSUME NEW e \in Event, NEW time, NEW prev \in BOOLEAN, BeginPost(e, time, prev),
             time \in AtOnce .. INT64_MAX, prev \/ time \in {AtOnce, INT64_MAX}
      PROVE  ShutdownInv'
  <2>1. /\ UNCHANGED <<owner, stopped, built, list, pc, cur, due, executed, cancelled, flushed>>
        /\ posting' = posting \cup {[event |-> e, time |-> time, prev |-> prev]}
    BY <1>1 DEF BeginPost, lifeVars, threadVars, history
  <2>2. Timely([event |-> e, time |-> time, prev |-> prev])
    BY <1>1 DEF Timely
  <2>3. \A p \in posting' : p \in posting \/ Timely(p)
    BY <2>1, <2>2
  <2>4. /\ Open' => Open
        /\ pc' \in {"timed", "timedWoken", "timedOut"} => cur'.event # Abort
        /\ Finished \/ (UNCHANGED <<owner, stopped>> /\ pc' \notin {"abort", "off"})
    BY <2>1 DEF Open, ShutdownInv, Times, Flushing
  <2> QED BY <2>1, <2>3, <2>4, OtherStays
<1>2. ASSUME NEW e \in Event, NEW d \in Delay, PostEventWithDelay(e, d) PROVE ShutdownInv'
  <2>1. clock + d \in AtOnce .. INT64_MAX
    BY <1>2, TimedAssumption DEF PostEventWithDelay, AtOnce, TypeOK
  <2> QED BY <1>1, <1>2, <2>1 DEF PostEventWithDelay
<1>3. ASSUME NEW e \in Event, PostEvent(e) \/ PostEventToBack(e) PROVE ShutdownInv'
  <2>1. {AtOnce, INT64_MAX} \subseteq AtOnce .. INT64_MAX
    BY TimedAssumption DEF AtOnce
  <2>2. BeginPost(e, AtOnce, FALSE) \/ BeginPost(e, INT64_MAX, FALSE)
    BY <1>3 DEF PostEvent, PostEventToBack
  <2> QED BY <1>1, <2>1, <2>2
<1>4. ASSUME NEW p \in posting, PostTimedEvent(p) PROVE ShutdownInv'
  <2>1. p.event \in Event /\ p.prev \in BOOLEAN
    BY DEF TypeOK
  <2>2. p.time \in AtOnce .. INT64_MAX /\ (p.prev \/ p.time \in {AtOnce, INT64_MAX})
    BY DEF ShutdownInv, Times, Timely
  <2>3. \A d \in DOMAIN due : d \in DOMAIN due' /\ due'[d] = due[d]
    <3>1. p.event \notin DOMAIN due
      BY DEF ContractInv, Posts
    <3> QED BY <1>4, <3>1 DEF PostTimedEvent
  <2>4. /\ list' = Insert(list, [event |-> p.event, id |-> nextId, time |-> p.time], p.prev)
        /\ nextId' = (nextId + 1) % IdRange
        /\ pc' = Signals(pc, list, p.time)
        /\ UNCHANGED <<owner, stopped, built, cur, executed, cancelled, flushed>>
        /\ posting' \subseteq posting
    BY <1>4 DEF PostTimedEvent, lifeVars, history
  <2> QED BY <2>1, <2>2, <2>3, <2>4, InsertStays
<1>5. ASSUME NEW id, CancelEvent(id) PROVE ShutdownInv'
  <2> DEFINE n == FindId(list, id)
  <2>1. n \in 1 .. Len(list)
    BY <1>5, FindIdFinds DEF CancelEvent, TypeOK
  <2>2. /\ UNCHANGED <<owner, stopped, built, posting, cur, due, executed, flushed>>
        /\ ~ IsAbort(n)
        /\ pc' = IF n = Begin(list) THEN SignalHeadChanged(pc) ELSE pc
        /\ list' = Remove(list, n)
        /\ cancelled' = cancelled \cup {list[n].event}
    BY <1>5 DEF CancelEvent, lifeVars, IsAbort
  <2> HIDE DEF n
  <2>3. /\ pc' \in {"abort", "off"} => pc' = pc
        /\ pc' \in {"timed", "timedWoken", "timedOut"} => pc \in {"timed", "timedWoken", "timedOut"}
    BY <2>2 DEF SignalHeadChanged
  <2> QED BY <2>1, <2>2, <2>3, RemoveStays
<1>6. CASE CancelAllEvents
  <2>1. /\ UNCHANGED <<owner, stopped, built, posting, cur, due, executed, flushed>>
        /\ pc' = SignalHeadChanged(pc) /\ list' = << >>
        /\ cancelled' = cancelled \cup QueuedEvents
    BY <1>6 DEF CancelAllEvents, Clear, lifeVars
  <2>2. /\ pc' \in {"abort", "off"} => pc' = pc
        /\ pc' \in {"timed", "timedWoken", "timedOut"} => pc \in {"timed", "timedWoken", "timedOut"}
    BY <2>1 DEF SignalHeadChanged
  <2>3. CASE Finished
    <3>1. Finished'
      BY <2>1, <2>3, FinishedStays DEF ShutdownInv
    <3>2. CASE pc # "abort"
      <4>1. /\ pc' # "abort"
            /\ pc' \in {"timed", "timedWoken", "timedOut"} => cur'.event # Abort
        BY <2>1, <2>2, <3>2 DEF ShutdownInv, Times
      <4> QED BY <2>1, <3>1, <4>1, OtherStays
    <3>3. CASE pc = "abort"
      <4>1. pc' = "abort" /\ ~ Open /\ ~ Open'
        BY <2>1, <3>3 DEF SignalHeadChanged, ShutdownInv, AbortOnce, Open
      <4>2. Len(list') = 0
        BY <2>1
      <4>3. AbortOnce' /\ MaxLast' /\ Flushing'
        BY <3>1, <4>1, <4>2 DEF AbortOnce, MaxLast, Flushing
      <4>4. Times'
        BY <2>1, <4>1, <4>2 DEF ShutdownInv, Times
      <4> QED BY <2>1, <4>1, <4>3, <4>4 DEF ShutdownInv
    <3> QED BY <3>2, <3>3
  <2>4. CASE ~ Finished
    <3>1. PICK k \in 1 .. Len(list) : Before(k)
      BY <2>4 DEF ShutdownInv, Flushing
    <3>2. pc \notin {"abort", "off"}
      BY <2>4 DEF ShutdownInv, Flushing
    <3>3. \A i \in 1 .. k - 1 : list[i].event \in Event => list[i].event \in QueuedEvents
      <4>1. DOMAIN list = 1 .. Len(list) /\ Len(list) \in Nat
        BY DEF TypeOK
      <4> QED BY <4>1, TimedAssumption DEF QueuedEvents
    <3>4. flushed \subseteq Event /\ flushed \subseteq DOMAIN due
      BY DEF TypeOK, ShutdownInv
    <3>5. Finished'
      <4> SUFFICES ASSUME NEW e \in flushed, due[e] < INT64_MAX PROVE e \in executed' \cup cancelled'
        BY <2>1 DEF Finished, Flushed
      <4>1. e \in Event /\ (Flushed(e) \/ \E i \in 1 .. k - 1 : list[i].event = e)
        BY <3>1, <3>4 DEF Before
      <4>2. CASE Flushed(e)
        BY <2>1, <4>2 DEF Flushed
      <4>3. CASE \E i \in 1 .. k - 1 : list[i].event = e
        BY <2>1, <3>3, <4>1, <4>3
      <4> QED BY <4>1, <4>2, <4>3
    <3>6. /\ pc' \notin {"abort", "off"}
          /\ pc' \in {"timed", "timedWoken", "timedOut"} => cur'.event # Abort
      BY <2>1, <2>2, <3>2 DEF ShutdownInv, Times
    <3> QED BY <2>1, <3>5, <3>6, OtherStays
  <2> QED BY <2>3, <2>4
<1>7. Post => ShutdownInv'
  BY <1>2, <1>3, <1>4 DEF Post
<1>8. Cancel => ShutdownInv'
  BY <1>5, <1>6 DEF Cancel
<1> QED BY <1>7, <1>8
LEMMA OwnerStays == Premises /\ Owner => ShutdownInv'
<1> SUFFICES ASSUME Premises, Owner PROVE ShutdownInv'
  OBVIOUS
<1> USE DEF Premises
<1>1. CASE Startup \/ StartupFails
  <2>1. /\ UNCHANGED <<posting, due, executed, cancelled, flushed>>
        /\ owner = "out" /\ list' = << >> /\ pc' \in {"top", "off"}
    BY <1>1 DEF Startup, StartupFails, history, threadVars
  <2>2. Finished'
    <3>1. Finished
      BY <2>1 DEF ShutdownInv, Flushing
    <3> QED BY <2>1, <3>1, FinishedStays DEF ShutdownInv
  <2> QED BY <2>1, <2>2, OtherStays
<1>2. CASE StartupDone
  <2>1. /\ UNCHANGED <<list, pc, cur, built, posting, due, executed, cancelled, flushed>>
        /\ owner = "starting"
    BY <1>2 DEF StartupDone, threadVars, history
  <2>2. Open /\ Finished
    BY <2>1 DEF Open, ShutdownInv, Flushing
  <2>3. pc' \in {"timed", "timedWoken", "timedOut"} => cur'.event # Abort
    BY <2>1 DEF ShutdownInv, Times
  <2> QED BY <2>1, <2>2, <2>3, OtherStays
<1>3. CASE ShutdownFlush
  <2>1. PostAbort(INT64_MAX, FALSE) /\ owner' = "joining" /\ flushed' = QueuedEvents
    BY <1>3 DEF ShutdownFlush
  <2> QED BY <2>1, AbortStays
<1>4. CASE ShutdownSkip \/ ShutdownAsync
  <2>1. /\ PostAbort(INT64_MAX, FALSE) \/ PostAbort(INT64_MIN, TRUE)
        /\ owner' \in {"joining", "leaving"} /\ flushed' = flushed
    BY <1>4 DEF ShutdownSkip, ShutdownAsync
  <2> QED BY <2>1, AbortStays
<1>5. CASE ShutdownDone
  <2>1. /\ UNCHANGED <<pc, cur, posting, due, executed, cancelled, flushed>>
        /\ owner' = "out" /\ stopped'
        /\ owner = "leaving" \/ (owner = "joining" /\ pc = "off")
        /\ list' \in {list, << >>}
        /\ built' \in {built, FALSE}
        /\ owner = "leaving" => list' = list
    BY <1>5 DEF ShutdownDone, threadVars, history, Clear
  <2>2. ~ Open' /\ Finished
    BY <2>1 DEF Open, ShutdownInv, Flushing
  <2>3. Finished'
    BY <2>1, <2>2, FinishedStays DEF ShutdownInv
  <2>4. /\ pc' \in {"timed", "timedWoken", "timedOut"} => cur'.event # Abort
        /\ owner = "joining" => pc' # "abort"
    BY <2>1 DEF ShutdownInv, Times
  <2>5. \/ list' = list /\ (Open' => Open)
        \/ list' = << >> /\ Finished' /\ pc' # "abort"
    BY <2>1, <2>2, <2>3, <2>4
  <2> QED BY <2>1, <2>2, <2>4, <2>5, OtherStays
<1> QED BY <1>1, <1>2, <1>3, <1>4, <1>5 DEF Owner

LEMMA ShutdownInvPreserved ==
    TypeOK /\ OffIsEmpty /\ ContractInv /\ NoWrap /\ NoWrap' /\ ShutdownInv /\ [Next]_vars
        => ShutdownInv'
<1> SUFFICES ASSUME Premises, [Next]_vars PROVE ShutdownInv'
  BY DEF Premises
<1>1. CASE Tick \/ TimeOut \/ InvokeReturn \/ SpuriousWake \/ UNCHANGED vars
  <2>1. /\ UNCHANGED <<owner, stopped, built, list, cur, posting, due, executed, cancelled, flushed>>
        /\ pc' \in {"abort", "off"} => pc' = pc
        /\ pc' \in {"timed", "timedWoken", "timedOut"} => pc \in {"timed", "timedWoken", "timedOut"}
    BY <1>1 DEF Tick, TimeOut, InvokeReturn, SpuriousWake, vars, lifeVars, threadVars, history
  <2>2. /\ Open' => Open
        /\ Finished \/ (UNCHANGED <<owner, stopped>> /\ pc' \notin {"abort", "off"})
        /\ pc' \in {"timed", "timedWoken", "timedOut"} => cur'.event # Abort
    BY <2>1 DEF Open, Premises, ShutdownInv, Times, Flushing
  <2> QED BY <2>1, <2>2, OtherStays DEF Premises
<1>2. CASE RequestAbort
  <2>1. /\ UNCHANGED <<owner, built, list, cur, posting, due, executed, cancelled, flushed>>
        /\ pc = "abort" /\ pc' = "top" /\ stopped'
    BY <1>2 DEF RequestAbort, threadUnchanged
  <2>2. Finished /\ ~ Open
    BY <2>1 DEF Premises, ShutdownInv, AbortOnce, Flushing
  <2>3. ~ Open'
    BY <2>1, <2>2 DEF Open
  <2> QED BY <2>1, <2>2, <2>3, OtherStays DEF Premises
<1>3. Worker => ThreadStep \/ TimeOut \/ InvokeReturn \/ RequestAbort
  BY DEF Worker, ThreadStep
<1> QED BY <1>1, <1>2, <1>3, ThreadStays, UsersStay, OwnerStays DEF Next

LEMMA ShutdownInvHolds == Spec /\ []NoWrap => []ShutdownInv
<1>1. Init => ShutdownInv
  <2> SUFFICES ASSUME Init PROVE ShutdownInv
    OBVIOUS
  <2>1. Len(list) = 0 /\ posting = {} /\ pc = "off" /\ flushed = {}
    BY DEF Init
  <2>2. AbortOnce /\ Times /\ MaxLast /\ Flushing
    BY <2>1 DEF AbortOnce, Times, MaxLast, LastOf, Flushing, Finished
  <2> QED BY <2>1, <2>2 DEF ShutdownInv
<1> QED BY <1>1, ShutdownInvPreserved, TypeCorrect, OffIsEmptyHolds, ContractInvHolds, PTL DEF Spec

\* As long as the counter of ids has not wrapped: when a synchronous flushing Shutdown
\* has returned, every event that was queued for some time when it was called has been
\* executed, or was cancelled meanwhile; whatever others post and cancel at that time.
THEOREM FlushExecutesTimedHolds == Spec /\ []NoWrap => []FlushExecutesTimed
<1>1. ShutdownInv => FlushExecutesTimed
  BY DEF ShutdownInv, Flushing, Finished, FlushExecutesTimed
<1> QED BY <1>1, ShutdownInvHolds, PTL
=============================================================================
