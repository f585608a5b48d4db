--------------------------- MODULE AttrStoreProofs ---------------------------
(***************************************************************************)
(* What the calls of one attribute store do to a list of any length in     *)
(* which no name but the empty one occurs twice.                           *)
(***************************************************************************)
EXTENDS AttrStore, Integers, SequenceTheorems, WellFoundedInduction, TLAPS

-----------------------------------------------------------------------------
(* Induction over the numbers up to N. *)

LEMMA LeastExists ==
    ASSUME NEW T, T \subseteq Nat, T # {}
    PROVE  \E m \in T : \A k \in T : m <= k
<1> DEFINE R == OpToRel(<, Nat)
<1>1. IsWellFoundedOn(R, Nat)
  BY NatLessThanWellFounded
<1>2. \A m, k \in Nat : k < m => <<k, m>> \in R
  BY DEF OpToRel
<1> HIDE DEF R
<1>3. PICK m \in T : \A k \in T : ~ (<<k, m>> \in R)
  BY <1>1, WFMin
<1>4. \A k \in T : m <= k
  <2> TAKE k \in T
  <2>1. m \in Nat /\ k \in Nat
    OBVIOUS
  <2>2. ~ (k < m)
    BY <1>2, <1>3
  <2> QED BY <2>1, <2>2
<1> QED BY <1>4

\* What holds of 0 and passes on from each number to the next holds up to N.
LEMMA UpTo ==
    ASSUME NEW N \in Nat, NEW Good, 0 \in Good,
           \A n \in 0 .. N - 1 : n \in Good => n + 1 \in Good
    PROVE  \A n \in 0 .. N : n \in Good
<1> DEFINE T == {n \in 0 .. N : n \notin Good}
<1> SUFFICES ASSUME T # {} PROVE FALSE
  OBVIOUS
<1>1. T \subseteq Nat
  OBVIOUS
<1>2. PICK m \in T : \A k \in T : m <= k
  <2> HIDE DEF T
  <2> QED BY <1>1, LeastExists
<1>3. m # 0 /\ m \in 0 .. N
  OBVIOUS
<1>4. m - 1 \in 0 .. N - 1 /\ m - 1 \in 0 .. N /\ (m - 1) + 1 = m /\ ~ (m <= m - 1)
  BY <1>3
<1>5. m - 1 \in Good
  BY <1>2, <1>4
<1> QED BY <1>4, <1>5
-----------------------------------------------------------------------------
(* Looking items up and setting them. *)

\* Positions of equal, non-empty names are equal.
UniqueNames(l) ==
    \A m, n \in 1 .. Len(l) : l[m].name = l[n].name /\ l[m].name # EmptyString => m = n

LEMMA SearchFinds ==
    ASSUME NEW S, NEW l \in Seq(S), NEW name
    PROVE  /\ SearchStore(l, name) \in 0 .. Len(l)
           /\ SearchStore(l, name) # 0 => name # EmptyString /\ l[SearchStore(l, name)].name = name
           /\ SearchStore(l, name) = 0 => name = EmptyString \/ \A n \in 1 .. Len(l) : l[n].name # name
<1>1. DOMAIN l = 1 .. Len(l) /\ Len(l) \in Nat
  OBVIOUS
<1>2. CASE name # EmptyString /\ \E n \in DOMAIN l : l[n].name = name
  <2>1. LET c == CHOOSE n \in DOMAIN l : l[n].name = name IN c \in DOMAIN l /\ l[c].name = name
    BY <1>2
  <2>2. SearchStore(l, name) = CHOOSE n \in DOMAIN l : l[n].name = name
    BY <1>2 DEF SearchStore
  <2>3. SearchStore(l, name) \in DOMAIN l /\ l[SearchStore(l, name)].name = name
    BY <2>1, <2>2
  <2>4. SearchStore(l, name) \in 1 .. Len(l) /\ SearchStore(l, name) # 0
    BY <1>1, <2>3
  <2>5. SearchStore(l, name) \in 0 .. Len(l)
    BY <1>1, <2>4
  <2> QED BY <1>2, <2>3, <2>4, <2>5
<1>3. CASE ~ (name # EmptyString /\ \E n \in DOMAIN l : l[n].name = name)
  <2>1. SearchStore(l, name) = 0
    BY <1>3 DEF SearchStore
  <2>2. name = EmptyString \/ \A n \in 1 .. Len(l) : l[n].name # name
    BY <1>1, <1>3
  <2>3. SearchStore(l, name) \in 0 .. Len(l)
    BY <1>1, <2>1
  <2> QED BY <2>1, <2>2, <2>3
<1> QED BY <1>2, <1>3

LEMMA SearchIs ==
    ASSUME NEW S, NEW l \in Seq(S), UniqueNames(l), NEW n \in 1 .. Len(l),
           l[n].name # EmptyString
    PROVE  SearchStore(l, l[n].name) = n
<1> DEFINE m == SearchStore(l, l[n].name)
<1>1. /\ m \in 0 .. Len(l)
      /\ m # 0 => l[m].name = l[n].name
      /\ m = 0 => \A k \in 1 .. Len(l) : l[k].name # l[n].name
  BY SearchFinds
<1> HIDE DEF m
<1>2. Len(l) \in Nat
  OBVIOUS
<1>3. m \in 1 .. Len(l) /\ l[m].name = l[n].name
  BY <1>1, <1>2
<1>4. m = n
  BY <1>3 DEF UniqueNames
<1> QED BY <1>4 DEF m

\* What was there stays at its place, with its name; the item is there.
LEMMA SetItemPuts ==
    ASSUME NEW S, NEW l \in Seq(S), UniqueNames(l),
           NEW item, Stored(item) \in S, Stored(item).name = item.name
    PROVE  /\ SetItem(l, item) \in Seq(S) /\ UniqueNames(SetItem(l, item))
           /\ Len(l) <= Len(SetItem(l, item))
           /\ \A k \in 1 .. Len(l) :
                  /\ SetItem(l, item)[k].name = l[k].name
                  /\ SetItem(l, item)[k] = l[k] \/ l[k].name = item.name
           /\ \A k \in 1 .. Len(SetItem(l, item)) :
                  k \in 1 .. Len(l) \/ SetItem(l, item)[k] = Stored(item)
           /\ \E k \in 1 .. Len(SetItem(l, item)) : SetItem(l, item)[k] = Stored(item)
<1> DEFINE n == SearchStore(l, item.name)
<1>1. /\ n \in 0 .. Len(l)
      /\ n # 0 => item.name # EmptyString /\ l[n].name = item.name
      /\ n = 0 => item.name = EmptyString \/ \A k \in 1 .. Len(l) : l[k].name # item.name
  BY SearchFinds
<1>2. SetItem(l, item) = IF n = 0 THEN Append(l, Stored(item)) ELSE ReplaceAt(l, n, Stored(item))
  BY DEF SetItem
<1>3. Len(l) \in Nat
  OBVIOUS
<1> HIDE DEF n
<1>4. CASE n = 0
  <2> DEFINE s == Append(l, Stored(item))
  <2>1. /\ s \in Seq(S) /\ Len(s) = Len(l) + 1
        /\ \A k \in 1 .. Len(l) : s[k] = l[k]
        /\ s[Len(l) + 1] = Stored(item)
    BY AppendProperties
  <2> HIDE DEF s
  <2>2. \A k \in 1 .. Len(s) : k \in 1 .. Len(l) \/ k = Len(l) + 1
    BY <1>3, <2>1
  <2>3. UniqueNames(s)
    BY <1>1, <1>4, <2>1, <2>2 DEF UniqueNames
  <2>4. Len(l) + 1 \in 1 .. Len(s) /\ Len(l) <= Len(s)
    BY <1>3, <2>1
  <2>5. SetItem(l, item) = s
    BY <1>2, <1>4 DEF s
  <2> QED BY <2>1, <2>2, <2>3, <2>4, <2>5
<1>5. CASE n # 0
  <2> DEFINE s == ReplaceAt(l, n, Stored(item))
  <2>1. n \in 1 .. Len(l)
    BY <1>1, <1>3, <1>5
  <2>2. s = [l EXCEPT ![n] = Stored(item)]
    BY <2>1 DEF ReplaceAt
  <2>3. /\ s \in Seq(S) /\ Len(s) = Len(l)
        /\ \A k \in 1 .. Len(l) : s[k] = IF k = n THEN Stored(item) ELSE l[k]
    BY <2>1, <2>2, ExceptSeq
  <2> HIDE DEF s
  <2>4. \A k \in 1 .. Len(s) : s[k].name = l[k].name
    BY <1>1, <1>5, <2>3
  <2>5. UniqueNames(s)
    BY <2>3, <2>4 DEF UniqueNames
  <2>6. SetItem(l, item) = s
    BY <1>2, <1>5 DEF s
  <2>7. \A k \in 1 .. Len(l) : s[k] = l[k] \/ l[k].name = item.name
    BY <1>1, <1>5, <2>3
  <2>8. n \in 1 .. Len(s) /\ s[n] = Stored(item) /\ Len(l) <= Len(s)
    BY <1>3, <2>1, <2>3
  <2> QED BY <2>3, <2>4, <2>5, <2>6, <2>7, <2>8
<1> QED BY <1>4, <1>5

\* A getter finds what was set last under its name and is not disturbed by other names.
LEMMA SetIsGot ==
    ASSUME NEW S, NEW l \in Seq(S), UniqueNames(l),
           NEW item, item \in S, ~ IsEmptyString(item.value), item.name # EmptyString
    PROVE  GetItem(SetItem(l, item), item.name, item.value.type) = item.value
<1> DEFINE s == SetItem(l, item)
<1>1. Stored(item) = item
  BY DEF Stored
<1>2. s \in Seq(S) /\ UniqueNames(s) /\ \E k \in 1 .. Len(s) : s[k] = item
  BY <1>1, SetItemPuts
<1> HIDE DEF s
<1>3. PICK k \in 1 .. Len(s) : s[k] = item
  BY <1>2
<1>4. SearchStore(s, item.name) = k /\ k # 0
  BY <1>2, <1>3, SearchIs
<1>5. GetItem(s, item.name, item.value.type) = item.value
  BY <1>3, <1>4 DEF GetItem
<1> QED BY <1>5 DEF s

LEMMA SetKeepsOthers ==
    ASSUME NEW S, NEW l \in Seq(S), UniqueNames(l),
           NEW item, item \in S, ~ IsEmptyString(item.value),
           NEW name, name # item.name, NEW type
    PROVE  GetItem(SetItem(l, item), name, type) = GetItem(l, name, type)
<1> DEFINE s == SetItem(l, item)
           n == SearchStore(s, name)
           m == SearchStore(l, name)
<1>1. Stored(item) = item
  BY DEF Stored
<1>2. /\ s \in Seq(S) /\ UniqueNames(s) /\ Len(l) <= Len(s)
      /\ \A k \in 1 .. Len(l) : s[k].name = l[k].name /\ (s[k] = l[k] \/ l[k].name = item.name)
      /\ \A k \in 1 .. Len(s) : k \in 1 .. Len(l) \/ s[k] = item
  BY <1>1, SetItemPuts
<1> HIDE DEF s
<1>3. /\ n \in 0 .. Len(s)
      /\ n # 0 => name # EmptyString /\ s[n].name = name
      /\ n = 0 => name = EmptyString \/ \A k \in 1 .. Len(s) : s[k].name # name
  BY <1>2, SearchFinds
<1>4. /\ m \in 0 .. Len(l)
      /\ m # 0 => name # EmptyString /\ l[m].name = name
      /\ m = 0 => name = EmptyString \/ \A k \in 1 .. Len(l) : l[k].name # name
  BY SearchFinds
<1>5. Len(l) \in Nat /\ Len(s) \in Nat
  BY <1>2
<1> HIDE DEF n, m
<1>6. CASE m # 0
  <2>1. m \in 1 .. Len(l) /\ m \in 1 .. Len(s) /\ l[m].name = name /\ name # EmptyString
    BY <1>2, <1>4, <1>5, <1>6
  <2>2. s[m] = l[m]
    BY <1>2, <2>1
  <2>3. n = m
    BY <1>2, <2>1, <2>2, SearchIs DEF n
  <2> QED BY <2>2, <2>3 DEF GetItem, s, n, m
<1>7. CASE m = 0
  <2>1. n = 0
    <3> SUFFICES ASSUME n # 0 PROVE FALSE
      OBVIOUS
    <3>1. n \in 1 .. Len(s) /\ s[n].name = name /\ name # EmptyString
      BY <1>3, <1>5
    <3>2. n \in 1 .. Len(l)
      BY <1>2, <3>1
    <3>3. l[n].name # name
      BY <1>4, <1>7, <3>1, <3>2
    <3> QED BY <1>2, <3>1, <3>2, <3>3
  <2> QED BY <1>7, <2>1 DEF GetItem, s, n, m
<1> QED BY <1>6, <1>7
=============================================================================
