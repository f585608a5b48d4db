--------------------------- MODULE AttributesProofs ---------------------------
(***************************************************************************)
(* Theorems about the attribute stores for any number of threads, stores,  *)
(* items and calls.                                                        *)
(***************************************************************************)
EXTENDS Attributes, AttrStoreProofs

-----------------------------------------------------------------------------
(* What the calls make of one list. *)

LEMMA StoredIsStored ==
    ASSUME NEW item \in Item, item.value.type # "INVALID"
    PROVE  /\ Stored(item) \in StoredItem /\ Stored(item).name = item.name
           /\ item \in StoredItem => Stored(item) = item
<1>1. item.name \in Name /\ item.value \in Value
  <2>1. item.name \in Name /\ item.value \in Value \cup {Invalid}
    BY DEF Item
  <2>2. Invalid.type = "INVALID"
    BY DEF Invalid
  <2> QED BY <2>1, <2>2
<1>2. CASE IsEmptyString(item.value)
  <2>1. Stored(item) = [name |-> item.name, value |-> Invalid]
    BY <1>2 DEF Stored, Item
  <2>2. item \notin StoredItem
    <3>1. ~ IsEmptyString(Invalid)
      BY DEF IsEmptyString, Invalid
    <3>2. item \in StoredItem => item.value = Invalid \/ ~ IsEmptyString(item.value)
      BY DEF StoredItem
    <3> QED BY <1>2, <3>1, <3>2
  <2> QED BY <1>1, <2>1, <2>2 DEF StoredItem
<1>3. CASE ~ IsEmptyString(item.value)
  BY <1>1, <1>3 DEF Stored, StoredItem, Item
<1> QED BY <1>2, <1>3

LEMMA SetItemKeeps ==
    ASSUME NEW l \in Seq(StoredItem), UniqueNames(l),
           NEW item \in Item, item.value.type # "INVALID"
    PROVE  SetItem(l, item) \in Seq(StoredItem) /\ UniqueNames(SetItem(l, item))
BY StoredIsStored, SetItemPuts

LEMMA DeleteItemKeeps ==
    ASSUME NEW l \in Seq(StoredItem), UniqueNames(l), NEW name
    PROVE  DeleteItem(l, name) \in Seq(StoredItem) /\ UniqueNames(DeleteItem(l, name))
<1> DEFINE n == SearchStore(l, name)
<1>1. n \in 0 .. Len(l) /\ Len(l) \in Nat
  <2>1. n \in 0 .. Len(l)
    BY SearchFinds
  <2>2. Len(l) \in Nat
    OBVIOUS
  <2> QED BY <2>1, <2>2
<1>2. DeleteItem(l, name) = IF n = 0 THEN l ELSE RemoveAt(l, n)
  BY DEF DeleteItem
<1> HIDE DEF n
<1>3. CASE n = 0
  BY <1>2, <1>3
<1>4. CASE n # 0
  <2> DEFINE p == SubSeq(l, 1, n - 1)
             q == SubSeq(l, n + 1, Len(l))
             s == p \o q
  <2>0. n \in 1 .. Len(l)
    BY <1>1, <1>4
  <2>a. \A i \in 1 .. Len(l) : l[i] \in StoredItem
    BY LenProperties
  <2>1. p \in Seq(StoredItem) /\ Len(p) = n - 1 /\ \A i \in 1 .. n - 1 : p[i] = l[i]
    BY <1>1, <2>0, <2>a, SubSeqProperties
  <2>2. q \in Seq(StoredItem) /\ Len(q) = Len(l) - n /\ \A i \in 1 .. Len(l) - n : q[i] = l[n + i]
    BY <1>1, <2>0, <2>a, SubSeqProperties
  <2>3. DeleteItem(l, name) = s
    BY <1>2, <1>4 DEF RemoveAt
  <2> HIDE DEF p, q
  <2>4. /\ s \in Seq(StoredItem) /\ Len(s) = Len(p) + Len(q)
        /\ \A i \in 1 .. Len(p) + Len(q) : s[i] = IF i <= Len(p) THEN p[i] ELSE q[i - Len(p)]
    BY <2>1, <2>2, ConcatProperties
  <2>5. Len(s) = Len(l) - 1
    BY <1>1, <2>0, <2>1, <2>2, <2>4
  <2>6. \A i \in 1 .. Len(l) - 1 : s[i] = IF i < n THEN l[i] ELSE l[i + 1]
    <3> TAKE i \in 1 .. Len(l) - 1
    <3>1. i \in 1 .. Len(p) + Len(q)
      BY <2>4, <2>5
    <3>2. CASE i < n
      <4>1. i <= Len(p) /\ i \in 1 .. n - 1
        BY <1>1, <2>0, <2>1, <3>2
      <4> QED BY <2>1, <2>4, <3>1, <3>2, <4>1
    <3>3. CASE ~ (i < n)
      <4>1. ~ (i <= Len(p)) /\ i - Len(p) \in 1 .. Len(l) - n /\ n + (i - Len(p)) = i + 1
        BY <1>1, <2>0, <2>1, <3>3
      <4> QED BY <2>2, <2>4, <3>1, <3>3, <4>1
    <3> QED BY <3>2, <3>3
  <2> HIDE DEF s
  <2>7. UniqueNames(s)
    <3> SUFFICES ASSUME NEW i \in 1 .. Len(s), NEW j \in 1 .. Len(s),
                        s[i].name = s[j].name, s[i].name # EmptyString
                 PROVE  i = j
      BY DEF UniqueNames
    <3>1. ASSUME NEW k \in 1 .. Len(s)
          PROVE  \E m \in 1 .. Len(l) : s[k] = l[m] /\ m = IF k < n THEN k ELSE k + 1
      <4>1. k \in 1 .. Len(l) - 1
        BY <2>5
      <4>2. k \in 1 .. Len(l) /\ k + 1 \in 1 .. Len(l)
        BY <1>1, <4>1
      <4> QED BY <2>6, <4>1, <4>2
    <3>2. PICK m \in 1 .. Len(l) : s[i] = l[m] /\ m = IF i < n THEN i ELSE i + 1
      BY <3>1
    <3>3. PICK k \in 1 .. Len(l) : s[j] = l[k] /\ k = IF j < n THEN j ELSE j + 1
      BY <3>1
    <3>4. m = k
      BY <3>2, <3>3 DEF UniqueNames
    <3>5. i \in Int /\ j \in Int /\ n \in Int
      BY <2>0
    <3> QED BY <3>2, <3>3, <3>4, <3>5
  <2> QED BY <2>3, <2>4, <2>7 DEF s
<1> QED BY <1>3, <1>4
-----------------------------------------------------------------------------
(* The buffer.  The functions by which SaveToBuffer and LoadFromBuffer go  *)
(* through a list, up to its m-th item.                                    *)

WrittenUpTo(w, l, m) ==
    w = [n \in 0 .. m |->
            IF n = 0 THEN << >>
            ELSE IF l[n].value.type = "OBJECT" THEN w[n - 1]
            ELSE Append(w[n - 1], l[n])]

LoadedUpTo(w, b, m) ==
    w = [n \in 0 .. m |->
            IF n = 0 THEN << >>
            ELSE IF \E k \in 1 .. n : UnknownType(b[k].value) THEN w[n - 1]
            ELSE SetItem(w[n - 1], b[n])]

LEMMA WrittenExists ==
    ASSUME NEW l \in Seq(StoredItem)
    PROVE  \E w : WrittenUpTo(w, l, Len(l))
<1> DEFINE Good == {m \in 0 .. Len(l) : \E w : WrittenUpTo(w, l, m)}
<1>1. Len(l) \in Nat
  OBVIOUS
<1>2. 0 \in Good
  <2>1. WrittenUpTo([n \in 0 .. 0 |-> << >>], l, 0)
    BY DEF WrittenUpTo
  <2> QED BY <1>1, <2>1
<1>3. ASSUME NEW m \in 0 .. Len(l) - 1, NEW w, WrittenUpTo(w, l, m)
      PROVE  m + 1 \in Good
  <2> DEFINE next == IF l[m + 1].value.type = "OBJECT" THEN w[m] ELSE Append(w[m], l[m + 1])
             v    == [n \in 0 .. m + 1 |-> IF n = m + 1 THEN next ELSE w[n]]
  <2>1. \A n \in 0 .. m :
            w[n] = IF n = 0 THEN << >>
                   ELSE IF l[n].value.type = "OBJECT" THEN w[n - 1] ELSE Append(w[n - 1], l[n])
    BY <1>3 DEF WrittenUpTo
  <2>2. \A n \in 0 .. m + 1 :
            v[n] = IF n = 0 THEN << >>
                   ELSE IF l[n].value.type = "OBJECT" THEN v[n - 1] ELSE Append(v[n - 1], l[n])
    <3> TAKE n \in 0 .. m + 1
    <3>1. CASE n = m + 1
      BY <1>1, <3>1
    <3>2. CASE n # m + 1
      <4>1. n \in 0 .. m /\ n # m + 1 /\ v[n] = w[n]
        BY <1>1, <3>2
      <4>2. n # 0 => n - 1 \in 0 .. m + 1 /\ n - 1 # m + 1 /\ v[n - 1] = w[n - 1]
        BY <1>1, <4>1
      <4> HIDE DEF v
      <4> QED BY <2>1, <4>1, <4>2
    <3> QED BY <3>1, <3>2
  <2>3. WrittenUpTo(v, l, m + 1)
    <3>1. v = [n \in 0 .. m + 1 |-> v[n]]
      OBVIOUS
    <3> HIDE DEF v
    <3> QED BY <2>2, <3>1 DEF WrittenUpTo
  <2> HIDE DEF v
  <2> QED BY <1>1, <2>3
<1>4. \A m \in 0 .. Len(l) : m \in Good
  <2>1. \A m \in 0 .. Len(l) - 1 : m \in Good => m + 1 \in Good
    BY <1>3
  <2> HIDE DEF Good
  <2> QED BY <1>1, <1>2, <2>1, UpTo
<1> QED BY <1>1, <1>4

LEMMA SaveIsWritten ==
    ASSUME NEW l \in Seq(StoredItem)
    PROVE  \E w : WrittenUpTo(w, l, Len(l)) /\ SaveToBuffer(l) = w[Len(l)]
<1>1. WrittenUpTo(CHOOSE w : WrittenUpTo(w, l, Len(l)), l, Len(l))
  BY WrittenExists
<1>2. SaveToBuffer(l) = (CHOOSE w : WrittenUpTo(w, l, Len(l)))[Len(l)]
  BY DEF SaveToBuffer, WrittenUpTo
<1> QED BY <1>1, <1>2

\* s holds the items among the first m of l that are not objects, in their order.
Chosen(s, l, m) ==
    \E from \in [1 .. Len(s) -> 1 .. m] :
        /\ \A i, j \in 1 .. Len(s) : i < j => from[i] < from[j]
        /\ \A i \in 1 .. Len(s) : s[i] = l[from[i]]
        /\ \A n \in 1 .. m : l[n].value.type # "OBJECT" <=> \E i \in 1 .. Len(s) : from[i] = n

LEMMA ChosenGrows ==
    ASSUME NEW l \in Seq(StoredItem), NEW m \in 0 .. Len(l) - 1,
           NEW s \in Seq(StoredItem), Chosen(s, l, m), l[m + 1].value.type # "OBJECT"
    PROVE  Append(s, l[m + 1]) \in Seq(StoredItem) /\ Chosen(Append(s, l[m + 1]), l, m + 1)
<1> DEFINE x == l[m + 1]
           t == Append(s, x)
           N == Len(s)
<1>1. N \in Nat /\ Len(l) \in Nat /\ m \in Nat /\ m + 1 \in 1 .. Len(l)
  OBVIOUS
<1>2. x \in StoredItem
  <2>1. \A i \in 1 .. Len(l) : l[i] \in StoredItem
    BY LenProperties
  <2> QED BY <1>1, <2>1
<1>3. t \in Seq(StoredItem) /\ Len(t) = N + 1 /\ (\A i \in 1 .. N : t[i] = s[i]) /\ t[N + 1] = x
  BY <1>2, AppendProperties
<1>4. PICK from \in [1 .. N -> 1 .. m] :
          /\ \A i, j \in 1 .. N : i < j => from[i] < from[j]
          /\ \A i \in 1 .. N : s[i] = l[from[i]]
          /\ \A n \in 1 .. m : l[n].value.type # "OBJECT" <=> \E i \in 1 .. N : from[i] = n
  BY DEF Chosen
<1> DEFINE f == [i \in 1 .. N + 1 |-> IF i = N + 1 THEN m + 1 ELSE from[i]]
<1> HIDE DEF N, t
<1>5. /\ \A i \in 1 .. N : f[i] = from[i] /\ f[i] \in 1 .. m
      /\ f[N + 1] = m + 1
      /\ \A i \in 1 .. N + 1 : i \in 1 .. N \/ i = N + 1
  BY <1>1, <1>4
<1>6. f \in [1 .. N + 1 -> 1 .. m + 1]
  <2>1. \A i \in 1 .. N + 1 : (IF i = N + 1 THEN m + 1 ELSE from[i]) \in 1 .. m + 1
    BY <1>1, <1>4
  <2> QED BY <2>1
<1> HIDE DEF f
<1>7. \A i, j \in 1 .. N + 1 : i < j => f[i] < f[j]
  <2> SUFFICES ASSUME NEW i \in 1 .. N + 1, NEW j \in 1 .. N + 1, i < j PROVE f[i] < f[j]
    OBVIOUS
  <2>1. i \in 1 .. N
    BY <1>1
  <2>2. CASE j \in 1 .. N
    BY <1>4, <1>5, <2>1, <2>2
  <2>3. CASE j = N + 1
    BY <1>1, <1>5, <2>1, <2>3
  <2> QED BY <1>5, <2>2, <2>3
<1>8. \A i \in 1 .. N + 1 : t[i] = l[f[i]]
  BY <1>3, <1>4, <1>5
<1>9. \A n \in 1 .. m + 1 : l[n].value.type # "OBJECT" <=> \E i \in 1 .. N + 1 : f[i] = n
  <2> TAKE n \in 1 .. m + 1
  <2>1. CASE n = m + 1
    <3>1. N + 1 \in 1 .. N + 1
      BY <1>1
    <3> QED BY <1>5, <2>1, <3>1
  <2>2. CASE n # m + 1
    <3>1. n \in 1 .. m
      BY <1>1, <2>2
    <3>2. \A i \in 1 .. N : i \in 1 .. N + 1
      BY <1>1
    <3>3. (\E i \in 1 .. N : from[i] = n) <=> \E i \in 1 .. N + 1 : f[i] = n
      BY <1>5, <2>2, <3>2
    <3> QED BY <1>4, <3>1, <3>3
  <2> QED BY <2>1, <2>2
<1>10. Chosen(t, l, m + 1)
  <2>1. Len(t) = N + 1
    BY <1>3
  <2>2. /\ f \in [1 .. Len(t) -> 1 .. m + 1]
        /\ \A i, j \in 1 .. Len(t) : i < j => f[i] < f[j]
        /\ \A i \in 1 .. Len(t) : t[i] = l[f[i]]
        /\ \A n \in 1 .. m + 1 :
              l[n].value.type # "OBJECT" <=> \E i \in 1 .. Len(t) : f[i] = n
    BY <1>6, <1>7, <1>8, <1>9, <2>1, Zenon
  <2> QED BY <2>2, Zenon DEF Chosen
<1> QED BY <1>3, <1>10 DEF t

LEMMA SaveChooses ==
    ASSUME NEW l \in Seq(StoredItem)
    PROVE  SaveToBuffer(l) \in Seq(StoredItem) /\ Chosen(SaveToBuffer(l), l, Len(l))
<1>1. PICK w : WrittenUpTo(w, l, Len(l)) /\ SaveToBuffer(l) = w[Len(l)]
  BY SaveIsWritten
<1>2. \A n \in 0 .. Len(l) :
          w[n] = IF n = 0 THEN << >>
                 ELSE IF l[n].value.type = "OBJECT" THEN w[n - 1] ELSE Append(w[n - 1], l[n])
  BY <1>1 DEF WrittenUpTo
<1> DEFINE Good == {m \in 0 .. Len(l) : w[m] \in Seq(StoredItem) /\ Chosen(w[m], l, m)}
<1>3. Len(l) \in Nat
  OBVIOUS
<1>4. 0 \in Good
  <2>1. w[0] = << >> /\ 0 \in 0 .. Len(l)
    BY <1>2, <1>3
  <2>2. Chosen(<< >>, l, 0)
    <3> DEFINE from == [i \in 1 .. 0 |-> 0]
    <3>1. from \in [1 .. 0 -> 1 .. 0] /\ Len(<< >>) = 0 /\ \A i \in 1 .. 0 : FALSE
      OBVIOUS
    <3> HIDE DEF from
    <3> QED BY <3>1 DEF Chosen
  <2>3. << >> \in Seq(StoredItem)
    OBVIOUS
  <2>4. w[0] \in Seq(StoredItem) /\ Chosen(w[0], l, 0)
    BY <2>1, <2>2, <2>3
  <2> QED BY <2>1, <2>4
<1>5. ASSUME NEW m \in 0 .. Len(l) - 1, m \in Good PROVE m + 1 \in Good
  <2>1. /\ m + 1 \in 0 .. Len(l) /\ m + 1 # 0 /\ (m + 1) - 1 = m
        /\ w[m] \in Seq(StoredItem) /\ Chosen(w[m], l, m)
    BY <1>3, <1>5
  <2>2. w[m + 1] = IF l[m + 1].value.type = "OBJECT" THEN w[m] ELSE Append(w[m], l[m + 1])
    BY <1>2, <2>1
  <2>3. CASE l[m + 1].value.type = "OBJECT"
    <3>1. Chosen(w[m], l, m + 1)
      <4>1. PICK from \in [1 .. Len(w[m]) -> 1 .. m] :
                /\ \A i, j \in 1 .. Len(w[m]) : i < j => from[i] < from[j]
                /\ \A i \in 1 .. Len(w[m]) : w[m][i] = l[from[i]]
                /\ \A n \in 1 .. m :
                      l[n].value.type # "OBJECT" <=> \E i \in 1 .. Len(w[m]) : from[i] = n
        BY <2>1 DEF Chosen
      <4>2. from \in [1 .. Len(w[m]) -> 1 .. m + 1]
        OBVIOUS
      <4>3. \A n \in 1 .. m + 1 :
                l[n].value.type # "OBJECT" <=> \E i \in 1 .. Len(w[m]) : from[i] = n
        <5> TAKE n \in 1 .. m + 1
        <5>1. CASE n = m + 1
          <6>1. \A i \in 1 .. Len(w[m]) : from[i] \in 1 .. m /\ from[i] # m + 1
            OBVIOUS
          <6> QED BY <2>3, <5>1, <6>1
        <5>2. CASE n # m + 1
          <6>1. n \in 1 .. m
            BY <5>2
          <6> QED BY <4>1, <6>1
        <5> QED BY <5>1, <5>2
      <4> QED BY <4>1, <4>2, <4>3 DEF Chosen
    <3> QED BY <2>1, <2>2, <2>3, <3>1
  <2>4. CASE l[m + 1].value.type # "OBJECT"
    BY <2>1, <2>2, <2>4, ChosenGrows
  <2> QED BY <2>3, <2>4
<1>6. \A m \in 0 .. Len(l) : m \in Good
  <2> HIDE DEF Good
  <2> QED BY <1>3, <1>4, <1>5, UpTo
<1> QED BY <1>1, <1>3, <1>6

LEMMA LoadsNext ==
    ASSUME NEW b \in Seq(StoredItem), UniqueNames(b), NEW n \in 1 .. Len(b),
           b[n].value.type # "INVALID"
    PROVE  SetItem(SubSeq(b, 1, n - 1), b[n]) = SubSeq(b, 1, n)
<1> DEFINE p == SubSeq(b, 1, n - 1)
           s == SubSeq(b, 1, n)
<1>1. Len(b) \in Nat /\ n \in Nat /\ \A i \in 1 .. Len(b) : b[i] \in StoredItem
  BY LenProperties
<1>2. p \in Seq(StoredItem) /\ Len(p) = n - 1 /\ \A i \in 1 .. n - 1 : p[i] = b[i]
  BY <1>1, SubSeqProperties
<1>3. s \in Seq(StoredItem) /\ Len(s) = n /\ \A i \in 1 .. n : s[i] = b[i]
  BY <1>1, SubSeqProperties
<1> HIDE DEF p, s
<1>4. Stored(b[n]) = b[n]
  <2>1. b[n] \in StoredItem
    BY <1>1
  <2>2. b[n] \in Item
    BY <2>1 DEF StoredItem, Item
  <2> QED BY <2>1, <2>2, StoredIsStored
<1>5. SearchStore(p, b[n].name) = 0
  <2> DEFINE k == SearchStore(p, b[n].name)
  <2>1. k \in 0 .. n - 1 /\ (k # 0 => b[n].name # EmptyString /\ p[k].name = b[n].name)
    BY <1>2, SearchFinds
  <2> HIDE DEF k
  <2>2. CASE k # 0
    <3>1. k \in 1 .. n - 1 /\ k \in 1 .. Len(b) /\ k # n
      BY <1>1, <2>1, <2>2
    <3>2. b[k].name = b[n].name /\ b[k].name # EmptyString
      BY <1>2, <2>1, <2>2, <3>1
    <3> QED BY <3>1, <3>2 DEF UniqueNames
  <2> QED BY <2>2 DEF k
<1>6. SetItem(p, b[n]) = Append(p, b[n])
  BY <1>4, <1>5 DEF SetItem
<1>7. Append(p, b[n]) = s
  <2> DEFINE t == Append(p, b[n])
  <2>1. b[n] \in StoredItem
    BY <1>1
  <2>2. t \in Seq(StoredItem) /\ Len(t) = n /\ (\A i \in 1 .. n - 1 : t[i] = p[i]) /\ t[n] = b[n]
    <3>1. /\ t \in Seq(StoredItem) /\ Len(t) = Len(p) + 1
          /\ \A i \in 1 .. Len(p) : t[i] = p[i]
          /\ t[Len(p) + 1] = b[n]
      BY <1>2, <2>1, AppendProperties
    <3>2. Len(p) + 1 = n
      BY <1>1, <1>2
    <3> HIDE DEF t
    <3> QED BY <1>2, <3>1, <3>2
  <2> HIDE DEF t
  <2>3. \A i \in 1 .. Len(t) : t[i] = s[i]
    <3> TAKE i \in 1 .. Len(t)
    <3>1. i \in 1 .. n /\ (i \in 1 .. n - 1 \/ i = n)
      BY <1>1, <2>2
    <3> QED BY <1>2, <1>3, <2>2, <3>1
  <2>4. t = s
    BY <1>3, <2>2, <2>3, SeqEqual
  <2> QED BY <2>4 DEF t
<1> QED BY <1>6, <1>7 DEF p, s

\* LoadFromBuffer puts the items of a buffer with no name twice into an empty list as
\* they are.
LEMMA LoadRestores ==
    ASSUME NEW b \in Seq(StoredItem), UniqueNames(b),
           \A n \in 1 .. Len(b) : ~ UnknownType(b[n].value)
    PROVE  LoadFromBuffer(<< >>, b) = b
<1> DEFINE g == [n \in 0 .. Len(b) |-> SubSeq(b, 1, n)]
           c == CHOOSE w : LoadedUpTo(w, b, Len(b))
<1>1. Len(b) \in Nat /\ \A i \in 1 .. Len(b) : b[i] \in StoredItem
  BY LenProperties
<1>0. \A n \in 0 .. Len(b) : ~ \E k \in 1 .. n : UnknownType(b[k].value)
  BY <1>1
<1>a. \A n \in 1 .. Len(b) : b[n].value.type # "INVALID"
  BY DEF UnknownType
<1>2. SubSeq(b, 1, 0) = << >>
  OBVIOUS
<1>3. LoadedUpTo(g, b, Len(b))
  <2>1. \A n \in 0 .. Len(b) :
            g[n] = IF n = 0 THEN << >>
                   ELSE IF \E k \in 1 .. n : UnknownType(b[k].value) THEN g[n - 1]
                   ELSE SetItem(g[n - 1], b[n])
    <3> TAKE n \in 0 .. Len(b)
    <3>1. CASE n = 0
      BY <1>2, <3>1
    <3>2. CASE n # 0
      <4>1. n \in 1 .. Len(b) /\ n - 1 \in 0 .. Len(b)
        BY <1>1, <3>2
      <4>2. g[n] = SubSeq(b, 1, n) /\ g[n - 1] = SubSeq(b, 1, n - 1)
        BY <4>1
      <4>3. SetItem(SubSeq(b, 1, n - 1), b[n]) = SubSeq(b, 1, n)
        BY <4>1, <1>a, LoadsNext
      <4> HIDE DEF g
      <4> QED BY <1>0, <3>2, <4>2, <4>3
    <3> QED BY <3>1, <3>2
  <2>2. g = [n \in 0 .. Len(b) |-> g[n]]
    OBVIOUS
  <2> HIDE DEF g
  <2> QED BY <2>1, <2>2 DEF LoadedUpTo
<1>4. LoadedUpTo(c, b, Len(b))
  <2>1. \E w : LoadedUpTo(w, b, Len(b))
    BY <1>3
  <2> QED BY <2>1
<1>5. LoadFromBuffer(<< >>, b) = c[Len(b)]
  BY DEF LoadFromBuffer, LoadedUpTo
<1> HIDE DEF c, g
<1>6. \A n \in 0 .. Len(b) : c[n] = IF n = 0 THEN << >> ELSE SetItem(c[n - 1], b[n])
  <2>1. \A n \in 0 .. Len(b) :
            c[n] = IF n = 0 THEN << >>
                   ELSE IF \E k \in 1 .. n : UnknownType(b[k].value) THEN c[n - 1]
                   ELSE SetItem(c[n - 1], b[n])
    BY <1>4 DEF LoadedUpTo
  <2> QED BY <1>0, <2>1
<1> DEFINE Good == {n \in 0 .. Len(b) : c[n] = SubSeq(b, 1, n)}
<1>7. 0 \in Good
  <2>1. 0 \in 0 .. Len(b)
    BY <1>1
  <2>2. c[0] = << >>
    BY <1>6, <2>1
  <2> QED BY <1>2, <2>1, <2>2
<1>8. ASSUME NEW n \in 0 .. Len(b) - 1, n \in Good PROVE n + 1 \in Good
  <2>1. /\ n + 1 \in 1 .. Len(b) /\ n + 1 \in 0 .. Len(b) /\ n + 1 # 0 /\ (n + 1) - 1 = n
        /\ c[n] = SubSeq(b, 1, n)
    BY <1>1, <1>8
  <2>2. c[n + 1] = SetItem(c[n], b[n + 1])
    BY <1>6, <2>1
  <2>3. SetItem(SubSeq(b, 1, n), b[n + 1]) = SubSeq(b, 1, n + 1)
    BY <2>1, <1>a, LoadsNext
  <2> QED BY <2>1, <2>2, <2>3
<1>9. \A n \in 0 .. Len(b) : n \in Good
  <2> HIDE DEF Good
  <2> QED BY <1>1, <1>7, <1>8, UpTo
<1>10. SubSeq(b, 1, Len(b)) = b
  OBVIOUS
<1> QED BY <1>1, <1>5, <1>9, <1>10

-----------------------------------------------------------------------------
(* The invariant of the stores and the calls under way.                    *)

Through == {"copyItem", "copyAll", "matchItem", "matchAll"}
Working == {"has", "delete", "set", "inner", "type", "value"}

\* What a call under way still has to do, and that it is still there in l, the list of
\* the store the call goes through.
FrameOK(f, l) ==
    /\ f.op \in {"copyItem", "matchItem"} =>
          Len(f.todo) = 1 /\ (f.step # "lock" => f.todo[1] \in ToSet(l))
    /\ f.op \in {"copyAll", "matchAll"} /\ f.step # "lock" => IsSuffix(f.todo, l)
    /\ f.step = "lock" => f.op \in Through
    /\ f.step \in Working => f.todo # << >>

StoresInv ==
    /\ TypeOK
    /\ \A s \in Store : UniqueNames(items[s])
    /\ \A t \in Thread : FrameOK(call[t], items[call[t].src])

LEMMA NamesOfEach ==
    ASSUME TypeOK
    PROVE  NamesUnique <=> \A s \in Store : UniqueNames(items[s])
<1>1. \A s \in Store : DOMAIN items[s] = 1 .. Len(items[s])
  <2>1. \A s \in Store : items[s] \in Seq(StoredItem)
    BY DEF TypeOK
  <2> QED BY <2>1
<1> QED BY <1>1 DEF NamesUnique, UniqueNames

LEMMA SuffixIs ==
    ASSUME NEW S, NEW s \in Seq(S), NEW l \in Seq(S)
    PROVE  IsSuffix(s, l) <=> /\ Len(s) <= Len(l)
                              /\ \A i \in 1 .. Len(s) : s[i] = l[Len(l) - Len(s) + i]
<1> DEFINE r == Reverse(s)
           q == Reverse(l)
<1>1. Len(s) \in Nat /\ Len(l) \in Nat
  OBVIOUS
<1>2. /\ r \in Seq(S) /\ Len(r) = Len(s)
      /\ \A i \in 1 .. Len(s) : r[i] = s[Len(s) - i + 1]
  <2>1. \A i \in 1 .. Len(s) : Len(s) - i + 1 \in 1 .. Len(s)
    BY <1>1
  <2>2. \A i \in 1 .. Len(s) : s[i] \in S
    BY LenProperties
  <2>3. \A i \in 1 .. Len(s) : s[Len(s) - i + 1] \in S
    BY <2>1, <2>2
  <2>4. [i \in 1 .. Len(s) |-> s[Len(s) - i + 1]] \in Seq(S)
    BY <1>1, <2>3, IsASeq
  <2> QED BY <1>1, <2>4 DEF Reverse
<1>3. /\ q \in Seq(S) /\ Len(q) = Len(l)
      /\ \A i \in 1 .. Len(l) : q[i] = l[Len(l) - i + 1]
  <2>1. \A i \in 1 .. Len(l) : Len(l) - i + 1 \in 1 .. Len(l)
    BY <1>1
  <2>2. \A i \in 1 .. Len(l) : l[i] \in S
    BY LenProperties
  <2>3. \A i \in 1 .. Len(l) : l[Len(l) - i + 1] \in S
    BY <2>1, <2>2
  <2>4. [i \in 1 .. Len(l) |-> l[Len(l) - i + 1]] \in Seq(S)
    BY <1>1, <2>3, IsASeq
  <2> QED BY <1>1, <2>4 DEF Reverse
<1>4. IsSuffix(s, l) <=> Len(r) <= Len(q) /\ SubSeq(r, 1, Len(r)) = SubSeq(q, 1, Len(r))
  BY DEF IsSuffix, IsPrefix
<1> HIDE DEF r, q
<1> SUFFICES ASSUME Len(s) <= Len(l)
             PROVE  SubSeq(r, 1, Len(s)) = SubSeq(q, 1, Len(s))
                      <=> \A i \in 1 .. Len(s) : s[i] = l[Len(l) - Len(s) + i]
  BY <1>2, <1>3, <1>4
<1>5. SubSeq(r, 1, Len(s)) \in Seq(S) /\ Len(SubSeq(r, 1, Len(s))) = Len(s)
        /\ \A i \in 1 .. Len(s) : SubSeq(r, 1, Len(s))[i] = r[i]
  <2>1. \A i \in 1 .. Len(s) : r[i] \in S
    BY <1>2, LenProperties
  <2> QED BY <1>1, <1>2, <2>1, SubSeqProperties
<1>6. SubSeq(q, 1, Len(s)) \in Seq(S) /\ Len(SubSeq(q, 1, Len(s))) = Len(s)
        /\ \A i \in 1 .. Len(s) : SubSeq(q, 1, Len(s))[i] = q[i]
  <2>1. \A i \in 1 .. Len(s) : q[i] \in S
    BY <1>1, <1>3, LenProperties
  <2> QED BY <1>1, <1>3, <2>1, SubSeqProperties
<1>7. SubSeq(r, 1, Len(s)) = SubSeq(q, 1, Len(s)) <=> \A i \in 1 .. Len(s) : r[i] = q[i]
  <2>1. ASSUME SubSeq(r, 1, Len(s)) = SubSeq(q, 1, Len(s)), NEW i \in 1 .. Len(s)
        PROVE  r[i] = q[i]
    BY <1>5, <1>6, <2>1
  <2>2. ASSUME \A i \in 1 .. Len(s) : r[i] = q[i]
        PROVE  SubSeq(r, 1, Len(s)) = SubSeq(q, 1, Len(s))
    <3> DEFINE x == SubSeq(r, 1, Len(s))
               y == SubSeq(q, 1, Len(s))
    <3>1. x \in Seq(S) /\ y \in Seq(S) /\ Len(x) = Len(y) /\ \A i \in 1 .. Len(x) : x[i] = y[i]
      BY <1>5, <1>6, <2>2
    <3> HIDE DEF x, y
    <3>2. x = y
      BY <3>1, SeqEqual
    <3> QED BY <3>2 DEF x, y
  <2> QED BY <2>1, <2>2
<1>8. (\A i \in 1 .. Len(s) : r[i] = q[i])
        <=> \A i \in 1 .. Len(s) : s[i] = l[Len(l) - Len(s) + i]
  <2>1. \A i \in 1 .. Len(s) :
            /\ r[i] = s[Len(s) - i + 1] /\ q[i] = l[Len(l) - i + 1]
            /\ Len(s) - i + 1 \in 1 .. Len(s)
            /\ Len(s) - (Len(s) - i + 1) + 1 = i
            /\ Len(l) - Len(s) + (Len(s) - i + 1) = Len(l) - i + 1
    BY <1>1, <1>2, <1>3
  <2>2. ASSUME \A i \in 1 .. Len(s) : r[i] = q[i], NEW i \in 1 .. Len(s)
        PROVE  s[i] = l[Len(l) - Len(s) + i]
    <3> DEFINE j == Len(s) - i + 1
    <3>1. j \in 1 .. Len(s) /\ Len(s) - j + 1 = i /\ Len(l) - j + 1 = Len(l) - Len(s) + i
      BY <1>1
    <3> HIDE DEF j
    <3>2. r[j] = q[j] /\ r[j] = s[Len(s) - j + 1] /\ q[j] = l[Len(l) - j + 1]
      BY <2>1, <2>2, <3>1
    <3> QED BY <3>1, <3>2
  <2>3. ASSUME \A i \in 1 .. Len(s) : s[i] = l[Len(l) - Len(s) + i], NEW i \in 1 .. Len(s)
        PROVE  r[i] = q[i]
    <3> DEFINE j == Len(s) - i + 1
    <3>1. j \in 1 .. Len(s) /\ Len(l) - Len(s) + j = Len(l) - i + 1
      BY <1>1
    <3>2. r[i] = s[j] /\ q[i] = l[Len(l) - i + 1]
      BY <2>1
    <3> HIDE DEF j
    <3>3. s[j] = l[Len(l) - Len(s) + j]
      BY <2>3, <3>1
    <3> QED BY <3>1, <3>2, <3>3
  <2> QED BY <2>2, <2>3
<1> QED BY <1>7, <1>8

LEMMA SuffixOfAll ==
    ASSUME NEW S, NEW l \in Seq(S)
    PROVE  IsSuffix(l, l)
<1>1. Len(l) \in Nat /\ \A i \in 1 .. Len(l) : Len(l) - Len(l) + i = i
  OBVIOUS
<1> QED BY <1>1, SuffixIs

LEMMA SuffixTail ==
    ASSUME NEW S, NEW s \in Seq(S), s # << >>, NEW l \in Seq(S)
    PROVE  /\ Tail(s) \in Seq(S)
           /\ Len(s) # 1 => Tail(s) # << >>
           /\ IsSuffix(s, l) => IsSuffix(Tail(s), l)
<1>1. Len(s) \in Nat /\ Len(s) # 0 /\ Len(l) \in Nat
  OBVIOUS
<1>2. Tail(s) \in Seq(S) /\ Len(Tail(s)) = Len(s) - 1 /\ \A i \in 1 .. Len(s) - 1 : Tail(s)[i] = s[i + 1]
  BY HeadTailProperties
<1>3. ASSUME IsSuffix(s, l) PROVE IsSuffix(Tail(s), l)
  <2>1. Len(s) <= Len(l) /\ \A i \in 1 .. Len(s) : s[i] = l[Len(l) - Len(s) + i]
    BY <1>3, SuffixIs
  <2>2. Len(Tail(s)) <= Len(l)
    BY <1>1, <1>2, <2>1
  <2>3. \A i \in 1 .. Len(Tail(s)) : Tail(s)[i] = l[Len(l) - Len(Tail(s)) + i]
    <3> TAKE i \in 1 .. Len(Tail(s))
    <3>1. i \in 1 .. Len(s) - 1 /\ i + 1 \in 1 .. Len(s)
          /\ Len(l) - Len(Tail(s)) + i = Len(l) - Len(s) + (i + 1)
      BY <1>1, <1>2
    <3>2. Tail(s)[i] = s[i + 1] /\ s[i + 1] = l[Len(l) - Len(s) + (i + 1)]
      BY <1>2, <2>1, <3>1
    <3> QED BY <3>1, <3>2
  <2> QED BY <1>2, <2>2, <2>3, SuffixIs
<1>4. ASSUME Len(s) # 1 PROVE Tail(s) # << >>
  <2>1. Len(Tail(s)) # 0
    BY <1>1, <1>2, <1>4
  <2>2. Len(<< >>) = 0
    OBVIOUS
  <2> QED BY <2>1, <2>2
<1> QED BY <1>2, <1>3, <1>4

-----------------------------------------------------------------------------
(* The steps. *)

LEMMA StoredItemIsItem == Seq(StoredItem) \subseteq Seq(Item) /\ StoredItem \subseteq Item
<1>1. StoredItem \subseteq Item
  BY DEF StoredItem, Item
<1> QED BY <1>1

LEMMA FrameElsewhere ==
    ASSUME NEW f, NEW l, FrameOK(f, l), f.op \notin Through \/ f.step = "lock", NEW k
    PROVE  FrameOK(f, k)
BY DEF FrameOK, Through

LEMMA NoCallIsFrame == NoCall \in Frames /\ \A l : FrameOK(NoCall, l)
<1> DEFINE s == CHOOSE s \in Store : TRUE
<1>1. s \in Store
  BY AttributesAssumption
<1>2. NoCall = [op |-> "none", src |-> s, dst |-> s, step |-> "out", todo |-> << >>]
  BY DEF NoCall, Frame
<1> HIDE DEF s
<1> QED BY <1>1, <1>2 DEF Frames, Op, Stage, FrameOK, Working

\* Thread t goes on with frame f; a store that another call goes through stays as it is.
LEMMA StepKeeps ==
    ASSUME StoresInv, NEW t \in Thread, NEW f \in Frames, call' = [call EXCEPT ![t] = f],
           FrameOK(f, items'[f.src]),
           items' \in [Store -> Seq(StoredItem)], \A s \in Store : UniqueNames(items'[s]),
           \A u \in Thread, s \in Store : Reads(u, s) => items'[s] = items[s],
           saved' \in Seq(StoredItem), calls' \in [Thread -> 0 .. MaxCalls],
           UNCHANGED writersFirst
    PROVE  StoresInv'
<1>1. call \in [Thread -> Frames]
  BY DEF StoresInv, TypeOK
<1>2. call' \in [Thread -> Frames] /\ call'[t] = f /\ \A u \in Thread \ {t} : call'[u] = call[u]
  BY <1>1
<1>3. TypeOK'
  BY <1>2 DEF StoresInv, TypeOK
<1>4. ASSUME NEW u \in Thread \ {t} PROVE FrameOK(call[u], items'[call[u].src])
  <2>1. FrameOK(call[u], items[call[u].src]) /\ call[u].src \in Store
    BY <1>1 DEF StoresInv, Frames
  <2>2. CASE call[u].op \in Through /\ call[u].step # "lock"
    <3>1. Reads(u, call[u].src)
      BY <2>2 DEF Reads, Through
    <3> QED BY <2>1, <3>1
  <2>3. CASE ~ (call[u].op \in Through /\ call[u].step # "lock")
    BY <2>1, <2>3, FrameElsewhere
  <2> QED BY <2>2, <2>3
<1>5. \A u \in Thread : FrameOK(call'[u], items'[call'[u].src])
  BY <1>2, <1>4
<1> QED BY <1>3, <1>5 DEF StoresInv

\* The same if no store changes.
LEMMA QuietStepKeeps ==
    ASSUME StoresInv, NEW t \in Thread, NEW f \in Frames, call' = [call EXCEPT ![t] = f],
           FrameOK(f, items[f.src]), items' = items,
           calls' \in [Thread -> 0 .. MaxCalls], UNCHANGED <<writersFirst, saved>>
    PROVE  StoresInv'
<1>1. /\ items' \in [Store -> Seq(StoredItem)] /\ \A s \in Store : UniqueNames(items'[s])
      /\ saved' \in Seq(StoredItem)
  BY DEF StoresInv, TypeOK
<1> QED BY <1>1, StepKeeps

LEMMA ReturnFrame ==
    ASSUME NEW t, Return(t)
    PROVE  call' = [call EXCEPT ![t] = NoCall]
BY DEF Return

LEMMA GoFrame ==
    ASSUME TypeOK, NEW t \in Thread, NEW step \in Stage, NEW todo \in Seq(Item), Go(t, step, todo)
    PROVE  LET f == [op |-> call[t].op, src |-> call[t].src, dst |-> call[t].dst,
                     step |-> step, todo |-> todo]
           IN f \in Frames /\ call' = [call EXCEPT ![t] = f]
<1>1. call \in [Thread -> Frames] /\ call[t] \in Frames
  BY DEF TypeOK
<1>2. call' = [call EXCEPT ![t] = [call[t] EXCEPT !.step = step, !.todo = todo]]
  BY <1>1 DEF Go
<1>3. [call[t] EXCEPT !.step = step, !.todo = todo]
        = [op |-> call[t].op, src |-> call[t].src, dst |-> call[t].dst, step |-> step, todo |-> todo]
  <2> DEFINE g == [call[t] EXCEPT !.step = step]
  <2>1. g = [op |-> call[t].op, src |-> call[t].src, dst |-> call[t].dst,
             step |-> step, todo |-> call[t].todo]
    BY <1>1 DEF Frames
  <2>2. [call[t] EXCEPT !.step = step, !.todo = todo] = [g EXCEPT !.todo = todo]
    BY <1>1 DEF Frames
  <2> HIDE DEF g
  <2>3. g \in Frames /\ g.op = call[t].op /\ g.src = call[t].src /\ g.dst = call[t].dst /\ g.step = step
    BY <1>1, <2>1 DEF Frames
  <2>4. [g EXCEPT !.todo = todo]
          = [op |-> g.op, src |-> g.src, dst |-> g.dst, step |-> g.step, todo |-> todo]
    BY <2>3 DEF Frames
  <2> QED BY <2>2, <2>3, <2>4
<1> QED BY <1>1, <1>2, <1>3 DEF Frames

LEMMA BeginKeeps ==
    ASSUME StoresInv, NEW t \in Thread, NEW f \in Frames, Begin(t, f), \A l : FrameOK(f, l),
           calls[t] < MaxCalls
    PROVE  StoresInv'
<1>1. /\ call' = [call EXCEPT ![t] = f] /\ items' = items
      /\ UNCHANGED <<writersFirst, saved>>
  BY DEF Begin
<1>2. calls' \in [Thread -> 0 .. MaxCalls]
  <2>1. calls \in [Thread -> 0 .. MaxCalls] /\ MaxCalls \in Nat
    BY AttributesAssumption DEF StoresInv, TypeOK
  <2>2. calls' = [calls EXCEPT ![t] = calls[t] + 1] /\ calls[t] < MaxCalls
    BY DEF Begin
  <2> QED BY <2>1, <2>2
<1> QED BY <1>1, <1>2, QuietStepKeeps

\* The frames calls begin with.
LEMMA FrameOfCall ==
    ASSUME NEW op \in Op, NEW src \in Store, NEW dst \in Store, NEW step \in Stage,
           NEW todo \in Seq(Item),
           \/ op \in Through /\ step = "lock" /\ (op \in {"copyItem", "matchItem"} => Len(todo) = 1)
           \/ op \notin Through /\ step # "lock" /\ (step \in Working => todo # << >>)
    PROVE  Frame(op, src, dst, step, todo) \in Frames /\ \A l : FrameOK(Frame(op, src, dst, step, todo), l)
BY DEF Frame, Frames, FrameOK, Through, Working

LEMMA BeginsKeep == ASSUME StoresInv, NEW t \in Thread, Begins(t) PROVE StoresInv'
<1> USE DEF Op, Stage, Through, Working
<1>0. calls[t] < MaxCalls
  BY DEF Begins
<1>1. ASSUME NEW s \in Store, NEW item \in Given, BeginSet(t, s, item) PROVE StoresInv'
  <2>1. item \in Item
    BY AttributesAssumption DEF Item, Name, Value
  <2>2. <<item>> \in Seq(Item) /\ <<item>> # << >>
    BY <2>1
  <2> DEFINE f == Frame("set", s, s, "set", <<item>>)
  <2>3. f \in Frames /\ \A l : FrameOK(f, l)
    BY <2>2, FrameOfCall
  <2>4. Begin(t, f)
    BY <1>1 DEF BeginSet
  <2> HIDE DEF f
  <2> QED BY <1>0, <2>3, <2>4, BeginKeeps
<1>2. ASSUME NEW name \in Name
      PROVE  LET todo == <<[name |-> name, value |-> Invalid]>>
             IN todo \in Seq(Item) /\ todo # << >> /\ Len(todo) = 1
  BY DEF Item
<1>3. ASSUME NEW s \in Store, NEW name \in Name, BeginDelete(t, s, name) PROVE StoresInv'
  <2> DEFINE todo == <<[name |-> name, value |-> Invalid]>>
             f    == Frame("delete", s, s, "delete", todo)
  <2>1. f \in Frames /\ \A l : FrameOK(f, l)
    <3>1. todo \in Seq(Item) /\ todo # << >>
      BY <1>2
    <3> HIDE DEF todo
    <3> QED BY <3>1, FrameOfCall
  <2>2. Begin(t, f)
    BY <1>3 DEF BeginDelete
  <2> HIDE DEF f
  <2> QED BY <1>0, <2>1, <2>2, BeginKeeps
<1>4. ASSUME NEW s \in Store, BeginClear(t, s) PROVE StoresInv'
  <2> DEFINE todo == << >>
             f    == Frame("clear", s, s, "clear", todo)
  <2>1. f \in Frames /\ \A l : FrameOK(f, l)
    <3>1. todo \in Seq(Item)
      OBVIOUS
    <3> HIDE DEF todo
    <3>2. "clear" \in Op /\ "clear" \in Stage /\ "clear" \notin Through /\ "clear" \notin Working
      OBVIOUS
    <3> QED BY <3>1, <3>2, FrameOfCall
  <2>2. Begin(t, f)
    BY <1>4 DEF BeginClear
  <2> HIDE DEF f
  <2> QED BY <1>0, <2>1, <2>2, BeginKeeps
<1>5. ASSUME NEW s \in Store, NEW buffer \in {saved} \cup Received, BeginLoad(t, s, buffer)
      PROVE  StoresInv'
  <2> DEFINE f == Frame("load", s, s, "set", buffer)
  <2>1. f \in Frames /\ \A l : FrameOK(f, l)
    <3>1. buffer \in Seq(Item)
      BY StoredItemIsItem, AttributesAssumption DEF StoresInv, TypeOK
    <3>2. buffer # << >>
      BY <1>5 DEF BeginLoad
    <3> QED BY <3>1, <3>2, FrameOfCall
  <2>2. Begin(t, f)
    BY <1>5 DEF BeginLoad
  <2> HIDE DEF f
  <2> QED BY <1>0, <2>1, <2>2, BeginKeeps
<1>6. ASSUME NEW s \in Store, NEW d \in Store, NEW name \in Name, NEW op \in {"copyItem", "matchItem"},
             Begin(t, Frame(op, s, d, "lock", <<[name |-> name, value |-> Invalid]>>))
      PROVE  StoresInv'
  <2> DEFINE todo == <<[name |-> name, value |-> Invalid]>>
             f    == Frame(op, s, d, "lock", todo)
  <2>1. f \in Frames /\ \A l : FrameOK(f, l)
    <3>1. todo \in Seq(Item) /\ Len(todo) = 1
      BY <1>2
    <3> HIDE DEF todo
    <3> QED BY <3>1, FrameOfCall
  <2>2. Begin(t, f)
    BY <1>6
  <2> HIDE DEF f
  <2> QED BY <1>0, <2>1, <2>2, BeginKeeps
<1>7. ASSUME NEW s \in Store, NEW d \in Store, NEW op \in {"copyAll", "matchAll"},
             Begin(t, Frame(op, s, d, "lock", << >>))
      PROVE  StoresInv'
  <2> DEFINE f == Frame(op, s, d, "lock", << >>)
  <2>1. f \in Frames /\ \A l : FrameOK(f, l)
    <3>1. << >> \in Seq(Item)
      OBVIOUS
    <3> QED BY <3>1, FrameOfCall
  <2>2. Begin(t, f)
    BY <1>7
  <2> HIDE DEF f
  <2> QED BY <1>0, <2>1, <2>2, BeginKeeps
<1>8. ASSUME NEW s \in Store, NEW d \in Store, NEW name \in Name,
             BeginCopyItem(t, s, d, name) \/ BeginMatchItem(t, s, d, name)
      PROVE  StoresInv'
  BY <1>6, <1>8 DEF BeginCopyItem, BeginMatchItem
<1>9. ASSUME NEW s \in Store, NEW d \in Store, BeginCopyAll(t, s, d) \/ BeginMatchAll(t, s, d)
      PROVE  StoresInv'
  BY <1>7, <1>9 DEF BeginCopyAll, BeginMatchAll
<1> QED BY <1>1, <1>3, <1>4, <1>5, <1>8, <1>9 DEF Begins

\* A call that returns, or goes on with what it still has to do.
LEMMA ReturnKeeps ==
    ASSUME StoresInv, NEW t \in Thread, Return(t), UNCHANGED items, callUnchanged
    PROVE  StoresInv'
<1>1. call' = [call EXCEPT ![t] = NoCall] /\ NoCall \in Frames /\ FrameOK(NoCall, items[NoCall.src])
  BY ReturnFrame, NoCallIsFrame
<1>2. calls' \in [Thread -> 0 .. MaxCalls] /\ UNCHANGED <<writersFirst, saved>>
  BY DEF callUnchanged, StoresInv, TypeOK
<1> QED BY <1>1, <1>2, QuietStepKeeps

LEMMA GoKeeps ==
    ASSUME StoresInv, NEW t \in Thread, NEW step \in Working, call[t].step # "lock",
           Go(t, step, call[t].todo), call[t].todo # << >>,
           UNCHANGED items, callUnchanged
    PROVE  StoresInv'
<1> DEFINE f == [op |-> call[t].op, src |-> call[t].src, dst |-> call[t].dst,
                 step |-> step, todo |-> call[t].todo]
<1>1. call[t] \in Frames /\ step \in Stage /\ TypeOK
  BY DEF StoresInv, TypeOK, Working, Stage
<1>2. call[t].todo \in Seq(Item)
  BY <1>1 DEF Frames
<1>3. f \in Frames /\ call' = [call EXCEPT ![t] = f]
  BY <1>1, <1>2, GoFrame
<1>4. FrameOK(f, items[f.src])
  <2>1. FrameOK(call[t], items[call[t].src])
    BY DEF StoresInv
  <2>2. /\ f.op = call[t].op /\ f.src = call[t].src /\ f.todo = call[t].todo /\ f.step = step
        /\ step # "lock"
    BY DEF Working
  <2> HIDE DEF f
  <2> QED BY <2>1, <2>2 DEF FrameOK
<1>5. calls' \in [Thread -> 0 .. MaxCalls] /\ UNCHANGED <<writersFirst, saved>>
  BY DEF callUnchanged, StoresInv, TypeOK
<1> HIDE DEF f
<1> QED BY <1>3, <1>4, <1>5, QuietStepKeeps

LEMMA LockSourceKeeps ==
    ASSUME StoresInv, NEW t \in Thread, LockSource(t)
    PROVE  StoresInv'
<1> DEFINE src  == call[t].src
           l    == items[src]
           n    == SearchStore(l, call[t].todo[1].name)
           todo == IF call[t].op \in {"copyAll", "matchAll"} THEN l
                   ELSE IF n = 0 THEN << >> ELSE <<l[n]>>
           step == CASE call[t].op = "copyItem"  -> "has"
                     [] call[t].op = "copyAll"   -> "set"
                     [] call[t].op = "matchItem" -> "type"
                     [] call[t].op = "matchAll"  -> "inner"
           f    == [op |-> call[t].op, src |-> src, dst |-> call[t].dst, step |-> step, todo |-> todo]
<1>1. call[t] \in Frames /\ TypeOK /\ src \in Store /\ l \in Seq(StoredItem)
  <2>1. call[t] \in Frames /\ TypeOK
    BY DEF StoresInv, TypeOK
  <2>2. src \in Store
    BY <2>1 DEF Frames
  <2> QED BY <2>1, <2>2 DEF TypeOK
<1>2. /\ call[t].step = "lock"
      /\ IF todo = << >> THEN Return(t) ELSE Go(t, step, todo)
      /\ UNCHANGED items /\ callUnchanged
  BY DEF LockSource
<1>3. call[t].op \in Through
  BY <1>2 DEF StoresInv, FrameOK
<1>4. step \in Working /\ step \in Stage /\ step # "lock"
  BY <1>3 DEF Through, Working, Stage
<1>5. n \in 0 .. Len(l)
  BY <1>1, SearchFinds
<1>6. n # 0 => n \in DOMAIN l /\ l[n] \in StoredItem /\ l[n] \in ToSet(l)
  <2>1. DOMAIN l = 1 .. Len(l) /\ Len(l) \in Nat /\ \A i \in 1 .. Len(l) : l[i] \in StoredItem
    BY <1>1, LenProperties
  <2> HIDE DEF n, l
  <2>2. n # 0 => n \in 1 .. Len(l)
    BY <1>5, <2>1
  <2> QED BY <2>1, <2>2 DEF ToSet
<1>7. l \in Seq(Item) /\ IsSuffix(l, l)
  BY <1>1, StoredItemIsItem, SuffixOfAll
<1>8. CASE todo = << >>
  BY <1>2, <1>8, ReturnKeeps
<1>9. CASE todo # << >>
  <2>1. CASE call[t].op \in {"copyAll", "matchAll"}
    <3>1. todo = l
      BY <2>1
    <3>2. todo \in Seq(Item) /\ Go(t, step, todo)
      BY <1>2, <1>7, <1>9, <3>1
    <3> HIDE DEF todo, step, l, n
    <3>3. f \in Frames /\ call' = [call EXCEPT ![t] = f]
      BY <1>1, <1>4, <3>2, GoFrame
    <3>4. f.op = call[t].op /\ f.src = src /\ f.todo = l /\ f.step = step
      BY <3>1
    <3>5. FrameOK(f, items[f.src])
      <4> HIDE DEF f, src
      <4> QED BY <1>4, <1>7, <1>9, <2>1, <3>1, <3>4 DEF FrameOK, l
    <3>6. calls' \in [Thread -> 0 .. MaxCalls] /\ UNCHANGED <<writersFirst, saved>>
      BY <1>2 DEF callUnchanged, StoresInv, TypeOK
    <3> HIDE DEF f
    <3> QED BY <1>2, <3>3, <3>5, <3>6, QuietStepKeeps
  <2>2. CASE call[t].op \in {"copyItem", "matchItem"}
    <3>1. todo = <<l[n]>> /\ n # 0
      BY <1>9, <2>2
    <3>2. l[n] \in Item /\ l[n] \in ToSet(l)
      BY <1>6, <3>1, StoredItemIsItem
    <3>3. todo \in Seq(Item) /\ Go(t, step, todo) /\ Len(todo) = 1 /\ todo[1] \in ToSet(l)
      <4>1. Go(t, step, todo)
        BY <1>2, <1>9
      <4> HIDE DEF todo, step, n, l
      <4> QED BY <3>1, <3>2, <4>1
    <3> HIDE DEF todo, step, l, n
    <3>4. f \in Frames /\ call' = [call EXCEPT ![t] = f]
      BY <1>1, <1>4, <3>3, GoFrame
    <3>5. f.op = call[t].op /\ f.src = src /\ f.todo = todo /\ f.step = step
      OBVIOUS
    <3>6. FrameOK(f, items[f.src])
      <4> HIDE DEF f, src
      <4> QED BY <1>4, <1>9, <2>2, <3>3, <3>5 DEF FrameOK, l
    <3>7. calls' \in [Thread -> 0 .. MaxCalls] /\ UNCHANGED <<writersFirst, saved>>
      BY <1>2 DEF callUnchanged, StoresInv, TypeOK
    <3> HIDE DEF f
    <3> QED BY <1>2, <3>4, <3>6, <3>7, QuietStepKeeps
  <2> QED BY <1>3, <2>1, <2>2 DEF Through
<1> QED BY <1>8, <1>9

\* A writer: the list of dst, which nobody reads, becomes k, and the call returns or
\* goes on with some of what it had to do.
LEMMA WriteKeeps ==
    ASSUME StoresInv, NEW t \in Thread, NEW f \in Frames, call' = [call EXCEPT ![t] = f],
           CanWrite(t, call[t].dst),
           NEW k \in Seq(StoredItem), UniqueNames(k), items' = [items EXCEPT ![call[t].dst] = k],
           FrameOK(f, items[f.src]),
           f.op \in Through => f.op = call[t].op /\ f.src = call[t].src /\ call[t].step # "lock",
           callUnchanged
    PROVE  StoresInv'
<1> DEFINE dst == call[t].dst
<1>1. items \in [Store -> Seq(StoredItem)] /\ dst \in Store
  BY DEF StoresInv, TypeOK, Frames
<1>2. items' \in [Store -> Seq(StoredItem)] /\ \A s \in Store : items'[s] = IF s = dst THEN k ELSE items[s]
  BY <1>1
<1>3. \A s \in Store : UniqueNames(items'[s])
  BY <1>2 DEF StoresInv
<1>4. \A u \in Thread, s \in Store : Reads(u, s) => items'[s] = items[s]
  BY <1>2 DEF CanWrite
<1>5. FrameOK(f, items'[f.src])
  <2>1. CASE f.op \in Through
    <3>1. Reads(t, f.src) /\ f.src \in Store
      BY <2>1 DEF Reads, Through, Frames
    <3> QED BY <1>4, <3>1
  <2>2. CASE f.op \notin Through
    BY <2>2, FrameElsewhere
  <2> QED BY <2>1, <2>2
<1>6. calls' \in [Thread -> 0 .. MaxCalls] /\ saved' \in Seq(StoredItem) /\ UNCHANGED writersFirst
  BY DEF callUnchanged, StoresInv, TypeOK
<1> QED BY <1>2, <1>3, <1>4, <1>5, <1>6, StepKeeps

LEMMA WritersKeep ==
    ASSUME StoresInv, NEW t \in Thread, DeleteStep(t) \/ ClearStep(t) \/ SetStep(t)
    PROVE  StoresInv'
<1> DEFINE src == call[t].src
           dst == call[t].dst
           l   == items[dst]
           todo == call[t].todo
<1>1. /\ TypeOK /\ call[t] \in Frames /\ src \in Store /\ dst \in Store /\ todo \in Seq(Item)
      /\ l \in Seq(StoredItem) /\ UniqueNames(l)
      /\ FrameOK(call[t], items[src])
  <2>1. TypeOK /\ call[t] \in Frames
    BY DEF StoresInv, TypeOK
  <2>2. src \in Store /\ dst \in Store /\ todo \in Seq(Item)
    BY <2>1 DEF Frames
  <2> QED BY <2>1, <2>2 DEF StoresInv, TypeOK
<1>2. NoCall \in Frames /\ FrameOK(NoCall, items[NoCall.src]) /\ NoCall.op \notin Through
  BY NoCallIsFrame DEF NoCall, Frame, Through
<1>3. ASSUME NEW k \in Seq(StoredItem), UniqueNames(k), items' = [items EXCEPT ![dst] = k],
             CanWrite(t, dst), Return(t), callUnchanged
      PROVE  StoresInv'
  <2>1. call' = [call EXCEPT ![t] = NoCall]
    BY <1>3, ReturnFrame
  <2> QED BY <1>2, <1>3, <2>1, WriteKeeps
<1>4. ASSUME NEW k \in Seq(StoredItem), UniqueNames(k), items' = [items EXCEPT ![dst] = k],
             CanWrite(t, dst), callUnchanged, call[t].step \in {"delete", "set"},
             NEW rest \in Seq(Item), Go(t, "set", rest),
             rest = todo \/ (rest = Tail(todo) /\ Len(todo) # 1)
      PROVE  StoresInv'
  <2> DEFINE f == [op |-> call[t].op, src |-> src, dst |-> dst, step |-> "set", todo |-> rest]
  <2>1. f \in Frames /\ call' = [call EXCEPT ![t] = f]
    BY <1>1, <1>4, GoFrame DEF Stage
  <2>2. f.op = call[t].op /\ f.src = src /\ f.step = "set" /\ f.todo = rest
    OBVIOUS
  <2>3. todo # << >> /\ call[t].step # "lock"
    BY <1>1, <1>4 DEF FrameOK, Working
  <2>4. CASE rest = todo
    <3>1. FrameOK(f, items[f.src])
      <4> HIDE DEF f
      <4> QED BY <1>1, <2>2, <2>3, <2>4 DEF FrameOK
    <3> HIDE DEF f
    <3> QED BY <1>4, <2>1, <2>2, <2>3, <3>1, WriteKeeps
  <2>5. CASE rest = Tail(todo) /\ Len(todo) # 1
    <3>1. rest # << >>
      BY <1>1, <2>3, <2>5, SuffixTail
    <3>2. items[src] \in Seq(Item)
      BY <1>1, StoredItemIsItem DEF TypeOK
    <3>3. IsSuffix(todo, items[src]) => IsSuffix(rest, items[src])
      BY <1>1, <2>3, <2>5, <3>2, SuffixTail
    <3>4. call[t].op \notin {"copyItem", "matchItem"}
      BY <1>1, <2>5 DEF FrameOK
    <3>5. FrameOK(f, items[f.src])
      <4> HIDE DEF f
      <4> QED BY <1>1, <2>2, <2>3, <3>1, <3>3, <3>4 DEF FrameOK
    <3> HIDE DEF f
    <3> QED BY <1>4, <2>1, <2>2, <2>3, <3>5, WriteKeeps
  <2> QED BY <1>4, <2>4, <2>5
<1>5. CASE DeleteStep(t)
  <2> DEFINE k == DeleteItem(l, todo[1].name)
  <2>1. k \in Seq(StoredItem) /\ UniqueNames(k)
    BY <1>1, DeleteItemKeeps
  <2>2. /\ call[t].step = "delete" /\ CanWrite(t, dst) /\ callUnchanged
        /\ items' = [items EXCEPT ![dst] = k]
        /\ IF call[t].op = "copyItem" THEN Go(t, "set", todo) ELSE Return(t)
    <3>1. items \in [Store -> Seq(StoredItem)]
      BY <1>1 DEF TypeOK
    <3> QED BY <1>1, <1>5, <3>1 DEF DeleteStep
  <2> HIDE DEF k
  <2> QED BY <1>1, <1>3, <1>4, <2>1, <2>2
<1>6. CASE ClearStep(t)
  <2> DEFINE k == DeleteAllItems(l)
  <2>1. k \in Seq(StoredItem) /\ UniqueNames(k)
    <3>1. k = << >> /\ Len(k) = 0
      BY DEF DeleteAllItems
    <3> HIDE DEF k
    <3> QED BY <3>1 DEF UniqueNames
  <2>2. CanWrite(t, dst) /\ callUnchanged /\ items' = [items EXCEPT ![dst] = k] /\ Return(t)
    <3>1. items \in [Store -> Seq(StoredItem)]
      BY <1>1 DEF TypeOK
    <3> QED BY <1>1, <1>6, <3>1 DEF ClearStep
  <2> HIDE DEF k
  <2> QED BY <1>3, <2>1, <2>2
<1>7. CASE SetStep(t)
  <2> DEFINE k == SetItem(l, todo[1])
  <2>1. /\ call[t].step = "set" /\ ~ Refused(t)
        /\ CanWrite(t, dst) /\ callUnchanged /\ items' = [items EXCEPT ![dst] = k]
        /\ IF Len(todo) = 1 THEN Return(t) ELSE Go(t, "set", Tail(todo))
    <3>1. items \in [Store -> Seq(StoredItem)]
      BY <1>1 DEF TypeOK
    <3> QED BY <1>1, <1>7, <3>1 DEF SetStep
  <2>2. todo # << >>
    BY <1>1, <2>1 DEF FrameOK, Working
  <2>3. todo[1] \in Item /\ Tail(todo) \in Seq(Item)
    BY <1>1, <2>2
  <2>5. todo[1].value.type # "INVALID"
    BY <2>1 DEF Refused
  <2>4. k \in Seq(StoredItem) /\ UniqueNames(k)
    BY <1>1, <2>3, <2>5, SetItemKeeps
  <2> HIDE DEF k
  <2> QED BY <1>3, <1>4, <2>1, <2>3, <2>4
<1> QED BY <1>5, <1>6, <1>7

LEMMA MatchedKeeps ==
    ASSUME StoresInv, NEW t \in Thread, call[t].step \in {"type", "value"},
           Matched(t), UNCHANGED items, callUnchanged
    PROVE  StoresInv'
<1> DEFINE todo == call[t].todo
           src  == call[t].src
<1>1. call[t].step \in {"type", "value"} /\ UNCHANGED items /\ callUnchanged
  OBVIOUS
<1>2. CASE Return(t)
  BY <1>1, <1>2, ReturnKeeps
<1>3. CASE Go(t, "inner", Tail(todo)) /\ Len(todo) > 1
  <2>1. TypeOK /\ call[t] \in Frames
    BY DEF StoresInv, TypeOK
  <2>2. todo \in Seq(Item) /\ src \in Store /\ FrameOK(call[t], items[src])
    BY <2>1 DEF Frames, StoresInv
  <2>3. items[src] \in Seq(Item)
    BY <2>1, <2>2, StoredItemIsItem DEF TypeOK
  <2>4. todo # << >> /\ Len(todo) # 1
    <3>1. todo # << >>
      BY <1>1, <2>2 DEF FrameOK, Working
    <3>2. Len(todo) \in Nat
      BY <2>2, LenProperties
    <3>3. Len(todo) > 1
      BY <1>3
    <3>4. Len(todo) # 1
      <4> DEFINE n == Len(todo)
      <4>1. n \in Nat /\ n > 1
        BY <3>2, <3>3
      <4> HIDE DEF n
      <4>2. n # 1
        BY <4>1
      <4> QED BY <4>2 DEF n
    <3> QED BY <3>1, <3>4
  <2>5. /\ Tail(todo) \in Seq(Item) /\ Tail(todo) # << >>
        /\ IsSuffix(todo, items[src]) => IsSuffix(Tail(todo), items[src])
    BY <2>2, <2>3, <2>4, SuffixTail
  <2> DEFINE f == [op |-> call[t].op, src |-> src, dst |-> call[t].dst,
                   step |-> "inner", todo |-> Tail(todo)]
  <2>6. f \in Frames /\ call' = [call EXCEPT ![t] = f]
    BY <1>3, <2>1, <2>5, GoFrame DEF Stage
  <2>7. f.op = call[t].op /\ f.src = src /\ f.step = "inner" /\ f.todo = Tail(todo)
    OBVIOUS
  <2> HIDE DEF f
  <2>8. FrameOK(f, items[f.src])
    BY <1>1, <2>2, <2>4, <2>5, <2>7 DEF FrameOK
  <2>9. calls' \in [Thread -> 0 .. MaxCalls] /\ UNCHANGED <<writersFirst, saved>>
    BY <1>1 DEF callUnchanged, StoresInv, TypeOK
  <2> QED BY <1>1, <2>6, <2>8, <2>9, QuietStepKeeps
<1> QED BY <1>2, <1>3 DEF Matched

LEMMA StepsKeep ==
    ASSUME StoresInv, NEW t \in Thread, Step(t)
    PROVE  StoresInv'
<1>1. FrameOK(call[t], items[call[t].src])
  BY DEF StoresInv
<1>2. CASE HasItem(t)
  <2>1. call[t].step = "has" /\ UNCHANGED items /\ callUnchanged
    BY <1>2 DEF HasItem
  <2>2. call[t].todo # << >>
    BY <1>1, <2>1 DEF FrameOK, Working
  <2>3. Go(t, "delete", call[t].todo) \/ Go(t, "set", call[t].todo)
    BY <1>2 DEF HasItem
  <2> QED BY <2>1, <2>2, <2>3, GoKeeps DEF Working
<1>3. CASE SetRefused(t)
  BY <1>3, ReturnKeeps DEF SetRefused
<1>4. CASE MatchInner(t)
  <2>1. call[t].step = "inner" /\ UNCHANGED items /\ callUnchanged
    BY <1>4 DEF MatchInner
  <2>2. call[t].todo # << >>
    BY <1>1, <2>1 DEF FrameOK, Working
  <2>3. Return(t) \/ Go(t, "type", call[t].todo)
    BY <1>4 DEF MatchInner
  <2> QED BY <2>1, <2>2, <2>3, GoKeeps, ReturnKeeps DEF Working
<1>5. CASE MatchType(t)
  <2>1. call[t].step = "type" /\ UNCHANGED items /\ callUnchanged
    BY <1>5 DEF MatchType
  <2>2. call[t].todo # << >>
    BY <1>1, <2>1 DEF FrameOK, Working
  <2>3. Return(t) \/ Go(t, "value", call[t].todo) \/ Matched(t)
    BY <1>5 DEF MatchType
  <2> QED BY <2>1, <2>2, <2>3, GoKeeps, ReturnKeeps, MatchedKeeps DEF Working
<1>6. CASE MatchValue(t)
  <2>1. call[t].step = "value" /\ UNCHANGED items /\ callUnchanged /\ (Return(t) \/ Matched(t))
    BY <1>6 DEF MatchValue
  <2> QED BY <2>1, ReturnKeeps, MatchedKeeps
<1> QED BY <1>2, <1>3, <1>4, <1>5, <1>6, LockSourceKeeps, WritersKeep DEF Step

LEMMA SaveKeeps ==
    ASSUME StoresInv, NEW t \in Thread, NEW s \in Store, Save(t, s)
    PROVE  StoresInv'
<1>1. saved' = SaveToBuffer(items[s]) /\ UNCHANGED <<writersFirst, items, call, calls>>
  BY DEF Save
<1>2. saved' \in Seq(StoredItem)
  <2>1. items[s] \in Seq(StoredItem)
    BY DEF StoresInv, TypeOK
  <2> QED BY <1>1, <2>1, SaveChooses
<1> QED BY <1>1, <1>2 DEF StoresInv, TypeOK

LEMMA StoresInvHolds == Spec => []StoresInv
<1>1. Init => StoresInv
  <2> SUFFICES ASSUME Init PROVE StoresInv
    OBVIOUS
  <2>1. TypeOK
    <3>1. << >> \in Seq(StoredItem)
      OBVIOUS
    <3> QED BY <3>1, AttributesAssumption, NoCallIsFrame DEF Init, TypeOK
  <2>2. ASSUME NEW s \in Store PROVE UniqueNames(items[s])
    <3>1. items[s] = << >> /\ 1 .. Len(items[s]) = {}
      BY DEF Init
    <3> QED BY <3>1 DEF UniqueNames
  <2>3. ASSUME NEW t \in Thread PROVE FrameOK(call[t], items[call[t].src])
    BY NoCallIsFrame DEF Init
  <2> QED BY <2>1, <2>2, <2>3 DEF StoresInv
<1>2. StoresInv /\ [Next]_vars => StoresInv'
  <2> SUFFICES ASSUME StoresInv, [Next]_vars PROVE StoresInv'
    OBVIOUS
  <2>1. CASE UNCHANGED vars
    BY <2>1 DEF vars, StoresInv, TypeOK
  <2> QED BY <2>1, BeginsKeep, StepsKeep, SaveKeeps DEF Next
<1> QED BY <1>1, <1>2, PTL DEF Spec

-----------------------------------------------------------------------------
(* The order in which the calls take the locks.                            *)

\* The steps each call goes through; those that go through a store work on another one.
FrameShaped(f) ==
    /\ f.op = "none" => f.step = "out"
    /\ f.op \in {"copyItem", "copyAll"} => f.step \in {"lock", "has", "delete", "set"}
    /\ f.op = "matchItem" => f.step \in {"lock", "type", "value"}
    /\ f.op = "matchAll" => f.step \in {"lock", "inner", "type", "value"}
    /\ f.op \in Through => f.src # f.dst

OrderInv == \A t \in Thread : FrameShaped(call[t])

LEMMA FrameKeepsOrder ==
    ASSUME TypeOK, OrderInv, NEW t \in Thread, NEW f, call' = [call EXCEPT ![t] = f],
           FrameShaped(f), UNCHANGED writersFirst
    PROVE  OrderInv'
<1>1. call'[t] = f /\ \A u \in Thread \ {t} : call'[u] = call[u]
  BY DEF TypeOK
<1>2. ASSUME NEW u \in Thread PROVE FrameShaped(call'[u])
  BY <1>1 DEF OrderInv
<1> QED BY <1>2 DEF OrderInv

LEMMA ReturnKeepsOrder ==
    ASSUME TypeOK, OrderInv, NEW t \in Thread, Return(t), UNCHANGED writersFirst
    PROVE  OrderInv'
<1>1. FrameShaped(NoCall)
  BY DEF NoCall, Frame, FrameShaped, Through
<1> QED BY <1>1, ReturnFrame, FrameKeepsOrder

LEMMA GoKeepsOrder ==
    ASSUME TypeOK, OrderInv, NEW t \in Thread, NEW step \in Working, NEW todo \in Seq(Item),
           Go(t, step, todo), UNCHANGED writersFirst,
           call[t].op # "none",
           call[t].op \in {"copyItem", "copyAll"} => step \in {"has", "delete", "set"},
           call[t].op = "matchItem" => step \in {"type", "value"},
           call[t].op = "matchAll" => step \in {"inner", "type", "value"}
    PROVE  OrderInv'
<1> DEFINE f == [op |-> call[t].op, src |-> call[t].src, dst |-> call[t].dst,
                 step |-> step, todo |-> todo]
<1>1. call' = [call EXCEPT ![t] = f]
  <2>1. step \in Stage
    BY DEF Working, Stage
  <2> QED BY <2>1, GoFrame
<1>2. f.op = call[t].op /\ f.src = call[t].src /\ f.dst = call[t].dst /\ f.step = step
  OBVIOUS
<1> HIDE DEF f
<1>3. FrameShaped(f)
  BY <1>2 DEF FrameShaped, OrderInv
<1> QED BY <1>1, <1>3, FrameKeepsOrder

LEMMA BeginsKeepOrder ==
    ASSUME TypeOK, OrderInv, NEW t \in Thread, Begins(t)
    PROVE  OrderInv'
<1>1. ASSUME NEW f, Begin(t, f), FrameShaped(f) PROVE OrderInv'
  BY <1>1, FrameKeepsOrder DEF Begin
<1>2. ASSUME NEW op \in {"set", "delete", "clear", "load"}, NEW s, NEW step, NEW todo,
             Begin(t, Frame(op, s, s, step, todo))
      PROVE  OrderInv'
  <2>1. FrameShaped(Frame(op, s, s, step, todo))
    BY DEF FrameShaped, Frame, Through
  <2> QED BY <1>1, <1>2, <2>1
<1>3. ASSUME NEW op \in {"copyItem", "copyAll", "matchItem", "matchAll"}, NEW s, NEW d, NEW todo,
             s # d,
             Begin(t, Frame(op, s, d, "lock", todo))
      PROVE  OrderInv'
  <2>1. FrameShaped(Frame(op, s, d, "lock", todo))
    BY <1>3 DEF FrameShaped, Frame
  <2> QED BY <1>1, <1>3, <2>1
<1>4. ASSUME NEW s \in Store, NEW item, BeginSet(t, s, item) PROVE OrderInv'
  BY <1>2, <1>4 DEF BeginSet
<1>5. ASSUME NEW s \in Store, NEW name, BeginDelete(t, s, name) PROVE OrderInv'
  BY <1>2, <1>5 DEF BeginDelete
<1>6. ASSUME NEW s \in Store, NEW buffer, BeginClear(t, s) \/ BeginLoad(t, s, buffer) PROVE OrderInv'
  BY <1>2, <1>6 DEF BeginClear, BeginLoad
<1>7. ASSUME NEW s \in Store, NEW d \in Store, NEW name,
             BeginCopyItem(t, s, d, name) \/ BeginMatchItem(t, s, d, name)
      PROVE  OrderInv'
  BY <1>3, <1>7 DEF BeginCopyItem, BeginMatchItem
<1>8. ASSUME NEW s \in Store, NEW d \in Store, BeginCopyAll(t, s, d) \/ BeginMatchAll(t, s, d)
      PROVE  OrderInv'
  BY <1>3, <1>8 DEF BeginCopyAll, BeginMatchAll
<1> QED BY <1>4, <1>5, <1>6, <1>7, <1>8 DEF Begins

LEMMA StepsKeepOrder ==
    ASSUME StoresInv, OrderInv, NEW t \in Thread, Step(t)
    PROVE  OrderInv'
<1> DEFINE op   == call[t].op
           src  == call[t].src
           todo == call[t].todo
<1>1. /\ TypeOK /\ call[t] \in Frames /\ src \in Store /\ todo \in Seq(Item)
      /\ items[src] \in Seq(StoredItem)
  <2>1. TypeOK /\ call[t] \in Frames
    BY DEF StoresInv, TypeOK
  <2>2. src \in Store /\ todo \in Seq(Item)
    BY <2>1 DEF Frames
  <2> QED BY <2>1, <2>2 DEF TypeOK
<1>2. FrameOK(call[t], items[src]) /\ FrameShaped(call[t])
  BY DEF StoresInv, OrderInv
<1>3. UNCHANGED writersFirst
  BY DEF Step, LockSource, HasItem, DeleteStep, ClearStep, SetStep, SetRefused, MatchInner,
         MatchType, MatchValue, callUnchanged
<1>4. ASSUME Return(t) PROVE OrderInv'
  BY <1>1, <1>3, <1>4, ReturnKeepsOrder
<1>5. CASE LockSource(t)
  <2> DEFINE n    == SearchStore(items[src], todo[1].name)
             rest == IF op \in {"copyAll", "matchAll"} THEN items[src]
                     ELSE IF n = 0 THEN << >> ELSE <<items[src][n]>>
             step == CASE op = "copyItem"  -> "has"
                       [] op = "copyAll"   -> "set"
                       [] op = "matchItem" -> "type"
                       [] op = "matchAll"  -> "inner"
  <2>1. call[t].step = "lock" /\ (Return(t) \/ Go(t, step, rest))
    BY <1>5 DEF LockSource
  <2>2. op \in Through
    BY <1>2, <2>1 DEF FrameOK
  <2>3. rest \in Seq(Item)
    <3>1. n \in 0 .. Len(items[src])
      BY <1>1, SearchFinds
    <3>2. Len(items[src]) \in Nat /\ \A i \in 1 .. Len(items[src]) : items[src][i] \in StoredItem
      BY <1>1, LenProperties
    <3>3. n # 0 => items[src][n] \in Item
      <4> HIDE DEF n, src
      <4>1. n # 0 => n \in 1 .. Len(items[src])
        BY <3>1, <3>2
      <4> QED BY <3>2, <4>1, StoredItemIsItem
    <3>4. items[src] \in Seq(Item)
      BY <1>1, StoredItemIsItem
    <3> HIDE DEF n
    <3> QED BY <3>3, <3>4
  <2>4. /\ step \in Working /\ op # "none"
        /\ op \in {"copyItem", "copyAll"} => step \in {"has", "delete", "set"}
        /\ op = "matchItem" => step \in {"type", "value"}
        /\ op = "matchAll" => step \in {"inner", "type", "value"}
    BY <2>2 DEF Through, Working
  <2> HIDE DEF step, rest
  <2> QED BY <1>1, <1>3, <1>4, <2>1, <2>3, <2>4, GoKeepsOrder
<1>6. CASE HasItem(t)
  <2>1. /\ call[t].step = "has"
        /\ Return(t) \/ Go(t, "delete", todo) \/ Go(t, "set", todo)
    BY <1>6 DEF HasItem
  <2>2. op \notin {"none", "matchItem", "matchAll"}
    BY <1>2, <2>1 DEF FrameShaped
  <2> QED BY <1>1, <1>3, <2>1, <2>2, <1>4, GoKeepsOrder DEF Working
<1>7. CASE DeleteStep(t) \/ ClearStep(t) \/ SetStep(t) \/ SetRefused(t)
  <2>1. /\ call[t].step \in {"delete", "clear", "set"}
        /\ Return(t) \/ Go(t, "set", todo) \/ (call[t].step = "set" /\ Go(t, "set", Tail(todo)))
    BY <1>7 DEF DeleteStep, ClearStep, SetStep, SetRefused, Refused
  <2>2. op \notin {"none", "matchItem", "matchAll"}
    BY <1>2, <2>1 DEF FrameShaped
  <2>3. call[t].step = "set" => Tail(todo) \in Seq(Item)
    BY <1>1, <1>2 DEF FrameOK, Working
  <2> QED BY <1>1, <1>3, <2>1, <2>2, <2>3, <1>4, GoKeepsOrder DEF Working
<1>8. CASE MatchInner(t)
  <2>1. call[t].step = "inner" /\ (Return(t) \/ Go(t, "type", todo))
    BY <1>8 DEF MatchInner
  <2>2. op \notin {"none", "copyItem", "copyAll"}
    BY <1>2, <2>1 DEF FrameShaped
  <2> QED BY <1>1, <1>3, <2>1, <2>2, <1>4, GoKeepsOrder DEF Working
<1>11. ASSUME call[t].step \in {"type", "value"}, Matched(t) PROVE OrderInv'
  <2>1. call[t].step \in {"type", "value"} /\ (Return(t) \/ (Len(todo) > 1 /\ Go(t, "inner", Tail(todo))))
    BY <1>11 DEF Matched
  <2>2. op \notin {"none", "copyItem", "copyAll"}
    BY <1>2, <2>1 DEF FrameShaped
  <2>3. Tail(todo) \in Seq(Item)
    BY <1>1, <1>2, <2>1 DEF FrameOK, Working
  <2>4. Len(todo) > 1 => op # "matchItem"
    <3>1. op = "matchItem" => Len(todo) = 1
      BY <1>2 DEF FrameOK
    <3>2. ~ (1 > 1)
      OBVIOUS
    <3> QED BY <3>1, <3>2
  <2> QED BY <1>1, <1>3, <2>1, <2>2, <2>3, <2>4, <1>4, GoKeepsOrder DEF Working
<1>9. CASE MatchType(t)
  <2>1. call[t].step = "type" /\ (Return(t) \/ Go(t, "value", todo) \/ Matched(t))
    BY <1>9 DEF MatchType
  <2>2. op \notin {"none", "copyItem", "copyAll"}
    BY <1>2, <2>1 DEF FrameShaped
  <2> QED BY <1>1, <1>3, <2>1, <2>2, <1>4, <1>11, GoKeepsOrder DEF Working
<1>10. CASE MatchValue(t)
  BY <1>4, <1>10, <1>11 DEF MatchValue
<1> QED BY <1>5, <1>6, <1>7, <1>8, <1>9, <1>10 DEF Step

LEMMA OrderInvHolds == Spec => []OrderInv
<1>1. Init => OrderInv
  BY DEF Init, NoCall, Frame, OrderInv, FrameShaped, Through
<1>2. StoresInv /\ OrderInv /\ [Next]_vars => OrderInv'
  <2> SUFFICES ASSUME StoresInv, OrderInv, [Next]_vars PROVE OrderInv'
    OBVIOUS
  <2>1. TypeOK
    BY DEF StoresInv
  <2>2. ASSUME NEW t \in Thread, NEW s \in Store, Save(t, s) PROVE OrderInv'
    BY <2>2 DEF Save, OrderInv, FrameShaped
  <2>3. CASE UNCHANGED vars
    BY <2>3 DEF vars, OrderInv, FrameShaped
  <2> QED BY <2>1, <2>2, <2>3, BeginsKeepOrder, StepsKeepOrder DEF Next
<1> QED BY <1>1, <1>2, StoresInvHolds, PTL DEF Spec

\* A writer that has to wait for store s waits for a call that has s locked for reading
\* and, unless it can go on, waits itself for a store of lower rank.
LEMMA WriterWaitsDown ==
    ASSUME TypeOK, OrderInv, NEW r, GoDown(r), NEW s \in Store, NEW t \in Thread, ~ CanWrite(t, s)
    PROVE  \E u \in Thread : /\ ~ Idle(u)
                             /\ Granted(u) \/ r[Awaits(u)] < r[s]
<1>1. PICK u \in Thread : Reads(u, s)
  BY DEF CanWrite
<1>2. FrameShaped(call[u])
  BY DEF OrderInv
<1>3. ~ Idle(u)
  BY <1>1 DEF Reads, Idle
<1>4. CASE call[u].op = "matchAll"
  <2>1. call[u].step \in {"inner", "type", "value"} /\ ~ writersFirst
    BY <1>1, <1>2, <1>4 DEF Reads, FrameShaped, GoDown
  <2>2. Granted(u)
    BY <2>1 DEF Granted, CanRead
  <2> QED BY <1>3, <2>2
<1>5. CASE call[u].op \in {"copyItem", "copyAll", "matchItem"}
  <2>1. call[u].src = s /\ call[u].step # "lock" /\ call[u].src # call[u].dst
    BY <1>1, <1>2, <1>5 DEF Reads, FrameShaped, Through
  <2>2. r[call[u].dst] < r[s]
    BY <2>1 DEF GoDown
  <2>3. Awaits(u) = call[u].dst
    <3>1. call[u].op # "matchItem" => call[u].step \notin {"type", "value"}
      BY <1>2, <1>5 DEF FrameShaped
    <3>2. Other(u) = call[u].dst
      BY <1>5 DEF Other
    <3> QED BY <2>1, <3>1, <3>2 DEF Awaits
  <2> QED BY <1>3, <2>2, <2>3
<1> QED BY <1>1, <1>4, <1>5 DEF Reads

-----------------------------------------------------------------------------
(* The theorems. *)

\* Every variable keeps its type; in particular the empty string is never stored.
THEOREM TypeCorrect == Spec => []TypeOK
<1>1. StoresInv => TypeOK
  BY DEF StoresInv
<1> QED BY <1>1, StoresInvHolds, PTL

\* However the calls of any number of threads on any number of stores interleave, no
\* store ever holds two items of one name.
THEOREM NamesUniqueHolds == Spec => []NamesUnique
<1>1. StoresInv => NamesUnique
  BY NamesOfEach DEF StoresInv
<1> QED BY <1>1, StoresInvHolds, PTL

\* While a call goes through a store with the store locked for reading, and calls
\* another store in between, what it still has to do stays there, at its place.
THEOREM SourceStableHolds == Spec => []SourceStable
<1>1. StoresInv => SourceStable
  BY DEF StoresInv, FrameOK, SourceStable
<1> QED BY <1>1, StoresInvHolds, PTL

\* From what SaveToBuffer writes of a store, whatever the store went through,
\* LoadFromBuffer restores the items that are no objects, in their order.
THEOREM SavedStoreLoadsHolds == Spec => []SavedStoreLoads
<1>1. StoresInv => SavedStoreLoads
  <2> SUFFICES ASSUME StoresInv, NEW s \in Store, Saveable(items[s])
               PROVE  Restores(LoadFromBuffer(<< >>, SaveToBuffer(items[s])), items[s])
    BY DEF SavedStoreLoads
  <2> DEFINE l == items[s]
             b == SaveToBuffer(l)
  <2>1. l \in Seq(StoredItem) /\ UniqueNames(l)
    BY DEF StoresInv, TypeOK
  <2>2. b \in Seq(StoredItem) /\ Chosen(b, l, Len(l))
    BY <2>1, SaveChooses
  <2>3. \A n \in DOMAIN l : l[n].value.type # "INVALID"
    BY DEF Saveable
  <2>4. DOMAIN l = 1 .. Len(l) /\ DOMAIN b = 1 .. Len(b) /\ Len(l) \in Nat /\ Len(b) \in Nat
    BY <2>1, <2>2
  <2> HIDE DEF b, l
  <2>5. PICK from \in [1 .. Len(b) -> 1 .. Len(l)] :
            /\ \A i, j \in 1 .. Len(b) : i < j => from[i] < from[j]
            /\ \A i \in 1 .. Len(b) : b[i] = l[from[i]]
            /\ \A n \in 1 .. Len(l) :
                  l[n].value.type # "OBJECT" <=> \E i \in 1 .. Len(b) : from[i] = n
    BY <2>2 DEF Chosen
  <2>6. \A i \in 1 .. Len(b) : b[i].value.type \notin {"OBJECT", "INVALID"}
    BY <2>3, <2>4, <2>5
  <2>7. UniqueNames(b)
    <3> SUFFICES ASSUME NEW i \in 1 .. Len(b), NEW j \in 1 .. Len(b),
                        b[i].name = b[j].name, b[i].name # EmptyString
                 PROVE  i = j
      BY DEF UniqueNames
    <3>1. from[i] = from[j]
      BY <2>1, <2>5 DEF UniqueNames
    <3>2. ~ (i < j) /\ ~ (j < i)
      BY <2>5, <3>1
    <3> QED BY <2>4, <3>2
  <2>8. \A i \in 1 .. Len(b) : ~ UnknownType(b[i].value)
    BY <2>6 DEF UnknownType
  <2>9. LoadFromBuffer(<< >>, b) = b
    BY <2>2, <2>7, <2>8, LoadRestores
  <2>10. Restores(b, l)
    <3>1. /\ from \in [DOMAIN b -> DOMAIN l]
          /\ \A i, j \in DOMAIN b : i < j => from[i] < from[j]
          /\ \A i \in DOMAIN b : b[i] = l[from[i]]
          /\ \A n \in DOMAIN l :
                l[n].value.type # "OBJECT" <=> \E i \in DOMAIN b : from[i] = n
      BY <2>4, <2>5, Zenon
    <3> QED BY <3>1, Zenon DEF Restores
  <2> QED BY <2>9, <2>10 DEF b, l
<1> QED BY <1>1, StoresInvHolds, PTL

\* However many threads and stores there are, as long as the copies and comparisons under
\* way form no circle of stores, and none is a MatchAllItems a waiting writer can stop: of
\* the calls under way one can take its next lock.  Of the calls that wait, take one that
\* waits for a store of the least rank; whoever it waits for would wait for a store of
\* lower rank.
THEOREM SomeoneGoesOnHolds == Spec => []SomeoneGoesOn
<1>1. StoresInv /\ OrderInv => SomeoneGoesOn
  <2> SUFFICES ASSUME StoresInv, OrderInv, NEW r \in [Store -> 0 .. MaxRank], GoDown(r),
                      NEW t \in Thread, ~ Idle(t),
                      \A u \in Thread : ~ Idle(u) => ~ Granted(u)
               PROVE  FALSE
    BY DEF SomeoneGoesOn
  <2> DEFINE Ranks == {r[Awaits(u)] : u \in {v \in Thread : ~ Idle(v)}}
  <2>1. TypeOK
    BY DEF StoresInv
  <2>2. ASSUME NEW u \in Thread PROVE Awaits(u) \in Store /\ r[Awaits(u)] \in Nat
    <3>1. call[u].src \in Store /\ call[u].dst \in Store
      BY <2>1 DEF TypeOK, Frames
    <3>2. Awaits(u) \in Store
      BY <3>1 DEF Awaits, Other
    <3> QED BY <3>2, AttributesAssumption
  <2>3. Ranks \subseteq Nat /\ Ranks # {}
    BY <2>2
  <2>4. PICK u \in Thread : ~ Idle(u) /\ \A v \in Thread : ~ Idle(v) => r[Awaits(u)] <= r[Awaits(v)]
    <3>1. PICK m \in Ranks : \A k \in Ranks : m <= k
      BY <2>3, LeastExists
    <3> QED BY <3>1
  <2>5. ASSUME NEW v \in Thread, ~ CanWrite(v, Awaits(u)) PROVE FALSE
    <3>1. PICK w \in Thread : ~ Idle(w) /\ r[Awaits(w)] < r[Awaits(u)]
      BY <2>1, <2>2, <2>5, WriterWaitsDown
    <3>2. r[Awaits(u)] <= r[Awaits(w)] /\ r[Awaits(u)] \in Nat /\ r[Awaits(w)] \in Nat
      BY <2>2, <2>4, <3>1
    <3> QED BY <3>1, <3>2
  <2>6. CASE call[u].step \in {"set", "delete", "clear"}
    BY <2>4, <2>5, <2>6 DEF Granted
  <2>7. CASE call[u].step \notin {"set", "delete", "clear"}
    <3>1. PICK w \in Thread : WantsWrite(w, Awaits(u))
      BY <2>4, <2>7 DEF Granted, CanRead
    <3>2. call[w].step \in {"set", "delete", "clear"} /\ call[w].dst = Awaits(u) /\ ~ Refused(w)
      BY <3>1 DEF WantsWrite
    <3>3. ~ Idle(w)
      BY <3>2 DEF OrderInv, FrameShaped, Idle
    <3>4. Awaits(w) = Awaits(u)
      BY <3>2 DEF Awaits
    <3>5. ~ CanWrite(w, Awaits(w))
      BY <3>2, <3>3 DEF Granted
    <3> QED BY <2>5, <3>4, <3>5
  <2> QED BY <2>6, <2>7
<1> QED BY <1>1, StoresInvHolds, OrderInvHolds, PTL
=============================================================================
