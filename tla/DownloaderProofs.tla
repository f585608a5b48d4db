--------------------------- MODULE DownloaderProofs ---------------------------
(***************************************************************************)
(* Theorems about the downloader for any number of workers and tasks.      *)
(*                                                                         *)
(* The class has no lock: that a transfer meets the data of its own task   *)
(* only rests on there being one task at most between StartTask and the    *)
(* report, which _taskResult guards.  The inductive invariant says where   *)
(* that task is, what libcurl's handle refers to on its way, and what its  *)
(* lists and its result hold at each point of OnInvoke.                    *)
(***************************************************************************)
EXTENDS Downloader, AttrStoreProofs

-----------------------------------------------------------------------------
(* The invariant. *)

Code   == {"KF_OK", "KF_INVALID_INPUT", "KF_INIT_ERROR", "KF_INVALID_DATA", "KF_ABORT"}
              \cup {"KF_NETWORK_" \o curle : curle \in Curle}
Place  == {"free", "check", "curl", "text", "get", "perform", "info", "merge", "report"}
Text   == {"URL", "USER_AGENT", "COOKIE"}
Origin == {"none", "kept", "new"}
Run    == [pc : Place, task : 0 .. MaxTasks, todo : Seq(Text), curl : Origin, r : Code]
Rep    == [task : 1 .. MaxTasks, r : Code, object : Seq(ResultItem)]
Amount == [body : Nat, head : Nat]

Types ==
    /\ core \in BOOLEAN /\ reuse \in BOOLEAN
    /\ open \subseteq Worker /\ dropped \subseteq 1 .. MaxTasks
    /\ own \in [Part -> Nat] /\ parts \in Nat
    /\ handle \in Handle \cup {NULL}
    /\ task \in Task \cup {NULL}
    /\ started \in 0 .. MaxTasks
    /\ queue \in [Worker -> Seq(1 .. MaxTasks)]
    /\ run \in [Worker -> Run]
    /\ posted \in Seq(Rep) /\ reports \in Seq(Rep)
    /\ received \in [1 .. MaxTasks -> Amount]
    /\ outcome \in [1 .. MaxTasks -> Curle \cup {"none"}]

\* Worker w has the task under way.
Has(w) == queue[w] # << >> \/ run[w].pc # "free"

\* One task at most is under way, the one that was started last; it is in one place,
\* _taskResult is there and it has not been reported.
OneTask ==
    /\ \A w \in Worker :
          /\ queue[w] = << >> \/ (queue[w] = <<started>> /\ run[w].pc = "free")
          /\ run[w].pc # "free" => run[w].task = started
          /\ Has(w) => posted = << >>
    /\ \A v, w \in Worker : Has(v) /\ Has(w) => v = w
    /\ posted = << >> \/ (Len(posted) = 1 /\ posted[1].task = started)
    /\ (\E w \in Worker : Has(w)) \/ posted # << >> =>
          started # 0 /\ task # NULL /\ \A k \in 1 .. Len(reports) : reports[k].task # started
    /\ \A k \in 1 .. Len(reports) : reports[k].task <= started
    /\ \A j, k \in 1 .. Len(reports) : reports[j].task = reports[k].task => j = k

\* What the handle refers to while worker w has the task.
RefersAt(w) ==
    /\ run[w].pc \in {"text", "get", "perform", "info"} => handle # NULL
    /\ run[w].pc = "get" => run[w].todo # << >>
    /\ run[w].pc \in {"text", "get"} /\ run[w].curl = "new" => handle.refs = NoRefs
    /\ run[w].pc = "perform" /\ run[w].curl = "new" => handle.refs = own

\* Of a result: no data are in it yet; the code of libcurl is that of the transfer.
NoData(object) ==
    /\ GetItem(object, "HTTP_DATA", "OBJECT").type = "INVALID"
    /\ GetItem(object, "HTTP_HEADERS", "OBJECT").type = "INVALID"
CodeIs(object, curle) ==
    curle \in Curle /\ GetItem(object, "CURLE_CODE", "UINT32").data = curle

\* What a report promises.
Complete(report) ==
    LET n == report.task IN
    /\ DataOf(report, "HTTP_DATA") = Bytes(n, received[n].body)
    /\ DataOf(report, "HTTP_HEADERS") = Bytes(n, received[n].head)
    /\ report.r = "KF_OK" => CodeIs(report.object, outcome[n])

\* What the lists and the result hold while worker w has the task.
ListsAt(w) ==
    Has(w) => /\ Contents(task.body) = Bytes(started, received[started].body)
              /\ Contents(task.head) = Bytes(started, received[started].head)
ResultAt(w) ==
    /\ queue[w] # << >> \/ run[w].pc \in {"check", "curl", "text", "get"} => task = NewTask
    /\ run[w].pc = "perform" => task.result = << >>
    /\ run[w].pc \in {"info", "merge"} =>
          /\ NoData(task.result)
          /\ \/ (task.body = << >> /\ task.head = << >> /\ run[w].r # "KF_OK")
             \/ CodeIs(task.result, outcome[started])
    /\ run[w].pc = "report" =>
          Complete([task |-> started, r |-> run[w].r, object |-> task.result])

\* The tasks to come have received nothing.
Untouched ==
    \A n \in 1 .. MaxTasks : n > started => received[n] = [body |-> 0, head |-> 0]

AllComplete ==
    /\ \A k \in 1 .. Len(posted) : Complete(posted[k])
    /\ \A k \in 1 .. Len(reports) : Complete(reports[k])

DownloaderInv ==
    /\ Types /\ OneTask /\ Untouched /\ AllComplete
    /\ task # NULL => UniqueNames(task.result)
    /\ \A w \in Worker : RefersAt(w) /\ ListsAt(w) /\ ResultAt(w)
-----------------------------------------------------------------------------
(* The contents of a list of buffers.  The function by which Contents goes *)
(* through a list, up to its m-th buffer.                                  *)

BytesUpTo(f, list, m) ==
    f = [n \in 0 .. m |-> IF n = 0 THEN << >> ELSE f[n - 1] \o list[n].data]

LEMMA BytesExist ==
    ASSUME NEW list \in Seq(Buffer)
    PROVE  \E f : BytesUpTo(f, list, Len(list))
<1> DEFINE Good == {m \in 0 .. Len(list) : \E f : BytesUpTo(f, list, m)}
<1>1. Len(list) \in Nat
  OBVIOUS
<1>2. 0 \in Good
  <2>1. BytesUpTo([n \in 0 .. 0 |-> << >>], list, 0)
    BY DEF BytesUpTo
  <2> QED BY <1>1, <2>1
<1>3. ASSUME NEW m \in 0 .. Len(list) - 1, NEW f, BytesUpTo(f, list, m)
      PROVE  m + 1 \in Good
  <2> DEFINE next == f[m] \o list[m + 1].data
             g    == [n \in 0 .. m + 1 |-> IF n = m + 1 THEN next ELSE f[n]]
  <2>1. \A n \in 0 .. m : f[n] = IF n = 0 THEN << >> ELSE f[n - 1] \o list[n].data
    BY <1>3 DEF BytesUpTo
  <2>2. \A n \in 0 .. m + 1 : g[n] = IF n = 0 THEN << >> ELSE g[n - 1] \o list[n].data
    <3> TAKE n \in 0 .. m + 1
    <3>1. CASE n = m + 1
      <4>1. m \in Nat /\ n # 0 /\ n - 1 = m /\ m \in 0 .. m + 1 /\ m # m + 1
        BY <1>1, <3>1
      <4>2. g[n] = next /\ g[n - 1] = f[m]
        BY <3>1, <4>1
      <4> QED BY <3>1, <4>1, <4>2
    <3>2. CASE n # m + 1
      <4>1. n \in 0 .. m /\ n # m + 1 /\ g[n] = f[n]
        BY <1>1, <3>2
      <4>2. n # 0 => n - 1 \in 0 .. m + 1 /\ n - 1 # m + 1 /\ g[n - 1] = f[n - 1]
        BY <1>1, <4>1
      <4> HIDE DEF g
      <4> QED BY <2>1, <4>1, <4>2
    <3> QED BY <3>1, <3>2
  <2>3. BytesUpTo(g, list, m + 1)
    <3>1. g = [n \in 0 .. m + 1 |-> g[n]]
      OBVIOUS
    <3> HIDE DEF g
    <3> QED BY <2>2, <3>1 DEF BytesUpTo
  <2> HIDE DEF g
  <2> QED BY <1>1, <2>3
<1>4. \A m \in 0 .. Len(list) : m \in Good
  <2>1. \A m \in 0 .. Len(list) - 1 : m \in Good => m + 1 \in Good
    BY <1>3
  <2> HIDE DEF Good
  <2> QED BY <1>1, <1>2, <2>1, UpTo
<1> QED BY <1>1, <1>4

LEMMA ContentsIsBytes ==
    ASSUME NEW list \in Seq(Buffer)
    PROVE  \E f : /\ Contents(list) = f[Len(list)]
                  /\ \A n \in 0 .. Len(list) :
                        f[n] = IF n = 0 THEN << >> ELSE f[n - 1] \o list[n].data
<1> DEFINE f == CHOOSE f : BytesUpTo(f, list, Len(list))
<1>1. BytesUpTo(f, list, Len(list))
  BY BytesExist
<1>2. Contents(list) = f[Len(list)]
  BY DEF Contents, BytesUpTo
<1> HIDE DEF f
<1>3. \A n \in 0 .. Len(list) : f[n] = IF n = 0 THEN << >> ELSE f[n - 1] \o list[n].data
  BY <1>1 DEF BytesUpTo
<1> QED BY <1>2, <1>3

LEMMA ContentsOfNone == Contents(<< >>) = << >>
<1>1. << >> \in Seq(Buffer) /\ Len(<< >>) = 0
  OBVIOUS
<1>2. PICK f : /\ Contents(<< >>) = f[Len(<< >>)]
               /\ \A n \in 0 .. Len(<< >>) :
                     f[n] = IF n = 0 THEN << >> ELSE f[n - 1] \o << >>[n].data
  BY <1>1, ContentsIsBytes
<1> QED BY <1>1, <1>2

LEMMA ContentsTypes ==
    ASSUME NEW list \in Seq(Buffer)
    PROVE  Contents(list) \in Seq(Nat)
<1>1. PICK f : /\ Contents(list) = f[Len(list)]
               /\ \A n \in 0 .. Len(list) :
                     f[n] = IF n = 0 THEN << >> ELSE f[n - 1] \o list[n].data
  BY ContentsIsBytes
<1>2. Len(list) \in Nat /\ \A n \in 1 .. Len(list) : list[n] \in Buffer
  BY LenProperties
<1> DEFINE Good == {n \in 0 .. Len(list) : f[n] \in Seq(Nat)}
<1>3. 0 \in Good
  <2>1. 0 \in 0 .. Len(list) /\ f[0] = << >>
    BY <1>1, <1>2
  <2>2. f[0] \in Seq(Nat)
    BY <2>1
  <2> QED BY <2>1, <2>2
<1>4. ASSUME NEW n \in 0 .. Len(list) - 1, n \in Good PROVE n + 1 \in Good
  <2>1. n + 1 \in 0 .. Len(list) /\ n + 1 # 0 /\ (n + 1) - 1 = n /\ n + 1 \in 1 .. Len(list)
    BY <1>2
  <2>2. f[n] \in Seq(Nat) /\ list[n + 1].data \in Seq(Nat)
    BY <1>2, <1>4, <2>1 DEF Buffer
  <2>3. f[n + 1] = f[n] \o list[n + 1].data
    BY <1>1, <2>1
  <2>4. f[n + 1] \in Seq(Nat)
    BY <2>2, <2>3, ConcatProperties
  <2> QED BY <2>1, <2>4
<1>5. \A n \in 0 .. Len(list) : n \in Good
  <2> HIDE DEF Good
  <2> QED BY <1>2, <1>3, <1>4, UpTo
<1> QED BY <1>1, <1>2, <1>5

LEMMA ContentsGrows ==
    ASSUME NEW list \in Seq(Buffer), NEW b \in Buffer
    PROVE  Contents(Append(list, b)) = Contents(list) \o b.data
<1> DEFINE more == Append(list, b)
           N    == Len(list)
<1>1. /\ more \in Seq(Buffer) /\ Len(more) = N + 1 /\ more[N + 1] = b
      /\ \A n \in 1 .. N : more[n] = list[n]
  BY AppendProperties
<1> HIDE DEF more
<1>2. PICK f : /\ Contents(list) = f[N]
               /\ \A n \in 0 .. N : f[n] = IF n = 0 THEN << >> ELSE f[n - 1] \o list[n].data
  BY ContentsIsBytes
<1>3. PICK g : /\ Contents(more) = g[N + 1]
               /\ \A n \in 0 .. N + 1 :
                     g[n] = IF n = 0 THEN << >> ELSE g[n - 1] \o more[n].data
  <2>1. \E g : /\ Contents(more) = g[Len(more)]
               /\ \A n \in 0 .. Len(more) :
                     g[n] = IF n = 0 THEN << >> ELSE g[n - 1] \o more[n].data
    BY <1>1, ContentsIsBytes
  <2> QED BY <1>1, <2>1
<1>4. N \in Nat
  OBVIOUS
<1> HIDE DEF N
<1> DEFINE Good == {n \in 0 .. N : f[n] = g[n]}
<1>5. 0 \in Good
  BY <1>2, <1>3, <1>4
<1>6. ASSUME NEW n \in 0 .. N - 1, n \in Good PROVE n + 1 \in Good
  <2>1. /\ n + 1 \in 0 .. N /\ n + 1 \in 0 .. N + 1 /\ n + 1 # 0 /\ (n + 1) - 1 = n
        /\ n + 1 \in 1 .. N
    BY <1>4
  <2>2. f[n + 1] = f[n] \o list[n + 1].data /\ g[n + 1] = g[n] \o more[n + 1].data
    BY <1>2, <1>3, <2>1
  <2>3. f[n + 1] = g[n + 1]
    BY <1>1, <1>6, <2>1, <2>2
  <2> QED BY <2>1, <2>3
<1>7. \A n \in 0 .. N : n \in Good
  <2> HIDE DEF Good
  <2> QED BY <1>4, <1>5, <1>6, UpTo
<1>8. f[N] = g[N] /\ N + 1 \in 0 .. N + 1 /\ N + 1 # 0 /\ (N + 1) - 1 = N
  BY <1>4, <1>7
<1>9. g[N + 1] = g[N] \o more[N + 1].data
  BY <1>3, <1>8
<1> QED BY <1>1, <1>2, <1>3, <1>8, <1>9 DEF more

-----------------------------------------------------------------------------
(* The bytes of one task. *)

LEMMA BytesOf ==
    ASSUME NEW n \in Nat, NEW a \in Nat, NEW b \in Nat
    PROVE  /\ Bytes(n, a) \in Seq(Nat) /\ Bytes(n, 0) = << >>
           /\ Bytes(n, a) \o Bytes(n, b) = Bytes(n, a + b)
<1>1. /\ Bytes(n, a) \in Seq(Nat) /\ Len(Bytes(n, a)) = a
      /\ Bytes(n, b) \in Seq(Nat) /\ Len(Bytes(n, b)) = b
      /\ Bytes(n, a + b) \in Seq(Nat) /\ Len(Bytes(n, a + b)) = a + b
      /\ \A k \in 1 .. a : Bytes(n, a)[k] = n
      /\ \A k \in 1 .. b : Bytes(n, b)[k] = n
      /\ \A k \in 1 .. a + b : Bytes(n, a + b)[k] = n
  BY DEF Bytes
<1>2. Bytes(n, 0) = << >>
  BY DEF Bytes
<1> DEFINE s == Bytes(n, a)
           t == Bytes(n, b)
           u == Bytes(n, a + b)
<1>3. /\ s \o t \in Seq(Nat) /\ Len(s \o t) = a + b
      /\ \A k \in 1 .. a + b : (s \o t)[k] = IF k <= a THEN s[k] ELSE t[k - a]
  <2>1. s \in Seq(Nat) /\ t \in Seq(Nat) /\ Len(s) = a /\ Len(t) = b
    BY <1>1
  <2> HIDE DEF s, t
  <2>2. /\ s \o t \in Seq(Nat) /\ Len(s \o t) = Len(s) + Len(t)
        /\ \A k \in 1 .. Len(s) + Len(t) :
              (s \o t)[k] = IF k <= Len(s) THEN s[k] ELSE t[k - Len(s)]
    BY <2>1, ConcatProperties
  <2> QED BY <2>1, <2>2
<1> HIDE DEF s, t, u
<1>4. \A k \in 1 .. a + b : (s \o t)[k] = u[k]
  <2> TAKE k \in 1 .. a + b
  <2>1. k <= a => k \in 1 .. a
    OBVIOUS
  <2>2. ~ (k <= a) => k - a \in 1 .. b
    OBVIOUS
  <2> QED BY <1>1, <1>3, <2>1, <2>2 DEF s, t, u
<1>5. s \o t = u
  BY <1>1, <1>3, <1>4, SeqEqual DEF u
<1> QED BY <1>1, <1>2, <1>5 DEF s, t, u
-----------------------------------------------------------------------------
(* The result of a task. *)

LEMMA NamesNotEmpty ==
    \A name \in {"CURLE_CODE", "HTTP_CODE", "HTTP_DATA", "HTTP_HEADERS"} : name # EmptyString
BY Zenon DEF EmptyString
LEMMA ResultItemIs ==
    \A item \in ResultItem :
        item.name # EmptyString /\ ~ IsEmptyString(item.value) /\ item.value.type # "INVALID"
BY NamesNotEmpty DEF ResultItem, IsEmptyString

LEMMA ResultIs ==
    /\ \A curle \in Curle : Result("CURLE_CODE", curle) \in ResultItem
    /\ \A code \in Nat : Result("HTTP_CODE", code) \in ResultItem
    /\ \A name \in {"HTTP_DATA", "HTTP_HEADERS"}, b \in Buffer :
          [name |-> name, value |-> [type |-> "OBJECT", data |-> b]] \in ResultItem
BY DEF Result, ResultItem

LEMMA ResultIsSet ==
    ASSUME NEW object \in Seq(ResultItem), UniqueNames(object), NEW item \in ResultItem
    PROVE  /\ SetItem(object, item) \in Seq(ResultItem) /\ UniqueNames(SetItem(object, item))
           /\ GetItem(SetItem(object, item), item.name, item.value.type) = item.value
           /\ \A name, type : name # item.name =>
                 GetItem(SetItem(object, item), name, type) = GetItem(object, name, type)
<1>1. item.name # EmptyString /\ ~ IsEmptyString(item.value)
  BY ResultItemIs
<1>2. Stored(item) = item
  BY <1>1 DEF Stored
<1>3. SetItem(object, item) \in Seq(ResultItem) /\ UniqueNames(SetItem(object, item))
  BY <1>2, SetItemPuts
<1>4. GetItem(SetItem(object, item), item.name, item.value.type) = item.value
  BY <1>1, SetIsGot
<1>5. ASSUME NEW name, NEW type, name # item.name
      PROVE  GetItem(SetItem(object, item), name, type) = GetItem(object, name, type)
  BY <1>1, <1>5, SetKeepsOthers
<1> QED BY <1>3, <1>4, <1>5

LEMMA MergedHolds ==
    ASSUME NEW list \in Seq(Buffer), list # << >>
    PROVE  \/ Merged(list) = NoBuffer /\ Contents(list) = << >>
           \/ Merged(list) \in Buffer /\ Merged(list).data = Contents(list)
<1>1. Contents(list) \in Seq(Nat) /\ Len(Contents(list)) \in Nat
  BY ContentsTypes, LenProperties
<1>2. CASE Len(list) = 1
  <2>1. list[1] \in Buffer /\ list[1].data \in Seq(Nat)
    <3>1. 1 \in 1 .. Len(list)
      BY <1>2
    <3>2. list[1] \in Buffer
      BY <3>1, LenProperties
    <3> QED BY <3>2 DEF Buffer
  <2>2. Append(<< >>, list[1]) = list
    <3>1. << >> \in Seq(Buffer) /\ Len(<< >>) = 0
      OBVIOUS
    <3>2. /\ Append(<< >>, list[1]) \in Seq(Buffer) /\ Len(Append(<< >>, list[1])) = 1
          /\ Append(<< >>, list[1])[1] = list[1]
      BY <2>1, <3>1, AppendProperties
    <3>3. \A i \in 1 .. Len(list) : Append(<< >>, list[1])[i] = list[i]
      BY <1>2, <3>2
    <3> QED BY <1>2, <3>2, <3>3, SeqEqual
  <2>3. Contents(Append(<< >>, list[1])) = << >> \o list[1].data
    <3>1. << >> \in Seq(Buffer)
      OBVIOUS
    <3> QED BY <2>1, <3>1, ContentsGrows, ContentsOfNone
  <2>4. << >> \o list[1].data = list[1].data
    BY <2>1, ConcatEmptySeq
  <2> QED BY <1>2, <2>1, <2>2, <2>3, <2>4 DEF Merged, KFMergeMemoryBufferUseListObject
<1>3. CASE Len(list) # 1 /\ Contents(list) = << >>
  BY <1>3 DEF Merged, KFMergeMemoryBufferUseListObject
<1>4. CASE Len(list) # 1 /\ Contents(list) # << >>
  <2> DEFINE room == Len(Contents(list)) + 16
  <2>1. room \in Nat /\ room # 0
    BY <1>1
  <2>2. Merged(list) = [max |-> room, data |-> Contents(list)]
    BY <1>4, <2>1 DEF Merged, KFMergeMemoryBufferUseListObject, KFCreateMemoryBuffer
  <2> HIDE DEF room
  <2> QED BY <1>1, <2>1, <2>2 DEF Buffer
<1> QED BY <1>2, <1>3, <1>4

\* What AddData makes of a result that has no data of that name yet.
LEMMA AddDataAdds ==
    ASSUME NEW object \in Seq(ResultItem), UniqueNames(object), NEW list \in Seq(Buffer),
           NEW name \in {"HTTP_DATA", "HTTP_HEADERS"},
           GetItem(object, name, "OBJECT").type = "INVALID"
    PROVE  /\ AddData(object, name, list) \in Seq(ResultItem)
           /\ UniqueNames(AddData(object, name, list))
           /\ \A report : report.object = AddData(object, name, list) =>
                 DataOf(report, name) = Contents(list)
           /\ \A other, type : other # name =>
                 GetItem(AddData(object, name, list), other, type) = GetItem(object, other, type)
<1>1. CASE list = << >> \/ Merged(list) = NoBuffer
  <2>1. AddData(object, name, list) = object
    BY <1>1 DEF AddData
  <2>2. Contents(list) = << >>
    <3>1. CASE list = << >>
      BY <3>1, ContentsOfNone
    <3>2. CASE list # << >> /\ Merged(list) = NoBuffer
      BY <3>2, MergedHolds, DownloaderAssumption
    <3> QED BY <1>1, <3>1, <3>2
  <2> QED BY <2>1, <2>2 DEF DataOf
<1>2. CASE list # << >> /\ Merged(list) # NoBuffer
  <2> DEFINE item == [name |-> name, value |-> [type |-> "OBJECT", data |-> Merged(list)]]
  <2>1. Merged(list) \in Buffer /\ Merged(list).data = Contents(list)
    BY <1>2, MergedHolds
  <2>2. item \in ResultItem
    BY <2>1, ResultIs
  <2>3. AddData(object, name, list) = SetItem(object, item)
    BY <1>2 DEF AddData
  <2>4. /\ item.name = name /\ item.value.type = "OBJECT" /\ item.value.data = Merged(list)
    OBVIOUS
  <2> HIDE DEF item
  <2>5. /\ SetItem(object, item) \in Seq(ResultItem) /\ UniqueNames(SetItem(object, item))
        /\ GetItem(SetItem(object, item), name, "OBJECT") = item.value
        /\ \A other, type : other # name =>
              GetItem(SetItem(object, item), other, type) = GetItem(object, other, type)
    BY <2>2, <2>4, ResultIsSet
  <2>6. ASSUME NEW report, report.object = AddData(object, name, list)
        PROVE  DataOf(report, name) = Contents(list)
    BY <2>1, <2>3, <2>4, <2>5, <2>6 DEF DataOf
  <2> QED BY <2>3, <2>5, <2>6
<1> QED BY <1>1, <1>2
-----------------------------------------------------------------------------
(* The task under way is in one place. *)

LEMMA OthersIdle ==
    ASSUME DownloaderInv, NEW w \in Worker, Has(w)
    PROVE  /\ \A v \in Worker : v # w => ~ Has(v)
           /\ run[w].pc # "free" => queue[w] = << >> /\ run[w].task = started
           /\ posted = << >> /\ started \in 1 .. MaxTasks /\ task \in Task
           /\ \A k \in 1 .. Len(reports) : reports[k].task # started
<1>1. OneTask /\ Types
  BY DEF DownloaderInv
<1>2. /\ \A v \in Worker : v # w => ~ Has(v)
      /\ posted = << >> /\ started # 0 /\ task # NULL
      /\ \A k \in 1 .. Len(reports) : reports[k].task # started
  BY <1>1 DEF OneTask
<1>3. run[w].pc # "free" => queue[w] = << >> /\ run[w].task = started
  BY <1>1 DEF OneTask
<1>4. started \in 1 .. MaxTasks /\ task \in Task
  <2>1. started \in 0 .. MaxTasks /\ task \in Task \cup {NULL}
    BY <1>1 DEF Types
  <2> QED BY <1>2, <2>1, DownloaderAssumption
<1> QED BY <1>2, <1>3, <1>4

LEMMA QuietIs ==
    ASSUME DownloaderInv, Quiet
    PROVE  (\A w \in Worker : ~ Has(w)) /\ posted = << >>
<1>1. OneTask /\ Types
  BY DEF DownloaderInv
<1>2. ASSUME NEW w \in Worker, Has(w) PROVE FALSE
  <2>1. started \in 1 .. started
    <3>1. started \in 1 .. MaxTasks
      BY <1>2, OthersIdle
    <3> QED BY <3>1, DownloaderAssumption
  <2>2. ~ UnderWay(started)
    BY <2>1 DEF Quiet
  <2>3. CASE queue[w] # << >>
    <3>1. queue[w] = <<started>>
      BY <1>1, <2>3 DEF OneTask
    <3>2. started \in ToSet(queue[w])
      BY <3>1 DEF ToSet
    <3> QED BY <2>2, <3>2 DEF UnderWay
  <2>4. CASE run[w].pc # "free"
    <3>1. run[w].task = started
      BY <1>1, <2>4 DEF OneTask
    <3> QED BY <2>2, <3>1 DEF UnderWay
  <2> QED BY <1>2, <2>3, <2>4 DEF Has
<1>3. ASSUME posted # << >> PROVE FALSE
  <2>1. Len(posted) = 1 /\ posted[1].task = started /\ started # 0
    BY <1>1, <1>3 DEF OneTask
  <2>2. started \in 1 .. started
    BY <1>1, <2>1, DownloaderAssumption DEF Types
  <2>3. 1 \in DOMAIN posted
    BY <1>1, <2>1 DEF Types
  <2> QED BY <2>1, <2>2, <2>3 DEF Quiet, UnderWay
<1> QED BY <1>2, <1>3

\* Worker w goes on with the task.
Continues(w) ==
    /\ run[w].pc # "free" /\ run'[w].pc # "free" /\ run'[w].task = run[w].task
    /\ \A v \in Worker : v # w => run'[v] = run[v]
    /\ UNCHANGED <<queue, posted, reports, started, own>>

LEMMA RepTask ==
    ASSUME DownloaderInv
    PROVE  /\ \A k \in 1 .. Len(reports) : reports[k] \in Rep /\ reports[k].task \in 1 .. MaxTasks
           /\ \A k \in 1 .. Len(posted) : posted[k] \in Rep /\ posted[k].task \in 1 .. MaxTasks
<1>1. reports \in Seq(Rep) /\ posted \in Seq(Rep)
  BY DEF DownloaderInv, Types
<1>2. \A k \in 1 .. Len(reports) : reports[k] \in Rep
  BY <1>1, LenProperties
<1>3. \A k \in 1 .. Len(posted) : posted[k] \in Rep
  BY <1>1, LenProperties
<1>4. \A rep \in Rep : rep.task \in 1 .. MaxTasks
  BY DEF Rep
<1> QED BY <1>2, <1>3, <1>4

\* What has been reported stays complete while a task goes on.
LEMMA ContinueKeeps ==
    ASSUME DownloaderInv, NEW w \in Worker, Continues(w), Types', task' # NULL,
           \A n \in 1 .. MaxTasks :
              n # started => received'[n] = received[n] /\ outcome'[n] = outcome[n],
           UniqueNames(task'.result), RefersAt(w)', ListsAt(w)', ResultAt(w)'
    PROVE  DownloaderInv'
<1>1. Has(w)
  BY DEF Continues, Has
<1>2. /\ \A v \in Worker : v # w => ~ Has(v)
      /\ queue[w] = << >> /\ run[w].task = started
      /\ posted = << >> /\ started \in 1 .. MaxTasks
      /\ \A k \in 1 .. Len(reports) : reports[k].task # started
  BY <1>1, OthersIdle DEF Continues
<1>3. \A v \in Worker : v # w => queue'[v] = << >> /\ run'[v].pc = "free" /\ ~ Has(v)'
  BY <1>2 DEF Continues, Has
<1>4. OneTask'
  <2>1. OneTask
    BY DEF DownloaderInv
  <2>2. UNCHANGED <<queue, posted, reports, started>> /\ run'[w].pc # "free" /\ run'[w].task = started
    BY <1>2 DEF Continues
  <2>3. started' # 0
    BY <1>2, <2>2, DownloaderAssumption
  <2> QED BY <1>2, <1>3, <2>1, <2>2, <2>3 DEF OneTask, Has
<1>5. Untouched'
  <2>1. Untouched /\ started' = started
    BY DEF DownloaderInv, Continues
  <2>2. \A n \in 1 .. MaxTasks : n > started => n # started
    BY <1>2, DownloaderAssumption
  <2> QED BY <2>1, <2>2 DEF Untouched
<1>6. AllComplete'
  <2>1. AllComplete /\ reports' = reports /\ posted' = << >>
    BY <1>2 DEF DownloaderInv, Continues
  <2>2. ASSUME NEW k \in 1 .. Len(reports) PROVE Complete(reports[k])'
    <3>1. reports[k].task \in 1 .. MaxTasks /\ reports[k].task # started
      BY <1>2, RepTask
    <3>2. Complete(reports[k])
      BY <2>1 DEF AllComplete
    <3> QED BY <2>1, <3>1, <3>2 DEF Complete
  <2>3. \A k \in 1 .. Len(posted') : FALSE
    BY <2>1
  <2> QED BY <2>1, <2>2, <2>3 DEF AllComplete
<1>7. ASSUME NEW v \in Worker PROVE RefersAt(v)' /\ ListsAt(v)' /\ ResultAt(v)'
  <2>1. CASE v # w
    BY <1>3, <2>1 DEF RefersAt, ListsAt, ResultAt
  <2> QED BY <2>1
<1> QED BY <1>4, <1>5, <1>6, <1>7 DEF DownloaderInv
-----------------------------------------------------------------------------
(* The steps of OnInvoke that move on. *)

LEMMA RunBecomes ==
    ASSUME Types, NEW w \in Worker, NEW g \in Run, run' = [run EXCEPT ![w] = g]
    PROVE  /\ run' \in [Worker -> Run] /\ run'[w] = g
           /\ \A v \in Worker : v # w => run'[v] = run[v]
BY DEF Types

\* Worker w moves on to pc with the result r.
MovesOn(w, pc, r) ==
    /\ run' \in [Worker -> Run]
    /\ run'[w].pc = pc /\ run'[w].r = r
    /\ run'[w].task = run[w].task /\ run'[w].todo = run[w].todo /\ run'[w].curl = run[w].curl
    /\ \A v \in Worker : v # w => run'[v] = run[v]

LEMMA GoBecomes ==
    ASSUME Types, NEW w \in Worker, NEW pc \in Place, Go(w, pc)
    PROVE  MovesOn(w, pc, run[w].r)
<1> DEFINE f == run[w]
           g == [f EXCEPT !.pc = pc]
<1>1. f \in Run
  BY DEF Types
<1>2. run' = [run EXCEPT ![w] = g]
  BY DEF Go
<1> HIDE DEF f
<1>3. /\ g \in Run /\ g.pc = pc /\ g.r = f.r
      /\ g.task = f.task /\ g.todo = f.todo /\ g.curl = f.curl
  BY <1>1 DEF Run
<1> HIDE DEF g
<1>4. /\ run' \in [Worker -> Run] /\ run'[w] = g
      /\ \A v \in Worker : v # w => run'[v] = run[v]
  BY <1>2, <1>3, RunBecomes
<1> QED BY <1>3, <1>4 DEF MovesOn, f

LEMMA FailBecomes ==
    ASSUME Types, NEW w \in Worker, NEW pc \in Place, NEW r \in Code, Fail(w, pc, r)
    PROVE  MovesOn(w, pc, r)
<1> DEFINE f  == run[w]
           g  == [f EXCEPT !.pc = pc]
           h  == [g EXCEPT !.r = r]
           mid == [run EXCEPT ![w] = g]
<1>1. f \in Run /\ run \in [Worker -> Run]
  BY DEF Types
<1>2. run' = [mid EXCEPT ![w].r = r] /\ mid[w] = g
  BY <1>1 DEF Fail
<1>3. run' = [mid EXCEPT ![w] = h]
  BY <1>2
<1> HIDE DEF f
<1>4. /\ g \in Run /\ g.pc = pc
      /\ g.task = f.task /\ g.todo = f.todo /\ g.curl = f.curl
  BY <1>1 DEF Run
<1> HIDE DEF g
<1>5. /\ h \in Run /\ h.pc = g.pc /\ h.r = r
      /\ h.task = g.task /\ h.todo = g.todo /\ h.curl = g.curl
  BY <1>4 DEF Run
<1> HIDE DEF h
<1>6. mid \in [Worker -> Run] /\ \A v \in Worker : v # w => mid[v] = run[v]
  BY <1>1, <1>4
<1> HIDE DEF mid
<1>7. /\ run' \in [Worker -> Run] /\ run'[w] = h
      /\ \A v \in Worker : v # w => run'[v] = run[v]
  BY <1>3, <1>5, <1>6
<1> QED BY <1>4, <1>5, <1>7 DEF MovesOn, f

LEMMA RunStepKeeps ==
    ASSUME DownloaderInv, NEW w \in Worker, run[w].pc # "free",
           run' \in [Worker -> Run], run'[w].pc # "free", run'[w].task = run[w].task,
           \A v \in Worker : v # w => run'[v] = run[v],
           UNCHANGED <<core, settings, handle, task, started, queue, posted, reports, received, outcome>>,
           RefersAt(w)', ResultAt(w)'
    PROVE  DownloaderInv'
<1>1. Types'
  BY DEF DownloaderInv, Types, settings
<1>2. Has(w) /\ Has(w)'
  BY DEF Has
<1>3. task \in Task /\ UniqueNames(task'.result) /\ task' # NULL
  BY <1>2, OthersIdle, DownloaderAssumption DEF DownloaderInv
<1>4. Continues(w)
  BY DEF Continues, settings
<1>5. ListsAt(w)'
  BY <1>2 DEF ListsAt, DownloaderInv
<1> QED BY <1>1, <1>3, <1>4, <1>5, ContinueKeeps

LEMMA NewHasNoData == NoData(<< >>) /\ NewTask \in Task /\ UniqueNames(NewTask.result)
<1>1. \A name : SearchStore(<< >>, name) = 0
  BY DEF SearchStore
<1>2. \A name, type : GetItem(<< >>, name, type) = Invalid
  BY <1>1 DEF GetItem
<1>3. NoData(<< >>)
  BY <1>2 DEF NoData, Invalid
<1>4. NewTask \in Task /\ UniqueNames(NewTask.result)
  BY DEF NewTask, Task, UniqueNames
<1> QED BY <1>3, <1>4

LEMMA CheckUrlKeeps ==
    ASSUME DownloaderInv, NEW w \in Worker, CheckUrl(w)
    PROVE  DownloaderInv'
<1>1. Types /\ run[w].pc = "check" /\ task = NewTask
  BY DEF CheckUrl, DownloaderInv, ResultAt
<1>2. UNCHANGED <<core, settings, handle, task, started, queue, posted, reports, received, outcome>>
  BY DEF CheckUrl
<1>3. queue[w] = << >>
  BY <1>1, OthersIdle DEF Has
<1>4. CASE Fail(w, "merge", "KF_INVALID_INPUT")
  <2>1. "merge" \in Place /\ "KF_INVALID_INPUT" \in Code
    BY DEF Place, Code
  <2>2. MovesOn(w, "merge", "KF_INVALID_INPUT")
    BY <1>1, <1>4, <2>1, FailBecomes
  <2>3. NoData(<< >>)' /\ task.result = << >> /\ task.body = << >> /\ task.head = << >>
    BY <1>1, NewHasNoData DEF NewTask, NoData
  <2>4. RefersAt(w)' /\ ResultAt(w)'
    BY <1>2, <1>3, <2>2, <2>3 DEF RefersAt, ResultAt, MovesOn, NoData
  <2> QED BY <1>1, <1>2, <2>2, <2>4, RunStepKeeps DEF MovesOn
<1>5. CASE Go(w, "curl")
  <2>1. "curl" \in Place
    BY DEF Place
  <2>2. MovesOn(w, "curl", run[w].r)
    BY <1>1, <1>5, <2>1, GoBecomes
  <2>3. RefersAt(w)' /\ ResultAt(w)'
    BY <1>1, <1>2, <2>2 DEF RefersAt, ResultAt, MovesOn
  <2> QED BY <1>1, <1>2, <2>2, <2>3, RunStepKeeps DEF MovesOn
<1> QED BY <1>4, <1>5 DEF CheckUrl

\* The same for a step that leaves the texts still to look up.
LEMMA TextsLeft ==
    ASSUME Types, NEW w \in Worker, NEW pc \in Place, NEW todo \in Seq(Text), NEW next,
           next = [run EXCEPT ![w].pc = pc, ![w].todo = todo]
    PROVE  /\ next \in [Worker -> Run]
           /\ next[w].pc = pc /\ next[w].todo = todo
           /\ next[w].r = run[w].r /\ next[w].task = run[w].task /\ next[w].curl = run[w].curl
           /\ \A v \in Worker : v # w => next[v] = run[v]
<1> DEFINE f  == run[w]
           g  == [f EXCEPT !.pc = pc]
           h  == [g EXCEPT !.todo = todo]
           mid == [run EXCEPT ![w] = g]
<1>1. f \in Run /\ run \in [Worker -> Run]
  BY DEF Types
<1>2. next = [mid EXCEPT ![w].todo = todo] /\ mid[w] = g
  BY <1>1
<1>3. next = [mid EXCEPT ![w] = h]
  BY <1>2
<1> HIDE DEF f
<1>4. g \in Run /\ g.pc = pc /\ g.task = f.task /\ g.r = f.r /\ g.curl = f.curl
  BY <1>1 DEF Run
<1> HIDE DEF g
<1>5. h \in Run /\ h.pc = g.pc /\ h.todo = todo /\ h.task = g.task /\ h.r = g.r /\ h.curl = g.curl
  BY <1>4 DEF Run
<1> HIDE DEF h
<1>6. mid \in [Worker -> Run] /\ \A v \in Worker : v # w => mid[v] = run[v]
  BY <1>1, <1>4
<1> HIDE DEF mid
<1>7. /\ next \in [Worker -> Run] /\ next[w] = h
      /\ \A v \in Worker : v # w => next[v] = run[v]
  BY <1>3, <1>5, <1>6
<1> QED BY <1>4, <1>5, <1>7 DEF f

LEMMA TextSkips ==
    ASSUME Types, NEW w \in Worker, run[w].todo # << >>,
           \/ run' = [run EXCEPT ![w].todo = Tail(@)] /\ run[w].pc = "text"
           \/ run' = [run EXCEPT ![w].pc = "text", ![w].todo = Tail(@)]
    PROVE  /\ run' \in [Worker -> Run] /\ run'[w].pc = "text"
           /\ run'[w].task = run[w].task /\ run'[w].curl = run[w].curl
           /\ \A v \in Worker : v # w => run'[v] = run[v]
<1> DEFINE todo == Tail(run[w].todo)
<1>1. run[w] \in Run /\ run \in [Worker -> Run]
  BY DEF Types
<1>2. todo \in Seq(Text)
  <2>1. run[w].todo \in Seq(Text)
    BY <1>1 DEF Run
  <2> QED BY <2>1, HeadTailProperties
<1>3. run' = [run EXCEPT ![w].pc = "text", ![w].todo = todo]
  <2> DEFINE mid == [run EXCEPT ![w].pc = "text"]
  <2>1. run[w].pc = "text" => mid = run
    <3>1. run[w].pc = "text" => [run[w] EXCEPT !.pc = "text"] = run[w]
      BY <1>1 DEF Run
    <3>2. mid = [run EXCEPT ![w] = [run[w] EXCEPT !.pc = "text"]]
      OBVIOUS
    <3> HIDE DEF mid
    <3> QED BY <1>1, <3>1, <3>2
  <2>2. mid[w].todo = run[w].todo
    BY <1>1 DEF Run
  <2>3. \/ run' = [run EXCEPT ![w].todo = todo] /\ run[w].pc = "text"
        \/ run' = [mid EXCEPT ![w].todo = Tail(mid[w].todo)]
    OBVIOUS
  <2> HIDE DEF mid
  <2>4. run' = [mid EXCEPT ![w].todo = todo]
    BY <2>1, <2>2, <2>3
  <2> QED BY <2>4 DEF mid
<1>4. "text" \in Place
  BY DEF Place
<1> HIDE DEF todo
<1>5. /\ run' \in [Worker -> Run] /\ run'[w].pc = "text"
      /\ run'[w].r = run[w].r /\ run'[w].task = run[w].task /\ run'[w].curl = run[w].curl
      /\ \A v \in Worker : v # w => run'[v] = run[v]
  <2> DEFINE next == run'
  <2>1. next = [run EXCEPT ![w].pc = "text", ![w].todo = todo]
    BY <1>3
  <2> HIDE DEF next
  <2>2. /\ next \in [Worker -> Run] /\ next[w].pc = "text"
        /\ next[w].r = run[w].r /\ next[w].task = run[w].task /\ next[w].curl = run[w].curl
        /\ \A v \in Worker : v # w => next[v] = run[v]
    BY <1>2, <1>4, <2>1, TextsLeft
  <2> QED BY <2>2 DEF next
<1> QED BY <1>5

LEMMA HasTextKeeps ==
    ASSUME DownloaderInv, NEW w \in Worker, HasText(w)
    PROVE  DownloaderInv'
<1>1. Types /\ run[w].pc = "text" /\ task = NewTask /\ RefersAt(w) /\ run[w].todo # << >>
  BY DEF HasText, DownloaderInv, ResultAt
<1>2. UNCHANGED <<core, settings, handle, task, started, queue, posted, reports, received, outcome>>
  BY DEF HasText
<1>3. CASE Go(w, "get")
  <2>1. "get" \in Place
    BY DEF Place
  <2>2. MovesOn(w, "get", run[w].r)
    BY <1>1, <1>3, <2>1, GoBecomes
  <2>3. RefersAt(w)' /\ ResultAt(w)'
    BY <1>1, <1>2, <2>2 DEF RefersAt, ResultAt, MovesOn
  <2> QED BY <1>1, <1>2, <2>2, <2>3, RunStepKeeps DEF MovesOn
<1>4. CASE run' = [run EXCEPT ![w].todo = Tail(@)]
  <2>1. /\ run' \in [Worker -> Run] /\ run'[w].pc = "text"
        /\ run'[w].task = run[w].task /\ run'[w].curl = run[w].curl
        /\ \A v \in Worker : v # w => run'[v] = run[v]
    BY <1>1, <1>4, TextSkips
  <2>2. RefersAt(w)' /\ ResultAt(w)'
    BY <1>1, <1>2, <2>1 DEF RefersAt, ResultAt
  <2> QED BY <1>1, <1>2, <2>1, <2>2, RunStepKeeps
<1> QED BY <1>3, <1>4 DEF HasText

LEMMA GetTextKeeps ==
    ASSUME DownloaderInv, NEW w \in Worker, GetText(w)
    PROVE  DownloaderInv'
<1>1. Types /\ run[w].pc = "get" /\ task = NewTask /\ RefersAt(w) /\ run[w].todo # << >>
  BY DEF GetText, DownloaderInv, ResultAt, RefersAt
<1>2. UNCHANGED <<core, settings, handle, task, started, queue, posted, reports, received, outcome>>
  BY DEF GetText
<1>3. queue[w] = << >>
  BY <1>1, OthersIdle DEF Has
<1>4. CASE run' = [run EXCEPT ![w].pc = "text", ![w].todo = Tail(@)]
  <2>1. /\ run' \in [Worker -> Run] /\ run'[w].pc = "text"
        /\ run'[w].task = run[w].task /\ run'[w].curl = run[w].curl
        /\ \A v \in Worker : v # w => run'[v] = run[v]
    BY <1>1, <1>4, TextSkips
  <2>2. RefersAt(w)' /\ ResultAt(w)'
    BY <1>1, <1>2, <2>1 DEF RefersAt, ResultAt
  <2> QED BY <1>1, <1>2, <2>1, <2>2, RunStepKeeps
<1>5. CASE Fail(w, "info", "KF_INVALID_DATA")
  <2>1. "info" \in Place /\ "KF_INVALID_DATA" \in Code
    BY DEF Place, Code
  <2>2. MovesOn(w, "info", "KF_INVALID_DATA")
    BY <1>1, <1>5, <2>1, FailBecomes
  <2>3. NoData(<< >>)' /\ task.result = << >> /\ task.body = << >> /\ task.head = << >>
    BY <1>1, NewHasNoData DEF NewTask, NoData
  <2>4. RefersAt(w)' /\ ResultAt(w)'
    BY <1>1, <1>2, <1>3, <2>2, <2>3 DEF RefersAt, ResultAt, MovesOn, NoData
  <2> QED BY <1>1, <1>2, <2>2, <2>4, RunStepKeeps DEF MovesOn
<1> QED BY <1>4, <1>5 DEF GetText

LEMMA FreshIsHandle == FreshHandle \in Handle /\ FreshHandle # NULL /\ FreshHandle.refs = NoRefs
<1>1. FreshHandle \in Handle /\ FreshHandle.refs = NoRefs
  BY DEF FreshHandle, Handle, NoRefs
<1> QED BY <1>1, DownloaderAssumption

LEMMA GetCURLKeepsInv ==
    ASSUME DownloaderInv, NEW w \in Worker, GetCURL(w)
    PROVE  DownloaderInv'
<1> DEFINE keeps == reuse /\ handle # NULL
           curl  == IF keeps THEN "kept" ELSE "new"
           next  == [run EXCEPT ![w].pc = "text", ![w].todo = Texts]
<1>1. Types /\ run[w].pc = "curl" /\ task = NewTask
  BY DEF GetCURL, DownloaderInv, ResultAt
<1>2. /\ UNCHANGED <<core, settings, task, started, queue, posted, reports, received, outcome>>
      /\ handle' = IF keeps THEN handle ELSE FreshHandle
  BY DEF GetCURL
<1>3. Has(w) /\ Has(w)' /\ queue[w] = << >> /\ task # NULL
  <2>1. Has(w)
    BY <1>1 DEF Has
  <2>2. queue[w] = << >> /\ task # NULL
    BY <1>1, <2>1, OthersIdle, DownloaderAssumption
  <2>3. run[w] \in Run
    BY <1>1 DEF Types
  <2>4. run'[w].pc = "text"
    BY <1>1, <2>3 DEF GetCURL, Types, Run
  <2> QED BY <2>1, <2>2, <2>4 DEF Has
<1>4. /\ next \in [Worker -> Run]
      /\ next[w].pc = "text" /\ next[w].task = run[w].task
      /\ \A v \in Worker : v # w => next[v] = run[v]
  <2>1. "text" \in Place
    BY DEF Place
  <2>2. Texts \in Seq(Text)
    BY DEF Texts, Text
  <2>3. next = [run EXCEPT ![w].pc = "text", ![w].todo = Texts]
    OBVIOUS
  <2> HIDE DEF next
  <2> QED BY <1>1, <2>1, <2>2, <2>3, TextsLeft
<1>5. run' = [next EXCEPT ![w].curl = curl]
  BY DEF GetCURL
<1> HIDE DEF next
<1> DEFINE g == [next[w] EXCEPT !.curl = curl]
<1>6. curl \in Origin /\ next[w] \in Run
  <2>1. next[w] \in Run
    BY <1>4
  <2>2. curl \in Origin
    BY DEF Origin
  <2> QED BY <2>1, <2>2
<1> HIDE DEF curl
<1>7. g \in Run /\ g.pc = "text" /\ g.task = run[w].task /\ g.curl = curl
  BY <1>4, <1>6 DEF Run
<1>8. run' = [next EXCEPT ![w] = g]
  BY <1>5
<1> HIDE DEF g
<1>9. /\ run' \in [Worker -> Run] /\ run'[w] = g
      /\ \A v \in Worker : v # w => run'[v] = run[v]
  BY <1>4, <1>7, <1>8
<1>10. handle' \in Handle \cup {NULL} /\ handle' # NULL
  BY <1>1, <1>2, FreshIsHandle DEF Types
<1>11. Types'
  BY <1>1, <1>2, <1>9, <1>10 DEF Types, settings
<1>12. Continues(w)
  BY <1>1, <1>2, <1>7, <1>9 DEF Continues, settings
<1>13. RefersAt(w)'
  BY <1>2, <1>7, <1>9, <1>10, FreshIsHandle DEF RefersAt, curl
<1>14. ListsAt(w)' /\ UniqueNames(task'.result)
  BY <1>2, <1>3 DEF ListsAt, DownloaderInv
<1>15. ResultAt(w)'
  BY <1>1, <1>2, <1>3, <1>7, <1>9 DEF ResultAt
<1> QED BY <1>2, <1>3, <1>11, <1>12, <1>13, <1>14, <1>15, ContinueKeeps

LEMMA GetCURLFailsKeeps ==
    ASSUME DownloaderInv, NEW w \in Worker, GetCURLFails(w)
    PROVE  DownloaderInv'
<1>1. Types /\ run[w].pc = "curl" /\ task = NewTask
  BY DEF GetCURLFails, DownloaderInv, ResultAt
<1>2. /\ UNCHANGED <<core, settings, task, started, queue, posted, reports, received, outcome>>
      /\ handle' = NULL
  BY DEF GetCURLFails
<1>3. MovesOn(w, "merge", "KF_INIT_ERROR")
  <2>1. "merge" \in Place /\ "KF_INIT_ERROR" \in Code
    BY DEF Place, Code
  <2> QED BY <1>1, <2>1, FailBecomes DEF GetCURLFails
<1>4. Has(w) /\ Has(w)' /\ queue[w] = << >> /\ task # NULL
  <2>1. Has(w) /\ Has(w)'
    BY <1>1, <1>3 DEF Has, MovesOn
  <2> QED BY <1>1, <2>1, OthersIdle, DownloaderAssumption
<1>5. Types'
  BY <1>1, <1>2, <1>3 DEF Types, settings, MovesOn
<1>6. Continues(w)
  BY <1>1, <1>2, <1>3 DEF Continues, settings, MovesOn
<1>7. RefersAt(w)' /\ ListsAt(w)' /\ UniqueNames(task'.result)
  BY <1>2, <1>3, <1>4 DEF RefersAt, ListsAt, DownloaderInv, MovesOn
<1>8. ResultAt(w)'
  <2>1. NoData(<< >>)' /\ task.result = << >> /\ task.body = << >> /\ task.head = << >>
    BY <1>1, NewHasNoData DEF NewTask, NoData
  <2> QED BY <1>2, <1>3, <1>4, <2>1 DEF ResultAt, MovesOn, NoData
<1> QED BY <1>2, <1>4, <1>5, <1>6, <1>7, <1>8, ContinueKeeps

LEMMA SetupKeeps ==
    ASSUME DownloaderInv, NEW w \in Worker, Setup(w)
    PROVE  DownloaderInv'
<1> DEFINE refs == [p \in Part |-> IF own[p] # 0 THEN own[p] ELSE handle.refs[p]]
<1>1. Types /\ run[w].pc = "text" /\ task = NewTask /\ RefersAt(w)
  BY DEF Setup, DownloaderInv, ResultAt
<1>2. /\ UNCHANGED <<core, settings, task, started, queue, posted, reports, received, outcome>>
      /\ handle' = [handle EXCEPT !.refs = refs]
  <2>1. handle \in Handle
    BY <1>1 DEF RefersAt, Types
  <2> QED BY <2>1 DEF Setup, Handle
<1>3. MovesOn(w, "perform", run[w].r)
  <2>1. "perform" \in Place
    BY DEF Place
  <2> QED BY <1>1, <2>1, GoBecomes DEF Setup
<1>4. Has(w) /\ Has(w)' /\ queue[w] = << >> /\ task # NULL
  <2>1. Has(w) /\ Has(w)'
    BY <1>1, <1>3 DEF Has, MovesOn
  <2> QED BY <1>1, <2>1, OthersIdle, DownloaderAssumption
<1>5. handle \in Handle /\ own \in [Part -> Nat]
  BY <1>1 DEF RefersAt, Types
<1>6. refs \in [Part -> Nat]
  BY <1>5 DEF Handle
<1>7. handle.refs = NoRefs => refs = own
  BY <1>5 DEF NoRefs
<1> HIDE DEF refs
<1>8. handle' \in Handle /\ handle'.refs = refs /\ handle' # NULL
  <2>1. handle' \in Handle /\ handle'.refs = refs
    BY <1>2, <1>5, <1>6 DEF Handle
  <2> QED BY <2>1, DownloaderAssumption
<1>9. Types'
  BY <1>1, <1>2, <1>3, <1>8 DEF Types, settings, MovesOn
<1>10. Continues(w)
  BY <1>1, <1>2, <1>3 DEF Continues, settings, MovesOn
<1>11. RefersAt(w)'
  <2>1. own' = own
    BY <1>2 DEF settings
  <2> QED BY <1>1, <1>3, <1>7, <1>8, <2>1 DEF RefersAt, MovesOn
<1>12. ListsAt(w)' /\ UniqueNames(task'.result)
  BY <1>2, <1>3, <1>4 DEF ListsAt, DownloaderInv, MovesOn
<1>13. ResultAt(w)'
  BY <1>1, <1>2, <1>3, <1>4 DEF ResultAt, MovesOn, NewTask
<1> QED BY <1>2, <1>4, <1>9, <1>10, <1>11, <1>12, <1>13, ContinueKeeps
-----------------------------------------------------------------------------
(* The steps of OnInvoke that change the lists and the result. *)

LEMMA ResultBecomes ==
    ASSUME task \in Task, NEW result \in Seq(ResultItem), task' = [task EXCEPT !.result = result]
    PROVE  /\ task' \in Task /\ task' # NULL
           /\ task'.result = result /\ task'.body = task.body /\ task'.head = task.head
<1>1. /\ task' \in Task
      /\ task'.result = result /\ task'.body = task.body /\ task'.head = task.head
  BY DEF Task
<1> QED BY <1>1, DownloaderAssumption

LEMMA HandleCodeIs ==
    ASSUME handle \in Handle, NEW n \in Nat, handle' = [handle EXCEPT !.code = n]
    PROVE  handle' \in Handle /\ handle' # NULL /\ handle'.refs = handle.refs
<1>1. handle' \in Handle /\ handle'.refs = handle.refs
  BY DEF Handle
<1> QED BY <1>1, DownloaderAssumption

LEMMA PerformDoneKeeps ==
    ASSUME DownloaderInv, NEW w \in Worker, NEW curle \in Curle, PerformDone(w, curle)
    PROVE  DownloaderInv'
<1> DEFINE r      == IF curle = "OK" THEN "KF_OK" ELSE "KF_NETWORK_" \o curle
           item   == Result("CURLE_CODE", curle)
           result == SetItem(<< >>, item)
<1>1. Types /\ run[w].pc = "perform" /\ task.result = << >> /\ RefersAt(w) /\ ListsAt(w)
  BY DEF PerformDone, DownloaderInv, ResultAt
<1>2. Has(w)
  BY <1>1 DEF Has
<1>3. /\ run[w].task = started /\ queue[w] = << >>
      /\ started \in 1 .. MaxTasks /\ started \in Nat /\ task \in Task
  <2>1. run[w].task = started /\ queue[w] = << >> /\ started \in 1 .. MaxTasks /\ task \in Task
    BY <1>1, <1>2, OthersIdle
  <2> QED BY <2>1, DownloaderAssumption
<1>4. /\ UNCHANGED <<core, settings, started, queue, posted, reports, received>>
      /\ task' = [task EXCEPT !.result = result]
      /\ outcome' = [outcome EXCEPT ![started] = curle]
      /\ handle' = [handle EXCEPT !.code = started]
      /\ Fail(w, "info", r)
  <2>1. [task EXCEPT !.result = SetItem(@, item)] = [task EXCEPT !.result = result]
    BY <1>1, <1>3
  <2> QED BY <1>3, <2>1 DEF PerformDone
<1>5. MovesOn(w, "info", r)
  <2>1. "info" \in Place /\ r \in Code
    BY DEF Place, Code
  <2> HIDE DEF r
  <2> QED BY <1>1, <1>4, <2>1, FailBecomes
<1>6. /\ result \in Seq(ResultItem) /\ UniqueNames(result)
      /\ NoData(result) /\ CodeIs(result, curle)
  <2>1. /\ item \in ResultItem /\ item.name = "CURLE_CODE"
        /\ item.value.type = "UINT32" /\ item.value.data = curle
    BY ResultIs DEF Result
  <2>2. << >> \in Seq(ResultItem) /\ UniqueNames(<< >>) /\ NoData(<< >>)
    BY NewHasNoData DEF NewTask
  <2> DEFINE none == << >>
  <2>3. result = SetItem(none, item) /\ none \in Seq(ResultItem) /\ UniqueNames(none) /\ NoData(none)
    BY <2>2
  <2> HIDE DEF item, none
  <2>4. /\ SetItem(none, item) \in Seq(ResultItem) /\ UniqueNames(SetItem(none, item))
        /\ GetItem(SetItem(none, item), item.name, item.value.type) = item.value
        /\ \A name, type : name # item.name =>
              GetItem(SetItem(none, item), name, type) = GetItem(none, name, type)
    BY <2>1, <2>3, ResultIsSet
  <2> HIDE DEF result
  <2> QED BY <2>1, <2>3, <2>4 DEF NoData, CodeIs
<1> HIDE DEF item, result, r
<1>7. /\ task' \in Task /\ task' # NULL
      /\ task'.result = result /\ task'.body = task.body /\ task'.head = task.head
  BY <1>3, <1>4, <1>6, ResultBecomes
<1>8. handle' \in Handle /\ handle' # NULL
  <2>1. handle \in Handle
    BY <1>1 DEF RefersAt, Types
  <2> QED BY <1>3, <1>4, <2>1, HandleCodeIs
<1>9. /\ outcome' \in [1 .. MaxTasks -> Curle \cup {"none"}]
      /\ outcome'[started] = curle
      /\ \A n \in 1 .. MaxTasks : n # started => outcome'[n] = outcome[n]
  BY <1>1, <1>3, <1>4 DEF Types
<1>10. Types'
  BY <1>1, <1>4, <1>5, <1>7, <1>8, <1>9 DEF Types, settings, MovesOn
<1>11. Continues(w)
  BY <1>1, <1>4, <1>5 DEF Continues, settings, MovesOn
<1>12. RefersAt(w)'
  BY <1>5, <1>8 DEF RefersAt, MovesOn
<1>13. ListsAt(w)' /\ UniqueNames(task'.result)
  BY <1>1, <1>2, <1>4, <1>6, <1>7 DEF ListsAt
<1>14. ResultAt(w)'
  <2>1. /\ queue'[w] = << >> /\ run'[w].pc = "info"
        /\ task'.result = result /\ outcome'[started'] = curle
    BY <1>3, <1>4, <1>5, <1>7, <1>9 DEF MovesOn
  <2>2. NoData(task'.result) /\ CodeIs(task'.result, outcome'[started'])
    BY <1>6, <2>1
  <2> QED BY <2>1, <2>2 DEF ResultAt, NoData, CodeIs
<1>15. \A n \in 1 .. MaxTasks :
          n # started => received'[n] = received[n] /\ outcome'[n] = outcome[n]
  BY <1>4, <1>9
<1> QED BY <1>7, <1>10, <1>11, <1>12, <1>13, <1>14, <1>15, ContinueKeeps

LEMMA ReadInfoKeeps ==
    ASSUME DownloaderInv, NEW w \in Worker, ReadInfo(w)
    PROVE  DownloaderInv'
<1> DEFINE item   == Result("HTTP_CODE", handle.code)
           result == SetItem(task.result, item)
<1>1. Types /\ run[w].pc = "info" /\ RefersAt(w) /\ ListsAt(w) /\ ResultAt(w)
  BY DEF ReadInfo, DownloaderInv
<1>2. Has(w)
  BY <1>1 DEF Has
<1>3. run[w].task = started /\ queue[w] = << >> /\ started \in 1 .. MaxTasks /\ task \in Task
  BY <1>1, <1>2, OthersIdle
<1>4. handle \in Handle /\ handle.code \in Nat
  <2>1. handle \in Handle
    BY <1>1 DEF RefersAt, Types
  <2> QED BY <2>1 DEF Handle
<1>5. /\ UNCHANGED <<core, settings, started, queue, posted, reports, received, outcome>>
      /\ task' = [task EXCEPT !.result = result]
      /\ handle' = IF reuse THEN handle ELSE NULL
      /\ Go(w, "merge")
  BY <1>3 DEF ReadInfo, Task
<1>6. MovesOn(w, "merge", run[w].r)
  <2>1. "merge" \in Place
    BY DEF Place
  <2> QED BY <1>1, <1>5, <2>1, GoBecomes
<1>7. /\ result \in Seq(ResultItem) /\ UniqueNames(result) /\ NoData(result)
      /\ \A curle : CodeIs(task.result, curle) => CodeIs(result, curle)
  <2>1. item \in ResultItem /\ item.name = "HTTP_CODE"
    BY <1>4, ResultIs DEF Result
  <2>2. task.result \in Seq(ResultItem) /\ UniqueNames(task.result) /\ NoData(task.result)
    <3>1. task # NULL
      BY <1>3, DownloaderAssumption
    <3> QED BY <1>1, <1>3, <3>1 DEF Task, DownloaderInv, ResultAt
  <2> HIDE DEF item
  <2>3. /\ result \in Seq(ResultItem) /\ UniqueNames(result)
        /\ \A name, type : name # "HTTP_CODE" =>
              GetItem(result, name, type) = GetItem(task.result, name, type)
    BY <2>1, <2>2, ResultIsSet
  <2> HIDE DEF result
  <2> QED BY <2>2, <2>3 DEF NoData, CodeIs
<1> HIDE DEF item, result
<1>8. /\ task' \in Task /\ task' # NULL
      /\ task'.result = result /\ task'.body = task.body /\ task'.head = task.head
  BY <1>3, <1>5, <1>7, ResultBecomes
<1>9. Types'
  BY <1>1, <1>4, <1>5, <1>6, <1>8 DEF Types, settings, MovesOn
<1>10. Continues(w)
  BY <1>1, <1>5, <1>6 DEF Continues, settings, MovesOn
<1>11. RefersAt(w)'
  BY <1>6 DEF RefersAt, MovesOn
<1>12. ListsAt(w)' /\ UniqueNames(task'.result)
  BY <1>1, <1>2, <1>5, <1>7, <1>8 DEF ListsAt
<1>13. ResultAt(w)'
  <2>1. /\ queue'[w] = << >> /\ run'[w].pc = "merge" /\ run'[w].r = run[w].r
        /\ task'.result = result /\ outcome'[started'] = outcome[started]
    BY <1>3, <1>5, <1>6, <1>8 DEF MovesOn
  <2>2. \/ (task.body = << >> /\ task.head = << >> /\ run[w].r # "KF_OK")
        \/ CodeIs(task.result, outcome[started])
    BY <1>1 DEF ResultAt
  <2> QED BY <1>7, <1>8, <2>1, <2>2 DEF ResultAt, NoData, CodeIs
<1> QED BY <1>5, <1>8, <1>9, <1>10, <1>11, <1>12, <1>13, ContinueKeeps
LEMMA MergeKeeps ==
    ASSUME DownloaderInv, NEW w \in Worker, Merge(w)
    PROVE  DownloaderInv'
<1> DEFINE one    == AddData(task.result, "HTTP_DATA", task.body)
           result == AddData(one, "HTTP_HEADERS", task.head)
           r      == MergeResult(MergeResult(run[w].r, task.body), task.head)
<1>1. Types /\ run[w].pc = "merge" /\ ListsAt(w) /\ ResultAt(w)
  BY DEF Merge, DownloaderInv
<1>2. Has(w)
  BY <1>1 DEF Has
<1>3. run[w].task = started /\ queue[w] = << >> /\ started \in 1 .. MaxTasks /\ task \in Task
  BY <1>1, <1>2, OthersIdle
<1>4. /\ UNCHANGED <<core, settings, handle, started, queue, posted, reports, received, outcome>>
      /\ task' = [task EXCEPT !.result = result]
      /\ Fail(w, "report", r)
  BY <1>3 DEF Merge, Task
<1>5. MovesOn(w, "report", r)
  <2>1. "report" \in Place
    BY DEF Place
  <2>2. r \in Code
    <3>1. run[w].r \in Code
      BY <1>1 DEF Types, Run
    <3>2. \A s \in Code : \A list : MergeResult(s, list) \in Code
      BY DEF MergeResult, Code
    <3> QED BY <3>1, <3>2
  <2> HIDE DEF r
  <2> QED BY <1>1, <1>4, <2>1, <2>2, FailBecomes
<1>6. /\ task.result \in Seq(ResultItem) /\ UniqueNames(task.result) /\ NoData(task.result)
      /\ task.body \in Seq(Buffer) /\ task.head \in Seq(Buffer)
  <2>1. task # NULL
    BY <1>3, DownloaderAssumption
  <2> QED BY <1>1, <1>3, <2>1 DEF Task, DownloaderInv, ResultAt
<1>7. /\ one \in Seq(ResultItem) /\ UniqueNames(one)
      /\ \A report : report.object = one => DataOf(report, "HTTP_DATA") = Contents(task.body)
      /\ \A name, type : name # "HTTP_DATA" => GetItem(one, name, type) = GetItem(task.result, name, type)
  BY <1>6, AddDataAdds DEF NoData
<1> HIDE DEF one
<1>8. GetItem(one, "HTTP_HEADERS", "OBJECT").type = "INVALID"
  BY <1>6, <1>7 DEF NoData
<1>9. /\ result \in Seq(ResultItem) /\ UniqueNames(result)
      /\ \A report : report.object = result => DataOf(report, "HTTP_HEADERS") = Contents(task.head)
      /\ \A name, type : name # "HTTP_HEADERS" => GetItem(result, name, type) = GetItem(one, name, type)
  BY <1>6, <1>7, <1>8, AddDataAdds
<1> HIDE DEF result
<1>10. \A curle : CodeIs(task.result, curle) => CodeIs(result, curle)
  BY <1>7, <1>9 DEF CodeIs
<1>11. /\ task' \in Task /\ task' # NULL
       /\ task'.result = result /\ task'.body = task.body /\ task'.head = task.head
  BY <1>3, <1>4, <1>9, ResultBecomes
<1>12. r = "KF_OK" => CodeIs(result, outcome[started])
  <2>1. task.body = << >> /\ task.head = << >> => r = run[w].r
    BY DEF MergeResult
  <2>2. \/ (task.body = << >> /\ task.head = << >> /\ run[w].r # "KF_OK")
        \/ CodeIs(task.result, outcome[started])
    BY <1>1 DEF ResultAt
  <2> HIDE DEF r
  <2> QED BY <1>10, <2>1, <2>2
<1> HIDE DEF r
<1>13. ResultAt(w)'
  <2> DEFINE report == [task |-> started, r |-> r, object |-> result]
  <2>1. report.task = started /\ report.r = r /\ report.object = result
    OBVIOUS
  <2>2. DataOf(report, "HTTP_HEADERS") = Contents(task.head)
    BY <1>9
  <2>3. DataOf(report, "HTTP_DATA") = Contents(task.body)
    <3> DEFINE other == [object |-> one]
    <3>1. other.object = one /\ DataOf(other, "HTTP_DATA") = Contents(task.body)
      BY <1>7
    <3>2. GetItem(result, "HTTP_DATA", "OBJECT") = GetItem(one, "HTTP_DATA", "OBJECT")
      BY <1>9
    <3> HIDE DEF other
    <3> QED BY <2>1, <3>1, <3>2 DEF DataOf
  <2> HIDE DEF report
  <2>4. /\ DataOf(report, "HTTP_DATA") = Bytes(started, received[started].body)
        /\ DataOf(report, "HTTP_HEADERS") = Bytes(started, received[started].head)
    BY <1>1, <1>2, <2>2, <2>3 DEF ListsAt
  <2>5. Complete(report)
    BY <1>12, <2>1, <2>4 DEF Complete
  <2>6. /\ queue'[w] = << >> /\ run'[w].pc = "report" /\ run'[w].r = r
        /\ task'.result = result /\ started' = started
    BY <1>3, <1>4, <1>5, <1>11 DEF MovesOn
  <2>7. [task |-> started', r |-> run'[w].r, object |-> task'.result] = report
    BY <2>6 DEF report
  <2> QED BY <1>4, <2>5, <2>6, <2>7 DEF ResultAt, Complete
<1>14. Types'
  BY <1>1, <1>4, <1>5, <1>11 DEF Types, settings, MovesOn
<1>15. Continues(w)
  BY <1>1, <1>4, <1>5 DEF Continues, settings, MovesOn
<1>16. RefersAt(w)'
  BY <1>5 DEF RefersAt, MovesOn
<1>17. ListsAt(w)' /\ UniqueNames(task'.result)
  BY <1>1, <1>2, <1>4, <1>9, <1>11 DEF ListsAt
<1> QED BY <1>4, <1>11, <1>13, <1>14, <1>15, <1>16, <1>17, ContinueKeeps
LEMMA PieceIs ==
    ASSUME NEW n \in Nat, NEW len \in Nat
    PROVE  /\ KFCreateMemoryBuffer(len + 1, [k \in 1 .. len |-> n]) \in Buffer
           /\ KFCreateMemoryBuffer(len + 1, [k \in 1 .. len |-> n]).data = Bytes(n, len)
<1>1. KFCreateMemoryBuffer(len + 1, [k \in 1 .. len |-> n])
          = [max |-> len + 1, data |-> Bytes(n, len)]
  BY DEF KFCreateMemoryBuffer, Bytes
<1>2. Bytes(n, len) \in Seq(Nat)
  BY DEF Bytes
<1> QED BY <1>1, <1>2 DEF Buffer

LEMMA SaveData2ListKeeps ==
    ASSUME DownloaderInv, NEW w \in Worker, NEW list \in {"body", "head"}, NEW len \in Nat,
           SaveData2List(w, list, len)
    PROVE  DownloaderInv'
<1> DEFINE piece == KFCreateMemoryBuffer(len + 1, [k \in 1 .. len |-> started])
           had   == received[started]
           more  == Append(task[list], piece)
           got   == had[list] + len
<1>1. Types /\ run[w].pc = "perform" /\ RefersAt(w) /\ ListsAt(w) /\ ResultAt(w)
  BY DEF SaveData2List, DownloaderInv
<1>2. Has(w)
  BY <1>1 DEF Has
<1>3. /\ run[w].task = started /\ queue[w] = << >> /\ started \in 1 .. MaxTasks
      /\ task \in Task /\ started \in Nat
  <2>1. run[w].task = started /\ queue[w] = << >> /\ started \in 1 .. MaxTasks /\ task \in Task
    BY <1>1, <1>2, OthersIdle
  <2> QED BY <2>1, DownloaderAssumption
<1>4. /\ UNCHANGED <<core, settings, handle, started, queue, run, posted, reports, outcome>>
      /\ task' = [task EXCEPT ![list] = more]
      /\ received' = [received EXCEPT ![started][list] = got]
  BY <1>3 DEF SaveData2List
<1>5. had \in Amount /\ had[list] \in Nat /\ got \in Nat
  BY <1>1, <1>3 DEF Types, Amount
<1>6. piece \in Buffer /\ piece.data = Bytes(started, len)
  BY <1>3, PieceIs
<1>7. task[list] \in Seq(Buffer) /\ Contents(task[list]) = Bytes(started, had[list])
  BY <1>1, <1>2, <1>3 DEF Task, ListsAt
<1> HIDE DEF piece
<1>8. more \in Seq(Buffer) /\ Contents(more) = Bytes(started, got)
  <2>1. more \in Seq(Buffer)
    BY <1>6, <1>7, AppendProperties
  <2>2. Contents(more) = Bytes(started, had[list]) \o Bytes(started, len)
    BY <1>6, <1>7, ContentsGrows
  <2> QED BY <1>3, <1>5, <2>1, <2>2, BytesOf
<1> HIDE DEF more, got
<1>9. /\ task' \in Task /\ task' # NULL /\ task'.result = task.result
      /\ task'.body = IF list = "body" THEN more ELSE task.body
      /\ task'.head = IF list = "head" THEN more ELSE task.head
  <2>1. /\ task' \in Task /\ task'.result = task.result
        /\ task'.body = IF list = "body" THEN more ELSE task.body
        /\ task'.head = IF list = "head" THEN more ELSE task.head
    BY <1>3, <1>4, <1>8 DEF Task
  <2> QED BY <2>1, DownloaderAssumption
<1>10. /\ received' \in [1 .. MaxTasks -> Amount]
       /\ \A n \in 1 .. MaxTasks : n # started => received'[n] = received[n]
       /\ received'[started].body = IF list = "body" THEN got ELSE had.body
       /\ received'[started].head = IF list = "head" THEN got ELSE had.head
  <2> DEFINE now == [had EXCEPT ![list] = got]
  <2>1. received' = [received EXCEPT ![started] = now]
    BY <1>4
  <2>2. /\ now \in Amount
        /\ now.body = IF list = "body" THEN got ELSE had.body
        /\ now.head = IF list = "head" THEN got ELSE had.head
    <3> HIDE DEF had
    <3> QED BY <1>5 DEF Amount
  <2> HIDE DEF now
  <2>3. received \in [1 .. MaxTasks -> Amount]
    BY <1>1 DEF Types
  <2> QED BY <1>3, <2>1, <2>2, <2>3
<1>11. Types'
  BY <1>1, <1>4, <1>9, <1>10 DEF Types, settings
<1>12. Continues(w)
  BY <1>1, <1>4 DEF Continues, settings
<1>13. RefersAt(w)'
  BY <1>1, <1>4 DEF RefersAt, settings
<1>14. ListsAt(w)'
  BY <1>1, <1>2, <1>4, <1>8, <1>9, <1>10 DEF ListsAt
<1>15. ResultAt(w)'
  BY <1>1, <1>3, <1>4, <1>9 DEF ResultAt
<1>16. UniqueNames(task'.result)
  <2>1. task # NULL
    BY <1>3, DownloaderAssumption
  <2> QED BY <1>9, <2>1 DEF DownloaderInv
<1> QED BY <1>4, <1>9, <1>10, <1>11, <1>12, <1>13, <1>14, <1>15, <1>16, ContinueKeeps
-----------------------------------------------------------------------------
(* The steps that pass the task on. *)

LEMMA InvokeKeeps ==
    ASSUME DownloaderInv, NEW w \in Worker, Invoke(w)
    PROVE  DownloaderInv'
<1> DEFINE g == [Free EXCEPT !.pc = "check", !.task = Head(queue[w])]
<1>1. /\ Types /\ OneTask /\ AllComplete /\ Untouched /\ ListsAt(w) /\ task = NewTask
      /\ run[w].pc = "free" /\ queue[w] # << >>
  BY DEF Invoke, DownloaderInv, ResultAt
<1>2. /\ UNCHANGED <<core, settings, handle, task, started, posted, reports, received, outcome>>
      /\ run' = [run EXCEPT ![w] = g]
      /\ queue' = [queue EXCEPT ![w] = Tail(@)]
  BY DEF Invoke
<1>3. Has(w)
  BY <1>1 DEF Has
<1>4. /\ \A v \in Worker : v # w => ~ Has(v)
      /\ posted = << >> /\ started \in 1 .. MaxTasks /\ task \in Task
      /\ \A k \in 1 .. Len(reports) : reports[k].task # started
  BY <1>3, OthersIdle
<1>5. queue[w] = <<started>> /\ Head(queue[w]) = started /\ Tail(queue[w]) = << >>
  <2>1. queue[w] = <<started>>
    BY <1>1 DEF OneTask
  <2>2. Head(<<started>>) = started /\ Tail(<<started>>) = << >>
    OBVIOUS
  <2> QED BY <2>1, <2>2, Zenon
<1>6. g \in Run /\ g.pc = "check" /\ g.task = started
  <2>1. g = [pc |-> "check", task |-> started, todo |-> << >>, curl |-> "none", r |-> "KF_OK"]
    <3> DEFINE head == Head(queue[w])
    <3>1. head = started
      BY <1>5
    <3> HIDE DEF head
    <3>2. [Free EXCEPT !.pc = "check", !.task = head]
              = [pc |-> "check", task |-> head, todo |-> << >>, curl |-> "none", r |-> "KF_OK"]
      <4> DEFINE mid == [Free EXCEPT !.pc = "check"]
      <4>1. [Free EXCEPT !.pc = "check", !.task = head] = [mid EXCEPT !.task = head]
        OBVIOUS
      <4>2. mid = [pc |-> "check", task |-> 0, todo |-> << >>, curl |-> "none", r |-> "KF_OK"]
        BY DEF Free
      <4> HIDE DEF mid
      <4> QED BY <4>1, <4>2
    <3> QED BY <3>1, <3>2 DEF head
  <2>2. started \in 0 .. MaxTasks
    BY <1>1 DEF Types
  <2>3. "check" \in Place /\ "none" \in Origin /\ "KF_OK" \in Code /\ << >> \in Seq(Text)
    BY DEF Place, Origin, Code
  <2> HIDE DEF g
  <2> QED BY <2>1, <2>2, <2>3 DEF Run
<1> HIDE DEF g
<1>7. /\ run' \in [Worker -> Run] /\ run'[w] = g
      /\ \A v \in Worker : v # w => run'[v] = run[v]
  BY <1>1, <1>2, <1>6, RunBecomes
<1>8. /\ queue' \in [Worker -> Seq(1 .. MaxTasks)] /\ queue'[w] = << >>
      /\ \A v \in Worker : v # w => queue'[v] = queue[v]
  BY <1>1, <1>2, <1>5 DEF Types
<1>9. Types'
  BY <1>1, <1>2, <1>7, <1>8 DEF Types, settings
<1>10. OneTask'
  <2>1. started' # 0 /\ task' # NULL
    BY <1>2, <1>4, DownloaderAssumption
  <2>2. \A v \in Worker : v # w => ~ Has(v)' /\ queue'[v] = << >> /\ run'[v].pc = "free"
    BY <1>4, <1>7, <1>8 DEF Has
  <2>3. run'[w].pc = "check" /\ run'[w].task = started
    BY <1>6, <1>7
  <2> QED BY <1>1, <1>2, <1>4, <1>8, <2>1, <2>2, <2>3 DEF OneTask, Has
<1>11. AllComplete' /\ Untouched'
  BY <1>1, <1>2 DEF AllComplete, Untouched, Complete
<1>12. UniqueNames(task'.result)
  BY <1>1, <1>2, NewHasNoData
<1>13. ASSUME NEW v \in Worker PROVE RefersAt(v)' /\ ListsAt(v)' /\ ResultAt(v)'
  <2>1. CASE v = w
    <3>1. RefersAt(w)' /\ ResultAt(w)'
      BY <1>1, <1>2, <1>6, <1>7, <1>8 DEF RefersAt, ResultAt
    <3>2. ListsAt(w)'
      BY <1>1, <1>2, <1>3 DEF ListsAt
    <3> QED BY <2>1, <3>1, <3>2
  <2>2. CASE v # w
    <3>1. run'[v].pc = "free" /\ queue'[v] = << >> /\ ~ Has(v)'
      BY <1>4, <1>7, <1>8, <2>2 DEF Has
    <3> QED BY <3>1 DEF RefersAt, ListsAt, ResultAt
  <2> QED BY <2>1, <2>2
<1> QED BY <1>9, <1>10, <1>11, <1>12, <1>13 DEF DownloaderInv

LEMMA ReportKeeps ==
    ASSUME DownloaderInv, NEW w \in Worker, Report(w)
    PROVE  DownloaderInv'
<1> DEFINE report == [task |-> started, r |-> run[w].r, object |-> task.result]
<1>1. /\ Types /\ OneTask /\ AllComplete /\ Untouched /\ run[w].pc = "report" /\ Complete(report)
  BY DEF Report, DownloaderInv, ResultAt
<1>2. Has(w)
  BY <1>1 DEF Has
<1>3. /\ \A v \in Worker : v # w => ~ Has(v)
      /\ run[w].task = started /\ queue[w] = << >>
      /\ posted = << >> /\ started \in 1 .. MaxTasks /\ task \in Task
      /\ \A k \in 1 .. Len(reports) : reports[k].task # started
  BY <1>1, <1>2, OthersIdle
<1>4. /\ UNCHANGED <<core, settings, handle, task, started, queue, reports, received, outcome>>
      /\ posted' = IF core THEN Append(posted, report) ELSE posted
      /\ run' = [run EXCEPT ![w] = Free]
  BY <1>3 DEF Report
<1>5. report \in Rep /\ report.task = started
  <2>1. run[w].r \in Code /\ task.result \in Seq(ResultItem)
    BY <1>1, <1>3 DEF Types, Run, Task
  <2> QED BY <1>3, <2>1 DEF Rep
<1> HIDE DEF report
<1>6. posted' = << >> \/ (posted' = <<report>> /\ Len(posted') = 1 /\ posted'[1] = report)
  BY <1>3, <1>4
<1>7. posted' \in Seq(Rep)
  <2>1. << >> \in Seq(Rep) /\ <<report>> \in Seq(Rep)
    BY <1>5
  <2> QED BY <1>6, <2>1
<1>8. /\ run' \in [Worker -> Run] /\ run'[w].pc = "free"
      /\ \A v \in Worker : v # w => run'[v] = run[v]
  <2>1. Free \in Run /\ Free.pc = "free"
    <3>1. "free" \in Place /\ "none" \in Origin /\ "KF_OK" \in Code /\ << >> \in Seq(Text)
      BY DEF Place, Origin, Code
    <3>2. 0 \in 0 .. MaxTasks
      BY DownloaderAssumption
    <3> QED BY <3>1, <3>2 DEF Free, Run
  <2> QED BY <1>1, <1>4, <2>1, RunBecomes
<1>9. Types'
  BY <1>1, <1>4, <1>7, <1>8 DEF Types, settings
<1>10. \A v \in Worker : run'[v].pc = "free" /\ queue'[v] = << >> /\ ~ Has(v)'
  BY <1>3, <1>4, <1>8 DEF Has
<1>11. OneTask'
  <2>1. started' # 0 /\ task' # NULL
    BY <1>3, <1>4, DownloaderAssumption
  <2> QED BY <1>1, <1>3, <1>4, <1>5, <1>6, <1>10, <2>1 DEF OneTask
<1>12. Untouched' /\ UniqueNames(task'.result)
  <2>1. task # NULL
    BY <1>3, DownloaderAssumption
  <2> QED BY <1>1, <1>4, <2>1 DEF Untouched, DownloaderInv
<1>13. AllComplete'
  <2>1. \A k \in 1 .. Len(reports') : Complete(reports[k])'
    BY <1>1, <1>4 DEF AllComplete, Complete
  <2>2. ASSUME NEW k \in 1 .. Len(posted') PROVE Complete(posted[k])'
    <3>1. posted' = <<report>>
      BY <1>6
    <3>2. posted'[k] = report
      BY <3>1
    <3> QED BY <1>1, <1>4, <3>2 DEF Complete
  <2> QED BY <2>1, <2>2 DEF AllComplete
<1>14. ASSUME NEW v \in Worker PROVE RefersAt(v)' /\ ListsAt(v)' /\ ResultAt(v)'
  BY <1>10 DEF RefersAt, ListsAt, ResultAt
<1> QED BY <1>9, <1>11, <1>12, <1>13, <1>14 DEF DownloaderInv

LEMMA DeliverKeeps ==
    ASSUME DownloaderInv, Deliver
    PROVE  DownloaderInv'
<1>1. Types /\ OneTask /\ AllComplete /\ Untouched /\ posted # << >>
  BY DEF Deliver, DownloaderInv
<1>2. /\ UNCHANGED <<core, settings, handle, task, started, queue, run, received, outcome>>
      /\ reports' = Append(reports, Head(posted)) /\ posted' = Tail(posted)
  BY DEF Deliver
<1>3. /\ Len(posted) = 1 /\ posted[1].task = started /\ started # 0 /\ task # NULL
      /\ \A k \in 1 .. Len(reports) : reports[k].task # started
      /\ \A w \in Worker : ~ Has(w)
  BY <1>1 DEF OneTask
<1>4. posted \in Seq(Rep) /\ reports \in Seq(Rep) /\ Len(reports) \in Nat
  BY <1>1 DEF Types
<1>5. posted' = << >> /\ Head(posted) = posted[1] /\ posted[1] \in Rep
  <2>1. Len(posted') = 0 /\ posted' \in Seq(Rep)
    BY <1>1, <1>2, <1>3, <1>4, HeadTailProperties
  <2>2. posted' = << >>
    BY <2>1, EmptySeq
  <2>3. Head(posted) = posted[1] /\ posted[1] \in Rep
    <3>1. 1 \in 1 .. Len(posted)
      BY <1>3
    <3> QED BY <1>4, <3>1, LenProperties
  <2> QED BY <2>2, <2>3
<1>6. /\ reports' \in Seq(Rep) /\ Len(reports') = Len(reports) + 1
      /\ \A k \in 1 .. Len(reports) : reports'[k] = reports[k]
      /\ reports'[Len(reports) + 1] = posted[1]
  BY <1>2, <1>4, <1>5, AppendProperties
<1>7. \A k \in 1 .. Len(reports') : k \in 1 .. Len(reports) \/ k = Len(reports) + 1
  BY <1>4, <1>6
<1>8. Types'
  <2>1. << >> \in Seq(Rep)
    OBVIOUS
  <2> QED BY <1>1, <1>2, <1>5, <1>6, <2>1 DEF Types, settings
<1>9. \A v \in Worker : run'[v].pc = "free" /\ queue'[v] = << >> /\ ~ Has(v)'
  BY <1>2, <1>3 DEF Has
<1>10. OneTask'
  <2>1. \A k \in 1 .. Len(reports') : reports'[k].task <= started'
    <3>1. started <= started
      BY <1>1, DownloaderAssumption DEF Types
    <3> QED BY <1>1, <1>2, <1>3, <1>6, <1>7, <3>1 DEF OneTask
  <2>2. \A j, k \in 1 .. Len(reports') : reports'[j].task = reports'[k].task => j = k
    BY <1>1, <1>3, <1>6, <1>7 DEF OneTask
  <2> QED BY <1>5, <1>9, <2>1, <2>2 DEF OneTask
<1>11. AllComplete'
  <2>1. \A k \in 1 .. Len(reports') : Complete(reports[k])'
    <3> SUFFICES ASSUME NEW k \in 1 .. Len(reports') PROVE Complete(reports[k])'
      OBVIOUS
    <3>1. CASE k \in 1 .. Len(reports)
      <4>1. Complete(reports[k]) /\ reports'[k] = reports[k]
        BY <1>1, <1>6, <3>1 DEF AllComplete
      <4> QED BY <1>2, <4>1 DEF Complete
    <3>2. CASE k = Len(reports) + 1
      <4>1. Complete(posted[1]) /\ reports'[k] = posted[1]
        BY <1>1, <1>3, <1>6, <3>2 DEF AllComplete
      <4> QED BY <1>2, <4>1 DEF Complete
    <3> QED BY <1>7, <3>1, <3>2
  <2>2. \A k \in 1 .. Len(posted') : FALSE
    BY <1>5
  <2> QED BY <2>1, <2>2 DEF AllComplete
<1>12. Untouched' /\ (task' # NULL => UniqueNames(task'.result))
  BY <1>1, <1>2 DEF Untouched, DownloaderInv
<1>13. ASSUME NEW v \in Worker PROVE RefersAt(v)' /\ ListsAt(v)' /\ ResultAt(v)'
  BY <1>9 DEF RefersAt, ListsAt, ResultAt
<1> QED BY <1>8, <1>10, <1>11, <1>12, <1>13 DEF DownloaderInv
-----------------------------------------------------------------------------
(* The user's calls. *)

\* A call that leaves the task, the handle and the parts alone.
LEMMA SettingsKeep ==
    ASSUME DownloaderInv, core' \in BOOLEAN, reuse' \in BOOLEAN, posted' = posted \/ posted' = << >>,
           UNCHANGED <<open, dropped, own, parts, handle, task, started, queue, run, reports,
                       received, outcome>>
    PROVE  DownloaderInv'
<1>1. Types /\ OneTask /\ AllComplete /\ Untouched
  BY DEF DownloaderInv
<1>2. Types'
  <2>1. << >> \in Seq(Rep)
    OBVIOUS
  <2> QED BY <1>1, <2>1 DEF Types
<1>3. \A w \in Worker : Has(w)' <=> Has(w)
  BY DEF Has
<1>4. OneTask'
  BY <1>1, <1>3 DEF OneTask
<1>5. AllComplete'
  <2>1. \A k \in 1 .. Len(reports') : Complete(reports[k])'
    BY <1>1 DEF AllComplete, Complete
  <2>2. CASE posted' = posted
    BY <1>1, <2>1, <2>2 DEF AllComplete, Complete
  <2>3. CASE posted' = << >>
    <3>1. \A k \in 1 .. Len(posted') : FALSE
      BY <2>3
    <3> QED BY <2>1, <3>1 DEF AllComplete
  <2> QED BY <2>2, <2>3
<1>6. Untouched' /\ (task' # NULL => UniqueNames(task'.result))
  BY <1>1 DEF Untouched, DownloaderInv
<1>7. ASSUME NEW v \in Worker PROVE RefersAt(v)' /\ ListsAt(v)' /\ ResultAt(v)'
  <2>1. RefersAt(v) /\ ListsAt(v) /\ ResultAt(v)
    BY DEF DownloaderInv
  <2>2. RefersAt(v)'
    BY <2>1 DEF RefersAt
  <2>3. ListsAt(v)'
    BY <1>3, <2>1 DEF ListsAt
  <2>4. ResultAt(v)'
    BY <2>1 DEF ResultAt, Complete
  <2> QED BY <2>2, <2>3, <2>4
<1> QED BY <1>2, <1>4, <1>5, <1>6, <1>7 DEF DownloaderInv

\* A call that is made while no task is under way.
LEMMA QuietKeeps ==
    ASSUME DownloaderInv, \A w \in Worker : ~ Has(w), posted = << >>,
           own' \in [Part -> Nat], parts' \in Nat, task' \in Task \cup {NULL},
           task' # NULL => UniqueNames(task'.result),
           UNCHANGED <<core, open, dropped, reuse, handle, started, queue, run, posted, reports,
                       received, outcome>>
    PROVE  DownloaderInv'
<1>1. Types /\ OneTask /\ AllComplete /\ Untouched
  BY DEF DownloaderInv
<1>2. Types'
  BY <1>1 DEF Types
<1>3. \A w \in Worker : ~ Has(w)' /\ queue'[w] = << >> /\ run'[w].pc = "free"
  BY DEF Has
<1>4. OneTask'
  BY <1>1, <1>3 DEF OneTask
<1>5. AllComplete'
  BY <1>1 DEF AllComplete, Complete
<1>6. Untouched'
  BY <1>1 DEF Untouched
<1>7. ASSUME NEW v \in Worker PROVE RefersAt(v)' /\ ListsAt(v)' /\ ResultAt(v)'
  BY <1>3 DEF RefersAt, ListsAt, ResultAt
<1> QED BY <1>2, <1>4, <1>5, <1>6, <1>7 DEF DownloaderInv

LEMMA StartTaskKeeps ==
    ASSUME DownloaderInv, NEW w \in Worker, StartTask(w)
    PROVE  DownloaderInv'
<1> DEFINE n == started + 1
<1>1. Types /\ OneTask /\ AllComplete /\ Untouched
  BY DEF DownloaderInv
<1>2. /\ task = NULL /\ task' = NewTask /\ started < MaxTasks
      /\ UNCHANGED <<core, settings, handle, run, posted, reports, received, outcome>>
  BY DEF StartTask, Put
<1>3. posted = << >> /\ \A v \in Worker : ~ Has(v) /\ queue[v] = << >> /\ run[v].pc = "free"
  <2>1. posted = << >> /\ \A v \in Worker : ~ Has(v)
    BY <1>1, <1>2 DEF OneTask
  <2> QED BY <2>1 DEF Has
<1>4. NewTask \in Task /\ NewTask # NULL /\ UniqueNames(NewTask.result)
  BY NewHasNoData, DownloaderAssumption
<1>5. CASE UNCHANGED <<started, queue>>
  BY <1>1, <1>2, <1>3, <1>4, <1>5, QuietKeeps DEF settings, Types
<1>6. CASE started' = n /\ queue' = [queue EXCEPT ![w] = Append(@, n)]
  <2>1. /\ started \in Nat /\ started \in 0 .. MaxTasks /\ n \in 1 .. MaxTasks /\ n \in 0 .. MaxTasks
        /\ n # 0 /\ started < n
    BY <1>1, <1>2, DownloaderAssumption DEF Types
  <2> HIDE DEF n
  <2>2. /\ queue' \in [Worker -> Seq(1 .. MaxTasks)] /\ queue'[w] = <<n>>
        /\ \A v \in Worker : v # w => queue'[v] = << >>
    <3>1. queue' = [queue EXCEPT ![w] = <<n>>]
      <4>1. queue[w] = << >> /\ Append(<< >>, n) = <<n>>
        BY <1>3
      <4>2. Append(queue[w], n) = <<n>>
        BY <4>1
      <4> QED BY <1>6, <4>2
    <3>2. <<n>> \in Seq(1 .. MaxTasks) /\ queue \in [Worker -> Seq(1 .. MaxTasks)]
      BY <1>1, <2>1 DEF Types
    <3> QED BY <1>3, <3>1, <3>2
  <2>3. Types'
    BY <1>1, <1>2, <1>4, <1>6, <2>1, <2>2 DEF Types, settings
  <2>4. \A v \in Worker : run'[v].pc = "free" /\ (v # w => ~ Has(v)' /\ queue'[v] = << >>)
    BY <1>2, <1>3, <2>2 DEF Has
  <2>5. OneTask'
    <3>1. \A k \in 1 .. Len(reports) : reports[k].task <= n /\ reports[k].task # n
      <4> TAKE k \in 1 .. Len(reports)
      <4>1. reports[k].task \in 1 .. MaxTasks /\ reports[k].task <= started
        BY <1>1, RepTask DEF OneTask
      <4> QED BY <2>1, <4>1, DownloaderAssumption
    <3> QED BY <1>1, <1>2, <1>3, <1>4, <1>6, <2>1, <2>2, <2>4, <3>1 DEF OneTask
  <2>6. AllComplete'
    BY <1>1, <1>2 DEF AllComplete, Complete
  <2>7. Untouched'
    <3>1. \A m \in 1 .. MaxTasks : m > n => m > started
      BY <2>1, DownloaderAssumption
    <3> QED BY <1>1, <1>2, <1>6, <3>1 DEF Untouched
  <2>8. ASSUME NEW v \in Worker PROVE RefersAt(v)' /\ ListsAt(v)' /\ ResultAt(v)'
    <3>1. RefersAt(v)' /\ ResultAt(v)'
      BY <1>2, <2>4 DEF RefersAt, ResultAt
    <3>2. ListsAt(v)'
      <4>1. received'[started'] = [body |-> 0, head |-> 0]
        BY <1>1, <1>2, <1>6, <2>1 DEF Untouched
      <4>2. Bytes(n, 0) = << >> /\ n \in Nat
        BY <2>1, DownloaderAssumption, BytesOf
      <4>3. Contents(task'.body) = << >> /\ Contents(task'.head) = << >>
        BY <1>2, ContentsOfNone DEF NewTask
      <4> QED BY <1>6, <4>1, <4>2, <4>3 DEF ListsAt
    <3> QED BY <3>1, <3>2
  <2> QED BY <1>2, <1>4, <2>3, <2>5, <2>6, <2>7, <2>8 DEF DownloaderInv
<1> QED BY <1>5, <1>6 DEF StartTask, Put

\* What waited on the worker is under way no more; the rest stays as it was.
LEMMA DestroyWorkerKeeps ==
    ASSUME DownloaderInv, NEW w \in Worker, DestroyWorker(w)
    PROVE  DownloaderInv'
<1>1. Types /\ OneTask /\ AllComplete /\ Untouched
  BY DEF DownloaderInv
<1>2. /\ open' = open \ {w} /\ queue' = [queue EXCEPT ![w] = << >>]
      /\ dropped' = dropped \cup ToSet(queue[w])
      /\ UNCHANGED <<core, info, reuse, own, parts, handle, task, started, run, posted,
                     reports, received, outcome>>
  BY DEF DestroyWorker
<1>3. queue \in [Worker -> Seq(1 .. MaxTasks)]
  BY <1>1 DEF Types
<1>4. /\ queue' \in [Worker -> Seq(1 .. MaxTasks)]
      /\ \A v \in Worker : queue'[v] = << >> \/ queue'[v] = queue[v]
  <2>1. << >> \in Seq(1 .. MaxTasks)
    OBVIOUS
  <2> QED BY <1>2, <1>3, <2>1
<1>5. ToSet(queue[w]) \subseteq 1 .. MaxTasks
  <2> DEFINE list == queue[w]
  <2>1. list \in Seq(1 .. MaxTasks)
    BY <1>3
  <2> HIDE DEF list
  <2>2. \A k \in DOMAIN list : list[k] \in 1 .. MaxTasks
    <3>1. DOMAIN list = 1 .. Len(list)
      BY <2>1
    <3> QED BY <2>1, <3>1, LenProperties
  <2>3. ToSet(list) \subseteq 1 .. MaxTasks
    BY <2>2 DEF ToSet
  <2> QED BY <2>3 DEF list
<1>6. Types'
  BY <1>1, <1>2, <1>4, <1>5 DEF Types
<1>7. \A v \in Worker : Has(v)' => Has(v)
  BY <1>2, <1>4 DEF Has
<1>8. OneTask'
  BY <1>1, <1>2, <1>4, <1>7 DEF OneTask
<1>9. AllComplete' /\ Untouched' /\ (task' # NULL => UniqueNames(task'.result))
  BY <1>1, <1>2 DEF AllComplete, Complete, Untouched, DownloaderInv
<1>10. ASSUME NEW v \in Worker PROVE RefersAt(v)' /\ ListsAt(v)' /\ ResultAt(v)'
  <2>1. RefersAt(v) /\ ListsAt(v) /\ ResultAt(v)
    BY DEF DownloaderInv
  <2>2. RefersAt(v)'
    BY <1>2, <2>1 DEF RefersAt
  <2>3. ListsAt(v)'
    BY <1>2, <1>7, <2>1 DEF ListsAt
  <2>4. ResultAt(v)'
    BY <1>2, <1>4, <2>1 DEF ResultAt, Complete
  <2> QED BY <2>2, <2>3, <2>4
<1> QED BY <1>6, <1>8, <1>9, <1>10 DEF DownloaderInv

LEMMA UserKeeps ==
    ASSUME DownloaderInv, User
    PROVE  DownloaderInv'
<1>1. Types /\ (task # NULL => UniqueNames(task.result))
  BY DEF DownloaderInv
<1>2. CASE \E s \in Setting : SetText(s[1], s[2])
  BY <1>1, <1>2, SettingsKeep DEF SetText, Types, progress
<1>3. CASE DeleteCookie
  BY <1>1, <1>3, SettingsKeep DEF DeleteCookie, Types, progress
<1>4. CASE SetOptions
  BY <1>1, <1>4, SettingsKeep DEF SetOptions, Types, progress
<1>5. CASE CoreShutdown
  BY <1>1, <1>5, SettingsKeep DEF CoreShutdown, Types, settings
<1>6. ASSUME Quiet PROVE (\A w \in Worker : ~ Has(w)) /\ posted = << >>
  BY <1>6, QuietIs
<1>7. own \in [Part -> Nat] /\ parts \in Nat /\ parts + 1 \in Nat /\ task \in Task \cup {NULL}
  BY <1>1 DEF Types
<1>8. CASE AddPostFile
  <2>1. own' \in [Part -> Nat]
    BY <1>7, <1>8 DEF AddPostFile
  <2> QED BY <1>1, <1>6, <1>7, <1>8, <2>1, QuietKeeps DEF AddPostFile, progress
<1>9. ASSUME NEW p \in Part, SetPart(p) PROVE DownloaderInv'
  <2>1. own' \in [Part -> Nat]
    BY <1>7, <1>9 DEF SetPart
  <2> QED BY <1>1, <1>6, <1>7, <1>9, <2>1, QuietKeeps DEF SetPart, progress
<1>10. ASSUME NEW p \in Part, DropPart(p) PROVE DownloaderInv'
  <2>1. own' \in [Part -> Nat]
    BY <1>7, <1>10 DEF DropPart
  <2> QED BY <1>1, <1>6, <1>7, <1>10, <2>1, QuietKeeps DEF DropPart, progress
<1>11. CASE CloseTask
  <2>1. own' \in [Part -> Nat]
    BY <1>7, <1>11 DEF CloseTask
  <2> QED BY <1>1, <1>6, <1>7, <1>11, <2>1, QuietKeeps DEF CloseTask, progress
<1>12. CASE \E w \in Worker : StartTask(w) \/ DestroyWorker(w)
  BY <1>12, StartTaskKeeps, DestroyWorkerKeeps
<1> QED BY <1>2, <1>3, <1>4, <1>5, <1>8, <1>9, <1>10, <1>11, <1>12 DEF User

-----------------------------------------------------------------------------
LEMMA DownloaderInvInitially == Init => DownloaderInv
<1> SUFFICES ASSUME Init PROVE DownloaderInv
  OBVIOUS
<1>1. Types
  <2>1. Free \in Run
    <3>1. "free" \in Place /\ "none" \in Origin /\ "KF_OK" \in Code /\ << >> \in Seq(Text)
      BY DEF Place, Origin, Code
    <3>2. 0 \in 0 .. MaxTasks
      BY DownloaderAssumption
    <3> QED BY <3>1, <3>2 DEF Free, Run
  <2>2. started \in 0 .. MaxTasks
    BY DownloaderAssumption DEF Init
  <2>3. << >> \in Seq(Rep) /\ << >> \in Seq(1 .. MaxTasks)
    OBVIOUS
  <2> QED BY <2>1, <2>2, <2>3 DEF Init, Types, NoRefs, Amount
<1>2. \A w \in Worker : run[w].pc = "free" /\ queue[w] = << >> /\ ~ Has(w)
  BY DEF Init, Has, Free
<1>3. posted = << >> /\ reports = << >> /\ task = NULL /\ \A k \in 1 .. Len(<< >>) : FALSE
  BY DEF Init
<1>4. OneTask /\ AllComplete
  BY <1>2, <1>3 DEF OneTask, AllComplete
<1>5. Untouched
  BY DEF Init, Untouched
<1>6. ASSUME NEW w \in Worker PROVE RefersAt(w) /\ ListsAt(w) /\ ResultAt(w)
  BY <1>2 DEF RefersAt, ListsAt, ResultAt
<1> QED BY <1>1, <1>3, <1>4, <1>5, <1>6 DEF DownloaderInv

LEMMA DownloaderInvPreserved == DownloaderInv /\ [Next]_vars => DownloaderInv'
<1> SUFFICES ASSUME DownloaderInv, [Next]_vars PROVE DownloaderInv'
  OBVIOUS
<1>1. CASE User
  BY <1>1, UserKeeps
<1>2. ASSUME NEW w \in Worker, Transfer(w) PROVE DownloaderInv'
  <2>1. \A len \in 0 .. 1 : len \in Nat
    OBVIOUS
  <2> QED BY <1>2, <2>1, SaveData2ListKeeps DEF Transfer
<1>3. ASSUME NEW w \in Worker, OnInvoke(w) PROVE DownloaderInv'
  BY <1>3, InvokeKeeps, CheckUrlKeeps, GetCURLKeepsInv, GetCURLFailsKeeps, HasTextKeeps,
     GetTextKeeps, SetupKeeps, PerformDoneKeeps, ReadInfoKeeps, MergeKeeps, ReportKeeps
     DEF OnInvoke
<1>4. CASE Deliver
  BY <1>4, DeliverKeeps
<1>5. CASE UNCHANGED vars
  <2>1. core' \in BOOLEAN /\ reuse' \in BOOLEAN
    BY <1>5 DEF DownloaderInv, Types, vars
  <2> QED BY <1>5, <2>1, SettingsKeep DEF vars
<1> QED BY <1>1, <1>2, <1>3, <1>4, <1>5 DEF Next

\* At every moment one task at most is under way, in one place, and the handle, the lists
\* and the result are those of that task (DownloaderInv).
THEOREM OneTaskAtATime == Spec => []DownloaderInv
BY DownloaderInvInitially, DownloaderInvPreserved, PTL DEF Spec

\* A transfer on a handle that was not kept sends the data, headers and files of its task
\* only: from GetCURL on, nobody replaces them or the handle.
THEOREM RequestIsOwnHolds == Spec => []RequestIsOwn
<1>1. DownloaderInv => RequestIsOwn
  BY DEF DownloaderInv, RefersAt, RequestIsOwn
<1> QED BY <1>1, OneTaskAtATime, PTL

\* A report holds the bytes that came for its task, all of them and no others, and each
\* task is reported once, on any number of workers.
THEOREM ReportIsOwnHolds == Spec => []ReportIsOwn
<1>1. ASSUME DownloaderInv PROVE ReportIsOwn
  <2>1. DOMAIN reports = 1 .. Len(reports)
    BY <1>1 DEF DownloaderInv, Types
  <2>2. ASSUME NEW k \in 1 .. Len(reports)
        PROVE  /\ DataOf(reports[k], "HTTP_DATA") = Bytes(reports[k].task, received[reports[k].task].body)
               /\ DataOf(reports[k], "HTTP_HEADERS") = Bytes(reports[k].task, received[reports[k].task].head)
               /\ \A j \in 1 .. Len(reports) : reports[j].task = reports[k].task => j = k
    BY <1>1 DEF DownloaderInv, AllComplete, Complete, OneTask
  <2> QED BY <2>1, <2>2, Zenon DEF ReportIsOwn
<1> QED BY <1>1, OneTaskAtATime, PTL

\* Although putting the bytes together overwrites the result of a transfer that failed,
\* a report that looks like a success is of a transfer that succeeded.
THEOREM FailureIsToldHolds == Spec => []FailureIsTold
<1>1. ASSUME DownloaderInv PROVE FailureIsTold
  <2>1. DOMAIN reports = 1 .. Len(reports)
    BY <1>1 DEF DownloaderInv, Types
  <2>2. ASSUME NEW k \in 1 .. Len(reports), reports[k].r = "KF_OK",
               GetItem(reports[k].object, "CURLE_CODE", "UINT32").data \in {EmptyString, "OK"}
        PROVE  outcome[reports[k].task] = "OK"
    <3>1. CodeIs(reports[k].object, outcome[reports[k].task])
      BY <1>1, <2>2 DEF DownloaderInv, AllComplete, Complete
    <3> QED BY <2>2, <3>1, DownloaderAssumption DEF CodeIs
  <2> QED BY <2>1, <2>2, Zenon DEF FailureIsTold
<1> QED BY <1>1, OneTaskAtATime, PTL

-----------------------------------------------------------------------------
(* No task is lost.                                                        *)

\* Each task has been reported or dropped, but for the last one, which may be under way.
NoneLost ==
    core => \A n \in 1 .. started :
                \/ n \in dropped
                \/ \E k \in 1 .. Len(reports) : reports[k].task = n
                \/ n = started /\ ((\E w \in Worker : Has(w)) \/ posted # << >>)

LEMMA NoneLostMeans == ASSUME DownloaderInv, NoneLost PROVE NoTaskLost
<1>1. Types /\ OneTask
  BY DEF DownloaderInv
<1>2. DOMAIN reports = 1 .. Len(reports) /\ DOMAIN posted = 1 .. Len(posted)
  BY <1>1 DEF Types
<1>3. ASSUME NEW w \in Worker, Has(w) PROVE UnderWay(started)
  <2>1. CASE queue[w] # << >>
    <3>1. queue[w] = <<started>>
      BY <1>1, <2>1 DEF OneTask
    <3>2. started \in ToSet(queue[w])
      BY <3>1 DEF ToSet
    <3> QED BY <3>2 DEF UnderWay
  <2>2. CASE run[w].pc # "free"
    BY <1>1, <2>2 DEF OneTask, UnderWay
  <2> QED BY <1>3, <2>1, <2>2 DEF Has
<1>4. ASSUME posted # << >> PROVE UnderWay(started)
  <2>1. Len(posted) = 1 /\ posted[1].task = started
    BY <1>1, <1>4 DEF OneTask
  <2>2. 1 \in DOMAIN posted
    BY <1>2, <2>1
  <2> QED BY <2>1, <2>2 DEF UnderWay
<1> QED BY <1>2, <1>3, <1>4 DEF NoneLost, NoTaskLost, Reported

\* A step after which the last task is still under way.
LEMMA StillUnderWay ==
    ASSUME NoneLost, UNCHANGED <<core, dropped, started, reports>>,
           core => (\E w \in Worker : Has(w)') \/ posted' # << >>
    PROVE  NoneLost'
BY DEF NoneLost

LEMMA OnInvokeLosesNone ==
    ASSUME Types, NoneLost, NEW w \in Worker, OnInvoke(w)
    PROVE  NoneLost'
<1>1. run \in [Worker -> Run]
  BY DEF Types
<1>2. ASSUME run'[w].pc # "free", UNCHANGED <<core, dropped, started, reports>> PROVE NoneLost'
  BY <1>2, StillUnderWay DEF Has
<1>3. CASE Invoke(w)
  BY <1>1, <1>2, <1>3 DEF Invoke, Free, settings
<1>4. CASE CheckUrl(w)
  BY <1>1, <1>2, <1>4 DEF CheckUrl, Fail, Go, Run, settings
<1>5. CASE GetCURL(w) \/ GetCURLFails(w)
  BY <1>1, <1>2, <1>5 DEF GetCURL, GetCURLFails, Fail, Run, settings
<1>6. CASE HasText(w)
  BY <1>1, <1>2, <1>6 DEF HasText, Go, Run, settings
<1>7. CASE GetText(w)
  BY <1>1, <1>2, <1>7 DEF GetText, Fail, Run, settings
<1>8. CASE Setup(w)
  BY <1>1, <1>2, <1>8 DEF Setup, Go, Run, settings
<1>9. ASSUME NEW curle \in Curle, PerformDone(w, curle) PROVE NoneLost'
  BY <1>1, <1>2, <1>9 DEF PerformDone, Fail, Run, settings
<1>10. CASE ReadInfo(w)
  BY <1>1, <1>2, <1>10 DEF ReadInfo, Go, Run, settings
<1>11. CASE Merge(w)
  BY <1>1, <1>2, <1>11 DEF Merge, Fail, Run, settings
<1>12. CASE Report(w)
  <2>1. /\ posted' = IF core
                     THEN Append(posted, [task |-> run[w].task, r |-> run[w].r, object |-> task.result])
                     ELSE posted
        /\ UNCHANGED <<core, dropped, started, reports>>
    BY <1>12 DEF Report, settings
  <2>2. ASSUME core PROVE posted' # << >>
    <3> DEFINE x == [task |-> run[w].task, r |-> run[w].r, object |-> task.result]
    <3>1. posted' = Append(posted, x) /\ posted \in Seq(Rep)
      BY <2>1, <2>2 DEF Types
    <3> HIDE DEF x
    <3>2. Len(posted') = Len(posted) + 1 /\ Len(posted) \in Nat
      BY <3>1
    <3> QED BY <3>2
  <2> QED BY <2>1, <2>2, StillUnderWay
<1> QED BY <1>3, <1>4, <1>5, <1>6, <1>7, <1>8, <1>9, <1>10, <1>11, <1>12 DEF OnInvoke

LEMMA DeliverLosesNone ==
    ASSUME DownloaderInv, NoneLost, Deliver
    PROVE  NoneLost'
<1>1. Types /\ OneTask
  BY DEF DownloaderInv
<1>2. posted # << >> /\ reports' = Append(reports, Head(posted)) /\ UNCHANGED <<core, dropped, started>>
  BY DEF Deliver, settings
<1>3. posted[1].task = started /\ Len(posted) = 1
  BY <1>1, <1>2 DEF OneTask
<1>4. posted \in Seq(Rep) /\ reports \in Seq(Rep) /\ Len(reports) \in Nat
  BY <1>1 DEF Types
<1>5. Head(posted) = posted[1] /\ posted[1] \in Rep
  <2>1. 1 \in 1 .. Len(posted)
    BY <1>3
  <2> QED BY <1>4, <2>1, LenProperties
<1>6. /\ Len(reports') = Len(reports) + 1 /\ reports'[Len(reports) + 1] = posted[1]
      /\ \A k \in 1 .. Len(reports) : reports'[k] = reports[k]
  BY <1>2, <1>4, <1>5, AppendProperties
<1>7. Len(reports) + 1 \in 1 .. Len(reports') /\ \A k \in 1 .. Len(reports) : k \in 1 .. Len(reports')
  BY <1>4, <1>6
<1>8. \A n \in 1 .. started : (\E k \in 1 .. Len(reports) : reports[k].task = n) =>
                                  \E k \in 1 .. Len(reports') : reports'[k].task = n
  BY <1>6, <1>7
<1>9. \E k \in 1 .. Len(reports') : reports'[k].task = started
  BY <1>3, <1>6, <1>7
<1> QED BY <1>2, <1>8, <1>9 DEF NoneLost

LEMMA UserLosesNone ==
    ASSUME DownloaderInv, NoneLost, User
    PROVE  NoneLost'
<1>1. Types /\ OneTask
  BY DEF DownloaderInv
<1>2. CASE \E w \in Worker : StartTask(w)
  <2>1. PICK w \in Worker : StartTask(w)
    BY <1>2
  <2>2. task = NULL /\ UNCHANGED <<core, dropped, run, posted, reports>>
    BY <2>1 DEF StartTask, Put, settings
  <2>3. (\A v \in Worker : ~ Has(v)) /\ posted = << >>
    BY <1>1, <2>2 DEF OneTask
  <2>4. CASE UNCHANGED <<started, queue>>
    BY <2>2, <2>4 DEF NoneLost, Has
  <2>5. CASE started' = started + 1 /\ queue' = [queue EXCEPT ![w] = Append(@, started + 1)]
    <3>1. queue'[w] # << >>
      <4>1. queue \in [Worker -> Seq(1 .. MaxTasks)] /\ started + 1 \in Nat
        BY <1>1, DownloaderAssumption DEF Types
      <4>2. Append(queue[w], started + 1) # << >>
        BY <4>1
      <4> QED BY <2>5, <4>1, <4>2
    <3>2. Has(w)'
      BY <3>1 DEF Has
    <3>3. \A n \in 1 .. started' : n \in 1 .. started \/ n = started'
      BY <1>1, <2>5, DownloaderAssumption DEF Types
    <3> QED BY <2>2, <2>3, <3>2, <3>3 DEF NoneLost
  <2> QED BY <2>1, <2>4, <2>5 DEF StartTask, Put
<1>3. CASE CoreShutdown
  BY <1>3 DEF CoreShutdown, NoneLost
<1>4. ASSUME UNCHANGED <<core, dropped, started, queue, run, posted, reports>> PROVE NoneLost'
  BY <1>4 DEF NoneLost, Has
<1>5. CASE \E w \in Worker : DestroyWorker(w)
  <2>1. PICK w \in Worker : DestroyWorker(w)
    BY <1>5
  <2>2. /\ queue' = [queue EXCEPT ![w] = << >>] /\ dropped' = dropped \cup ToSet(queue[w])
        /\ UNCHANGED <<core, started, run, posted, reports>>
    BY <2>1 DEF DestroyWorker
  <2>3. CASE \E v \in Worker : Has(v)'
    BY <2>2, <2>3 DEF NoneLost
  <2>4. CASE posted # << >>
    BY <2>2, <2>4 DEF NoneLost
  <2>5. CASE queue[w] # << >>
    <3>1. queue[w] = <<started>>
      BY <1>1, <2>5 DEF OneTask
    <3>2. started \in dropped'
      BY <2>2, <3>1 DEF ToSet
    <3> QED BY <2>2, <3>2 DEF NoneLost
  <2>6. CASE queue[w] = << >> /\ posted = << >> /\ \A v \in Worker : ~ Has(v)'
    <3>1. queue' = queue
      BY <1>1, <2>2, <2>6 DEF Types
    <3>2. \A v \in Worker : ~ Has(v)
      BY <2>2, <2>6, <3>1 DEF Has
    <3> QED BY <2>2, <2>6, <3>2 DEF NoneLost
  <2> QED BY <2>3, <2>4, <2>5, <2>6
<1> QED BY <1>2, <1>3, <1>4, <1>5 DEF User, SetText, DeleteCookie, SetOptions, AddPostFile, SetPart,
                                DropPart, CloseTask, progress

\* However the task ends - without a URL, without a handle, refused by libcurl or with its
\* bytes put together - it is on its way to the callback until it got there; a task is
\* dropped only if its worker is destroyed before OnInvoke has begun.
THEOREM NoTaskLostHolds == Spec => []NoTaskLost
<1>1. Init => NoneLost
  <2>1. ~ (1 <= 0)
    OBVIOUS
  <2>2. 1 .. 0 = {}
    BY <2>1
  <2> QED BY <2>2 DEF Init, NoneLost
<1>2. DownloaderInv /\ NoneLost /\ [Next]_vars => NoneLost'
  <2> SUFFICES ASSUME DownloaderInv, NoneLost, [Next]_vars PROVE NoneLost'
    OBVIOUS
  <2>1. Types
    BY DEF DownloaderInv
  <2>2. ASSUME NEW w \in Worker, Transfer(w) PROVE NoneLost'
    BY <2>2 DEF Transfer, SaveData2List, settings, NoneLost, Has
  <2>3. CASE UNCHANGED vars
    BY <2>3 DEF vars, NoneLost, Has
  <2> QED BY <2>1, <2>2, <2>3, OnInvokeLosesNone, DeliverLosesNone, UserLosesNone DEF Next
<1>3. DownloaderInv /\ NoneLost => NoTaskLost
  BY NoneLostMeans
<1> QED BY <1>1, <1>2, <1>3, OneTaskAtATime, PTL DEF Spec
=============================================================================
