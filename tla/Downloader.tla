------------------------------ MODULE Downloader ------------------------------
(***************************************************************************)
(* class JPCurlDownloader of kf_jp_curl_downloader.cxx: an object that is  *)
(* told what to request, runs the transfer as a work item on a worker of   *)
(* its user's choice, and reports through the default parallel queue.      *)
(*                                                                         *)
(* The workers are queues that execute one item at a time (WorkQueue); the *)
(* attribute stores and the buffers are those of AttrStore and             *)
(* MemoryBuffer.  libcurl is external: its handle keeps every option that  *)
(* was set until it is set again, keeps the pointers it is given for the   *)
(* posted bytes, the header list and the form, and ends every transfer,    *)
(* the time limit being always set.  A byte received for task n is the     *)
(* number n.                                                               *)
(*                                                                         *)
(* The user replaces the posted data, the headers and the files, and       *)
(* closes the task, only while no task is under way: OnInvoke follows      *)
(* their pointers without a lock.  The settings that the store and         *)
(* SetOptions hold may change, and a worker may be destroyed, at any time. *)
(* A worker is not used once it is destroyed, and its thread can be        *)
(* started when it has to be (ThreadWorker has the threads).               *)
(***************************************************************************)
EXTENDS AttrStore, MemoryBuffer

CONSTANTS
  NULL,
  Worker,
  Curle,       \* what curl_easy_perform gives: "OK", "CONNECT_FAIL", "CONNECT_TIMEOUT"
  Setting,     \* the texts that are set: pairs of "URL", "USER_AGENT" or "COOKIE" and a text
  MaxTasks,    \* bound on the tasks started
  MaxParts,    \* bound on the replacements of posted data, headers and files
  MaxBody, MaxHead   \* bounds on the calls of libcurl's two callbacks in a transfer

Part == {"post", "headers", "forms"}

\* The attributes of a result; a code of libcurl is its name.
ResultItem ==
    [name : {"CURLE_CODE"}, value : [type : {"UINT32"}, data : Curle]]
    \cup [name : {"HTTP_CODE"}, value : [type : {"UINT32"}, data : Nat]]
    \cup [name : {"HTTP_DATA", "HTTP_HEADERS"}, value : [type : {"OBJECT"}, data : Buffer]]
Task   == [result : Seq(ResultItem), body : Seq(Buffer), head : Seq(Buffer)]
Handle == [refs : [Part -> Nat], code : Nat]

ASSUME DownloaderAssumption ==
    /\ \A s \in Setting : s[1] \in {"URL", "USER_AGENT", "COOKIE"}
    /\ Curle \subseteq STRING \ {EmptyString}
    /\ NULL \notin Task \cup Handle /\ NoBuffer \notin Buffer
    /\ MaxTasks \in Nat /\ MaxParts \in Nat
    /\ MaxBody \in Nat /\ MaxHead \in Nat

VARIABLES
  core,      \* the default queues exist
  open,      \* the workers that are not destroyed
  dropped,   \* history: the tasks that waited on a worker when it was destroyed
  info,      \* _info: the text settings
  reuse,     \* _options.enableReuse
  own,       \* _postData, _headers, _formDataList: 0 if there is none, else which
  parts,     \* how many of those were ever set
  handle,    \* _curl: what it refers to, and the task of its last transfer
  task,      \* _taskResult, _dataList, _headerList, created and dropped together
  started,   \* how many tasks were put on a worker
  queue,     \* the tasks each worker has still to execute
  run,       \* OnInvoke on each worker
  posted,    \* the reports waiting in the default parallel queue
  reports,   \* the reports the user's callback has received
  received,  \* how many bytes of body and of headers came for each task
  outcome    \* how the transfer of each task ended

vars == <<core, open, dropped, info, reuse, own, parts, handle, task, started, queue, run,
          posted, reports, received, outcome>>

\* What only the user's calls change, and what has become of the tasks.
settings == <<open, dropped, info, reuse, own, parts>>
progress == <<open, dropped, queue, run, posted, reports, received, outcome>>

NewTask == [result |-> << >>, body |-> << >>, head |-> << >>]
Free    == [pc |-> "free", task |-> 0, todo |-> << >>, curl |-> "none", r |-> "KF_OK"]
NoRefs  == [p \in Part |-> 0]

Init ==
    /\ core = TRUE
    /\ open = Worker /\ dropped = {}
    /\ info = << >> /\ reuse = FALSE /\ own = NoRefs /\ parts = 0
    /\ handle = NULL
    /\ task = NULL
    /\ started = 0
    /\ queue = [w \in Worker |-> << >>]
    /\ run = [w \in Worker |-> Free]
    /\ posted = << >> /\ reports = << >>
    /\ received = [n \in 1..MaxTasks |-> [body |-> 0, head |-> 0]]
    /\ outcome = [n \in 1..MaxTasks |-> "none"]

\* A task that was accepted and whose report the callback has not received; the report
\* is lost when the default queues are gone.
Reported(n) == \E k \in DOMAIN reports : reports[k].task = n
UnderWay(n) ==
    \/ \E w \in Worker : run[w].task = n \/ n \in ToSet(queue[w])
    \/ \E k \in DOMAIN posted : posted[k].task = n
Quiet == \A n \in 1..started : ~ UnderWay(n)

-----------------------------------------------------------------------------
(* The user's calls. *)

SetText(name, value) ==
    /\ info' = SetItem(info, [name |-> name, value |-> [type |-> "STRING", data |-> value]])
    /\ UNCHANGED <<core, reuse, own, parts, handle, task, started, progress>>

\* SetCookie(nullptr)
DeleteCookie ==
    /\ info' = DeleteItem(info, "COOKIE")
    /\ UNCHANGED <<core, reuse, own, parts, handle, task, started, progress>>

SetOptions ==
    /\ reuse' \in BOOLEAN
    /\ UNCHANGED <<core, info, own, parts, handle, task, started, progress>>

\* SetPostData with some bytes, SetHeaders with some headers.
SetPart(p) ==
    /\ Quiet /\ p # "forms"
    /\ parts < MaxParts
    /\ parts' = parts + 1
    /\ own' = [own EXCEPT ![p] = parts + 1]
    /\ UNCHANGED <<core, info, reuse, handle, task, started, progress>>

\* A file is added to those there are.
AddPostFile ==
    /\ Quiet
    /\ parts < MaxParts
    /\ parts' = parts + 1
    /\ own' = [own EXCEPT !["forms"] = IF @ # 0 THEN @ ELSE parts + 1]
    /\ UNCHANGED <<core, info, reuse, handle, task, started, progress>>

\* SetPostData with an empty buffer, whose copy cannot be created, or SetHeaders(NULL).
DropPart(p) ==
    /\ Quiet /\ p # "forms"
    /\ own' = [own EXCEPT ![p] = 0]
    /\ UNCHANGED <<core, info, reuse, parts, handle, task, started, progress>>

Put(w, created) ==
    /\ w \in open
    /\ started < MaxTasks
    /\ task' = created
    /\ \/ /\ started' = started + 1
          /\ queue' = [queue EXCEPT ![w] = Append(@, started + 1)]
       \/ UNCHANGED <<started, queue>>     \* the put fails: no memory for its item
    /\ UNCHANGED <<core, settings, handle, run, posted, reports, received, outcome>>

\* Mutant of StartTask: _taskResult is not tested.
StartTaskAgain(w) == Put(w, NewTask)

\* If the put fails _taskResult stays, and no task can be started before CloseTask.
StartTask(w) == task = NULL /\ Put(w, NewTask)

CloseTask ==
    /\ Quiet
    /\ task # NULL
    /\ task' = NULL
    /\ own' = [own EXCEPT !["post"] = 0, !["forms"] = 0]
    /\ UNCHANGED <<core, info, reuse, parts, handle, started, progress>>

\* KFAsyncDestroyWorker, with the last reference on the worker: its threads leave after
\* the item they execute, and what waits in its queue is discarded.
DestroyWorker(w) ==
    /\ w \in open /\ open' = open \ {w}
    /\ queue' = [queue EXCEPT ![w] = << >>]
    /\ dropped' = dropped \cup ToSet(queue[w])
    /\ UNCHANGED <<core, info, reuse, own, parts, handle, task, started, run, posted,
                   reports, received, outcome>>

\* KFAsyncShutdown, by whoever has the last reference on the default queues: what they
\* have not executed is discarded.
CoreShutdown ==
    /\ core /\ core' = FALSE
    /\ posted' = << >>
    /\ UNCHANGED <<settings, handle, task, started, queue, run, reports, received, outcome>>

-----------------------------------------------------------------------------
(* OnInvoke, on worker w. *)

Go(w, pc)      == run' = [run EXCEPT ![w].pc = pc]
Fail(w, pc, r) == run' = [run EXCEPT ![w].pc = pc, ![w].r = r]

Invoke(w) ==
    /\ run[w].pc = "free" /\ queue[w] # << >>
    /\ run' = [run EXCEPT ![w] = [Free EXCEPT !.pc = "check", !.task = Head(queue[w])]]
    /\ queue' = [queue EXCEPT ![w] = Tail(@)]
    /\ UNCHANGED <<core, settings, handle, task, started, posted, reports, received, outcome>>

\* Mutant of CheckUrl: without a URL OnInvoke returns.
CheckUrlReturns(w) ==
    /\ run[w].pc = "check"
    /\ IF SearchStore(info, "URL") = 0 THEN run' = [run EXCEPT ![w] = Free] ELSE Go(w, "curl")
    /\ UNCHANGED <<core, settings, handle, task, started, queue, posted, reports, received, outcome>>

CheckUrl(w) ==
    /\ run[w].pc = "check"
    /\ IF SearchStore(info, "URL") = 0 THEN Fail(w, "merge", "KF_INVALID_INPUT") ELSE Go(w, "curl")
    /\ UNCHANGED <<core, settings, handle, task, started, queue, posted, reports, received, outcome>>

\* The texts are looked up one after the other, the URL first.
Texts == <<"URL", "USER_AGENT", "COOKIE">>
FreshHandle == [refs |-> NoRefs, code |-> 0]

\* Mutant of GetCURL: a handle that exists is kept whatever the option says.
GetCURLKeeps(w) ==
    /\ run[w].pc = "curl"
    /\ handle' = IF handle # NULL THEN handle ELSE FreshHandle
    /\ run' = [run EXCEPT ![w].pc = "text", ![w].todo = Texts,
                          ![w].curl = IF reuse /\ handle # NULL THEN "kept" ELSE "new"]
    /\ UNCHANGED <<core, settings, task, started, queue, posted, reports, received, outcome>>

\* The handle is kept for the next task with opt_enable_reuse only.
GetCURL(w) ==
    LET keeps == reuse /\ handle # NULL IN
    /\ run[w].pc = "curl"
    /\ handle' = IF keeps THEN handle ELSE FreshHandle
    /\ run' = [run EXCEPT ![w].pc = "text", ![w].todo = Texts,
                          ![w].curl = IF keeps THEN "kept" ELSE "new"]
    /\ UNCHANGED <<core, settings, task, started, queue, posted, reports, received, outcome>>

\* curl_easy_init gives NULL.
GetCURLFails(w) ==
    /\ run[w].pc = "curl" /\ ~ (reuse /\ handle # NULL)
    /\ handle' = NULL
    /\ Fail(w, "merge", "KF_INIT_ERROR")
    /\ UNCHANGED <<core, settings, task, started, queue, posted, reports, received, outcome>>

\* HasItem of the next text but the URL, which is not looked up again.
HasText(w) ==
    /\ run[w].pc = "text" /\ run[w].todo # << >>
    /\ IF run[w].todo[1] = "URL" \/ SearchStore(info, run[w].todo[1]) # 0
       THEN Go(w, "get")
       ELSE run' = [run EXCEPT ![w].todo = Tail(@)]
    /\ UNCHANGED <<core, settings, handle, task, started, queue, posted, reports, received, outcome>>

\* GetStringAlloc: it fails for an item that was deleted since, or has no value.
GetText(w) ==
    /\ run[w].pc = "get"
    /\ IF GetItem(info, run[w].todo[1], "STRING").type = "STRING"
       THEN run' = [run EXCEPT ![w].pc = "text", ![w].todo = Tail(@)]
       ELSE Fail(w, "info", "KF_INVALID_DATA")
    /\ UNCHANGED <<core, settings, handle, task, started, queue, posted, reports, received, outcome>>

\* What the downloader has is set on the handle; what it has not stays as it was there.
Setup(w) ==
    /\ run[w].pc = "text" /\ run[w].todo = << >>
    /\ handle' = [handle EXCEPT !.refs = [p \in Part |-> IF own[p] # 0 THEN own[p] ELSE @[p]]]
    /\ Go(w, "perform")
    /\ UNCHANGED <<core, settings, task, started, queue, posted, reports, received, outcome>>

\* libcurl's callbacks: SaveData2List, on the body list or the header list.  A piece of
\* no bytes comes for an empty body only, before any other.
SaveData2List(w, list, len) ==
    LET n == run[w].task IN
    /\ run[w].pc = "perform"
    /\ len = 0 => task[list] = << >>
    /\ Len(task[list]) < (IF list = "body" THEN MaxBody ELSE MaxHead)
    /\ task' = [task EXCEPT ![list] =
                    Append(@, KFCreateMemoryBuffer(len + 1, [k \in 1..len |-> n]))]
    /\ received' = [received EXCEPT ![n][list] = @ + len]
    /\ UNCHANGED <<core, settings, handle, started, queue, run, posted, reports, outcome>>

Result(name, value) == [name |-> name, value |-> [type |-> "UINT32", data |-> value]]

\* Mutant of PerformDone: the code of curl_easy_perform is not stored.
PerformDoneForgets(w, curle) ==
    /\ run[w].pc = "perform"
    /\ UNCHANGED task
    /\ outcome' = [outcome EXCEPT ![run[w].task] = curle]
    /\ handle' = [handle EXCEPT !.code = run[w].task]
    /\ Fail(w, "info", IF curle = "OK" THEN "KF_OK" ELSE "KF_NETWORK_" \o curle)
    /\ UNCHANGED <<core, settings, started, queue, posted, reports, received>>

PerformDone(w, curle) ==
    /\ run[w].pc = "perform"
    /\ task' = [task EXCEPT !.result = SetItem(@, Result("CURLE_CODE", curle))]
    /\ outcome' = [outcome EXCEPT ![run[w].task] = curle]
    /\ handle' = [handle EXCEPT !.code = run[w].task]
    /\ Fail(w, "info", IF curle = "OK" THEN "KF_OK" ELSE "KF_NETWORK_" \o curle)
    /\ UNCHANGED <<core, settings, started, queue, posted, reports, received>>

\* What the handle knows of its last transfer; then FreeCURL.
ReadInfo(w) ==
    /\ run[w].pc = "info"
    /\ task' = [task EXCEPT !.result = SetItem(@, Result("HTTP_CODE", handle.code))]
    /\ handle' = IF reuse THEN handle ELSE NULL
    /\ Go(w, "merge")
    /\ UNCHANGED <<core, settings, started, queue, posted, reports, received, outcome>>

\* The pieces are put together; the outcome of that replaces the one of the transfer.
Merged(list)  == KFMergeMemoryBufferUseListObject(list)
AddData(result, name, list) ==
    IF list = << >> \/ Merged(list) = NoBuffer THEN result
    ELSE SetItem(result, [name |-> name, value |-> [type |-> "OBJECT", data |-> Merged(list)]])
MergeResult(r, list) ==
    IF list = << >> THEN r ELSE IF Merged(list) = NoBuffer THEN "KF_ABORT" ELSE "KF_OK"

Merge(w) ==
    /\ run[w].pc = "merge"
    /\ task' = [task EXCEPT !.result =
                    AddData(AddData(@, "HTTP_DATA", task.body), "HTTP_HEADERS", task.head)]
    /\ Fail(w, "report", MergeResult(MergeResult(run[w].r, task.body), task.head))
    /\ UNCHANGED <<core, settings, handle, started, queue, posted, reports, received, outcome>>

\* KFAsyncInvokeCallback, which does nothing when the default queues are gone.
Report(w) ==
    /\ run[w].pc = "report"
    /\ posted' = IF core
                 THEN Append(posted, [task |-> run[w].task, r |-> run[w].r, object |-> task.result])
                 ELSE posted
    /\ run' = [run EXCEPT ![w] = Free]
    /\ UNCHANGED <<core, settings, handle, task, started, queue, reports, received, outcome>>

\* A thread of the default parallel queue executes the user's callback.
Deliver ==
    /\ posted # << >>
    /\ reports' = Append(reports, Head(posted))
    /\ posted' = Tail(posted)
    /\ UNCHANGED <<core, settings, handle, task, started, queue, run, received, outcome>>

-----------------------------------------------------------------------------
User ==
    \/ \E s \in Setting : SetText(s[1], s[2])
    \/ DeleteCookie
    \/ SetOptions
    \/ AddPostFile
    \/ \E p \in Part : SetPart(p) \/ DropPart(p)
    \/ \E w \in Worker : StartTask(w) \/ DestroyWorker(w)
    \/ CloseTask
    \/ CoreShutdown

Transfer(w) ==
    \/ \E len \in 0..1 : SaveData2List(w, "body", len)
    \/ SaveData2List(w, "head", 1)

OnInvoke(w) ==
    \/ Invoke(w) \/ CheckUrl(w) \/ GetCURL(w) \/ GetCURLFails(w)
    \/ HasText(w) \/ GetText(w) \/ Setup(w)
    \/ \E curle \in Curle : PerformDone(w, curle)
    \/ ReadInfo(w) \/ Merge(w) \/ Report(w)

Next == User \/ (\E w \in Worker : Transfer(w) \/ OnInvoke(w)) \/ Deliver

Spec == Init /\ [][Next]_vars

\* Workers execute what is in their queues - nothing, once they are destroyed - and finish
\* what they began; a transfer ends, and so does the way through the texts, whatever the
\* user sets meanwhile.
FairSpec == Spec /\ (\A w \in Worker : WF_vars(OnInvoke(w))) /\ WF_vars(Deliver)

-----------------------------------------------------------------------------
(* Properties. *)

Bytes(n, len) == [k \in 1..len |-> n]
DataOf(report, name) ==
    LET data == GetItem(report.object, name, "OBJECT")
    IN IF data.type = "INVALID" THEN << >> ELSE data.data.data

\* A report holds all the bytes that came for its task and none of another task, and no
\* task is reported twice: the lists are emptied and refilled by StartTask alone, and by
\* one task at a time.
ReportIsOwn ==
    \A k \in DOMAIN reports :
        LET n == reports[k].task IN
        /\ DataOf(reports[k], "HTTP_DATA") = Bytes(n, received[n].body)
        /\ DataOf(reports[k], "HTTP_HEADERS") = Bytes(n, received[n].head)
        /\ \A j \in DOMAIN reports : reports[j].task = n => j = k

\* The result of a transfer that failed after some bytes came is overwritten by the one
\* of putting the bytes together, but the report tells: either its result is a failure
\* or its CURLE_CODE is, unless the transfer succeeded.
FailureIsTold ==
    \A k \in DOMAIN reports :
        /\ reports[k].r = "KF_OK"
        /\ GetItem(reports[k].object, "CURLE_CODE", "UINT32").data \in {EmptyString, "OK"}
        => outcome[reports[k].task] = "OK"

\* A transfer on a handle that was not kept sends the data, headers and files of its
\* task and nothing of an earlier one, although libcurl's handle holds on to what it was
\* once given: with opt_enable_reuse it may refer to data that are gone.
RequestIsOwn ==
    \A w \in Worker : run[w].pc = "perform" /\ run[w].curl = "new" => handle.refs = own

\* As long as the default queues are there, each task that was put on a worker either has
\* been reported, or is somewhere on its way there - on a worker, in OnInvoke or in the
\* default parallel queue - whatever OnInvoke met with, or still waited on a worker when
\* its user destroyed that.
NoTaskLost == core => \A n \in 1..started : Reported(n) \/ UnderWay(n) \/ n \in dropped

\* What was put on a worker, neither reported nor dropped.
Owed == {n \in 1..started : ~ Reported(n)} \ dropped

\* A task that was put on a worker is reported to the callback, whether there is a URL,
\* libcurl fails or no byte comes, unless the default queues go first or the worker is
\* destroyed before it executes the task: destroying it under OnInvoke changes nothing.
EachTaskReported == Owed # {} ~> (Owed = {} \/ ~ core)
===============================================================================
