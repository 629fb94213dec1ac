---------------------------- MODULE FcgiManager ----------------------------
(***************************************************************************)
(* The task manager every SCFF worker process runs on:                     *)
(* Fastcgipp::Manager<T> (handler(), push(), localHandler()) and           *)
(* Fastcgipp::ManagerPar (stop(), terminate(), the signal handler).        *)
(*                                                                         *)
(* One thread, Handler, runs handler(); the other threads call into it:    *)
(* Workers call push() through a request's callback, Stoppers call stop(), *)
(* Terminators call terminate(); those of them in Signals do so from a     *)
(* signal handler that interrupts the Handler thread.                      *)
(*                                                                         *)
(* A step is the code between two points where another thread may be       *)
(* observed: taking a mutex, or giving the last one back.  Labels that     *)
(* start with p_ are in push(), h_ in handler(), c_ in stop()/terminate(). *)
(***************************************************************************)
EXTENDS Integers, Sequences, FiniteSets

CONSTANTS
  Ids,            \* FullIds with a non-zero fcgiId that the server may use
  Mgr,            \* a FullId whose fcgiId is 0
  Handler,        \* the thread that runs handler()
  Workers,        \* threads that hold a request's callback
  Stoppers,       \* threads (or signals) that call stop()
  Terminators,    \* threads (or signals) that call terminate()
  Signals,        \* the stoppers and terminators that are signal handlers
  Free,           \* owner of an unlocked mutex
  WakeCap,        \* bytes the wake-up socket pair holds before write() blocks
  MaxRecords,     \* bound: records the web server sends for requests
  MaxMgrRecords,  \* bound: management records the web server sends
  MaxCallbacks    \* bound: calls of callbacks by the workers

Controllers == Stoppers \cup Terminators
Threads     == {Handler} \cup Workers \cup Controllers

ASSUME ThreadsAssumption ==
  /\ Handler \notin Workers \cup Controllers
  /\ Workers \cap Controllers = {}
  /\ Stoppers \cap Terminators = {}
  /\ Signals \subseteq Controllers
  /\ Free \notin Threads
  /\ Mgr \notin Ids

ASSUME BoundsAssumption ==
  /\ WakeCap \in Nat \ {0}
  /\ MaxRecords \in Nat
  /\ MaxMgrRecords \in Nat
  /\ MaxCallbacks \in Nat

VARIABLES
  pc,             \* where each thread is
  pushId,         \* first argument of the push() a thread is in
  pushMsg,        \* second argument of the push() a thread is in
  owner,          \* holder of stopMutex, terminateMutex, tasks, sleepMutex
  mesOwner,       \* holder of each request's messages mutex
  readers,        \* threads with a shared lock on requests
  tasks,          \* Manager::tasks
  view,           \* the tasks as the unlocked tasks.push() of line 285 saw them
  mgrMessages,    \* length of ManagerPar::messages
  requests,       \* keys of Manager::requests
  messages,       \* Request::messages of every live request
  gen,            \* requests created so far under each id
  asleep,         \* ManagerPar::asleep
  stopBool,       \* ManagerPar::stopBool
  terminateBool,  \* ManagerPar::terminateBool
  wakeBytes,      \* bytes in the wake-up socket pair
  idle,           \* handler()'s local `sleep'
  task,           \* handler()'s local `id'
  input,          \* records sent for each id and not yet read
  mgrInput,       \* management records sent and not yet read
  open,           \* ids the server has begun and got no END_REQUEST for
  recordsSent, mgrSent, calls   \* counters for the bounds

locks   == <<owner, mesOwner, readers>>
queues  == <<tasks, view, mgrMessages, messages>>
table   == <<requests, gen>>
flags   == <<asleep, stopBool, terminateBool, wakeBytes>>
locals  == <<idle, task>>
args    == <<pushId, pushMsg>>
server  == <<input, mgrInput, open, recordsSent, mgrSent>>
vars    == <<pc, args, locks, queues, table, flags, locals, server, calls>>

-----------------------------------------------------------------------------
(* Messages.  Of a FastCGI record (type 0) push() and Request::handler()   *)
(* tell apart BEGIN_REQUEST, ABORT_REQUEST and the rest; any other message *)
(* comes from the callback of one particular request, number `of'.         *)

Mutexes == {"stop", "terminate", "tasks", "sleep"}
Record  == {"begin", "record", "abort"}
Message == [kind : Record \cup {"callback"}, of : Nat]
NoMsg   == [kind |-> "record", of |-> 0]

Labels ==
  {"idle", "p_requests", "p_messages", "p_tasks", "p_unique", "p_manager",
   "p_mgrtask", "p_sleep", "p_wake",
   "h_stop", "h_checkstop", "h_transceiver", "h_terminate",
   "h_checkterminate", "h_tasks", "h_sleep", "h_checktasks", "h_fallasleep",
   "h_poll", "h_awake", "h_clearasleep", "h_dispatch", "h_run", "h_erase",
   "h_returned", "h_crashed",
   "c_flag", "c_sleep", "c_wake", "done"}

FlagMutex(c) == IF c \in Stoppers THEN "stop" ELSE "terminate"

\* A signal handler runs on the Handler thread: until it returns the
\* interrupted code stands still.
InSignal == \E s \in Signals : pc[s] \notin {"idle", "done"}
Runs(t)  == t = Handler => ~InSignal

At(t, label)   == pc[t] = label /\ Runs(t)
Goto(t, label) == pc' = [pc EXCEPT ![t] = label]

Acquire(m, t)  == owner[m] = Free /\ owner' = [owner EXCEPT ![m] = t]
Release(m)     == owner' = [owner EXCEPT ![m] = Free]

WakePending == wakeBytes > 0

\* The unique lock on requests is granted.
NoReadersIgnored == TRUE
NoReaders == readers = {}

\* The task queue after tasks.push(i).
QueueTaskOnce(i)  == IF \E k \in DOMAIN tasks : tasks[k] = i
                       THEN tasks ELSE Append(tasks, i)
QueueTaskTwice(i) == tasks \o <<i, i>>
QueueTask(i)      == Append(tasks, i)

\* What poll() finds ready to read.
Readable == WakePending \/ mgrInput > 0 \/ \E i \in Ids : input[i] # <<>>

-----------------------------------------------------------------------------
(* push(id, message), called by the Handler thread for every record the    *)
(* transceiver assembles and by the workers through Request::callback().   *)

AfterPush(t) == IF t = Handler THEN "h_terminate" ELSE "idle"

\* A worker calls the callback of some request that was created under id.
PushCall(w) ==
  /\ At(w, "idle")
  /\ calls < MaxCallbacks
  /\ \E i \in Ids : \E g \in 1..gen[i] :
       /\ pushId'  = [pushId EXCEPT ![w] = i]
       /\ pushMsg' = [pushMsg EXCEPT ![w] = [kind |-> "callback", of |-> g]]
  /\ calls' = calls + 1
  /\ Goto(w, "p_requests")
  /\ UNCHANGED <<locks, queues, table, flags, locals, server>>

\* Take the shared lock and find the id.  It is kept while the message and
\* the task are queued; a record of an unknown request that does not begin
\* one returns before the wake-up.
PushFind(t) ==
  /\ At(t, "p_requests")
  /\ \/ /\ pushId[t] \in requests
        /\ readers' = readers \cup {t}
        /\ Goto(t, "p_messages")
     \/ /\ pushId[t] \notin requests
        /\ Goto(t, CASE pushMsg[t].kind = "begin"    -> "p_unique"
                     [] pushMsg[t].kind = "callback" -> "p_sleep"
                     [] OTHER                        -> AfterPush(t))
        /\ UNCHANGED readers
  /\ UNCHANGED <<args, owner, mesOwner, queues, table, flags, locals, server,
                 calls>>

PushMessage(t) ==
  /\ At(t, "p_messages")
  /\ mesOwner[pushId[t]] = Free
  /\ mesOwner' = [mesOwner EXCEPT ![pushId[t]] = t]
  /\ messages' = [messages EXCEPT ![pushId[t]] = Append(@, pushMsg[t])]
  /\ Goto(t, "p_tasks")
  /\ UNCHANGED <<args, owner, readers, tasks, view, mgrMessages, table, flags,
                 locals, server, calls>>

PushTask(t) ==
  /\ At(t, "p_tasks")
  /\ owner["tasks"] = Free
  /\ tasks' = QueueTask(pushId[t])
  /\ mesOwner' = [mesOwner EXCEPT ![pushId[t]] = Free]
  /\ readers' = readers \ {t}
  /\ Goto(t, "p_sleep")
  /\ UNCHANGED <<args, owner, view, mgrMessages, messages, table, flags,
                 locals, server, calls>>

\* BEGIN_REQUEST: the shared lock was given back; create the request under
\* the unique one.  No task is queued.
PushCreate(t) ==
  /\ At(t, "p_unique")
  /\ NoReaders
  /\ requests' = requests \cup {pushId[t]}
  /\ messages' = [messages EXCEPT ![pushId[t]] = <<>>]
  /\ gen' = [gen EXCEPT ![pushId[t]] = @ + 1]
  /\ Goto(t, "p_sleep")
  /\ UNCHANGED <<args, locks, tasks, view, mgrMessages, flags, locals, server,
                 calls>>

\* fcgiId 0: both queues are pushed without taking the tasks mutex, so the
\* queue that is extended may be older than the one that is there by then.
PushManager(t) ==
  /\ At(t, "p_manager")
  /\ mgrMessages' = mgrMessages + 1
  /\ view' = tasks
  /\ Goto(t, "p_mgrtask")
  /\ UNCHANGED <<args, locks, tasks, messages, table, flags, locals, server,
                 calls>>

PushManagerTask(t) ==
  /\ At(t, "p_mgrtask")
  /\ tasks' = Append(view, Mgr)
  /\ view' = <<>>
  /\ Goto(t, "p_sleep")
  /\ UNCHANGED <<args, locks, mgrMessages, messages, table, flags, locals,
                 server, calls>>

\* Take sleepMutex; wake the handler if it is asleep, else return.
PushSleep(t) ==
  /\ At(t, "p_sleep")
  /\ owner["sleep"] = Free
  /\ IF asleep
       THEN Acquire("sleep", t) /\ Goto(t, "p_wake")
       ELSE Goto(t, AfterPush(t)) /\ UNCHANGED owner
  /\ UNCHANGED <<args, mesOwner, readers, queues, table, flags, locals, server,
                 calls>>

\* Transceiver::wake(): a blocking one-byte write, with sleepMutex held.
PushWake(t) ==
  /\ At(t, "p_wake")
  /\ wakeBytes < WakeCap
  /\ wakeBytes' = wakeBytes + 1
  /\ Release("sleep")
  /\ Goto(t, AfterPush(t))
  /\ UNCHANGED <<args, mesOwner, readers, queues, table, asleep, stopBool,
                 terminateBool, locals, server, calls>>

Push(t) ==
  \/ PushFind(t)    \/ PushMessage(t) \/ PushTask(t)        \/ PushCreate(t)
  \/ PushManager(t) \/ PushSleep(t)   \/ PushManagerTask(t) \/ PushWake(t)

-----------------------------------------------------------------------------
(* handler(): the loop.                                                    *)

LockStop ==
  /\ At(Handler, "h_stop")
  /\ Acquire("stop", Handler)
  /\ Goto(Handler, "h_checkstop")
  /\ UNCHANGED <<args, mesOwner, readers, queues, table, flags, locals, server,
                 calls>>

StopSeenIdle == stopBool /\ idle
StopSeen     == stopBool

CheckStop ==
  /\ At(Handler, "h_checkstop")
  /\ Release("stop")
  /\ stopBool' = (stopBool /\ ~StopSeen)
  /\ Goto(Handler, IF StopSeen THEN "h_returned" ELSE "h_transceiver")
  /\ UNCHANGED <<args, mesOwner, readers, queues, table, asleep, terminateBool,
                 wakeBytes, locals, server, calls>>

\* Transceiver::handler() with nothing to read: its result says whether the
\* transmit buffer is empty.
TransceiverIdle ==
  /\ At(Handler, "h_transceiver")
  /\ ~Readable
  /\ idle' \in BOOLEAN
  /\ Goto(Handler, "h_terminate")
  /\ UNCHANGED <<args, locks, queues, table, flags, task, server, calls>>

\* Transceiver::handler() reads one byte of the wake-up socket.
TransceiverDrain ==
  /\ At(Handler, "h_transceiver")
  /\ WakePending
  /\ wakeBytes' = wakeBytes - 1
  /\ idle' = FALSE
  /\ Goto(Handler, "h_terminate")
  /\ UNCHANGED <<args, locks, queues, table, asleep, stopBool, terminateBool,
                 task, server, calls>>

\* Transceiver::handler() completes one record and pushes it.
TransceiverRecord ==
  /\ At(Handler, "h_transceiver")
  /\ \E i \in Ids :
       /\ input[i] # <<>>
       /\ pushId'  = [pushId EXCEPT ![Handler] = i]
       /\ pushMsg' = [pushMsg EXCEPT ![Handler] =
                        [kind |-> Head(input[i]), of |-> 0]]
       /\ input'   = [input EXCEPT ![i] = Tail(@)]
  /\ idle' = FALSE
  /\ Goto(Handler, "p_requests")
  /\ UNCHANGED <<locks, queues, table, flags, task, mgrInput, open,
                 recordsSent, mgrSent, calls>>

TransceiverMgrRecord ==
  /\ At(Handler, "h_transceiver")
  /\ mgrInput > 0
  /\ mgrInput' = mgrInput - 1
  /\ idle' = FALSE
  /\ Goto(Handler, "p_manager")
  /\ UNCHANGED <<args, locks, queues, table, flags, task, input, open,
                 recordsSent, mgrSent, calls>>

LockTerminate ==
  /\ At(Handler, "h_terminate")
  /\ Acquire("terminate", Handler)
  /\ Goto(Handler, "h_checkterminate")
  /\ UNCHANGED <<args, mesOwner, readers, queues, table, flags, locals, server,
                 calls>>

\* A terminate is honoured only with no request left and nothing to send
\* or read.  (The shared lock is taken and given back within the step.)
MayTerminateBusy == terminateBool /\ requests = {}
MayTerminate     == terminateBool /\ requests = {} /\ idle

CheckTerminate ==
  /\ At(Handler, "h_checkterminate")
  /\ Release("terminate")
  /\ IF MayTerminate
       THEN terminateBool' = FALSE /\ Goto(Handler, "h_returned")
       ELSE Goto(Handler, "h_tasks") /\ UNCHANGED terminateBool
  /\ UNCHANGED <<args, mesOwner, readers, queues, table, asleep, stopBool,
                 wakeBytes, locals, server, calls>>

LockTasks ==
  /\ At(Handler, "h_tasks")
  /\ Acquire("tasks", Handler)
  /\ Goto(Handler, "h_sleep")
  /\ UNCHANGED <<args, mesOwner, readers, queues, table, flags, locals, server,
                 calls>>

LockSleep ==
  /\ At(Handler, "h_sleep")
  /\ Acquire("sleep", Handler)
  /\ Goto(Handler, "h_checktasks")
  /\ UNCHANGED <<args, mesOwner, readers, queues, table, flags, locals, server,
                 calls>>

\* Nothing to do: the tasks mutex is given back, sleepMutex is kept until
\* asleep is set.
UnlockTasksAndSleep == owner' = [owner EXCEPT !["tasks"] = Free, !["sleep"] = Free]
UnlockTasks         == Release("tasks")

NoTask ==
  /\ At(Handler, "h_checktasks")
  /\ tasks = <<>>
  /\ UnlockTasks
  /\ Goto(Handler, "h_fallasleep")
  /\ UNCHANGED <<args, mesOwner, readers, queues, table, flags, locals, server,
                 calls>>

\* poll() is entered unless the transceiver still had something to do.
FallAsleep ==
  /\ At(Handler, "h_fallasleep")
  /\ asleep' = TRUE
  /\ Release("sleep")
  /\ Goto(Handler, IF idle THEN "h_poll" ELSE "h_awake")
  /\ UNCHANGED <<args, mesOwner, readers, queues, table, stopBool,
                 terminateBool, wakeBytes, locals, server, calls>>

PopTask ==
  /\ At(Handler, "h_checktasks")
  /\ tasks # <<>>
  /\ task' = Head(tasks)
  /\ tasks' = Tail(tasks)
  /\ owner' = [owner EXCEPT !["tasks"] = Free, !["sleep"] = Free]
  /\ Goto(Handler, "h_dispatch")
  /\ UNCHANGED <<args, mesOwner, readers, view, mgrMessages, messages, table,
                 flags, idle, server, calls>>

\* poll() with no timeout returns once something is readable.
PollReturn ==
  /\ At(Handler, "h_poll")
  /\ Readable
  /\ Goto(Handler, "h_awake")
  /\ UNCHANGED <<args, locks, queues, table, flags, locals, server, calls>>

LockAwake ==
  /\ At(Handler, "h_awake")
  /\ Acquire("sleep", Handler)
  /\ Goto(Handler, "h_clearasleep")
  /\ UNCHANGED <<args, mesOwner, readers, queues, table, flags, locals, server,
                 calls>>

AwakeKeepsSleep   == UNCHANGED owner
AwakeUnlocksSleep == Release("sleep")

ClearAsleep ==
  /\ At(Handler, "h_clearasleep")
  /\ asleep' = FALSE
  /\ AwakeUnlocksSleep
  /\ Goto(Handler, "h_stop")
  /\ UNCHANGED <<args, mesOwner, readers, queues, table, stopBool,
                 terminateBool, wakeBytes, locals, server, calls>>

\* A task of the manager itself: localHandler() answers one message.
LocalHandler ==
  /\ At(Handler, "h_dispatch")
  /\ task = Mgr
  /\ IF mgrMessages = 0
       THEN Goto(Handler, "h_crashed") /\ UNCHANGED mgrMessages
       ELSE Goto(Handler, "h_stop") /\ mgrMessages' = mgrMessages - 1
  /\ UNCHANGED <<args, locks, tasks, view, messages, table, flags, locals,
                 server, calls>>

FindRequest ==
  /\ At(Handler, "h_dispatch")
  /\ task # Mgr
  /\ IF task \in requests
       THEN readers' = readers \cup {Handler} /\ Goto(Handler, "h_run")
       ELSE Goto(Handler, "h_stop") /\ UNCHANGED readers
  /\ UNCHANGED <<args, owner, mesOwner, queues, table, flags, locals, server,
                 calls>>

\* Request::handler() has taken message m.  An abort ends the request
\* without an END_REQUEST; anything else either ends it with one (response
\* complete, bad record, post too big) or leaves it waiting.
Serve(i, m) ==
  \/ /\ m.kind # "abort"
     /\ Goto(Handler, "h_stop")
     /\ UNCHANGED open
  \/ /\ Goto(Handler, "h_erase")
     /\ open' = IF m.kind = "abort" THEN open ELSE open \ {i}

\* front() of an empty queue is undefined: h_crashed stands for it.
RunRequest ==
  /\ At(Handler, "h_run")
  /\ mesOwner[task] = Free
  /\ readers' = readers \ {Handler}
  /\ IF messages[task] = <<>>
       THEN Goto(Handler, "h_crashed") /\ UNCHANGED <<messages, open>>
       ELSE /\ messages' = [messages EXCEPT ![task] = Tail(@)]
            /\ Serve(task, Head(messages[task]))
  /\ UNCHANGED <<args, owner, mesOwner, tasks, view, mgrMessages, table, flags,
                 locals, input, mgrInput, recordsSent, mgrSent, calls>>

\* The shared lock was given back; erase under the unique one.
EraseRequest ==
  /\ At(Handler, "h_erase")
  /\ NoReaders
  /\ requests' = requests \ {task}
  /\ messages' = [messages EXCEPT ![task] = <<>>]
  /\ Goto(Handler, "h_stop")
  /\ UNCHANGED <<args, locks, tasks, view, mgrMessages, gen, flags, locals,
                 server, calls>>

\* The owner of the manager calls handler() again after it returned.
Recall ==
  /\ At(Handler, "h_returned")
  /\ Goto(Handler, "h_stop")
  /\ UNCHANGED <<args, locks, queues, table, flags, locals, server, calls>>

HandlerStep ==
  \/ LockStop      \/ CheckStop     \/ TransceiverIdle   \/ TransceiverDrain
  \/ LockTerminate \/ LockTasks     \/ TransceiverRecord \/ CheckTerminate
  \/ LockSleep     \/ FallAsleep    \/ PopTask           \/ PollReturn
  \/ NoTask
  \/ LockAwake     \/ ClearAsleep   \/ LocalHandler      \/ FindRequest
  \/ RunRequest    \/ EraseRequest  \/ TransceiverMgrRecord

-----------------------------------------------------------------------------
(* stop() and terminate().                                                 *)

\* A thread calls, or a signal is delivered to the thread in handler(), one
\* at a time; a signal interrupts poll().
ControlCall(c) ==
  /\ pc[c] = "idle"
  /\ c \in Signals => ~InSignal /\ pc[Handler] \notin {"h_returned", "h_crashed"}
  /\ pc' = [pc EXCEPT ![c] = "c_flag",
                      ![Handler] = IF c \in Signals /\ @ = "h_poll"
                                     THEN "h_awake" ELSE @]
  /\ UNCHANGED <<args, locks, queues, table, flags, locals, server, calls>>

ControlLock(c) ==
  /\ pc[c] = "c_flag"
  /\ Acquire(FlagMutex(c), c)
  /\ Goto(c, "c_sleep")
  /\ UNCHANGED <<args, mesOwner, readers, queues, table, flags, locals, server,
                 calls>>

ControlSet(c) ==
  /\ pc[c] = "c_sleep"
  /\ Acquire("sleep", c)
  /\ stopBool' = (stopBool \/ c \in Stoppers)
  /\ terminateBool' = (terminateBool \/ c \in Terminators)
  /\ Goto(c, "c_wake")
  /\ UNCHANGED <<args, mesOwner, readers, queues, table, asleep, wakeBytes,
                 locals, server, calls>>

UnlockControl(c)  == owner' = [owner EXCEPT ![FlagMutex(c)] = Free, !["sleep"] = Free]

ControlWake(c) ==
  /\ pc[c] = "c_wake"
  /\ asleep => wakeBytes < WakeCap
  /\ wakeBytes' = IF asleep THEN wakeBytes + 1 ELSE wakeBytes
  /\ asleep' = FALSE
  /\ UnlockControl(c)
  /\ Goto(c, "done")
  /\ UNCHANGED <<args, mesOwner, readers, queues, table, stopBool,
                 terminateBool, locals, server, calls>>

Control(c) == ControlLock(c) \/ ControlSet(c) \/ ControlWake(c)

-----------------------------------------------------------------------------
(* The web server: records of one request arrive in order, an id is begun  *)
(* again only after its END_REQUEST; records already under way when the    *)
(* request ended stay in the connection.                                   *)

ServerSend(i) ==
  /\ recordsSent < MaxRecords
  /\ \/ /\ i \notin open
        /\ input' = [input EXCEPT ![i] = Append(@, "begin")]
        /\ open' = open \cup {i}
     \/ /\ i \in open
        /\ \E k \in {"record", "abort"} : input' = [input EXCEPT ![i] = Append(@, k)]
        /\ UNCHANGED open
  /\ recordsSent' = recordsSent + 1
  /\ UNCHANGED <<pc, args, locks, queues, table, flags, locals, mgrInput,
                 mgrSent, calls>>

ServerQuery ==
  /\ mgrSent < MaxMgrRecords
  /\ mgrInput' = mgrInput + 1
  /\ mgrSent' = mgrSent + 1
  /\ UNCHANGED <<pc, args, locks, queues, table, flags, locals, input, open,
                 recordsSent, calls>>

-----------------------------------------------------------------------------
Init ==
  /\ pc = [t \in Threads |-> IF t = Handler THEN "h_stop" ELSE "idle"]
  /\ pushId = [t \in Threads |-> Mgr]
  /\ pushMsg = [t \in Threads |-> NoMsg]
  /\ owner = [m \in Mutexes |-> Free]
  /\ mesOwner = [i \in Ids |-> Free]
  /\ readers = {}
  /\ tasks = <<>> /\ view = <<>> /\ mgrMessages = 0
  /\ requests = {}
  /\ messages = [i \in Ids |-> <<>>]
  /\ gen = [i \in Ids |-> 0]
  /\ asleep = FALSE /\ stopBool = FALSE /\ terminateBool = FALSE
  /\ wakeBytes = 0
  /\ idle = FALSE /\ task = Mgr
  /\ input = [i \in Ids |-> <<>>]
  /\ mgrInput = 0
  /\ open = {}
  /\ recordsSent = 0 /\ mgrSent = 0 /\ calls = 0

Next ==
  \/ HandlerStep
  \/ Recall
  \/ \E t \in {Handler} \cup Workers : Push(t)
  \/ \E w \in Workers : PushCall(w)
  \/ \E c \in Controllers : ControlCall(c) \/ Control(c)
  \/ \E i \in Ids : ServerSend(i)
  \/ ServerQuery

Spec == Init /\ [][Next]_vars

\* The scheduler runs every thread that can run, and a thread that waits
\* for a mutex that is given back again and again gets it in the end.
\* Nobody is obliged to call, to send or to call handler() again.
Fairness ==
  /\ SF_vars(HandlerStep \/ Push(Handler))
  /\ \A w \in Workers : SF_vars(Push(w))
  /\ \A c \in Controllers : SF_vars(Control(c))

FairSpec == Spec /\ Fairness
-----------------------------------------------------------------------------
(* Properties.                                                             *)

\* Every variable has its type; the wake-up socket holds no more than fits.
TypeOK ==
  /\ pc \in [Threads -> Labels]
  /\ pushId \in [Threads -> Ids \cup {Mgr}]
  /\ pushMsg \in [Threads -> Message]
  /\ owner \in [Mutexes -> Threads \cup {Free}]
  /\ mesOwner \in [Ids -> Threads \cup {Free}]
  /\ readers \in SUBSET Threads
  /\ tasks \in Seq(Ids \cup {Mgr})
  /\ view \in Seq(Ids \cup {Mgr})
  /\ mgrMessages \in Nat
  /\ requests \in SUBSET Ids
  /\ messages \in [Ids -> Seq(Message)]
  /\ gen \in [Ids -> Nat]
  /\ asleep \in BOOLEAN /\ stopBool \in BOOLEAN /\ terminateBool \in BOOLEAN
  /\ wakeBytes \in 0..WakeCap
  /\ idle \in BOOLEAN
  /\ task \in Ids \cup {Mgr}
  /\ input \in [Ids -> Seq(Record)]
  /\ mgrInput \in Nat
  /\ open \in SUBSET Ids
  /\ recordsSent \in Nat /\ mgrSent \in Nat /\ calls \in Nat

\* A request is never erased under a thread that has found it: push() uses
\* the request's queue, and handler() runs it, only while it is in the map
\* (manager.hpp 255-263, 355-362: shared lock kept, unique lock to erase).
RequestPinned ==
  /\ \A t \in Threads :
       pc[t] \in {"p_messages", "p_tasks"} => pushId[t] \in requests
  /\ pc[Handler] = "h_run" => task \in requests

\* A thread between its tasks.push() and its look at asleep.
Waking(t) == pc[t] \in {"p_sleep", "p_wake"}

\* The handler is never left in poll() with a task queued: a wake-up byte is
\* there, or a thread that will write one is on its way (manager.hpp
\* 288-290 against 326-340).
NoLostWakeup ==
  pc[Handler] = "h_poll" /\ tasks # <<>> =>
    WakePending \/ \E w \in Workers : Waking(w)

\* How often id i is in a task queue.
Occurrences(s, i) == Cardinality({k \in DOMAIN s : s[k] = i})

\* A thread has queued a message for id i and holds the queue's mutex until
\* it has queued the task; the handler has taken a task for id i and not yet
\* called Request::handler().
Queueing(i)    == \E t \in Threads : pc[t] = "p_tasks" /\ pushId[t] = i
Dispatching(i) == pc[Handler] \in {"h_dispatch", "h_run"} /\ task = i

TasksFor(i) ==
    Occurrences(tasks, i)
  + (IF Queueing(i) THEN 1 ELSE 0)
  + (IF Dispatching(i) THEN 1 ELSE 0)

\* Every message in a request's queue has a task of its own, so handler()
\* gets round to it (manager.hpp 257-263, 347-349; request.cpp 75-79).
MessageHasTask == \A i \in Ids : Len(messages[i]) <= TasksFor(i)

\* Request::handler() and localHandler() never take the front of an empty
\* queue (request.cpp 77, manager.cpp 69).
NoEmptyFront == pc[Handler] # "h_crashed"

\* Without other threads the loop pops at least as fast as the transceiver
\* pushes: no backlog builds up (manager.hpp 311, 347-348).
NoBacklog == Len(tasks) <= 1

\* Tasks and messages are queued and taken in step: one task at most, and never
\* one without its message (manager.hpp 257-263, 311, 347-349; request.cpp 77).
QueuesInStep == NoBacklog /\ NoEmptyFront

\* A request is only given messages that were meant for it, never those of
\* an earlier request with the same id (request.hpp 106-118).
OwnMessagesOnly ==
  \A i \in requests : \A k \in DOMAIN messages[i] :
    messages[i][k].kind = "callback" => messages[i][k].of = gen[i]

\* terminate() makes handler() return only when no task, request or message
\* is left to serve (manager.hpp 313-324).
TerminateAbandonsNothing ==
  [][pc[Handler] = "h_checkterminate" /\ pc'[Handler] = "h_returned"
       => tasks = <<>> /\ requests = {} /\ mgrMessages = 0]_vars

\* A signal handler never waits for a mutex of the thread it interrupted
\* (manager.cpp 36-51, 14-15, 26-27).
SignalNeverWaitsForItself ==
  \A s \in Signals :
    /\ pc[s] = "c_flag"  => owner[FlagMutex(s)] # Handler
    /\ pc[s] = "c_sleep" => owner["sleep"] # Handler

Stopped == pc[Handler] \in {"h_returned", "h_crashed"}

\* A message queued for a request is taken from the queue in the end, unless
\* handler() has returned.
MessagesServed ==
  \A i \in Ids : messages[i] # <<>> ~> (messages[i] = <<>> \/ Stopped)

\* push() and stop()/terminate() return to their callers.
PushReturns    == \A w \in Workers : pc[w] # "idle" ~> pc[w] = "idle"
ControlReturns == \A c \in Controllers : pc[c] = "c_flag" ~> pc[c] = "done"
CallsReturn    == PushReturns /\ ControlReturns

\* A stop() makes handler() return (manager.hpp 75-80) ...
StopHonoured == stopBool ~> (~stopBool \/ Stopped)
\* ... at least when a byte in the wake-up socket keeps poll() from waiting.
WokenStopHonoured == stopBool /\ WakePending ~> (~stopBool \/ Stopped)
=============================================================================
