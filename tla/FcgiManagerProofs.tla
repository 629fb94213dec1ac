------------------------- MODULE FcgiManagerProofs -------------------------
(***************************************************************************)
(* Theorems about FcgiManager, for any set of threads and ids:             *)
(*                                                                         *)
(*   TypeCorrect            Spec => []TypeOK                               *)
(*   RequestsPinned         Spec => []RequestPinned                        *)
(*   WakeupsNotLost         Spec => []NoLostWakeup                         *)
(*                                                                         *)
(* for the process SCFF builds, where no thread but the one in handler()   *)
(* pushes (Workers = {}; stop() and terminate() may still come from any    *)
(* number of threads and signals):                                         *)
(*                                                                         *)
(*   BacklogBounded         Spec => []NoBacklog                            *)
(*   FrontNeverEmpty        Spec => []NoEmptyFront                         *)
(*   TasksAndMessages       Spec => []QueuesInStep                         *)
(*   TerminateIsClean       Spec => TerminateAbandonsNothing               *)
(*                                                                         *)
(* and, with any number of callback threads, as long as the web server     *)
(* sends no management records (MaxMgrRecords = 0):                        *)
(*                                                                         *)
(*   MessagesHaveTasks      Spec => []MessageHasTask                       *)
(***************************************************************************)
EXTENDS FcgiManager, FiniteSetTheorems, TLAPS

(***************************************************************************)
(* The first three follow from one inductive invariant, IInv.  TypeOK by   *)
(* itself is not inductive (PushCreate adds pushId[t] to requests, which   *)
(* ArgsOK keeps apart from the manager's own id), RequestPinned needs the  *)
(* shared lock to be held where the request is used (LocksOK), and         *)
(* NoLostWakeup needs to know what happens between the check of the task   *)
(* queue and poll(), and who holds sleepMutex there (WakeOK, LocksOK).     *)
(***************************************************************************)
\* What a thread inside push(), or the handler inside a request, works on is
\* the id of a request, not the manager's.
ArgsOK ==
  /\ \A t \in Threads :
       pc[t] \in {"p_requests", "p_messages", "p_tasks", "p_unique"} =>
         pushId[t] \in Ids
  /\ pc[Handler] \in {"h_run", "h_erase"} => task \in Ids

\* Where a thread relies on sleepMutex, or on the shared lock, it holds it.
HoldsSleep(t) ==
  pc[t] \in {"h_checktasks", "h_fallasleep", "h_clearasleep", "p_wake", "c_wake"}
HoldsShared(t) == pc[t] \in {"p_messages", "p_tasks", "h_run"}
LocksOK ==
  /\ \A t \in Threads : HoldsSleep(t) => owner["sleep"] = t
  /\ \A t \in Threads : HoldsShared(t) => t \in readers

\* A task that is queued once the handler has found the queue empty has a
\* thread that still has to look at asleep; asleep is false in poll() only
\* after a controller wrote a byte.
WakeOK ==
  /\ NoLostWakeup
  /\ pc[Handler] = "h_fallasleep" /\ tasks # <<>> =>
       \E w \in Workers : Waking(w)
  /\ pc[Handler] = "h_poll" /\ ~asleep => WakePending

IInv == TypeOK /\ ArgsOK /\ LocksOK /\ RequestPinned /\ WakeOK

LEMMA ThreadFacts ==
  /\ Handler \in Threads /\ Workers \subseteq Threads
  /\ Controllers \subseteq Threads
  /\ Handler \notin Workers /\ Handler \notin Controllers
  /\ Workers \cap Controllers = {}
  /\ Free \notin Threads
  /\ Mgr \notin Ids
BY ThreadsAssumption DEF Threads, Controllers

\* The initial states have their types.
LEMMA InitType == Init => TypeOK
<1> SUFFICES ASSUME Init
             PROVE  TypeOK
  OBVIOUS
<1>1. pc \in [Threads -> Labels]
  BY DEF Init, Labels
<1>2. pushMsg \in [Threads -> Message]
  BY DEF Init, NoMsg, Message, Record
<1>3. /\ messages \in [Ids -> Seq(Message)] /\ input \in [Ids -> Seq(Record)]
      /\ tasks \in Seq(Ids \cup {Mgr}) /\ view \in Seq(Ids \cup {Mgr})
  BY DEF Init
<1>4. wakeBytes \in 0..WakeCap
  BY BoundsAssumption DEF Init
<1>5. /\ pushId \in [Threads -> Ids \cup {Mgr}]
      /\ owner \in [Mutexes -> Threads \cup {Free}]
      /\ mesOwner \in [Ids -> Threads \cup {Free}]
      /\ gen \in [Ids -> Nat]
  BY DEF Init
<1>6. /\ readers \in SUBSET Threads /\ requests \in SUBSET Ids
      /\ open \in SUBSET Ids /\ task \in Ids \cup {Mgr}
      /\ mgrMessages \in Nat /\ mgrInput \in Nat
      /\ recordsSent \in Nat /\ mgrSent \in Nat /\ calls \in Nat
      /\ asleep \in BOOLEAN /\ stopBool \in BOOLEAN
      /\ terminateBool \in BOOLEAN /\ idle \in BOOLEAN
  BY DEF Init
<1> QED
  BY <1>1, <1>2, <1>3, <1>4, <1>5, <1>6 DEF TypeOK

\* A step keeps the types: one step per action, one per variable it changes.
LEMMA TypeStep == ASSUME TypeOK, ArgsOK, [Next]_vars
                 PROVE  TypeOK'
<1> USE ThreadFacts DEF TypeOK, At, Goto
<1>1. ASSUME NEW t \in {Handler} \cup Workers, PushFind(t)
      PROVE  TypeOK'
  <2>1. pc' \in [Threads -> Labels]
    <3>1. \E a \in {"p_messages", "p_unique", "p_sleep", "h_terminate", "idle"} :
             Goto(t, a)
      BY <1>1 DEF PushFind, AfterPush
    <3> QED
      BY <3>1 DEF Labels
  <2>2. readers' \in SUBSET Threads
    BY <1>1 DEF PushFind
  <2> QED
    BY <1>1, <2>1, <2>2
       DEF PushFind, args, locks, queues, table, flags, locals, server
<1>2. ASSUME NEW t \in {Handler} \cup Workers, PushMessage(t)
      PROVE  TypeOK'
  <2>1. pc' \in [Threads -> Labels]
    BY <1>2 DEF PushMessage, Labels
  <2>2. mesOwner' \in [Ids -> Threads \cup {Free}]
    BY <1>2 DEF PushMessage
  <2>3. messages' \in [Ids -> Seq(Message)]
    BY <1>2, ArgsOK DEF PushMessage, ArgsOK
  <2> QED
    BY <1>2, <2>1, <2>2, <2>3
       DEF PushMessage, args, locks, queues, table, flags, locals, server
<1>3. ASSUME NEW t \in {Handler} \cup Workers, PushTask(t)
      PROVE  TypeOK'
  <2>1. pc' \in [Threads -> Labels]
    BY <1>3 DEF PushTask, Labels
  <2>2. tasks' \in Seq(Ids \cup {Mgr})
    BY <1>3 DEF PushTask, QueueTask
  <2>3. mesOwner' \in [Ids -> Threads \cup {Free}]
    BY <1>3 DEF PushTask
  <2>4. readers' \in SUBSET Threads
    BY <1>3 DEF PushTask
  <2> QED
    BY <1>3, <2>1, <2>2, <2>3, <2>4
       DEF PushTask, args, locks, queues, table, flags, locals, server
<1>4. ASSUME NEW t \in {Handler} \cup Workers, PushCreate(t)
      PROVE  TypeOK'
  <2>1. pc' \in [Threads -> Labels]
    BY <1>4 DEF PushCreate, Labels
  <2>2. requests' \in SUBSET Ids
    BY <1>4, ArgsOK DEF PushCreate, ArgsOK
  <2>3. messages' \in [Ids -> Seq(Message)]
    BY <1>4, ArgsOK DEF PushCreate, ArgsOK
  <2>4. gen' \in [Ids -> Nat]
    BY <1>4, ArgsOK DEF PushCreate, ArgsOK
  <2> QED
    BY <1>4, <2>1, <2>2, <2>3, <2>4
       DEF PushCreate, args, locks, queues, table, flags, locals, server
<1>5. ASSUME NEW t \in {Handler} \cup Workers, PushManager(t)
      PROVE  TypeOK'
  <2>1. pc' \in [Threads -> Labels]
    BY <1>5 DEF PushManager, Labels
  <2>2. mgrMessages' \in Nat
    BY <1>5 DEF PushManager
  <2>3. view' \in Seq(Ids \cup {Mgr})
    BY <1>5 DEF PushManager
  <2> QED
    BY <1>5, <2>1, <2>2, <2>3
       DEF PushManager, args, locks, queues, table, flags, locals, server
<1>6. ASSUME NEW t \in {Handler} \cup Workers, PushManagerTask(t)
      PROVE  TypeOK'
  <2>1. pc' \in [Threads -> Labels]
    BY <1>6 DEF PushManagerTask, Labels
  <2>2. tasks' \in Seq(Ids \cup {Mgr})
    BY <1>6 DEF PushManagerTask
  <2>3. view' \in Seq(Ids \cup {Mgr})
    BY <1>6 DEF PushManagerTask
  <2> QED
    BY <1>6, <2>1, <2>2, <2>3
       DEF PushManagerTask, args, locks, queues, table, flags, locals, server
<1>7. ASSUME NEW t \in {Handler} \cup Workers, PushSleep(t)
      PROVE  TypeOK'
  <2>1. pc' \in [Threads -> Labels]
    <3>1. \/ Goto(t, "p_wake") \/ Goto(t, "h_terminate") \/ Goto(t, "idle")
      BY <1>7 DEF PushSleep, AfterPush
    <3> QED
      BY <3>1 DEF Labels
  <2>2. owner' \in [Mutexes -> Threads \cup {Free}]
    BY <1>7 DEF PushSleep, Acquire, Mutexes
  <2> QED
    BY <1>7, <2>1, <2>2
       DEF PushSleep, args, locks, queues, table, flags, locals, server
<1>8. ASSUME NEW t \in {Handler} \cup Workers, PushWake(t)
      PROVE  TypeOK'
  <2>1. pc' \in [Threads -> Labels]
    BY <1>8 DEF PushWake, AfterPush, Labels
  <2>2. owner' \in [Mutexes -> Threads \cup {Free}]
    BY <1>8 DEF PushWake, Release, Mutexes
  <2>3. wakeBytes' \in 0..WakeCap
    BY <1>8, BoundsAssumption DEF PushWake
  <2> QED
    BY <1>8, <2>1, <2>2, <2>3
       DEF PushWake, args, locks, queues, table, flags, locals, server
<1>9. ASSUME NEW w \in Workers, PushCall(w)
      PROVE  TypeOK'
  <2>1. pc' \in [Threads -> Labels]
    BY <1>9 DEF PushCall, Labels
  <2>2. pushId' \in [Threads -> Ids \cup {Mgr}]
    BY <1>9 DEF PushCall
  <2>3. pushMsg' \in [Threads -> Message]
    BY <1>9 DEF PushCall, Message
  <2>4. calls' \in Nat
    BY <1>9 DEF PushCall
  <2> QED
    BY <1>9, <2>1, <2>2, <2>3, <2>4
       DEF PushCall, args, locks, queues, table, flags, locals, server
<1>10. CASE LockStop
  <2>1. pc' \in [Threads -> Labels]
    BY <1>10 DEF LockStop, Labels
  <2>2. owner' \in [Mutexes -> Threads \cup {Free}]
    BY <1>10 DEF LockStop, Acquire, Mutexes
  <2> QED
    BY <1>10, <2>1, <2>2
       DEF LockStop, args, locks, queues, table, flags, locals, server
<1>11. CASE CheckStop
  <2>1. pc' \in [Threads -> Labels]
    BY <1>11 DEF CheckStop, Labels
  <2>2. owner' \in [Mutexes -> Threads \cup {Free}]
    BY <1>11 DEF CheckStop, Release, Mutexes
  <2> QED
    BY <1>11, <2>1, <2>2
       DEF CheckStop, args, locks, queues, table, flags, locals, server
<1>12. CASE TransceiverIdle
  <2>1. pc' \in [Threads -> Labels]
    BY <1>12 DEF TransceiverIdle, Labels
  <2> QED
    BY <1>12, <2>1
       DEF TransceiverIdle, args, locks, queues, table, flags, locals, server
<1>13. CASE TransceiverDrain
  <2>1. pc' \in [Threads -> Labels]
    BY <1>13 DEF TransceiverDrain, Labels
  <2>2. wakeBytes' \in 0..WakeCap
    BY <1>13, BoundsAssumption DEF TransceiverDrain, WakePending
  <2> QED
    BY <1>13, <2>1, <2>2
       DEF TransceiverDrain, args, locks, queues, table, flags, locals, server
<1>14. CASE TransceiverRecord
  <2>1. pc' \in [Threads -> Labels]
    BY <1>14 DEF TransceiverRecord, Labels
  <2>2. pushId' \in [Threads -> Ids \cup {Mgr}]
    BY <1>14 DEF TransceiverRecord
  <2>3. pushMsg' \in [Threads -> Message]
    BY <1>14 DEF TransceiverRecord, Message, Record
  <2>4. input' \in [Ids -> Seq(Record)]
    BY <1>14 DEF TransceiverRecord
  <2> QED
    BY <1>14, <2>1, <2>2, <2>3, <2>4
       DEF TransceiverRecord, args, locks, queues, table, flags, locals, server
<1>15. CASE TransceiverMgrRecord
  <2>1. pc' \in [Threads -> Labels]
    BY <1>15 DEF TransceiverMgrRecord, Labels
  <2>2. mgrInput' \in Nat
    BY <1>15 DEF TransceiverMgrRecord
  <2> QED
    BY <1>15, <2>1, <2>2
       DEF TransceiverMgrRecord, args, locks, queues, table, flags, locals, server
<1>16. CASE LockTerminate
  <2>1. pc' \in [Threads -> Labels]
    BY <1>16 DEF LockTerminate, Labels
  <2>2. owner' \in [Mutexes -> Threads \cup {Free}]
    BY <1>16 DEF LockTerminate, Acquire, Mutexes
  <2> QED
    BY <1>16, <2>1, <2>2
       DEF LockTerminate, args, locks, queues, table, flags, locals, server
<1>17. CASE CheckTerminate
  <2>1. pc' \in [Threads -> Labels]
    <3>1. Goto(Handler, "h_returned") \/ Goto(Handler, "h_tasks")
      BY <1>17 DEF CheckTerminate
    <3> QED
      BY <3>1 DEF Labels
  <2>2. owner' \in [Mutexes -> Threads \cup {Free}]
    BY <1>17 DEF CheckTerminate, Release, Mutexes
  <2> QED
    BY <1>17, <2>1, <2>2
       DEF CheckTerminate, args, locks, queues, table, flags, locals, server
<1>18. CASE LockTasks
  <2>1. pc' \in [Threads -> Labels]
    BY <1>18 DEF LockTasks, Labels
  <2>2. owner' \in [Mutexes -> Threads \cup {Free}]
    BY <1>18 DEF LockTasks, Acquire, Mutexes
  <2> QED
    BY <1>18, <2>1, <2>2
       DEF LockTasks, args, locks, queues, table, flags, locals, server
<1>19. CASE LockSleep
  <2>1. pc' \in [Threads -> Labels]
    BY <1>19 DEF LockSleep, Labels
  <2>2. owner' \in [Mutexes -> Threads \cup {Free}]
    BY <1>19 DEF LockSleep, Acquire, Mutexes
  <2> QED
    BY <1>19, <2>1, <2>2
       DEF LockSleep, args, locks, queues, table, flags, locals, server
<1>20. CASE NoTask
  <2>1. pc' \in [Threads -> Labels]
    BY <1>20 DEF NoTask, Labels
  <2>2. owner' \in [Mutexes -> Threads \cup {Free}]
    BY <1>20 DEF NoTask, UnlockTasks, Release, Mutexes
  <2> QED
    BY <1>20, <2>1, <2>2
       DEF NoTask, args, locks, queues, table, flags, locals, server
<1>21. CASE FallAsleep
  <2>1. pc' \in [Threads -> Labels]
    BY <1>21 DEF FallAsleep, Labels
  <2>2. owner' \in [Mutexes -> Threads \cup {Free}]
    BY <1>21 DEF FallAsleep, Release, Mutexes
  <2> QED
    BY <1>21, <2>1, <2>2
       DEF FallAsleep, args, locks, queues, table, flags, locals, server
<1>22. CASE PopTask
  <2>1. pc' \in [Threads -> Labels]
    BY <1>22 DEF PopTask, Labels
  <2>2. owner' \in [Mutexes -> Threads \cup {Free}]
    BY <1>22 DEF PopTask, Mutexes
  <2>3. task' \in Ids \cup {Mgr}
    BY <1>22 DEF PopTask
  <2>4. tasks' \in Seq(Ids \cup {Mgr})
    BY <1>22 DEF PopTask
  <2> QED
    BY <1>22, <2>1, <2>2, <2>3, <2>4
       DEF PopTask, args, locks, queues, table, flags, locals, server
<1>23. CASE PollReturn
  <2>1. pc' \in [Threads -> Labels]
    BY <1>23 DEF PollReturn, Labels
  <2> QED
    BY <1>23, <2>1
       DEF PollReturn, args, locks, queues, table, flags, locals, server
<1>24. CASE LockAwake
  <2>1. pc' \in [Threads -> Labels]
    BY <1>24 DEF LockAwake, Labels
  <2>2. owner' \in [Mutexes -> Threads \cup {Free}]
    BY <1>24 DEF LockAwake, Acquire, Mutexes
  <2> QED
    BY <1>24, <2>1, <2>2
       DEF LockAwake, args, locks, queues, table, flags, locals, server
<1>25. CASE ClearAsleep
  <2>1. pc' \in [Threads -> Labels]
    BY <1>25 DEF ClearAsleep, Labels
  <2>2. owner' \in [Mutexes -> Threads \cup {Free}]
    BY <1>25 DEF ClearAsleep, AwakeUnlocksSleep, Release, Mutexes
  <2> QED
    BY <1>25, <2>1, <2>2
       DEF ClearAsleep, args, locks, queues, table, flags, locals, server
<1>26. CASE LocalHandler
  <2>1. pc' \in [Threads -> Labels]
    <3>1. Goto(Handler, "h_crashed") \/ Goto(Handler, "h_stop")
      BY <1>26 DEF LocalHandler
    <3> QED
      BY <3>1 DEF Labels
  <2>2. mgrMessages' \in Nat
    BY <1>26 DEF LocalHandler
  <2> QED
    BY <1>26, <2>1, <2>2
       DEF LocalHandler, args, locks, queues, table, flags, locals, server
<1>27. CASE FindRequest
  <2>1. pc' \in [Threads -> Labels]
    <3>1. Goto(Handler, "h_run") \/ Goto(Handler, "h_stop")
      BY <1>27 DEF FindRequest
    <3> QED
      BY <3>1 DEF Labels
  <2>2. readers' \in SUBSET Threads
    BY <1>27 DEF FindRequest
  <2> QED
    BY <1>27, <2>1, <2>2
       DEF FindRequest, args, locks, queues, table, flags, locals, server
<1>28. CASE RunRequest
  <2>1. pc' \in [Threads -> Labels]
    <3>1. \/ Goto(Handler, "h_crashed") \/ Goto(Handler, "h_stop")
          \/ Goto(Handler, "h_erase")
      BY <1>28 DEF RunRequest, Serve
    <3> QED
      BY <3>1 DEF Labels
  <2>2. readers' \in SUBSET Threads
    BY <1>28 DEF RunRequest
  <2>3. messages' \in [Ids -> Seq(Message)]
    <3>1. CASE messages[task] = <<>>
      BY <1>28, <3>1 DEF RunRequest
    <3>2. CASE messages[task] # <<>>
      <4>1. task \in Ids /\ messages[task] \in Seq(Message)
        BY <1>28, ArgsOK DEF RunRequest, ArgsOK
      <4>2. Tail(messages[task]) \in Seq(Message)
        BY <3>2, <4>1
      <4> QED
        BY <1>28, <3>2, <4>1, <4>2 DEF RunRequest
    <3> QED
      BY <3>1, <3>2
  <2>4. open' \in SUBSET Ids
    BY <1>28 DEF RunRequest, Serve
  <2> QED
    BY <1>28, <2>1, <2>2, <2>3, <2>4
       DEF RunRequest, args, locks, queues, table, flags, locals, server
<1>29. CASE EraseRequest
  <2>1. pc' \in [Threads -> Labels]
    BY <1>29 DEF EraseRequest, Labels
  <2>2. requests' \in SUBSET Ids
    BY <1>29 DEF EraseRequest
  <2>3. messages' \in [Ids -> Seq(Message)]
    <3>1. <<>> \in Seq(Message)
      OBVIOUS
    <3> QED
      BY <1>29, <3>1 DEF EraseRequest
  <2> QED
    BY <1>29, <2>1, <2>2, <2>3
       DEF EraseRequest, args, locks, queues, table, flags, locals, server
<1>30. CASE Recall
  <2>1. pc' \in [Threads -> Labels]
    BY <1>30 DEF Recall, Labels
  <2> QED
    BY <1>30, <2>1
       DEF Recall, args, locks, queues, table, flags, locals, server
<1>31. ASSUME NEW c \in Controllers, ControlCall(c)
       PROVE  TypeOK'
  <2>1. pc' \in [Threads -> Labels]
    BY <1>31 DEF ControlCall, Labels
  <2> QED
    BY <1>31, <2>1
       DEF ControlCall, args, locks, queues, table, flags, locals, server
<1>32. ASSUME NEW c \in Controllers, ControlLock(c)
       PROVE  TypeOK'
  <2>1. pc' \in [Threads -> Labels]
    BY <1>32 DEF ControlLock, Labels
  <2>2. owner' \in [Mutexes -> Threads \cup {Free}]
    BY <1>32 DEF ControlLock, Acquire, FlagMutex, Mutexes
  <2> QED
    BY <1>32, <2>1, <2>2
       DEF ControlLock, args, locks, queues, table, flags, locals, server
<1>33. ASSUME NEW c \in Controllers, ControlSet(c)
       PROVE  TypeOK'
  <2>1. pc' \in [Threads -> Labels]
    BY <1>33 DEF ControlSet, Labels
  <2>2. owner' \in [Mutexes -> Threads \cup {Free}]
    BY <1>33 DEF ControlSet, Acquire, Mutexes
  <2> QED
    BY <1>33, <2>1, <2>2
       DEF ControlSet, args, locks, queues, table, flags, locals, server
<1>34. ASSUME NEW c \in Controllers, ControlWake(c)
       PROVE  TypeOK'
  <2>1. pc' \in [Threads -> Labels]
    BY <1>34 DEF ControlWake, Labels
  <2>2. owner' \in [Mutexes -> Threads \cup {Free}]
    BY <1>34 DEF ControlWake, UnlockControl, FlagMutex, Mutexes
  <2>3. wakeBytes' \in 0..WakeCap
    BY <1>34, BoundsAssumption DEF ControlWake
  <2> QED
    BY <1>34, <2>1, <2>2, <2>3
       DEF ControlWake, args, locks, queues, table, flags, locals, server
<1>35. ASSUME NEW i \in Ids, ServerSend(i)
       PROVE  TypeOK'
  <2>1. input' \in [Ids -> Seq(Record)]
    <3>1. PICK k \in Record : input' = [input EXCEPT ![i] = Append(@, k)]
      BY <1>35 DEF ServerSend, Record
    <3>2. Append(input[i], k) \in Seq(Record)
      OBVIOUS
    <3> QED
      BY <3>1, <3>2
  <2>2. open' \in SUBSET Ids
    BY <1>35 DEF ServerSend
  <2>3. recordsSent' \in Nat
    BY <1>35 DEF ServerSend
  <2> QED
    BY <1>35, <2>1, <2>2, <2>3
       DEF ServerSend, args, locks, queues, table, flags, locals, server
<1>36. CASE ServerQuery
  <2>1. mgrInput' \in Nat
    BY <1>36 DEF ServerQuery
  <2>2. mgrSent' \in Nat
    BY <1>36 DEF ServerQuery
  <2> QED
    BY <1>36, <2>1, <2>2
       DEF ServerQuery, args, locks, queues, table, flags, locals, server
<1>37. CASE UNCHANGED vars
  BY <1>37 DEF vars, args, locks, queues, table, flags, locals, server
<1> QED
  BY <1>1, <1>2, <1>3, <1>4, <1>5, <1>6, <1>7, <1>8, <1>9, <1>10,
     <1>11, <1>12, <1>13, <1>14, <1>15, <1>16, <1>17, <1>18, <1>19,
     <1>20, <1>21, <1>22, <1>23, <1>24, <1>25, <1>26, <1>27, <1>28,
     <1>29, <1>30, <1>31, <1>32, <1>33, <1>34, <1>35, <1>36, <1>37
     DEF Next, HandlerStep, Push, Control

\* A step keeps the rest of the invariant: one step per action.
LEMMA SafetyStep ==
  ASSUME IInv, [Next]_vars
  PROVE  (ArgsOK /\ LocksOK /\ RequestPinned /\ WakeOK)'
<1>t. /\ pc \in [Threads -> Labels]
      /\ pushId \in [Threads -> Ids \cup {Mgr}]
      /\ owner \in [Mutexes -> Threads \cup {Free}]
      /\ readers \in SUBSET Threads
      /\ tasks \in Seq(Ids \cup {Mgr})
      /\ task \in Ids \cup {Mgr}
      /\ wakeBytes \in Nat
  BY BoundsAssumption DEF IInv, TypeOK
<1>m. {"stop", "terminate", "tasks", "sleep"} \subseteq Mutexes
  BY DEF Mutexes
<1>i. ArgsOK /\ LocksOK /\ RequestPinned /\ WakeOK
  BY DEF IInv
<1> USE ThreadFacts, <1>t, <1>m, <1>i
    DEF At, Goto, Acquire, Release, Waking, HoldsSleep, HoldsShared, ArgsOK,
        LocksOK, RequestPinned, WakeOK, NoLostWakeup, WakePending, args, locks,
        queues, table, flags, locals, server
<1>1. ASSUME NEW t \in {Handler} \cup Workers, PushFind(t)
      PROVE  (ArgsOK /\ LocksOK /\ RequestPinned /\ WakeOK)'
  BY <1>1 DEF PushFind, AfterPush
<1>2. ASSUME NEW t \in {Handler} \cup Workers, PushMessage(t)
      PROVE  (ArgsOK /\ LocksOK /\ RequestPinned /\ WakeOK)'
  BY <1>2 DEF PushMessage
<1>3. ASSUME NEW t \in {Handler} \cup Workers, PushTask(t)
      PROVE  (ArgsOK /\ LocksOK /\ RequestPinned /\ WakeOK)'
  BY <1>3 DEF PushTask, QueueTask
<1>4. ASSUME NEW t \in {Handler} \cup Workers, PushCreate(t)
      PROVE  (ArgsOK /\ LocksOK /\ RequestPinned /\ WakeOK)'
  BY <1>4 DEF PushCreate, NoReaders
<1>5. ASSUME NEW t \in {Handler} \cup Workers, PushManager(t)
      PROVE  (ArgsOK /\ LocksOK /\ RequestPinned /\ WakeOK)'
  BY <1>5 DEF PushManager
<1>6. ASSUME NEW t \in {Handler} \cup Workers, PushManagerTask(t)
      PROVE  (ArgsOK /\ LocksOK /\ RequestPinned /\ WakeOK)'
  BY <1>6 DEF PushManagerTask
<1>7. ASSUME NEW t \in {Handler} \cup Workers, PushSleep(t)
      PROVE  (ArgsOK /\ LocksOK /\ RequestPinned /\ WakeOK)'
  BY <1>7 DEF PushSleep, AfterPush
<1>8. ASSUME NEW t \in {Handler} \cup Workers, PushWake(t)
      PROVE  (ArgsOK /\ LocksOK /\ RequestPinned /\ WakeOK)'
  BY <1>8 DEF PushWake, AfterPush
<1>9. ASSUME NEW w \in Workers, PushCall(w)
      PROVE  (ArgsOK /\ LocksOK /\ RequestPinned /\ WakeOK)'
  BY <1>9 DEF PushCall
<1>10. CASE LockStop
  BY <1>10 DEF LockStop
<1>11. CASE CheckStop
  BY <1>11 DEF CheckStop
<1>12. CASE TransceiverIdle
  BY <1>12 DEF TransceiverIdle
<1>13. CASE TransceiverDrain
  BY <1>13 DEF TransceiverDrain
<1>14. CASE TransceiverRecord
  BY <1>14 DEF TransceiverRecord
<1>15. CASE TransceiverMgrRecord
  BY <1>15 DEF TransceiverMgrRecord
<1>16. CASE LockTerminate
  BY <1>16 DEF LockTerminate
<1>17. CASE CheckTerminate
  BY <1>17 DEF CheckTerminate
<1>18. CASE LockTasks
  BY <1>18 DEF LockTasks
<1>19. CASE LockSleep
  BY <1>19 DEF LockSleep
<1>20. CASE NoTask
  BY <1>20 DEF NoTask, UnlockTasks
<1>21. CASE FallAsleep
  BY <1>21 DEF FallAsleep
<1>22. CASE PopTask
  BY <1>22 DEF PopTask
<1>23. CASE PollReturn
  BY <1>23 DEF PollReturn
<1>24. CASE LockAwake
  BY <1>24 DEF LockAwake
<1>25. CASE ClearAsleep
  BY <1>25 DEF ClearAsleep, AwakeUnlocksSleep
<1>26. CASE LocalHandler
  BY <1>26 DEF LocalHandler
<1>27. CASE FindRequest
  BY <1>27 DEF FindRequest
<1>28. CASE RunRequest
  BY <1>28 DEF RunRequest, Serve
<1>29. CASE EraseRequest
  BY <1>29 DEF EraseRequest, NoReaders
<1>30. CASE Recall
  BY <1>30 DEF Recall
<1>31. ASSUME NEW c \in Controllers, ControlCall(c)
       PROVE  (ArgsOK /\ LocksOK /\ RequestPinned /\ WakeOK)'
  BY <1>31 DEF ControlCall
<1>32. ASSUME NEW c \in Controllers, ControlLock(c)
       PROVE  (ArgsOK /\ LocksOK /\ RequestPinned /\ WakeOK)'
  BY <1>32 DEF ControlLock, FlagMutex
<1>33. ASSUME NEW c \in Controllers, ControlSet(c)
       PROVE  (ArgsOK /\ LocksOK /\ RequestPinned /\ WakeOK)'
  BY <1>33 DEF ControlSet
<1>34. ASSUME NEW c \in Controllers, ControlWake(c)
       PROVE  (ArgsOK /\ LocksOK /\ RequestPinned /\ WakeOK)'
  <2> USE <1>34 DEF ControlWake, UnlockControl, FlagMutex
  <2>1. ArgsOK'
    OBVIOUS
  <2>2. LocksOK'
    OBVIOUS
  <2>3. RequestPinned'
    OBVIOUS
  <2>4. WakeOK'
    OBVIOUS
  <2> QED
    BY <2>1, <2>2, <2>3, <2>4
<1>35. ASSUME NEW i \in Ids, ServerSend(i)
       PROVE  (ArgsOK /\ LocksOK /\ RequestPinned /\ WakeOK)'
  BY <1>35 DEF ServerSend
<1>36. CASE ServerQuery
  BY <1>36 DEF ServerQuery
<1>37. CASE UNCHANGED vars
  BY <1>37 DEF vars
<1> QED
  BY <1>1, <1>2, <1>3, <1>4, <1>5, <1>6, <1>7, <1>8, <1>9, <1>10,
     <1>11, <1>12, <1>13, <1>14, <1>15, <1>16, <1>17, <1>18, <1>19,
     <1>20, <1>21, <1>22, <1>23, <1>24, <1>25, <1>26, <1>27, <1>28,
     <1>29, <1>30, <1>31, <1>32, <1>33, <1>34, <1>35, <1>36, <1>37
     DEF Next, HandlerStep, Push, Control

LEMMA Invariance == Spec => []IInv
<1>1. Init => IInv
  <2> SUFFICES ASSUME Init
               PROVE  IInv
    OBVIOUS
  <2>1. /\ \A t \in Threads : pc[t] \in {"h_stop", "idle"}
        /\ pc[Handler] = "h_stop"
    BY ThreadFacts DEF Init
  <2>2. ArgsOK /\ LocksOK /\ RequestPinned /\ WakeOK
    BY <2>1, ThreadFacts DEF ArgsOK, LocksOK, HoldsSleep, HoldsShared,
       RequestPinned, WakeOK, NoLostWakeup
  <2> QED
    BY <2>2, InitType DEF IInv
<1>2. IInv /\ [Next]_vars => IInv'
  BY TypeStep, SafetyStep DEF IInv
<1> QED
  BY <1>1, <1>2, PTL DEF Spec

\* Every variable keeps its type: no label, queue entry or lock owner out of
\* range is ever produced, and the wake-up socket never holds more than fits
\* (push, handler, stop and terminate in manager.hpp and manager.cpp).
THEOREM TypeCorrect == Spec => []TypeOK
<1>1. IInv => TypeOK
  BY DEF IInv
<1> QED
  BY Invariance, <1>1, PTL

\* However many threads call back, no request is erased under a thread that
\* has found it in the map (manager.hpp 255-263, 355-362).
THEOREM RequestsPinned == Spec => []RequestPinned
<1>1. IInv => RequestPinned
  BY DEF IInv
<1> QED
  BY Invariance, <1>1, PTL

\* However many threads call back, stop and terminate, the handler is never
\* left in poll() with a task queued and nobody about to wake it (manager.hpp
\* 288-290 against 326-340).
THEOREM WakeupsNotLost == Spec => []NoLostWakeup
<1>1. IInv => NoLostWakeup
  BY DEF IInv, WakeOK
<1> QED
  BY Invariance, <1>1, PTL

-----------------------------------------------------------------------------
(***************************************************************************)
(* One thread.  With callback threads a backlog builds up and the front of *)
(* a queue may be missing (ManagerStaleTask.cfg); what makes the theorems  *)
(* true without them is that a pass of the loop pushes at most one task    *)
(* and pops it in the same pass (QueueOK), that the message of that task   *)
(* is still there when it is popped (FrontOK, CountOK), and that a pass    *)
(* which found the transceiver idle pushed nothing (IdleOK).               *)
(***************************************************************************)
Pushing ==
  {"p_requests", "p_messages", "p_tasks", "p_unique", "p_manager",
   "p_mgrtask", "p_sleep", "p_wake"}

\* Where in the loop the task pushed in this pass may still be queued.
BeforePop ==
  {"p_sleep", "p_wake", "h_terminate", "h_checkterminate", "h_tasks",
   "h_sleep", "h_checktasks"}

QueueOK ==
  /\ tasks = <<>> \/ \E i \in Ids \cup {Mgr} : tasks = <<i>>
  /\ tasks # <<>> => pc[Handler] \in BeforePop
  /\ pc[Handler] = "p_mgrtask" => view = <<>>

IdleOK ==
  /\ pc[Handler] \in Pushing => ~idle
  /\ pc[Handler] \in {"h_terminate", "h_checkterminate"} /\ idle => tasks = <<>>

\* Whoever has a task, the message is there.
FrontOK ==
  /\ pc[Handler] = "p_tasks" => messages[pushId[Handler]] # <<>>
  /\ \A i \in Ids : tasks = <<i>> => messages[i] # <<>>
  /\ pc[Handler] \in {"h_dispatch", "h_run"} /\ task \in Ids =>
       messages[task] # <<>>

MgrTaskPending ==
  \/ pc[Handler] = "p_mgrtask"
  \/ tasks = <<Mgr>>
  \/ pc[Handler] = "h_dispatch" /\ task = Mgr
CountOK ==
  /\ MgrTaskPending  => mgrMessages = 1
  /\ ~MgrTaskPending => mgrMessages = 0

SingleInv == QueueOK /\ IdleOK /\ FrontOK /\ CountOK /\ NoEmptyFront

LEMMA OneTask ==
  ASSUME NEW S, NEW x \in S, NEW s \in Seq(S)
  PROVE  /\ Append(<<>>, x) = <<x>> /\ Append(s, x) # <<>>
         /\ <<x>> # <<>> /\ Len(<<x>>) = 1
         /\ Head(<<x>>) = x /\ Tail(<<x>>) = <<>>
         /\ \A y \in S : <<x>> = <<y>> => x = y
<1>1. Append(<<>>, x) = <<x>>
  OBVIOUS
<1>2. Append(s, x) # <<>>
  <2>1. Len(Append(s, x)) = Len(s) + 1 /\ Len(s) \in Nat /\ Len(<<>>) = 0
    OBVIOUS
  <2> QED
    BY <2>1
<1>3. <<x>> # <<>> /\ Len(<<x>>) = 1
  OBVIOUS
<1>4. Head(<<x>>) = x
  OBVIOUS
<1>5. Tail(<<x>>) = <<>>
  OBVIOUS
<1>6. \A y \in S : <<x>> = <<y>> => x = y
  OBVIOUS
<1> QED
  BY <1>1, <1>2, <1>3, <1>4, <1>5, <1>6

\* A step keeps the invariant: one step per action.
LEMMA SingleStep ==
  ASSUME Workers = {}, IInv, SingleInv, [Next]_vars
  PROVE  SingleInv'
<1>t. /\ pc \in [Threads -> Labels]
      /\ pushId \in [Threads -> Ids \cup {Mgr}]
      /\ tasks \in Seq(Ids \cup {Mgr})
      /\ messages \in [Ids -> Seq(Message)]
      /\ task \in Ids \cup {Mgr}
      /\ mgrMessages \in Nat
      /\ idle \in BOOLEAN
      /\ Handler \in Threads /\ Mgr \notin Ids /\ Handler \notin Controllers
  BY ThreadFacts DEF IInv, TypeOK
<1>p. pushMsg[Handler] \in Message
  BY ThreadFacts DEF IInv, TypeOK
<1>a. ArgsOK /\ SingleInv
  BY DEF IInv
<1> USE <1>t, <1>a
    DEF At, Goto, ArgsOK, Pushing, BeforePop, SingleInv, QueueOK, IdleOK,
        FrontOK, CountOK, MgrTaskPending, NoEmptyFront, args, locks, queues,
        table, flags, locals, server
<1>1. CASE PushFind(Handler)
  BY <1>1 DEF PushFind, AfterPush
<1>2. CASE PushMessage(Handler)
  <2>1. tasks = <<>> /\ tasks' = <<>> /\ mgrMessages' = mgrMessages /\ ~idle'
    BY <1>2 DEF PushMessage
  <2>2. pc'[Handler] = "p_tasks" /\ pushId' = pushId /\ view' = view
    BY <1>2 DEF PushMessage
  <2>3. /\ pushId[Handler] \in Ids
        /\ messages' = [messages EXCEPT ![pushId[Handler]] =
                          Append(messages[pushId[Handler]], pushMsg[Handler])]
    BY <1>2 DEF PushMessage
  <2>4. Append(messages[pushId[Handler]], pushMsg[Handler]) # <<>>
    BY <2>3, OneTask, <1>p
  <2> QED
    BY <1>2, <2>1, <2>2, <2>3, <2>4 DEF PushMessage
<1>3. CASE PushTask(Handler)
  <2>1. tasks = <<>> /\ pushId[Handler] \in Ids /\ tasks' = <<pushId[Handler]>>
    BY <1>3, OneTask DEF PushTask, QueueTask
  <2>2. pushId[Handler] # Mgr /\ <<pushId[Handler]>> # <<Mgr>>
    BY <2>1
  <2>3. pc'[Handler] = "p_sleep" /\ UNCHANGED <<messages, idle, mgrMessages, view>>
    BY <1>3 DEF PushTask
  <2> QED
    BY <1>3, <2>1, <2>2, <2>3 DEF PushTask
<1>4. CASE PushCreate(Handler)
  <2>1. tasks = <<>> /\ tasks' = <<>> /\ ~idle' /\ pc'[Handler] = "p_sleep"
    BY <1>4 DEF PushCreate
  <2>2. UNCHANGED <<mgrMessages, view>>
    BY <1>4 DEF PushCreate
  <2> QED
    BY <1>4, <2>1, <2>2 DEF PushCreate
<1>5. CASE PushManager(Handler)
  <2>1. tasks = <<>> /\ UNCHANGED <<tasks, idle>> /\ pc'[Handler] = "p_mgrtask"
    BY <1>5 DEF PushManager
  <2>2. mgrMessages = 0 /\ mgrMessages' = 1 /\ view' = <<>>
    BY <1>5, <2>1 DEF PushManager
  <2> QED
    BY <1>5, <2>1, <2>2 DEF PushManager
<1>6. CASE PushManagerTask(Handler)
  BY <1>6 DEF PushManagerTask
<1>7. CASE PushSleep(Handler)
  BY <1>7 DEF PushSleep, AfterPush
<1>8. CASE PushWake(Handler)
  BY <1>8 DEF PushWake, AfterPush
<1>10. CASE LockStop
  BY <1>10 DEF LockStop
<1>11. CASE CheckStop
  BY <1>11 DEF CheckStop
<1>12. CASE TransceiverIdle
  BY <1>12 DEF TransceiverIdle
<1>13. CASE TransceiverDrain
  BY <1>13 DEF TransceiverDrain
<1>14. CASE TransceiverRecord
  BY <1>14 DEF TransceiverRecord
<1>15. CASE TransceiverMgrRecord
  BY <1>15 DEF TransceiverMgrRecord
<1>16. CASE LockTerminate
  BY <1>16 DEF LockTerminate
<1>17. CASE CheckTerminate
  BY <1>17 DEF CheckTerminate, MayTerminate
<1>18. CASE LockTasks
  BY <1>18 DEF LockTasks
<1>19. CASE LockSleep
  BY <1>19 DEF LockSleep
<1>20. CASE NoTask
  BY <1>20 DEF NoTask
<1>21. CASE FallAsleep
  BY <1>21 DEF FallAsleep
<1>22. CASE PopTask
  <2>1. PICK i \in Ids \cup {Mgr} : tasks = <<i>>
    BY <1>22 DEF PopTask
  <2>2. task' = i /\ tasks' = <<>> /\ pc'[Handler] = "h_dispatch"
    BY <1>22, <2>1, OneTask DEF PopTask
  <2>3. UNCHANGED <<messages, mgrMessages, view>>
    BY <1>22 DEF PopTask
  <2>4. <<i>> = <<Mgr>> <=> i = Mgr
    OBVIOUS
  <2> QED
    BY <1>22, <2>1, <2>2, <2>3, <2>4 DEF PopTask
<1>23. CASE PollReturn
  BY <1>23 DEF PollReturn
<1>24. CASE LockAwake
  BY <1>24 DEF LockAwake
<1>25. CASE ClearAsleep
  BY <1>25 DEF ClearAsleep
<1>26. CASE LocalHandler
  <2>1. tasks = <<>> /\ tasks' = <<>> /\ mgrMessages = 1
    BY <1>26 DEF LocalHandler
  <2>2. mgrMessages' = 0 /\ pc'[Handler] = "h_stop"
    BY <1>26, <2>1 DEF LocalHandler
  <2> QED
    BY <1>26, <2>1, <2>2 DEF LocalHandler
<1>27. CASE FindRequest
  BY <1>27 DEF FindRequest
<1>28. CASE RunRequest
  BY <1>28 DEF RunRequest, Serve
<1>29. CASE EraseRequest
  <2>1. tasks = <<>> /\ tasks' = <<>> /\ pc'[Handler] = "h_stop"
    BY <1>29 DEF EraseRequest
  <2> QED
    BY <1>29, <2>1 DEF EraseRequest
<1>30. CASE Recall
  BY <1>30 DEF Recall
<1>31. ASSUME NEW c \in Controllers, ControlCall(c)
       PROVE  SingleInv'
  BY <1>31 DEF ControlCall
<1>32. ASSUME NEW c \in Controllers, ControlLock(c)
       PROVE  SingleInv'
  BY <1>32 DEF ControlLock
<1>33. ASSUME NEW c \in Controllers, ControlSet(c)
       PROVE  SingleInv'
  BY <1>33 DEF ControlSet
<1>34. ASSUME NEW c \in Controllers, ControlWake(c)
       PROVE  SingleInv'
  BY <1>34 DEF ControlWake
<1>35. ASSUME NEW i \in Ids, ServerSend(i)
       PROVE  SingleInv'
  BY <1>35 DEF ServerSend
<1>36. CASE ServerQuery
  BY <1>36 DEF ServerQuery
<1>37. CASE UNCHANGED vars
  BY <1>37 DEF vars
<1> QED
  BY <1>1, <1>2, <1>3, <1>4, <1>5, <1>6, <1>7, <1>8, <1>10,
     <1>11, <1>12, <1>13, <1>14, <1>15, <1>16, <1>17, <1>18, <1>19,
     <1>20, <1>21, <1>22, <1>23, <1>24, <1>25, <1>26, <1>27, <1>28,
     <1>29, <1>30, <1>31, <1>32, <1>33, <1>34, <1>35, <1>36, <1>37
     DEF Next, HandlerStep, Push, Control

LEMMA SingleInvariance == ASSUME Workers = {} PROVE Spec => []SingleInv
<1>1. Init => SingleInv
  BY ThreadFacts DEF Init, SingleInv, QueueOK, IdleOK, FrontOK, CountOK,
     MgrTaskPending, NoEmptyFront, Pushing, BeforePop
<1>2. IInv /\ SingleInv /\ [Next]_vars => SingleInv'
  BY SingleStep
<1> QED
  BY <1>1, <1>2, Invariance, PTL DEF Spec

\* However many records come, at most one task is ever queued (manager.hpp
\* 311, 347-348).
THEOREM BacklogBounded == ASSUME Workers = {} PROVE Spec => []NoBacklog
<1>1. SingleInv => NoBacklog
  <2> SUFFICES ASSUME SingleInv
               PROVE  Len(tasks) <= 1
    BY DEF NoBacklog
  <2>1. CASE tasks = <<>>
    BY <2>1
  <2>2. ASSUME NEW i \in Ids \cup {Mgr}, tasks = <<i>>
        PROVE  Len(tasks) <= 1
    <3>1. Len(<<i>>) = 1
      OBVIOUS
    <3> QED
      BY <2>2, <3>1
  <2> QED
    BY <2>1, <2>2 DEF SingleInv, QueueOK
<1> QED
  BY <1>1, SingleInvariance, PTL

\* handler() never pops an empty message queue: neither Request::handler()
\* (request.cpp 77) nor localHandler() (manager.cpp 69).
THEOREM FrontNeverEmpty == ASSUME Workers = {} PROVE Spec => []NoEmptyFront
<1>1. SingleInv => NoEmptyFront
  BY DEF SingleInv
<1> QED
  BY <1>1, SingleInvariance, PTL

\* Tasks and messages are queued and taken in step (manager.hpp 257-263, 347-349;
\* request.cpp 77).
THEOREM TasksAndMessages == ASSUME Workers = {} PROVE Spec => []QueuesInStep
<1>1. NoBacklog /\ NoEmptyFront => QueuesInStep
  BY DEF QueuesInStep
<1> QED
  BY <1>1, BacklogBounded, FrontNeverEmpty, PTL

\* handler() returns on a terminate only with no task, request or management
\* message left (manager.hpp 313-324).
THEOREM TerminateIsClean ==
  ASSUME Workers = {} PROVE Spec => TerminateAbandonsNothing
<1> DEFINE Clean ==
      pc[Handler] = "h_checkterminate" /\ pc'[Handler] = "h_returned"
        => tasks = <<>> /\ requests = {} /\ mgrMessages = 0
<1>1. ASSUME IInv, SingleInv, Next
      PROVE  Clean
  <2> SUFFICES ASSUME pc[Handler] = "h_checkterminate", pc'[Handler] = "h_returned"
               PROVE  tasks = <<>> /\ requests = {} /\ mgrMessages = 0
    OBVIOUS
  <2>1. pc \in [Threads -> Labels] /\ Handler \in Threads
    BY <1>1, ThreadFacts DEF IInv, TypeOK
  <2>2. ~Push(Handler)
    BY DEF Push, PushFind, PushMessage, PushTask, PushCreate, PushManager,
       PushManagerTask, PushSleep, PushWake, At
  <2>3. ~Recall /\ (HandlerStep => CheckTerminate)
    BY DEF Recall, HandlerStep, LockStop, CheckStop, TransceiverIdle,
       TransceiverDrain, LockTerminate, LockTasks, TransceiverRecord,
       LockSleep, FallAsleep, PopTask, PollReturn, NoTask, LockAwake,
       ClearAsleep, LocalHandler, FindRequest, RunRequest, EraseRequest,
       TransceiverMgrRecord, At
  <2>4. ASSUME NEW c \in Controllers
        PROVE  ~ControlCall(c) /\ ~Control(c)
    BY <2>1, ThreadFacts
       DEF ControlCall, Control, ControlLock, ControlSet, ControlWake, Goto
  <2>5. ~ServerQuery /\ \A i \in Ids : ~ServerSend(i)
    BY <2>1 DEF ServerQuery, ServerSend
  <2>6. CheckTerminate
    BY <1>1, <2>2, <2>3, <2>4, <2>5 DEF Next
  <2>7. MayTerminate
    BY <2>1, <2>6 DEF CheckTerminate, Goto
  <2>8. tasks = <<>> /\ requests = {}
    BY <1>1, <2>7 DEF MayTerminate, SingleInv, IdleOK
  <2>9. ~MgrTaskPending
    <3>1. <<Mgr>> # <<>>
      OBVIOUS
    <3> QED
      BY <2>8, <3>1 DEF MgrTaskPending
  <2> QED
    BY <1>1, <2>8, <2>9 DEF SingleInv, CountOK
<1>2. IInv /\ SingleInv /\ [Next]_vars => [Clean]_vars
  BY <1>1
<1> QED
  BY <1>2, Invariance, SingleInvariance, PTL DEF Spec, TerminateAbandonsNothing

-----------------------------------------------------------------------------
(***************************************************************************)
(* Messages and their tasks.  With management records MessageHasTask is    *)
(* false (ManagerQueryRace.cfg).  A thread that has queued a message keeps *)
(* the queue's mutex until it has queued the task, so at most one message  *)
(* per request is without its task (OneQueueing); a task is thrown away    *)
(* unserved only for a request that has no messages (DeadRequestsEmpty).   *)
(***************************************************************************)
Positions(s, i) == {k \in DOMAIN s : s[k] = i}

LEMMA PositionsFinite ==
  ASSUME NEW S, NEW s \in Seq(S), NEW i
  PROVE  IsFiniteSet(Positions(s, i)) /\ Occurrences(s, i) \in Nat
<1>1. DOMAIN s = 1..Len(s) /\ Len(s) \in Nat
  OBVIOUS
<1>2. IsFiniteSet(1..Len(s))
  BY <1>1, FS_Interval
<1>3. Positions(s, i) \in SUBSET (1..Len(s))
  BY <1>1 DEF Positions
<1>4. IsFiniteSet(Positions(s, i))
  BY <1>2, <1>3, FS_Subset
<1> QED
  BY <1>4, FS_CardinalityType DEF Occurrences, Positions

\* Appending an entry adds one occurrence of it and none of another.
LEMMA OccurrencesAppend ==
  ASSUME NEW S, NEW s \in Seq(S), NEW x \in S, NEW i
  PROVE  Occurrences(Append(s, x), i) =
           IF x = i THEN Occurrences(s, i) + 1 ELSE Occurrences(s, i)
<1> DEFINE n == Len(s) + 1
<1>1. /\ DOMAIN s = 1..Len(s) /\ Len(s) \in Nat
      /\ DOMAIN Append(s, x) = 1..n
      /\ Append(s, x)[n] = x
      /\ \A k \in 1..Len(s) : Append(s, x)[k] = s[k]
  OBVIOUS
<1>2. IsFiniteSet(Positions(s, i))
  BY PositionsFinite
<1>n. n \notin Positions(s, i)
  BY <1>1 DEF Positions
<1>3. CASE x = i
  <2>1. Positions(Append(s, x), i) = Positions(s, i) \cup {n}
    BY <1>1, <1>3 DEF Positions
  <2> QED
    BY <1>2, <1>n, <1>3, <2>1, FS_AddElement DEF Occurrences, Positions
<1>4. CASE x # i
  <2>1. Positions(Append(s, x), i) = Positions(s, i)
    BY <1>1, <1>4 DEF Positions
  <2> QED
    BY <1>4, <2>1 DEF Occurrences, Positions
<1> QED
  BY <1>3, <1>4

\* Taking the front entry removes one occurrence of it and none of another.
LEMMA OccurrencesTail ==
  ASSUME NEW S, NEW s \in Seq(S), s # <<>>, NEW i
  PROVE  Occurrences(Tail(s), i) =
           IF Head(s) = i THEN Occurrences(s, i) - 1 ELSE Occurrences(s, i)
<1> DEFINE later == Positions(s, i) \ {1}
           shift == [k \in Positions(Tail(s), i) |-> k + 1]
<1>1. /\ DOMAIN s = 1..Len(s) /\ Len(s) \in Nat \ {0} /\ Head(s) = s[1]
      /\ Tail(s) \in Seq(S) /\ DOMAIN Tail(s) = 1..(Len(s) - 1)
      /\ \A k \in 1..(Len(s) - 1) : Tail(s)[k] = s[k + 1]
  OBVIOUS
<1>2. IsFiniteSet(Positions(Tail(s), i)) /\ IsFiniteSet(Positions(s, i))
  BY <1>1, PositionsFinite
<1>3. shift \in Bijection(Positions(Tail(s), i), later)
  <2>1. shift \in [Positions(Tail(s), i) -> later]
    BY <1>1 DEF Positions
  <2>2. \A a, b \in Positions(Tail(s), i) : shift[a] = shift[b] => a = b
    BY <1>1 DEF Positions
  <2>3. ASSUME NEW k \in later
        PROVE  \E a \in Positions(Tail(s), i) : shift[a] = k
    <3>1. k - 1 \in Positions(Tail(s), i) /\ (k - 1) + 1 = k
      BY <1>1 DEF Positions
    <3> QED
      BY <3>1
  <2> QED
    BY <2>1, <2>2, <2>3 DEF Bijection, Injection, Surjection, IsInjective
<1>4. Cardinality(later) = Cardinality(Positions(Tail(s), i))
  BY <1>2, <1>3, FS_Bijection DEF ExistsBijection
<1>5. Cardinality(later) =
        IF 1 \in Positions(s, i) THEN Cardinality(Positions(s, i)) - 1
                                 ELSE Cardinality(Positions(s, i))
  BY <1>2, FS_RemoveElement
<1>6. 1 \in Positions(s, i) <=> Head(s) = i
  BY <1>1 DEF Positions
<1> QED
  BY <1>4, <1>5, <1>6 DEF Occurrences, Positions

-----------------------------------------------------------------------------
\* The web server sends no management records, so nobody pushes one.
NoMgrRecords ==
  /\ mgrInput = 0 /\ mgrSent = 0
  /\ \A t \in Threads : pc[t] \notin {"p_manager", "p_mgrtask"}

OneQueueing ==
  \A t \in Threads : pc[t] = "p_tasks" => mesOwner[pushId[t]] = t

DeadRequestsEmpty == \A i \in Ids : i \notin requests => messages[i] = <<>>

TasksInv == NoMgrRecords /\ OneQueueing /\ DeadRequestsEmpty /\ MessageHasTask

\* Steps that neither touch a queue nor bring a thread to or from a place
\* where it stands for a task.
InDispatch == pc[Handler] \in {"h_dispatch", "h_run"}
Quiet ==
  /\ UNCHANGED <<messages, tasks, mesOwner, requests, mgrInput, mgrSent>>
  /\ \A t \in Threads : pc'[t] \notin {"p_manager", "p_mgrtask"}
  /\ \A t \in Threads : pc[t] = "p_tasks" <=> pc'[t] = "p_tasks"
  /\ \A t \in Threads : pc[t] = "p_tasks" => pushId'[t] = pushId[t]
  /\ InDispatch <=> InDispatch'
  /\ InDispatch => task' = task

LEMMA QuietStep ==
  ASSUME TasksInv, Quiet
  PROVE  TasksInv'
<1>1. NoMgrRecords' /\ DeadRequestsEmpty'
  BY DEF TasksInv, Quiet, NoMgrRecords, DeadRequestsEmpty
<1>2. OneQueueing'
  BY DEF TasksInv, Quiet, OneQueueing
<1>3. ASSUME NEW i \in Ids
      PROVE  TasksFor(i)' = TasksFor(i)
  <2>1. Queueing(i)' <=> Queueing(i)
    BY DEF Quiet, Queueing
  <2>2. Dispatching(i)' <=> Dispatching(i)
    BY DEF Quiet, Dispatching, InDispatch
  <2>3. Occurrences(tasks, i)' = Occurrences(tasks, i)
    BY DEF Quiet, Occurrences
  <2> QED
    BY <2>1, <2>2, <2>3 DEF TasksFor
<1>4. MessageHasTask'
  BY <1>3 DEF TasksInv, MessageHasTask, Quiet
<1> QED
  BY <1>1, <1>2, <1>4 DEF TasksInv

\* What one id has and is owed are numbers.
LEMMA TaskCount ==
  ASSUME NEW ms \in [Ids -> Seq(Message)], NEW s \in Seq(Ids \cup {Mgr}),
         NEW i \in Ids
  PROVE  Len(ms[i]) \in Nat /\ Occurrences(s, i) \in Nat
<1>1. Len(ms[i]) \in Nat
  BY ms[i] \in Seq(Message)
<1> QED
  BY <1>1, PositionsFinite

\* The steps that queue nothing, take nothing and change nobody's place.
LEMMA QuietActions ==
  ASSUME MaxMgrRecords = 0, IInv, TasksInv
  PROVE  /\ \A t \in {Handler} \cup Workers :
              PushFind(t) \/ PushSleep(t) \/ PushWake(t) => Quiet
         /\ \A w \in Workers : PushCall(w) => Quiet
         /\ LockStop \/ CheckStop \/ TransceiverIdle \/ TransceiverDrain => Quiet
         /\ TransceiverRecord \/ LockTerminate \/ CheckTerminate => Quiet
         /\ LockTasks \/ LockSleep \/ NoTask \/ FallAsleep => Quiet
         /\ PollReturn \/ LockAwake \/ ClearAsleep \/ Recall => Quiet
         /\ \A c \in Controllers : ControlCall(c) \/ Control(c) => Quiet
         /\ \A i \in Ids : ServerSend(i) => Quiet
         /\ UNCHANGED vars => Quiet
<1>t. /\ pc \in [Threads -> Labels]
      /\ pushId \in [Threads -> Ids \cup {Mgr}]
      /\ Handler \in Threads /\ Workers \subseteq Threads
      /\ Controllers \subseteq Threads /\ Handler \notin Controllers
      /\ Handler \notin Workers
      /\ \A t \in Threads : pc[t] \notin {"p_manager", "p_mgrtask"}
  BY ThreadFacts DEF IInv, TypeOK, TasksInv, NoMgrRecords
<1> USE <1>t DEF Quiet, InDispatch, At, Goto, args, locks, queues, table,
                 flags, locals, server
<1>1. ASSUME NEW t \in {Handler} \cup Workers
      PROVE  PushFind(t) \/ PushSleep(t) \/ PushWake(t) => Quiet
  <2>1. PushFind(t) => Quiet
    BY DEF PushFind, AfterPush
  <2>2. PushSleep(t) => Quiet
    BY DEF PushSleep, AfterPush
  <2>3. PushWake(t) => Quiet
    BY DEF PushWake, AfterPush
  <2> QED
    BY <2>1, <2>2, <2>3
<1>2. ASSUME NEW w \in Workers
      PROVE  PushCall(w) => Quiet
  BY DEF PushCall
<1>3. LockStop \/ CheckStop \/ TransceiverIdle \/ TransceiverDrain => Quiet
  BY DEF LockStop, CheckStop, TransceiverIdle, TransceiverDrain
<1>4. TransceiverRecord \/ LockTerminate \/ CheckTerminate => Quiet
  BY DEF TransceiverRecord, LockTerminate, CheckTerminate
<1>5. LockTasks \/ LockSleep \/ NoTask \/ FallAsleep => Quiet
  BY DEF LockTasks, LockSleep, NoTask, FallAsleep
<1>6. PollReturn \/ LockAwake \/ ClearAsleep \/ Recall => Quiet
  BY DEF PollReturn, LockAwake, ClearAsleep, Recall
<1>7. ASSUME NEW c \in Controllers
      PROVE  ControlCall(c) \/ Control(c) => Quiet
  BY DEF ControlCall, Control, ControlLock, ControlSet, ControlWake
<1>8. ASSUME NEW i \in Ids
      PROVE  ServerSend(i) => Quiet
  BY DEF ServerSend
<1>9. UNCHANGED vars => Quiet
  BY DEF vars
<1> QED
  BY <1>1, <1>2, <1>3, <1>4, <1>5, <1>6, <1>7, <1>8, <1>9

\* A step keeps the invariant.
LEMMA TasksStep ==
  ASSUME MaxMgrRecords = 0, IInv, IInv', TasksInv, [Next]_vars
  PROVE  TasksInv'
<1>t. /\ pc \in [Threads -> Labels]
      /\ pushId \in [Threads -> Ids \cup {Mgr}]
      /\ mesOwner \in [Ids -> Threads \cup {Free}]
      /\ messages \in [Ids -> Seq(Message)]
      /\ tasks \in Seq(Ids \cup {Mgr})
      /\ task \in Ids \cup {Mgr}
      /\ Handler \in Threads /\ Workers \subseteq Threads
      /\ Free \notin Threads /\ Mgr \notin Ids
  BY ThreadFacts DEF IInv, TypeOK
<1>c. \A i \in Ids :
        /\ Len(messages[i]) \in Nat /\ Occurrences(tasks, i) \in Nat
        /\ Len(messages[i]) <= Occurrences(tasks, i)
             + (IF Queueing(i) THEN 1 ELSE 0) + (IF Dispatching(i) THEN 1 ELSE 0)
  BY <1>t, TaskCount DEF TasksInv, MessageHasTask, TasksFor
<1>d. \A i \in Ids : Len(messages'[i]) \in Nat /\ Occurrences(tasks', i) \in Nat
  <2>1. messages' \in [Ids -> Seq(Message)] /\ tasks' \in Seq(Ids \cup {Mgr})
    BY DEF IInv, TypeOK
  <2> QED
    BY <2>1, TaskCount
<1>r. RequestPinned /\ ArgsOK
  BY DEF IInv
<1>o. OneQueueing /\ DeadRequestsEmpty /\ NoMgrRecords
  BY DEF TasksInv
<1>1. ASSUME NEW t \in {Handler} \cup Workers, PushMessage(t)
      PROVE  TasksInv'
  <2> DEFINE i == pushId[t]
  <2>1. /\ pc[t] = "p_messages" /\ pc' = [pc EXCEPT ![t] = "p_tasks"]
        /\ mesOwner[i] = Free /\ mesOwner' = [mesOwner EXCEPT ![i] = t]
        /\ messages' = [messages EXCEPT ![i] = Append(@, pushMsg[t])]
        /\ UNCHANGED <<pushId, tasks, task, requests, mgrInput, mgrSent>>
        /\ t \in Threads /\ i \in Ids /\ i \in requests
    BY <1>1, <1>t, <1>r DEF PushMessage, At, Goto, args, table, locals, server,
       RequestPinned, ArgsOK
  <2>2. NoMgrRecords' /\ OneQueueing' /\ DeadRequestsEmpty'
    BY <2>1, <1>t, <1>o DEF NoMgrRecords, OneQueueing, DeadRequestsEmpty
  <2>3. ~Queueing(i) /\ Queueing(i)'
    BY <2>1, <1>t, <1>o DEF Queueing, OneQueueing
  <2>4. \A j \in Ids : Dispatching(j)' = Dispatching(j)
    BY <2>1, <1>t DEF Dispatching
  <2>5. \A j \in Ids \ {i} : Queueing(j)' = Queueing(j)
    BY <2>1, <1>t DEF Queueing
  <2>6. Len(messages'[i]) = Len(messages[i]) + 1
    BY <2>1, <1>t
  <2>7. \A j \in Ids \ {i} : messages'[j] = messages[j]
    BY <2>1, <1>t
  <2>8. MessageHasTask'
    BY <2>1, <2>3, <2>4, <2>5, <2>6, <2>7, <1>c, <1>d
       DEF MessageHasTask, TasksFor
  <2> QED
    BY <2>2, <2>8 DEF TasksInv
<1>2. ASSUME NEW t \in {Handler} \cup Workers, PushTask(t)
      PROVE  TasksInv'
  <2> DEFINE i == pushId[t]
  <2>1. /\ pc[t] = "p_tasks" /\ pc' = [pc EXCEPT ![t] = "p_sleep"]
        /\ mesOwner' = [mesOwner EXCEPT ![i] = Free]
        /\ tasks' = Append(tasks, i)
        /\ UNCHANGED <<pushId, messages, task, requests, mgrInput, mgrSent>>
        /\ t \in Threads /\ i \in Ids
    BY <1>2, <1>t, <1>r DEF PushTask, QueueTask, At, Goto, args, table, locals,
       server, ArgsOK
  <2>2. \A u \in Threads \ {t} : pc[u] = "p_tasks" => pushId[u] # i
    BY <2>1, <1>o DEF OneQueueing
  <2>3. NoMgrRecords' /\ OneQueueing' /\ DeadRequestsEmpty'
    BY <2>1, <2>2, <1>t, <1>o, <1>r
       DEF NoMgrRecords, OneQueueing, DeadRequestsEmpty, ArgsOK
  <2>4. Queueing(i) /\ ~Queueing(i)'
    BY <2>1, <2>2, <1>t DEF Queueing
  <2>5. \A j \in Ids : Dispatching(j)' = Dispatching(j)
    BY <2>1, <1>t DEF Dispatching
  <2>6. \A j \in Ids \ {i} : Queueing(j)' = Queueing(j)
    BY <2>1, <1>t DEF Queueing
  <2>7. \A j \in Ids : Occurrences(tasks', j) =
          IF i = j THEN Occurrences(tasks, j) + 1 ELSE Occurrences(tasks, j)
    <3>1. ASSUME NEW x \in Ids \cup {Mgr}, NEW j \in Ids
          PROVE  Occurrences(Append(tasks, x), j) =
            IF x = j THEN Occurrences(tasks, j) + 1 ELSE Occurrences(tasks, j)
      BY <1>t, OccurrencesAppend
    <3> QED
      BY <2>1, <3>1
  <2>8. MessageHasTask'
    BY <2>1, <2>4, <2>5, <2>6, <2>7, <1>c DEF MessageHasTask, TasksFor
  <2> QED
    BY <2>3, <2>8 DEF TasksInv
<1>3. ASSUME NEW t \in {Handler} \cup Workers, PushCreate(t)
      PROVE  TasksInv'
  <2> DEFINE i == pushId[t]
  <2>1. /\ pc[t] = "p_unique" /\ pc' = [pc EXCEPT ![t] = "p_sleep"]
        /\ requests' = requests \cup {i}
        /\ messages' = [messages EXCEPT ![i] = <<>>]
        /\ UNCHANGED <<pushId, mesOwner, tasks, task, mgrInput, mgrSent>>
        /\ t \in Threads /\ i \in Ids
    BY <1>3, <1>t, <1>r DEF PushCreate, At, Goto, args, locks, locals, server,
       ArgsOK
  <2>2. NoMgrRecords' /\ OneQueueing' /\ DeadRequestsEmpty'
    BY <2>1, <1>t, <1>o DEF NoMgrRecords, OneQueueing, DeadRequestsEmpty
  <2>3. \A j \in Ids : Dispatching(j)' = Dispatching(j) /\ Queueing(j)' = Queueing(j)
    BY <2>1, <1>t DEF Dispatching, Queueing
  <2>4. \A j \in Ids : Len(messages'[j]) = 0 \/ messages'[j] = messages[j]
    BY <2>1, <1>t
  <2>5. MessageHasTask'
    BY <2>1, <2>3, <2>4, <1>c, <1>d DEF MessageHasTask, TasksFor
  <2> QED
    BY <2>2, <2>5 DEF TasksInv
<1>4. ASSUME NEW t \in {Handler} \cup Workers, PushManager(t) \/ PushManagerTask(t)
      PROVE  TasksInv'
  BY <1>4, <1>t, <1>o DEF PushManager, PushManagerTask, At, NoMgrRecords
<1>5. CASE TransceiverMgrRecord \/ ServerQuery
  BY <1>5, <1>o DEF TransceiverMgrRecord, ServerQuery, NoMgrRecords
<1>6. CASE PopTask
  <2>1. /\ pc[Handler] = "h_checktasks"
        /\ pc' = [pc EXCEPT ![Handler] = "h_dispatch"]
        /\ tasks # <<>> /\ task' = Head(tasks) /\ tasks' = Tail(tasks)
        /\ UNCHANGED <<pushId, mesOwner, messages, requests, mgrInput, mgrSent>>
    BY <1>6, <1>t DEF PopTask, At, Goto, args, table, server
  <2>2. NoMgrRecords' /\ OneQueueing' /\ DeadRequestsEmpty'
    BY <2>1, <1>t, <1>o DEF NoMgrRecords, OneQueueing, DeadRequestsEmpty
  <2>3. \A j \in Ids : Queueing(j)' = Queueing(j)
    BY <2>1, <1>t DEF Queueing
  <2>4. \A j \in Ids : ~Dispatching(j) /\ (Dispatching(j)' <=> Head(tasks) = j)
    BY <2>1, <1>t DEF Dispatching
  <2>5. \A j \in Ids : Occurrences(tasks', j) =
          IF Head(tasks) = j THEN Occurrences(tasks, j) - 1 ELSE Occurrences(tasks, j)
    BY <2>1, <1>t, OccurrencesTail
  <2>6. MessageHasTask'
    BY <2>1, <2>3, <2>4, <2>5, <1>c DEF MessageHasTask, TasksFor
  <2> QED
    BY <2>2, <2>6 DEF TasksInv
<1>7. CASE LocalHandler
  <2>1. /\ pc[Handler] = "h_dispatch" /\ task = Mgr
        /\ Goto(Handler, "h_stop") \/ Goto(Handler, "h_crashed")
        /\ UNCHANGED <<pushId, mesOwner, messages, tasks, task, requests,
                       mgrInput, mgrSent>>
    BY <1>7 DEF LocalHandler, At, args, locks, table, locals, server
  <2>2. NoMgrRecords' /\ OneQueueing' /\ DeadRequestsEmpty'
    BY <2>1, <1>t, <1>o DEF NoMgrRecords, OneQueueing, DeadRequestsEmpty, Goto
  <2>3. \A j \in Ids : Queueing(j)' = Queueing(j) /\ Dispatching(j)' = Dispatching(j)
    BY <2>1, <1>t DEF Queueing, Dispatching, Goto
  <2>4. MessageHasTask'
    BY <2>1, <2>3, <1>c DEF MessageHasTask, TasksFor
  <2> QED
    BY <2>2, <2>4 DEF TasksInv
<1>8. CASE FindRequest
  <2>1. /\ pc[Handler] = "h_dispatch" /\ task # Mgr
        /\ \/ task \in requests /\ Goto(Handler, "h_run")
           \/ task \notin requests /\ Goto(Handler, "h_stop")
        /\ UNCHANGED <<pushId, mesOwner, messages, tasks, task, requests,
                       mgrInput, mgrSent>>
    BY <1>8 DEF FindRequest, At, args, queues, table, locals, server
  <2>2. NoMgrRecords' /\ OneQueueing' /\ DeadRequestsEmpty'
    BY <2>1, <1>t, <1>o DEF NoMgrRecords, OneQueueing, DeadRequestsEmpty, Goto
  <2>3. \A j \in Ids : Queueing(j)' = Queueing(j)
    BY <2>1, <1>t DEF Queueing, Goto
  <2>4. \A j \in Ids : Dispatching(j)' = Dispatching(j) \/ Len(messages[j]) = 0
    BY <2>1, <1>t, <1>o DEF Dispatching, Goto, DeadRequestsEmpty
  <2>5. MessageHasTask'
    BY <2>1, <2>3, <2>4, <1>c DEF MessageHasTask, TasksFor
  <2> QED
    BY <2>2, <2>5 DEF TasksInv
<1>9. CASE RunRequest
  <2>1. /\ pc[Handler] = "h_run" /\ task \in Ids /\ task \in requests
        /\ \/ Goto(Handler, "h_stop") \/ Goto(Handler, "h_erase")
           \/ Goto(Handler, "h_crashed")
        /\ \/ messages[task] = <<>> /\ messages' = messages
           \/ /\ messages[task] # <<>>
              /\ messages' = [messages EXCEPT ![task] = Tail(@)]
        /\ UNCHANGED <<pushId, mesOwner, tasks, task, requests, mgrInput, mgrSent>>
    BY <1>9, <1>t, <1>r DEF RunRequest, Serve, At, args, table, locals,
       RequestPinned, ArgsOK
  <2>2. NoMgrRecords' /\ OneQueueing' /\ DeadRequestsEmpty'
    BY <2>1, <1>t, <1>o DEF NoMgrRecords, OneQueueing, DeadRequestsEmpty, Goto
  <2>3. \A j \in Ids : Queueing(j)' = Queueing(j)
    BY <2>1, <1>t DEF Queueing, Goto
  <2>4. \A j \in Ids \ {task} : Dispatching(j)' = Dispatching(j)
    BY <2>1, <1>t DEF Dispatching, Goto
  <2>5. \A j \in Ids \ {task} : messages'[j] = messages[j]
    BY <2>1, <1>t
  <2>6. Dispatching(task) /\ ~Dispatching(task)'
    BY <2>1, <1>t DEF Dispatching, Goto
  <2>7. \/ Len(messages'[task]) = 0
        \/ Len(messages'[task]) = Len(messages[task]) - 1
    BY <2>1, <1>t
  <2>8. MessageHasTask'
    BY <2>1, <2>3, <2>4, <2>5, <2>6, <2>7, <1>c, <1>d DEF MessageHasTask, TasksFor
  <2> QED
    BY <2>2, <2>8 DEF TasksInv
<1>10. CASE EraseRequest
  <2>1. /\ pc[Handler] = "h_erase" /\ pc' = [pc EXCEPT ![Handler] = "h_stop"]
        /\ requests' = requests \ {task}
        /\ messages' = [messages EXCEPT ![task] = <<>>]
        /\ UNCHANGED <<pushId, mesOwner, tasks, task, mgrInput, mgrSent>>
    BY <1>10 DEF EraseRequest, At, Goto, args, locks, locals, server
  <2>2. NoMgrRecords' /\ OneQueueing' /\ DeadRequestsEmpty'
    BY <2>1, <1>t, <1>o DEF NoMgrRecords, OneQueueing, DeadRequestsEmpty
  <2>3. \A j \in Ids : Dispatching(j)' = Dispatching(j) /\ Queueing(j)' = Queueing(j)
    BY <2>1, <1>t DEF Dispatching, Queueing
  <2>4. \A j \in Ids : Len(messages'[j]) = 0 \/ messages'[j] = messages[j]
    BY <2>1, <1>t
  <2>5. MessageHasTask'
    BY <2>1, <2>3, <2>4, <1>c, <1>d DEF MessageHasTask, TasksFor
  <2> QED
    BY <2>2, <2>5 DEF TasksInv
<1> QED
  BY <1>1, <1>2, <1>3, <1>4, <1>5, <1>6, <1>7, <1>8, <1>9, <1>10, QuietActions,
     QuietStep DEF Next, HandlerStep, Push

LEMMA TasksInvariance == ASSUME MaxMgrRecords = 0 PROVE Spec => []TasksInv
<1>1. Init => TasksInv
  <2> SUFFICES ASSUME Init
               PROVE  TasksInv
    OBVIOUS
  <2>1. /\ NoMgrRecords /\ OneQueueing /\ DeadRequestsEmpty
        /\ \A i \in Ids : messages[i] = <<>>
    BY ThreadFacts DEF Init, NoMgrRecords, OneQueueing, DeadRequestsEmpty
  <2>2. /\ messages \in [Ids -> Seq(Message)] /\ tasks \in Seq(Ids \cup {Mgr})
        /\ Len(<<>>) = 0
    BY InitType DEF TypeOK
  <2>3. MessageHasTask
    BY <2>1, <2>2, TaskCount DEF MessageHasTask, TasksFor
  <2> QED
    BY <2>1, <2>3 DEF TasksInv
<1>2. IInv /\ IInv' /\ TasksInv /\ [Next]_vars => TasksInv'
  BY TasksStep
<1> QED
  BY <1>1, <1>2, Invariance, PTL DEF Spec

\* However many threads call back, every message in a request's queue has a
\* task of its own, or a thread that is about to queue it or to take the
\* message (manager.hpp 257-263, 347-349; request.cpp 75-79).
THEOREM MessagesHaveTasks ==
  ASSUME MaxMgrRecords = 0 PROVE Spec => []MessageHasTask
<1>1. TasksInv => MessageHasTask
  BY DEF TasksInv
<1> QED
  BY <1>1, TasksInvariance, PTL
=============================================================================
