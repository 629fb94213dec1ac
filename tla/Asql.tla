-------------------------------- MODULE Asql --------------------------------
(***************************************************************************)
(* ASql, Fastcgi++'s asynchronous SQL: a connection with a pool of         *)
(* threads, each with its own queue of queries, its own condition variable *)
(* and its own session with the MySQL server.  Queries are given one by    *)
(* one or as transactions; a transaction's are put in one queue, the last  *)
(* marked to commit.  A query alone is a transaction of one.               *)
(*                                                                         *)
(* A step of a thread is what it does between two locks, or one call of    *)
(* the server.  The application starts and terminates the connection from  *)
(* one thread, and queues and cancels from any.                            *)
(***************************************************************************)
EXTENDS Integers, Sequences, FiniteSets, SequencesExt

CONSTANTS
  MaxThreads,    \* maxThreads of the connection
  Transactions,  \* the transactions: sequences of queries, no query twice
  WithCallback,  \* the queries that have a callback
  MayFail,       \* the queries at which the server may report an error
  MayCancel,     \* the queries that may be cancelled
  Unsaved,       \* a commit may fail
  Restarts       \* bound: how often the connection is started

Queries == UNION {ToSet(t) : t \in Transactions}
Threads == 0..(MaxThreads - 1)

ASSUME AsqlAssumption ==
  /\ MaxThreads \in Nat \ {0} /\ Restarts \in Nat /\ Unsaved \in BOOLEAN
  /\ \A t \in Transactions : t \in Seq(Queries) /\ t # <<>> /\ IsInjective(t)
  /\ \A t, u \in Transactions : t = u \/ ToSet(t) \cap ToSet(u) = {}
  /\ WithCallback \cup MayFail \cup MayCancel \subseteq Queries
  /\ "none" \notin Queries

VARIABLES
  terminateBool,
  m_threads,     \* how many threads are running
  queue,         \* queries[id]: a query and whether to commit after it
  pc,            \* where each thread is
  querySet,      \* what each thread took from its queue
  session,       \* each session's changes that are not committed
  saved,         \* the queries whose changes are committed
  app,           \* what start() or terminate() is doing, and to which thread
  given,         \* the transactions that were queued
  m_cancel, m_error, m_callback,  \* of the queries' shared data
  called,        \* how often each callback was called
  over,          \* history: the queries that are done with, called back or dumped
  dumped,        \* history: those that were taken from a queue and not executed
  unsaved,       \* history: those whose commit failed
  starts

shared == <<m_cancel, m_error, m_callback, called>>
history == <<over, dumped, unsaved>>
vars == <<terminateBool, m_threads, queue, pc, querySet, session, saved, app, given, shared,
          history, starts>>

None == [query |-> "none", commit |-> FALSE]
Doing(what, n) == [what |-> what, thread |-> n]

-----------------------------------------------------------------------------
(* start() and terminate().                                                *)

Start ==
  /\ app.what = "stopped" /\ starts < Restarts
  /\ terminateBool' = FALSE /\ app' = Doing("starting", 0) /\ starts' = starts + 1
  /\ UNCHANGED <<m_threads, queue, pc, querySet, session, saved, given, shared, history>>

\* A thread is made with the number of those that run, then awaited.
Spawn ==
  /\ app.what = "starting"
  /\ IF m_threads < MaxThreads
       THEN pc' = [pc EXCEPT ![m_threads] = "begin"] /\ app' = Doing("awaiting", m_threads)
       ELSE app' = Doing("running", 0) /\ UNCHANGED pc
  /\ UNCHANGED <<terminateBool, m_threads, queue, querySet, session, saved, given, shared,
                 history, starts>>

Begin(id) ==
  /\ pc[id] = "begin"
  /\ pc' = [pc EXCEPT ![id] = "check"] /\ m_threads' = m_threads + 1
  /\ app' = Doing("starting", 0)
  /\ UNCHANGED <<terminateBool, queue, querySet, session, saved, given, shared, history, starts>>

Terminate ==
  /\ app.what = "running"
  /\ terminateBool' = TRUE /\ app' = Doing("notifying", 0)
  /\ UNCHANGED <<m_threads, queue, pc, querySet, session, saved, given, shared, history, starts>>

\* A thread that waits is woken and looks again.
NotifiesNobody(id) == pc
Notified(id) == [pc EXCEPT ![id] = IF @ = "wait" THEN "check" ELSE @]

\* The queue's lock is not held.
NotifyTermination ==
  /\ app.what = "notifying"
  /\ pc' = Notified(app.thread)
  /\ app' = IF app.thread + 1 < MaxThreads THEN Doing("notifying", app.thread + 1)
                                           ELSE Doing("joining", 0)
  /\ UNCHANGED <<terminateBool, m_threads, queue, querySet, session, saved, given, shared,
                 history, starts>>

Join ==
  /\ app.what = "joining" /\ m_threads = 0
  /\ app' = Doing("stopped", 0)
  /\ UNCHANGED <<terminateBool, m_threads, queue, pc, querySet, session, saved, given, shared,
                 history, starts>>

-----------------------------------------------------------------------------
(* queue() and cancel().                                                   *)

\* In place of a mark on the last, none.
SetsUnmarked(t) == [k \in DOMAIN t |-> [query |-> t[k], commit |-> FALSE]]
Sets(t) == [k \in DOMAIN t |-> [query |-> t[k], commit |-> k = Len(t)]]

\* The instance is the application's choice, or the shortest queue: one length
\* after the other is read, and those of the best so far without its lock.
Queue(t, id) ==
  /\ t \notin given
  /\ queue' = [queue EXCEPT ![id] = @ \o Sets(t)] /\ pc' = Notified(id)
  /\ given' = given \cup {t}
  /\ UNCHANGED <<terminateBool, m_threads, querySet, session, saved, app, shared, history, starts>>

\* cancel(), or the end of the original QueryPar without keepAlive().
Cancel(q) ==
  /\ q \notin m_cancel \cup over
  /\ m_cancel' = m_cancel \cup {q}
  /\ UNCHANGED <<terminateBool, m_threads, queue, pc, querySet, session, saved, app, given,
                 m_error, m_callback, called, history, starts>>

-----------------------------------------------------------------------------
(* intHandler().                                                           *)

Goes(id, from, to) == pc[id] = from /\ pc' = [pc EXCEPT ![id] = to]
Query(id) == querySet[id].query

\* The mutex that guards terminateBool is held to the thread's end.
Check(id) ==
  /\ pc[id] = "check"
  /\ pc' = [pc EXCEPT ![id] = IF terminateBool THEN "off" ELSE "fetch"]
  /\ m_threads' = IF terminateBool THEN m_threads - 1 ELSE m_threads
  /\ UNCHANGED <<terminateBool, queue, querySet, session, saved, app, given, shared, history,
                 starts>>

Wait(id) ==
  /\ queue[id] = <<>> /\ Goes(id, "fetch", "wait")
  /\ UNCHANGED <<terminateBool, m_threads, queue, querySet, session, saved, app, given, shared,
                 history, starts>>

Fetch(id) ==
  /\ queue[id] # <<>> /\ Goes(id, "fetch", "execute")
  /\ querySet' = [querySet EXCEPT ![id] = Head(queue[id])]
  /\ queue' = [queue EXCEPT ![id] = Tail(@)]
  /\ UNCHANGED <<terminateBool, m_threads, session, saved, app, given, shared, history, starts>>

\* Statement::execute() asks whether to stop before, between and after its calls
\* of the server.  What the server has done when it fails is still to be rolled back.
Stopped(id) == Query(id) \in m_cancel
Changes(id) == session' = [session EXCEPT ![id] = @ \cup {Query(id)}]
Fails(id)   == Query(id) \in MayFail /\ pc' = [pc EXCEPT ![id] = "failed"]

Execute(id) ==
  /\ pc[id] = "execute"
  /\ IF Stopped(id) THEN pc' = [pc EXCEPT ![id] = "end"] /\ UNCHANGED session
     ELSE Changes(id) /\ (Fails(id) \/ pc' = [pc EXCEPT ![id] = "results"])
  /\ UNCHANGED <<terminateBool, m_threads, queue, querySet, saved, app, given, shared, history,
                 starts>>

Results(id) ==
  /\ pc[id] = "results"
  /\ (~Stopped(id) /\ Fails(id)) \/ pc' = [pc EXCEPT ![id] = "end"]
  /\ UNCHANGED <<terminateBool, m_threads, queue, querySet, session, saved, app, given, shared,
                 history, starts>>

RollBack(id) == session' = [session EXCEPT ![id] = {}]

End(id) ==
  /\ Goes(id, "end", "commit")
  /\ IF Stopped(id) THEN RollBack(id) ELSE UNCHANGED session
  /\ UNCHANGED <<terminateBool, m_threads, queue, querySet, saved, app, given, shared, history,
                 starts>>

\* The three forms of Statement::execute(), with rows of results, with one, and with
\* rows of parameters, differ in how often they call the server between the looks at
\* whether to stop.
Statement(id) == Execute(id) \/ Results(id) \/ End(id)

\* What mysql_commit() returns is not looked at.
Commit(id) ==
  /\ Goes(id, "commit", "callback")
  /\ IF querySet[id].commit
       THEN /\ RollBack(id)
            /\ \/ saved' = saved \cup session[id] /\ UNCHANGED unsaved
               \/ Unsaved /\ unsaved' = unsaved \cup session[id] /\ UNCHANGED saved
       ELSE UNCHANGED <<session, saved, unsaved>>
  /\ m_error' = m_error \ {Query(id)}
  /\ UNCHANGED <<terminateBool, m_threads, queue, querySet, app, given, m_cancel, m_callback,
                 called, over, dumped, starts>>

\* In place of a rollback, nothing.
KeepsChanges(id) == UNCHANGED session
Undo(id) == RollBack(id)

Failed(id) ==
  /\ Goes(id, "failed", "dump")
  /\ m_error' = m_error \cup {Query(id)} /\ Undo(id)
  /\ UNCHANGED <<terminateBool, m_threads, queue, querySet, saved, app, given, m_cancel,
                 m_callback, called, history, starts>>

\* Unless the query that failed was a transaction's last, the queue is emptied, of
\* whatever transactions, and the first callback found is called if it has none.
Dumped(id) == IF querySet[id].commit THEN {} ELSE {queue[id][k].query : k \in DOMAIN queue[id]}
OwnCallback(id) == m_callback[Query(id)]
Inherited(id) ==
  LET q     == Query(id)
      found == {k \in DOMAIN queue[id] : queue[id][k].query \in Dumped(id)
                                         /\ m_callback[queue[id][k].query] # "none"}
  IN IF m_callback[q] = "none" /\ found # {}
       THEN m_callback[queue[id][CHOOSE k \in found : \A j \in found : k <= j].query]
       ELSE OwnCallback(id)

Dump(id) ==
  /\ Goes(id, "dump", "callback")
  /\ queue' = [queue EXCEPT ![id] = IF querySet[id].commit THEN @ ELSE <<>>]
  /\ m_callback' = [m_callback EXCEPT ![Query(id)] = Inherited(id)]
  /\ dumped' = dumped \cup Dumped(id) /\ over' = over \cup Dumped(id)
  /\ UNCHANGED <<terminateBool, m_threads, querySet, session, saved, app, given, m_cancel,
                 m_error, called, unsaved, starts>>

Callback(id) ==
  LET c == m_callback[Query(id)] IN
  /\ Goes(id, "callback", "check")
  /\ called' = IF c = "none" THEN called ELSE [called EXCEPT ![c] = @ + 1]
  /\ over' = over \cup {Query(id)}
  /\ querySet' = [querySet EXCEPT ![id] = None]
  /\ UNCHANGED <<terminateBool, m_threads, queue, session, saved, app, given, m_cancel,
                 m_error, m_callback, dumped, unsaved, starts>>

Step(id) ==
  \/ Begin(id) \/ Check(id) \/ Wait(id) \/ Fetch(id)
  \/ Statement(id) \/ Commit(id)
  \/ Failed(id) \/ Dump(id) \/ Callback(id)

-----------------------------------------------------------------------------
\* connect() gives each thread a session of its own, which does not commit by itself.
Connected == [id \in Threads |-> {}]

Init ==
  /\ terminateBool = FALSE /\ m_threads = 0
  /\ queue = [id \in Threads |-> <<>>] /\ pc = [id \in Threads |-> "off"]
  /\ querySet = [id \in Threads |-> None]
  /\ session = Connected /\ saved = {}
  /\ app = Doing("stopped", 0) /\ given = {}
  /\ m_cancel = {} /\ m_error = {}
  /\ m_callback = [q \in Queries |-> IF q \in WithCallback THEN q ELSE "none"]
  /\ called = [q \in WithCallback |-> 0]
  /\ over = {} /\ dumped = {} /\ unsaved = {} /\ starts = 0

App == Spawn \/ NotifyTermination \/ Join

Next ==
  \/ Start \/ Terminate \/ App
  \/ \E t \in Transactions, id \in Threads : Queue(t, id)
  \/ \E q \in MayCancel : Cancel(q)
  \/ \E id \in Threads : Step(id)

Spec == Init /\ [][Next]_vars

\* Every thread that can take a step does, and start() and terminate() go on.
FairSpec == Spec /\ WF_vars(App) /\ \A id \in Threads : WF_vars(Step(id))

-----------------------------------------------------------------------------
(* Properties.                                                             *)

Places == {"off", "begin", "check", "fetch", "wait", "execute", "results", "end", "commit",
           "failed", "dump", "callback"}

\* Every variable has its type, and m_threads counts the threads.
TypeOK ==
  /\ terminateBool \in BOOLEAN /\ starts \in 0..Restarts
  /\ pc \in [Threads -> Places]
  /\ m_threads = Cardinality({id \in Threads : pc[id] \notin {"off", "begin"}})
  /\ \A id \in Threads : \A k \in DOMAIN queue[id] : queue[id][k].query \in Queries
  /\ \A id \in Threads : /\ session[id] \subseteq Queries
                         /\ querySet[id] = None \/ Query(id) \in Queries
  /\ saved \cup m_error \cup over \cup dumped \cup unsaved \subseteq Queries

\* A transaction is saved as a whole or not at all, whatever fails, unless one of its
\* queries was cancelled by itself; and sessions never mix transactions
\* (asql.hpp 290-310, 337-361; mysql.cpp 230-236).
AllOrNothing ==
  /\ TypeOK
  /\ \A t \in Transactions :
       /\ \/ ToSet(t) \cap saved = {} \/ ToSet(t) \subseteq saved
          \/ ToSet(t) \cap m_cancel # {}
       /\ \A id \in Threads : ToSet(t) \cap session[id] = {} \/ session[id] \subseteq ToSet(t)

\* A transaction that is over and of which nothing is saved has told so: one of its
\* queries has an error, was cancelled, or was dumped for another's; or its commit
\* failed unseen (asql.hpp 290-313).
NothingLostUnseen ==
  \A t \in Transactions :
    ToSet(t) \subseteq over =>
      \/ ToSet(t) \subseteq saved
      \/ ToSet(t) \cap (m_error \cup m_cancel \cup dumped \cup unsaved) # {}

\* A callback is called at most once, and only when its query is over; if the query
\* was not dumped it was called.  When a transaction is over, unless it was dumped whole,
\* one of the callbacks it has was called, so that its failure is told of, wherever it
\* failed (asql.hpp 50-51, 303-314; query.hpp 141-146).
CalledOnce ==
  /\ \A q \in WithCallback : /\ called[q] <= 1
                             /\ called[q] = 1 => q \in over
                             /\ q \in over \ dumped => called[q] = 1
  /\ \A t \in Transactions :
       ToSet(t) \subseteq over /\ ~ToSet(t) \subseteq dumped =>
         ToSet(t) \cap WithCallback = {} \/ \E q \in ToSet(t) \cap WithCallback : called[q] = 1

\* A query that was queued is done with in the end, if the connection is running
\* then and is not terminated (asql.hpp 253-270, 319-361).
Served ==
  \A t \in Transactions :
    (t \in given /\ app.what = "running") ~> (ToSet(t) \subseteq over \/ app.what # "running")
-----------------------------------------------------------------------------
(* What does not hold.                                                     *)

\* terminate() returns (asql.hpp 158-160).  It need not: a thread that found
\* terminateBool unset may be notified before it waits.
TerminateReturns == (app.what = "notifying") ~> (app.what = "stopped")

\* Only queries of the transaction that failed are dumped (asql.hpp 42-45).  All
\* that are in the queue are.
OthersSurvive ==
  \A t \in Transactions : ToSet(t) \cap dumped # {} => ToSet(t) \cap m_error # {}

\* What is cancelled in part is rolled back as a whole (asql.hpp 42-45).  Later
\* queries are executed and committed.
CancelledAsWhole ==
  \A t \in Transactions : ToSet(t) \cap saved = {} \/ ToSet(t) \subseteq saved
=============================================================================
