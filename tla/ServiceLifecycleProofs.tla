----------------------- MODULE ServiceLifecycleProofs -----------------------
(***************************************************************************)
(* A theorem about ServiceLifecycle, for any number of workers, people,    *)
(* timers, commands and crashes, so long as no two scripts run at a time:  *)
(*                                                                         *)
(*   NobodyStranded         Spec => []AllReachable                         *)
(*                                                                         *)
(* The invariant says at each place of the one script that runs who may be *)
(* there: before the file is removed all workers are reachable, from the   *)
(* kill to the fork there are none, and after it they are on the socket    *)
(* that spawn-fcgi holds.                                                  *)
(***************************************************************************)
EXTENDS ServiceLifecycle, FiniteSetTheorems, TLAPS

Reachable == path \in listening /\ \A w \in workers : w.sock = path

\* Places before the script has changed anything that clients rely on, from which it
\* may end at once.
Before == {"idle", "count", "stop", "term", "killall", "remove"}

\* Places where the service is down.
Down == {"launch", "probe", "unlink", "bind", "listen"}

OneScript == \A p, q \in Scripts : pc[p] # "idle" /\ pc[q] # "idle" => p = q

WhoIsThere ==
  /\ (\A p \in Scripts : pc[p] \in Before) => workers = {} \/ Reachable
  /\ \A p \in Scripts :
       /\ pc[p] \in Down => workers = {}
       /\ pc[p] \in {"listen", "fork"} => held[p] = path
       /\ pc[p] = "fork" => Reachable

AloneInv == TypeOK /\ IsFiniteSet(workers) /\ OneScript /\ WhoIsThere
-----------------------------------------------------------------------------
Places == Spawning \cup {"idle", "count", "launch", "stop", "term",
                         "remove", "again", "kill", "killall"}

WorkerType == [sock : Sockets, n : 1..PROC_NUM, term : BOOLEAN]

\* No script but p runs.
Others(p) == \A q \in Scripts : q # p => pc[q] = "idle"

\* What holds of the workers, if p is the script that runs and is at l.
AtPlace(p, l) ==
  /\ l \in Before => workers = {} \/ Reachable
  /\ l \in Down => workers = {}
  /\ l \in {"listen", "fork"} => held[p] = path
  /\ l = "fork" => Reachable

LEMMA Sizes ==
  /\ Cardinality(Scripts) \in Nat /\ 1 \in Sockets /\ 2 \in Sockets
  /\ \A s \in Sockets : s # None
<1>1. Cardinality(Scripts) \in Nat
  BY FS_CardinalityType, LifecycleAssumption
<1>2. 2 * Cardinality(Scripts) + 2 \in Nat /\ 2 * Cardinality(Scripts) + 2 >= 2
  BY <1>1
<1> QED
  BY <1>1, <1>2, LifecycleAssumption DEF Sockets

\* The script that runs is alone, and what holds of the workers is what its place says.
LEMMA Alone ==
  ASSUME AloneInv, NEW p \in Scripts, pc[p] # "idle"
  PROVE  Others(p) /\ AtPlace(p, pc[p])
BY DEF AloneInv, OneScript, WhoIsThere, Others, AtPlace, Before

\* A step of the script that runs, from and to a place where it holds no socket.
LEMMA Moves ==
  ASSUME AloneInv, NEW p \in Scripts, Others(p), NEW l \in Places, Goto(p, l),
         pc[p] \notin {"listen", "fork"}, l \notin {"listen", "fork"}, UNCHANGED held,
         AtPlace(p, l)'
  PROVE  /\ pc' \in [Scripts -> Places]
         /\ \A q \in Scripts : (held'[q] # None) = (pc'[q] \in {"listen", "fork"})
         /\ OneScript' /\ WhoIsThere'
<1>1. pc \in [Scripts -> Places]
  BY DEF AloneInv, TypeOK, Places
<1>2. /\ pc' \in [Scripts -> Places] /\ pc'[p] = l
      /\ \A q \in Scripts : q # p => pc'[q] = pc[q] /\ pc[q] = "idle"
  BY <1>1 DEF Goto, Others
<1>3. \A q \in Scripts : (held'[q] # None) = (pc'[q] \in {"listen", "fork"})
  BY <1>2 DEF AloneInv, TypeOK
<1>4. OneScript'
  BY <1>2 DEF OneScript
<1>5. WhoIsThere'
  BY <1>2 DEF WhoIsThere, AtPlace, Before, Down
<1> QED
  BY <1>2, <1>3, <1>4, <1>5

\* What is counted as none is none.
LEMMA NoneCounted ==
  ASSUME AloneInv
  PROVE  (Counter = 0 \/ ~(Counter > 0)) => workers = {}
<1>1. IsFiniteSet(Spawners)
  BY FS_Subset, LifecycleAssumption DEF Spawners
<1>2. Cardinality(Spawners) \in Nat /\ Cardinality(workers) \in Nat
  BY <1>1, FS_CardinalityType DEF AloneInv
<1>3. (Counter = 0 \/ ~(Counter > 0)) => Cardinality(workers) = 0
  BY <1>2 DEF Counter
<1> QED
  BY <1>3, FS_EmptySet DEF AloneInv

\* While a script runs that has not launched spawn-fcgi, there is no spawn-fcgi.
LEMMA NoSpawner ==
  ASSUME TypeOK, NEW p \in Scripts, Others(p), pc[p] \notin Spawning
  PROVE  Killed = pc /\ LetGo = held
<1>1. Spawners = {}
  BY DEF Spawners, Spawning, Others
<1> QED
  BY <1>1 DEF Killed, LetGo, TypeOK

\* Workers that got SIGTERM are the same workers.
LEMMA Termed ==
  ASSUME AloneInv, workers' = {[w EXCEPT !.term = TRUE] : w \in workers}
  PROVE  /\ workers' \subseteq WorkerType /\ IsFiniteSet(workers')
         /\ \A w \in workers' : \E v \in workers : w.sock = v.sock
         /\ workers = {} => workers' = {}
<1>1. workers \subseteq WorkerType /\ IsFiniteSet(workers)
  BY DEF AloneInv, TypeOK, WorkerType
<1>2. \A w \in workers : [w EXCEPT !.term = TRUE] \in WorkerType
                         /\ [w EXCEPT !.term = TRUE].sock = w.sock
  BY <1>1 DEF WorkerType
<1>3. IsFiniteSet(workers')
  <2> DEFINE f == [w \in workers |-> [w EXCEPT !.term = TRUE]]
  <2>1. f \in Surjection(workers, workers')
    BY DEF Surjection
  <2> QED
    BY <1>1, <2>1, FS_Surjection
<1> QED
  BY <1>2, <1>3

-----------------------------------------------------------------------------
\* What a script that has not yet changed anything does.
LEMMA BeforeSteps ==
  ASSUME AloneInv, ~Overlap, NEW p \in Scripts,
         Run(p) \/ Protect(p) \/ StartCount(p) \/ StopCount(p) \/ KillWorkers(p) \/ Terminate(p)
  PROVE  AloneInv'
<1>1. TypeOK /\ IsFiniteSet(workers)
  BY DEF AloneInv
<1>2. CASE Run(p)
  <2>1. Others(p) /\ pc[p] = "idle" /\ (workers = {} \/ Reachable)
    BY <1>2 DEF Run, Free, Idle, Others, AloneInv, WhoIsThere, Before
  <2>2. PICK l \in {"count", "stop"} : Goto(p, l)
    BY <1>2 DEF Run
  <2>3. AtPlace(p, l)' /\ UNCHANGED <<held, left, path, listening, workers, crashes>>
    BY <1>2, <2>1 DEF Run, AtPlace, Before, Down, Reachable
  <2>4. /\ pc' \in [Scripts -> Places] /\ OneScript' /\ WhoIsThere'
        /\ \A q \in Scripts : (held'[q] # None) = (pc'[q] \in {"listen", "fork"})
    BY <2>1, <2>2, <2>3, Moves DEF Places
  <2>5. restarts' \in [Scripts -> BOOLEAN] /\ commands' \in 0..MaxCommands
    BY <1>1, <1>2, LifecycleAssumption DEF Run, TypeOK
  <2> QED
    BY <1>1, <2>3, <2>4, <2>5 DEF AloneInv, TypeOK, Places
<1>3. CASE Protect(p)
  <2>1. Others(p) /\ pc[p] = "idle" /\ (workers = {} \/ Reachable)
    BY <1>3 DEF Protect, Free, Idle, Others, AloneInv, WhoIsThere, Before
  <2>2. AtPlace(p, "killall")' /\ Goto(p, "killall")
        /\ UNCHANGED <<restarts, held, left, path, listening, workers, commands, crashes>>
    BY <1>3, <2>1 DEF Protect, AtPlace, Before, Down, Reachable
  <2>3. /\ pc' \in [Scripts -> Places] /\ OneScript' /\ WhoIsThere'
        /\ \A q \in Scripts : (held'[q] # None) = (pc'[q] \in {"listen", "fork"})
    BY <2>1, <2>2, Moves DEF Places
  <2> QED
    BY <1>1, <2>2, <2>3 DEF AloneInv, TypeOK, Places
<1>4. CASE StartCount(p)
  <2>1. Others(p) /\ pc[p] = "count" /\ (workers = {} \/ Reachable)
    BY <1>4, Alone DEF StartCount, AtPlace, Before
  <2>2. PICK l \in {"idle", "launch"} : Goto(p, l) /\ (l = "launch" => ~(Counter > 0))
    BY <1>4 DEF StartCount
  <2>3. l = "launch" => workers = {}
    BY <2>2, NoneCounted
  <2>4. AtPlace(p, l)'
        /\ UNCHANGED <<restarts, held, left, path, listening, workers, commands, crashes>>
    BY <1>4, <2>1, <2>3 DEF StartCount, AtPlace, Before, Down, Reachable
  <2>5. /\ pc' \in [Scripts -> Places] /\ OneScript' /\ WhoIsThere'
        /\ \A q \in Scripts : (held'[q] # None) = (pc'[q] \in {"listen", "fork"})
    BY <2>1, <2>2, <2>4, Moves DEF Places
  <2> QED
    BY <1>1, <2>4, <2>5 DEF AloneInv, TypeOK, Places
<1>5. CASE StopCount(p)
  <2>1. Others(p) /\ pc[p] = "stop" /\ (workers = {} \/ Reachable)
    BY <1>5, Alone DEF StopCount, AtPlace, Before
  <2>2. PICK l \in {"idle", "count", "term"} : Goto(p, l)
    BY <1>5 DEF StopCount, AfterStop
  <2>3. AtPlace(p, l)'
        /\ UNCHANGED <<restarts, held, left, path, listening, workers, commands, crashes>>
    BY <1>5, <2>1 DEF StopCount, AtPlace, Before, Down, Reachable
  <2>4. /\ pc' \in [Scripts -> Places] /\ OneScript' /\ WhoIsThere'
        /\ \A q \in Scripts : (held'[q] # None) = (pc'[q] \in {"listen", "fork"})
    BY <2>1, <2>2, <2>3, Moves DEF Places
  <2> QED
    BY <1>1, <2>3, <2>4 DEF AloneInv, TypeOK, Places
<1>6. CASE KillWorkers(p)
  <2>1. Others(p) /\ pc[p] = "killall" /\ (workers = {} \/ Reachable)
    BY <1>6, Alone DEF KillWorkers, AtPlace, Before
  <2>2. /\ workers' \subseteq WorkerType /\ IsFiniteSet(workers')
        /\ \A w \in workers' : \E v \in workers : w.sock = v.sock
        /\ workers = {} => workers' = {}
    BY <1>6, Termed DEF KillWorkers
  <2>3. AtPlace(p, "stop")' /\ Goto(p, "stop")
        /\ UNCHANGED <<held, left, path, listening, commands, crashes>>
    BY <1>6, <2>1, <2>2 DEF KillWorkers, AtPlace, Before, Down, Reachable
  <2>4. /\ pc' \in [Scripts -> Places] /\ OneScript' /\ WhoIsThere'
        /\ \A q \in Scripts : (held'[q] # None) = (pc'[q] \in {"listen", "fork"})
    BY <2>1, <2>3, Moves DEF Places
  <2>5. restarts' \in [Scripts -> BOOLEAN]
    BY <1>1, <1>6 DEF KillWorkers, TypeOK
  <2> QED
    BY <1>1, <2>2, <2>3, <2>4, <2>5 DEF AloneInv, TypeOK, Places, WorkerType
<1>7. CASE Terminate(p)
  <2>1. Others(p) /\ pc[p] = "term" /\ (workers = {} \/ Reachable)
    BY <1>7, Alone DEF Terminate, AtPlace, Before
  <2>2. /\ workers' \subseteq WorkerType /\ IsFiniteSet(workers')
        /\ \A w \in workers' : \E v \in workers : w.sock = v.sock
        /\ workers = {} => workers' = {}
    BY <1>7, Termed DEF Terminate
  <2>3. Killed = pc /\ LetGo = held
    BY <1>1, <2>1, NoSpawner DEF Spawning
  <2>4. AtPlace(p, "remove")' /\ Goto(p, "remove")
        /\ UNCHANGED <<restarts, held, left, path, listening, commands, crashes>>
    BY <1>7, <2>1, <2>2, <2>3 DEF Terminate, AtPlace, Before, Down, Reachable, Goto
  <2>5. /\ pc' \in [Scripts -> Places] /\ OneScript' /\ WhoIsThere'
        /\ \A q \in Scripts : (held'[q] # None) = (pc'[q] \in {"listen", "fork"})
    BY <2>1, <2>4, Moves DEF Places
  <2> QED
    BY <1>1, <2>2, <2>4, <2>5 DEF AloneInv, TypeOK, Places, WorkerType
<1> QED
  BY <1>2, <1>3, <1>4, <1>5, <1>6, <1>7

\* The kill, and spawn-fcgi up to bind().
LEMMA DownSteps ==
  ASSUME AloneInv, NEW p \in Scripts,
         Launch(p) \/ RemoveFile(p) \/ CountAgain(p) \/ KillAll(p) \/ Probe(p) \/ Unlink(p)
  PROVE  AloneInv'
<1>1. TypeOK /\ IsFiniteSet(workers)
  BY DEF AloneInv
<1>2. CASE Launch(p)
  <2>1. Others(p) /\ pc[p] = "launch" /\ workers = {}
    BY <1>2, Alone DEF Launch, AtPlace, Down
  <2>2. AtPlace(p, "probe")' /\ Goto(p, "probe")
        /\ UNCHANGED <<restarts, held, left, path, listening, workers, commands, crashes>>
    BY <1>2, <2>1 DEF Launch, AtPlace, Before
  <2>3. /\ pc' \in [Scripts -> Places] /\ OneScript' /\ WhoIsThere'
        /\ \A q \in Scripts : (held'[q] # None) = (pc'[q] \in {"listen", "fork"})
    BY <2>1, <2>2, Moves DEF Places, Spawning
  <2> QED
    BY <1>1, <2>2, <2>3 DEF AloneInv, TypeOK, Places
<1>3. CASE RemoveFile(p)
  <2>1. Others(p) /\ pc[p] = "remove"
    BY <1>3, Alone DEF RemoveFile
  <2>2. AtPlace(p, "again")' /\ Goto(p, "again") /\ path' = None
        /\ UNCHANGED <<restarts, held, left, listening, workers, commands, crashes>>
    BY <1>3 DEF RemoveFile, AtPlace, Before, Down
  <2>3. /\ pc' \in [Scripts -> Places] /\ OneScript' /\ WhoIsThere'
        /\ \A q \in Scripts : (held'[q] # None) = (pc'[q] \in {"listen", "fork"})
    BY <2>1, <2>2, Moves DEF Places
  <2> QED
    BY <1>1, <2>2, <2>3 DEF AloneInv, TypeOK, Places
<1>4. CASE CountAgain(p)
  <2>1. Others(p) /\ pc[p] = "again"
    BY <1>4, Alone DEF CountAgain
  <2>2. PICK l \in {"idle", "count", "kill"} : Goto(p, l) /\ (l # "kill" => Counter = 0)
    BY <1>4 DEF CountAgain, AfterStop
  <2>3. AtPlace(p, l)'
        /\ UNCHANGED <<restarts, held, left, path, listening, workers, commands, crashes>>
    BY <1>4, <2>2, NoneCounted DEF CountAgain, AtPlace, Before, Down
  <2>4. /\ pc' \in [Scripts -> Places] /\ OneScript' /\ WhoIsThere'
        /\ \A q \in Scripts : (held'[q] # None) = (pc'[q] \in {"listen", "fork"})
    BY <2>1, <2>2, <2>3, Moves DEF Places
  <2> QED
    BY <1>1, <2>3, <2>4 DEF AloneInv, TypeOK, Places
<1>5. CASE KillAll(p)
  <2>1. Others(p) /\ pc[p] = "kill"
    BY <1>5, Alone DEF KillAll
  <2>2. Killed = pc /\ LetGo = held
    BY <1>1, <2>1, NoSpawner DEF Spawning
  <2>3. PICK l \in {"idle", "count"} : Goto(p, l)
    BY <1>5, <2>2 DEF KillAll, AfterStop, Goto
  <2>4. AtPlace(p, l)' /\ workers' = {}
        /\ UNCHANGED <<restarts, held, left, path, listening, commands, crashes>>
    BY <1>5, <2>2 DEF KillAll, Survivors, AtPlace, Before, Down
  <2>5. /\ pc' \in [Scripts -> Places] /\ OneScript' /\ WhoIsThere'
        /\ \A q \in Scripts : (held'[q] # None) = (pc'[q] \in {"listen", "fork"})
    BY <2>1, <2>3, <2>4, Moves DEF Places
  <2> QED
    BY <1>1, <2>4, <2>5, FS_EmptySet DEF AloneInv, TypeOK, Places
<1>6. CASE Probe(p)
  <2>1. Others(p) /\ pc[p] = "probe" /\ workers = {}
    BY <1>6, Alone DEF Probe, AtPlace, Down
  <2>2. PICK l \in {"idle", "unlink"} : Goto(p, l)
    BY <1>6 DEF Probe
  <2>3. AtPlace(p, l)'
        /\ UNCHANGED <<restarts, held, left, path, listening, workers, commands, crashes>>
    BY <1>6, <2>1 DEF Probe, AtPlace
  <2>4. /\ pc' \in [Scripts -> Places] /\ OneScript' /\ WhoIsThere'
        /\ \A q \in Scripts : (held'[q] # None) = (pc'[q] \in {"listen", "fork"})
    BY <2>1, <2>2, <2>3, Moves DEF Places, Spawning
  <2> QED
    BY <1>1, <2>3, <2>4 DEF AloneInv, TypeOK, Places
<1>7. CASE Unlink(p)
  <2>1. Others(p) /\ pc[p] = "unlink" /\ workers = {}
    BY <1>7, Alone DEF Unlink, AtPlace, Down
  <2>2. AtPlace(p, "bind")' /\ Goto(p, "bind") /\ path' = None
        /\ UNCHANGED <<restarts, held, left, listening, workers, commands, crashes>>
    BY <1>7, <2>1 DEF Unlink, Unlinked, AtPlace, Before
  <2>3. /\ pc' \in [Scripts -> Places] /\ OneScript' /\ WhoIsThere'
        /\ \A q \in Scripts : (held'[q] # None) = (pc'[q] \in {"listen", "fork"})
    BY <2>1, <2>2, Moves DEF Places, Spawning
  <2> QED
    BY <1>1, <2>2, <2>3 DEF AloneInv, TypeOK, Places
<1> QED
  BY <1>2, <1>3, <1>4, <1>5, <1>6, <1>7

\* While nobody is there and nobody holds a socket, bind() makes a new one.
LEMMA SocketToBind ==
  ASSUME AloneInv, NEW p \in Scripts, Others(p), pc[p] = "bind", workers = {}
  PROVE  NewSocket \in Sockets
<1>1. \A q \in Scripts : held[q] = None
  BY DEF AloneInv, TypeOK, Others
<1>2. \A s \in Sockets : ~Held(s)
  BY <1>1, Sizes DEF Held
<1>3. \E s \in Sockets : s # path /\ ~Held(s)
  BY <1>2, Sizes
<1> QED
  BY <1>3 DEF NewSocket

\* spawn-fcgi from bind() to its end, with the workers on its socket.
LEMMA UpSteps ==
  ASSUME AloneInv, NEW p \in Scripts,
         Bind(p) \/ Listen(p) \/ Fork(p) \/ Spawned(p)
  PROVE  AloneInv'
<1>1. /\ TypeOK /\ IsFiniteSet(workers) /\ pc \in [Scripts -> Places]
      /\ held \in [Scripts -> Sockets \cup {None}] /\ PROC_NUM \in Nat \ {0}
      /\ left \in [Scripts -> 0..PROC_NUM]
  BY LifecycleAssumption DEF AloneInv, TypeOK, Places
<1>2. CASE Bind(p)
  <2>1. Others(p) /\ pc[p] = "bind" /\ workers = {}
    BY <1>2, Alone DEF Bind, AtPlace, Down
  <2>2. CASE path = None
    <3>1. /\ path' = NewSocket /\ NewSocket \in Sockets /\ NewSocket # None
          /\ listening' = listening \ {NewSocket}
          /\ held' = [held EXCEPT ![p] = NewSocket] /\ pc' = [pc EXCEPT ![p] = "listen"]
          /\ UNCHANGED <<restarts, left, workers, commands, crashes>>
      BY <1>2, <2>1, <2>2, SocketToBind, Sizes DEF Bind, Goto
    <3>2. /\ pc' \in [Scripts -> Places] /\ held' \in [Scripts -> Sockets \cup {None}]
          /\ pc'[p] = "listen" /\ held'[p] = NewSocket
          /\ \A q \in Scripts : q # p => /\ pc'[q] = "idle" /\ held'[q] = held[q]
                                        /\ pc[q] = "idle"
      BY <1>1, <2>1, <3>1 DEF Places, Spawning, Others
    <3>3. \A q \in Scripts : (held'[q] # None) = (pc'[q] \in {"listen", "fork"})
      BY <1>1, <3>1, <3>2 DEF TypeOK
    <3>4. OneScript' /\ WhoIsThere'
      BY <2>1, <3>1, <3>2 DEF OneScript, WhoIsThere, Before, Down
    <3> QED
      BY <1>1, <3>1, <3>2, <3>3, <3>4 DEF AloneInv, TypeOK, Places
  <2>3. CASE path # None
    <3>1. AtPlace(p, "idle")' /\ Goto(p, "idle")
          /\ UNCHANGED <<restarts, held, left, path, listening, workers, commands, crashes>>
      BY <1>2, <2>1, <2>3 DEF Bind, AtPlace
    <3>2. /\ pc' \in [Scripts -> Places] /\ OneScript' /\ WhoIsThere'
          /\ \A q \in Scripts : (held'[q] # None) = (pc'[q] \in {"listen", "fork"})
      BY <2>1, <3>1, Moves DEF Places
    <3> QED
      BY <1>1, <3>1, <3>2 DEF AloneInv, TypeOK, Places
  <2> QED
    BY <2>2, <2>3
<1>3. CASE Listen(p)
  <2>1. Others(p) /\ pc[p] = "listen" /\ workers = {} /\ held[p] = path
    BY <1>3, Alone DEF Listen, AtPlace, Down
  <2>2. held[p] \in Sockets
    BY <1>1, <2>1 DEF TypeOK
  <2>3. /\ listening' = listening \cup {held[p]} /\ pc' = [pc EXCEPT ![p] = "fork"]
        /\ left' = [left EXCEPT ![p] = PROC_NUM]
        /\ UNCHANGED <<restarts, held, path, workers, commands, crashes>>
    BY <1>3 DEF Listen, Goto
  <2>4. /\ pc' \in [Scripts -> Places] /\ left' \in [Scripts -> 0..PROC_NUM]
        /\ pc'[p] = "fork"
        /\ \A q \in Scripts : q # p => pc'[q] = "idle" /\ pc[q] = "idle"
    BY <1>1, <2>1, <2>3 DEF Places, Spawning, Others
  <2>5. \A q \in Scripts : (held'[q] # None) = (pc'[q] \in {"listen", "fork"})
    BY <1>1, <2>1, <2>3, <2>4 DEF TypeOK
  <2>6. OneScript' /\ WhoIsThere'
    BY <2>1, <2>3, <2>4 DEF OneScript, WhoIsThere, Reachable, Before, Down
  <2> QED
    BY <1>1, <2>2, <2>3, <2>4, <2>5, <2>6 DEF AloneInv, TypeOK, Places
<1>4. CASE Fork(p)
  <2>1. Others(p) /\ pc[p] = "fork" /\ Reachable /\ held[p] = path
    BY <1>4, Alone DEF Fork, AtPlace
  <2>2. held[p] \in Sockets /\ left[p] \in 1..PROC_NUM
    BY <1>1, <1>4, <2>1 DEF TypeOK, Fork, MoreForks
  <2>3. /\ workers' = workers \cup {[sock |-> held[p], n |-> left[p], term |-> FALSE]}
        /\ left' = [left EXCEPT ![p] = left[p] - 1]
        /\ UNCHANGED <<pc, restarts, held, path, listening, commands, crashes>>
    BY <1>4 DEF Fork
  <2>4. left' \in [Scripts -> 0..PROC_NUM]
    BY <1>1, <2>2, <2>3
  <2>a. [sock |-> held[p], n |-> left[p], term |-> FALSE] \in WorkerType
    BY <2>2 DEF WorkerType
  <2>5. workers' \subseteq WorkerType /\ IsFiniteSet(workers')
    BY <1>1, <2>2, <2>3, <2>a, FS_AddElement DEF TypeOK, WorkerType
  <2>6. OneScript' /\ WhoIsThere'
    BY <2>1, <2>3 DEF AloneInv, OneScript, WhoIsThere, Others, Reachable, Before, Down
  <2> QED
    BY <1>1, <2>3, <2>4, <2>5, <2>6 DEF AloneInv, TypeOK, WorkerType
<1>5. CASE Spawned(p)
  <2>1. Others(p) /\ pc[p] = "fork" /\ Reachable
    BY <1>5, Alone DEF Spawned, AtPlace
  <2>2. /\ held' = [held EXCEPT ![p] = None] /\ pc' = [pc EXCEPT ![p] = "idle"]
        /\ UNCHANGED <<restarts, left, path, listening, workers, commands, crashes>>
    BY <1>5 DEF Spawned, Goto
  <2>3. /\ pc' \in [Scripts -> Places] /\ held' \in [Scripts -> Sockets \cup {None}]
        /\ \A q \in Scripts : pc'[q] = "idle" /\ held'[q] = None
    BY <1>1, <2>1, <2>2 DEF Places, Others, TypeOK
  <2>4. OneScript' /\ WhoIsThere'
    BY <2>1, <2>2, <2>3 DEF OneScript, WhoIsThere, Reachable, Before, Down
  <2> QED
    BY <1>1, <2>2, <2>3, <2>4 DEF AloneInv, TypeOK, Places
<1> QED
  BY <1>2, <1>3, <1>4, <1>5

\* A worker that exits or dies strands nobody.
LEMMA WorkersLeave ==
  ASSUME AloneInv, NEW w \in workers, Exit(w) \/ Crash(w)
  PROVE  AloneInv'
<1>1. /\ workers' = workers \ {w}
      /\ UNCHANGED <<pc, restarts, held, left, path, listening, commands>>
      /\ crashes' \in 0..MaxCrashes
  BY LifecycleAssumption DEF Exit, Crash, scripts, AloneInv, TypeOK
<1>2. IsFiniteSet(workers')
  BY <1>1, FS_RemoveElement DEF AloneInv
<1>3. OneScript' /\ WhoIsThere'
  BY <1>1 DEF AloneInv, OneScript, WhoIsThere, Reachable
<1> QED
  BY <1>1, <1>2, <1>3 DEF AloneInv, TypeOK

\* While no script runs, every worker accepts from the socket the file names, and
\* all is of its type, so long as scripts never overlap (service_manager.sh 41-76).
THEOREM NobodyStranded == ASSUME ~Overlap PROVE Spec => []AllReachable
<1>1. Init => AloneInv
  BY FS_EmptySet, LifecycleAssumption, Sizes
     DEF Init, AloneInv, TypeOK, OneScript, WhoIsThere, Down, Before
<1>2. AloneInv /\ [Next]_vars => AloneInv'
  <2> SUFFICES ASSUME AloneInv, [Next]_vars PROVE AloneInv'
    OBVIOUS
  <2>1. CASE UNCHANGED vars
    BY <2>1 DEF vars, scripts, AloneInv, TypeOK, OneScript, WhoIsThere, Reachable
  <2>2. ASSUME NEW p \in Scripts, Run(p) \/ Protect(p) \/ Step(p)
        PROVE  AloneInv'
    BY <2>2, BeforeSteps, DownSteps, UpSteps DEF Step
  <2>3. ASSUME NEW w \in workers, Exit(w) \/ Crash(w)
        PROVE  AloneInv'
    BY <2>3, WorkersLeave
  <2> QED
    BY <2>1, <2>2, <2>3 DEF Next
<1>3. AloneInv => AllReachable
  <2> SUFFICES ASSUME AloneInv, Idle, NEW w \in workers
               PROVE  w.sock = path /\ Listens(path)
    BY DEF AloneInv, AllReachable
  <2>1. Reachable
    BY DEF AloneInv, WhoIsThere, Before, Idle
  <2> QED
    BY <2>1 DEF Reachable, Listens, Held
<1> QED
  BY <1>1, <1>2, <1>3, PTL DEF Spec
=============================================================================
