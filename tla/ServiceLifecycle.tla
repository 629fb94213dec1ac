-------------------------- MODULE ServiceLifecycle --------------------------
(***************************************************************************)
(* How a service is run: service_manager.sh start, stop and restart, the   *)
(* watchdog protect.sh, and spawn-fcgi, which makes the Unix socket and    *)
(* forks the worker processes that accept from it.  The scripts are        *)
(* processes; each step of theirs is a look at the process table, a        *)
(* signal, a system call or a fork, and they interleave with each other    *)
(* and with workers that die.                                              *)
(*                                                                         *)
(* spawn-fcgi has the name of the program on its command line, so the      *)
(* scripts that grep for that name count it and kill it as a worker.  The  *)
(* pid file is left out: nothing reads it.                                 *)
(***************************************************************************)
EXTENDS Integers, FiniteSets

CONSTANTS
  Admins,      \* people who run service_manager.sh
  Guards,      \* timers that run protect.sh
  Commands,    \* what admins run: subset of {"start", "stop", "restart"}
  PROC_NUM,    \* workers of the service
  MaxCommands, \* bound: commands of admins
  MaxCrashes,  \* bound: workers that die by themselves
  Overlap      \* scripts may run at the same time

CONSTANT None
Scripts == Admins \cup Guards
Sockets == 1..(2 * Cardinality(Scripts) + 2)

ASSUME LifecycleAssumption ==
  /\ IsFiniteSet(Scripts) /\ Scripts # {} /\ None \notin Sockets
  /\ PROC_NUM \in Nat \ {0} /\ MaxCommands \in Nat /\ MaxCrashes \in Nat
  /\ Commands \subseteq {"start", "stop", "restart"}
  /\ Overlap \in BOOLEAN

VARIABLES
  pc,        \* where each script is
  restarts,  \* whether a start follows the stop
  held,      \* the socket its spawn-fcgi holds
  left,      \* spawn-fcgi's fork_count
  path,      \* the socket the file in /dev/shm belongs to
  listening, \* sockets after listen()
  workers,   \* worker processes: socket, number, and whether they got SIGTERM
  commands,  \* commands admins have run
  crashes    \* workers that died by themselves

scripts == <<pc, restarts, held, left>>
vars    == <<scripts, path, listening, workers, commands, crashes>>

Idle     == \A p \in Scripts : pc[p] = "idle"
Spawning == {"probe", "unlink", "bind", "listen", "fork"}
Spawners == {p \in Scripts : pc[p] \in Spawning}

\* ps | grep "$FCGI" | wc -l
Counter == Cardinality(workers) + Cardinality(Spawners)

Held(s)    == (\E w \in workers : w.sock = s) \/ (\E p \in Scripts : held[p] = s)
Listens(s) == s \in listening /\ Held(s)
NewSocket  == CHOOSE s \in Sockets : s # path /\ ~Held(s)

Goto(p, l) == pc' = [pc EXCEPT ![p] = l]
Free       == Overlap \/ Idle

-----------------------------------------------------------------------------
(* service_manager.sh                                                      *)

Run(p) ==
  /\ p \in Admins /\ pc[p] = "idle" /\ Free
  /\ commands < MaxCommands /\ commands' = commands + 1
  /\ \E c \in Commands :
       /\ Goto(p, IF c = "start" THEN "count" ELSE "stop")
       /\ restarts' = [restarts EXCEPT ![p] = c = "restart"]
  /\ UNCHANGED <<held, left, path, listening, workers, crashes>>

\* start: nothing is done if anything is there.
StartCount(p) ==
  /\ pc[p] = "count"
  /\ Goto(p, IF Counter > 0 THEN "idle" ELSE "launch")
  /\ UNCHANGED <<restarts, held, left, path, listening, workers, commands, crashes>>

\* spawn-fcgi is in the process table.
Launch(p) ==
  /\ pc[p] = "launch"
  /\ Goto(p, "probe")
  /\ UNCHANGED <<restarts, held, left, path, listening, workers, commands, crashes>>

\* What follows a stop: the end, or sleep 1 and start.
AfterStop(p) == IF restarts[p] THEN "count" ELSE "idle"

StopCount(p) ==
  /\ pc[p] = "stop"
  /\ Goto(p, IF Counter = 0 THEN AfterStop(p) ELSE "term")
  /\ UNCHANGED <<restarts, held, left, path, listening, workers, commands, crashes>>

\* A killed spawn-fcgi lets its script end.
Killed == [p \in Scripts |-> IF p \in Spawners THEN "idle" ELSE pc[p]]
LetGo  == [p \in Scripts |-> IF p \in Spawners THEN None ELSE held[p]]

\* kill -15 of all there are
Terminate(p) ==
  /\ pc[p] = "term"
  /\ workers' = {[w EXCEPT !.term = TRUE] : w \in workers}
  /\ pc' = [Killed EXCEPT ![p] = "remove"] /\ held' = LetGo
  /\ UNCHANGED <<restarts, left, path, listening, commands, crashes>>

\* rm of the socket's file
RemoveFile(p) ==
  /\ pc[p] = "remove"
  /\ path' = None
  /\ Goto(p, "again")
  /\ UNCHANGED <<restarts, held, left, listening, workers, commands, crashes>>

\* sleep 3, and another look
CountAgain(p) ==
  /\ pc[p] = "again"
  /\ Goto(p, IF Counter = 0 THEN AfterStop(p) ELSE "kill")
  /\ UNCHANGED <<restarts, held, left, path, listening, workers, commands, crashes>>

\* kill -9 of all there are
SurvivorsAll == workers
Survivors    == {}

KillAll(p) ==
  /\ pc[p] = "kill"
  /\ workers' = Survivors
  /\ pc' = [Killed EXCEPT ![p] = AfterStop(p)] /\ held' = LetGo
  /\ UNCHANGED <<restarts, left, path, listening, commands, crashes>>

-----------------------------------------------------------------------------
(* protect.sh                                                              *)

\* Are there fewer than PROC_NUM?
Protect(g) ==
  /\ g \in Guards /\ pc[g] = "idle" /\ Free
  /\ Counter < PROC_NUM
  /\ Goto(g, "killall")
  /\ UNCHANGED <<restarts, held, left, path, listening, workers, commands, crashes>>

\* killall goes by the program and so leaves spawn-fcgi alone; then restart.
KillWorkers(g) ==
  /\ pc[g] = "killall"
  /\ workers' = {[w EXCEPT !.term = TRUE] : w \in workers}
  /\ restarts' = [restarts EXCEPT ![g] = TRUE]
  /\ Goto(g, "stop")
  /\ UNCHANGED <<held, left, path, listening, commands, crashes>>

-----------------------------------------------------------------------------
(* spawn-fcgi: bind_socket() and fcgi_spawn_connection().                  *)

\* connect() tells whether the socket is in use.
Probe(p) ==
  /\ pc[p] = "probe"
  /\ Goto(p, IF Listens(path) THEN "idle" ELSE "unlink")
  /\ UNCHANGED <<restarts, held, left, path, listening, workers, commands, crashes>>

UnlinkedNot == path
Unlinked    == None

Unlink(p) ==
  /\ pc[p] = "unlink"
  /\ path' = Unlinked
  /\ Goto(p, "bind")
  /\ UNCHANGED <<restarts, held, left, listening, workers, commands, crashes>>

\* bind() fails if there is a file.
Bind(p) ==
  /\ pc[p] = "bind"
  /\ IF path = None
       THEN /\ path' = NewSocket
            /\ listening' = listening \ {NewSocket}
            /\ held' = [held EXCEPT ![p] = NewSocket]
            /\ Goto(p, "listen")
       ELSE Goto(p, "idle") /\ UNCHANGED <<path, listening, held>>
  /\ UNCHANGED <<restarts, left, workers, commands, crashes>>

Listen(p) ==
  /\ pc[p] = "listen"
  /\ listening' = listening \cup {held[p]}
  /\ left' = [left EXCEPT ![p] = PROC_NUM]
  /\ Goto(p, "fork")
  /\ UNCHANGED <<restarts, held, path, workers, commands, crashes>>

MoreForks(p)    == left[p] > 0

Fork(p) ==
  /\ pc[p] = "fork" /\ MoreForks(p)
  /\ workers' = workers \cup {[sock |-> held[p], n |-> left[p], term |-> FALSE]}
  /\ left' = [left EXCEPT ![p] = @ - 1]
  /\ UNCHANGED <<pc, restarts, held, path, listening, commands, crashes>>

\* spawn-fcgi closes the socket and exits.
Spawned(p) ==
  /\ pc[p] = "fork" /\ ~MoreForks(p)
  /\ held' = [held EXCEPT ![p] = None]
  /\ Goto(p, "idle")
  /\ UNCHANGED <<restarts, left, path, listening, workers, commands, crashes>>

-----------------------------------------------------------------------------
(* The workers.                                                            *)

\* Manager::terminate() lets handler() return; it may take for ever.
Exit(w) ==
  /\ w.term
  /\ workers' = workers \ {w}
  /\ UNCHANGED <<scripts, path, listening, commands, crashes>>

Crash(w) ==
  /\ crashes < MaxCrashes /\ crashes' = crashes + 1
  /\ workers' = workers \ {w}
  /\ UNCHANGED <<scripts, path, listening, commands>>

-----------------------------------------------------------------------------
Init ==
  /\ pc = [p \in Scripts |-> "idle"]
  /\ restarts = [p \in Scripts |-> FALSE]
  /\ held = [p \in Scripts |-> None]
  /\ left = [p \in Scripts |-> 0]
  /\ path = None /\ listening = {} /\ workers = {}
  /\ commands = 0 /\ crashes = 0

Step(p) ==
  \/ StartCount(p) \/ Launch(p)     \/ StopCount(p) \/ Terminate(p) \/ RemoveFile(p)
  \/ CountAgain(p) \/ KillAll(p)    \/ KillWorkers(p)
  \/ Probe(p)      \/ Unlink(p)     \/ Bind(p)      \/ Listen(p)
  \/ Fork(p)       \/ Spawned(p)

Next ==
  \/ \E p \in Scripts : Run(p) \/ Protect(p) \/ Step(p)
  \/ \E w \in workers : Exit(w) \/ Crash(w)

Spec == Init /\ [][Next]_vars

\* Scripts run on; a timer runs protect.sh again and again.
FairSpec == Spec /\ \A p \in Scripts : WF_vars(Step(p)) /\ WF_vars(Protect(p))
-----------------------------------------------------------------------------
(* Properties.                                                             *)

\* Every variable has its type; spawn-fcgi holds a socket exactly after bind().
TypeOK ==
  /\ pc \in [Scripts -> Spawning \cup {"idle", "count", "launch", "stop", "term",
                                       "remove", "again", "kill", "killall"}]
  /\ restarts \in [Scripts -> BOOLEAN]
  /\ held \in [Scripts -> Sockets \cup {None}]
  /\ \A p \in Scripts : (held[p] # None) = (pc[p] \in {"listen", "fork"})
  /\ left \in [Scripts -> 0..PROC_NUM]
  /\ path \in Sockets \cup {None} /\ listening \subseteq Sockets
  /\ workers \subseteq [sock : Sockets, n : 1..PROC_NUM, term : BOOLEAN]
  /\ commands \in 0..MaxCommands /\ crashes \in 0..MaxCrashes

\* Between scripts every worker accepts from the socket the file names: none
\* lives on where no client can reach it (service_manager.sh 41-76).  With it,
\* the types.
AllReachable ==
  /\ TypeOK
  /\ Idle => \A w \in workers : w.sock = path /\ Listens(path)

\* spawn-fcgi never deletes the file of a socket that is listened on: that is
\* what it connects first for (spawn-fcgi.c 109-132).
LiveSocketKept ==
  [][\A p \in Scripts : pc[p] = "unlink" /\ pc'[p] = "bind" => ~Listens(path)]_vars

\* The service as it should be.
Full ==
  /\ Cardinality(workers) = PROC_NUM
  /\ \A w \in workers : w.sock = path /\ ~w.term
  /\ Listens(path)

\* protect.sh keeps the service going: however it was stopped and whichever
\* workers died, in the end all of them serve (protect.sh 22-39).
Heals == <>[]Full
=============================================================================
