---------------------------- MODULE Transceiver ----------------------------
(***************************************************************************)
(* Fastcgipp::Transceiver::handler(), the receiving side: connections are  *)
(* accepted, polled, read record by record and given up.  The records go   *)
(* to the requests of the manager, which are only kept as far as they      *)
(* decide what happens to a descriptor: each answers once and frees its    *)
(* connection's descriptor, or keeps it, with its last record.             *)
(*                                                                         *)
(* All descriptors block (transceiver.cpp 94, 204 and 207 clear            *)
(* O_NONBLOCK), so the thread may wait in accept() or read(): label `pc'   *)
(* says where.  A byte is <<connection, record number, position>>.         *)
(***************************************************************************)
EXTENDS Integers, Sequences, FiniteSets, SequencesExt

CONSTANTS
  Conns,        \* connections the web server makes
  FcgiIds,      \* request ids it uses on a connection
  MaxFd,        \* descriptors for connections are 1..MaxFd
  HeaderSize,   \* sizeof(Header)
  Contents,     \* sizes of a record's content and padding
  MaxRecords,   \* bound: records sent, over all connections (but each may send one)
  Begins,       \* how the server begins requests: subset of {"begin", "keep"}
  Multiplex,    \* the server runs several requests on a connection at once
  EarlyClose,   \* it may close a connection it has sent nothing on
  Rivals,       \* other processes accept from the same listening socket
  Signals       \* a signal may interrupt a call that waits

Socket == 0          \* the listening descriptor
Fds    == 1..MaxFd   \* connections

ASSUME TransceiverAssumption ==
  /\ HeaderSize \in Nat \ {0} /\ Contents \subseteq Nat /\ MaxRecords \in Nat
  /\ MaxFd \in Nat /\ MaxFd >= Cardinality(Conns)
  /\ Begins \subseteq {"begin", "keep"}

CONSTANT NoConn
ASSUME NoConnAssumption == NoConn \notin Conns

VARIABLES
  pc,         \* where the thread is: loop, accept, header, body, thrown, crashed
  cur,        \* handler()'s local `fd'
  it,         \* handler()'s local `pollFd': the descriptor it points at
  pollFds,    \* Transceiver::pollFds, without the wake-up socket
  fdBuffers,  \* Transceiver::fdBuffers: bytes got, and whether data is set
  fdConn,     \* kernel: the connection behind each open descriptor
  backlog,    \* kernel: connections not yet accepted
  wire,       \* bytes sent on each connection and not read
  avail,      \* how many of them have arrived
  peerOpen,   \* the server has the connection open
  rec,        \* records the server sent on each connection
  phase,      \* server: what it has sent of each request on each connection
  requests,   \* requests of the manager
  count,      \* records handed up from each connection
  handed,     \* the last record handed up
  replied     \* the last answer written

kernel == <<fdConn, backlog, wire, avail, peerOpen>>
server == <<rec, phase>>
upper  == <<requests, count, handed, replied>>
vars   == <<pc, cur, it, pollFds, fdBuffers, kernel, server, upper>>

\* BEGIN_REQUEST without and with the keep-connection flag, the record that
\* completes the request's input, and ABORT_REQUEST.
Kinds == Begins \cup {"last", "abort"}
RecordType == [kind : Kinds, id : FcgiIds, len : Contents]
RequestType == [fd : Fds, id : FcgiIds, conn : Conns, kill : BOOLEAN, ready : BOOLEAN]

RecordBytes(c, r) == [k \in 1..(HeaderSize + rec[c][r].len) |-> <<c, r, k>>]
RecordOf(bytes)   == rec[bytes[1][1]][bytes[1][2]]

-----------------------------------------------------------------------------
(* Descriptors.                                                            *)

Polled(fd) == \E k \in DOMAIN pollFds : pollFds[k] = fd
Hup(fd)    == fd # Socket /\ ~peerOpen[fdConn[fd]]
Ready(fd)  == IF fd = Socket THEN backlog # <<>>
                             ELSE Hup(fd) \/ avail[fdConn[fd]] > 0

\* find_if(..., reventsZero): the first descriptor poll() has news of is the k-th.
FirstReady(k) == Ready(pollFds[k]) /\ \A j \in 1..(k - 1) : ~Ready(pollFds[j])

\* The lowest descriptor that is free.
NewFd(fd) == fdConn[fd] = NoConn /\ \A g \in 1..(fd - 1) : fdConn[g] # NoConn

EraseBuffer(fd) == [g \in DOMAIN fdBuffers \ {fd} |-> fdBuffers[g]]
Fresh           == [got |-> <<>>, framed |-> FALSE]

Close(fd) ==
  LET c == fdConn[fd] IN
  /\ fdConn' = [fdConn EXCEPT ![fd] = NoConn]
  /\ peerOpen' = [peerOpen EXCEPT ![c] = FALSE]
  /\ wire' = [wire EXCEPT ![c] = <<>>] /\ avail' = [avail EXCEPT ![c] = 0]
  /\ UNCHANGED backlog

\* freeFd(): close a descriptor and forget it, if it is polled.
FreeFd(fd) ==
  IF Polled(fd)
    THEN /\ \E k \in DOMAIN pollFds : pollFds[k] = fd /\ pollFds' = RemoveAt(pollFds, k)
         /\ fdBuffers' = EraseBuffer(fd)
         /\ Close(fd)
    ELSE UNCHANGED <<pollFds, fdBuffers, kernel>>

-----------------------------------------------------------------------------
(* handler().                                                              *)

\* Hang-up: forget the descriptor.  It is not closed.
HangUpClosing(fd) == Close(fd)
HangUpKeeping(fd) == UNCHANGED kernel

PollHangUp ==
  /\ pc = "loop"
  /\ \E k \in DOMAIN pollFds :
       /\ FirstReady(k) /\ Hup(pollFds[k])
       /\ fdBuffers' = EraseBuffer(pollFds[k])
       /\ pollFds' = RemoveAt(pollFds, k)
       /\ HangUpKeeping(pollFds[k])
  /\ UNCHANGED <<pc, cur, it, server, upper>>

PollAccept ==
  /\ pc = "loop"
  /\ \E k \in DOMAIN pollFds : FirstReady(k) /\ pollFds[k] = Socket
  /\ pc' = "accept" /\ it' = Socket
  /\ UNCHANGED <<cur, pollFds, fdBuffers, kernel, server, upper>>

\* accept() returns: poll the new descriptor, and go on to read from it.
WatchNone(fd) == pollFds
Watch(fd)     == Append(pollFds, fd)

Accept ==
  /\ pc = "accept" /\ backlog # <<>>
  /\ \E fd \in Fds :
       /\ NewFd(fd)
       /\ fdConn' = [fdConn EXCEPT ![fd] = Head(backlog)]
       /\ pollFds' = Watch(fd)
       /\ fdBuffers' = [g \in DOMAIN fdBuffers \cup {fd} |->
                          IF g = fd THEN Fresh ELSE fdBuffers[g]]
       /\ cur' = fd
  /\ backlog' = Tail(backlog)
  /\ pc' = "header"
  /\ UNCHANGED <<it, wire, avail, peerOpen, server, upper>>

PollRead ==
  /\ pc = "loop"
  /\ \E k \in DOMAIN pollFds :
       /\ FirstReady(k) /\ pollFds[k] # Socket /\ ~Hup(pollFds[k])
       /\ cur' = pollFds[k] /\ it' = pollFds[k]
       /\ pc' = IF fdBuffers[pollFds[k]].framed THEN "body" ELSE "header"
  /\ UNCHANGED <<pollFds, fdBuffers, kernel, server, upper>>

Conn      == fdConn[cur]
Buffer    == fdBuffers[cur]
CanRead   == avail[Conn] > 0
EndOfFile == avail[Conn] = 0 /\ ~peerOpen[Conn]

\* What the first and the second read() ask for.
Missing     == HeaderSize - Len(Buffer.got)
NeededWhole == HeaderSize + RecordOf(Buffer.got).len
Needed      == HeaderSize + RecordOf(Buffer.got).len - Len(Buffer.got)

\* read() of at most n bytes.
Taken(n) == IF n < avail[Conn] THEN n ELSE avail[Conn]
Read(n) ==
  /\ wire' = [wire EXCEPT ![Conn] = SubSeq(@, Taken(n) + 1, Len(@))]
  /\ avail' = [avail EXCEPT ![Conn] = @ - Taken(n)]
  /\ UNCHANGED <<fdConn, backlog, peerOpen>>
Stored(n) == Buffer.got \o SubSeq(wire[Conn], 1, Taken(n))

ReadHeader ==
  /\ pc = "header" /\ CanRead
  /\ Read(Missing)
  /\ LET whole == Taken(Missing) = Missing IN
     /\ fdBuffers' = [fdBuffers EXCEPT ![cur] = [got |-> Stored(Missing), framed |-> whole]]
     /\ pc' = IF whole THEN "body" ELSE "loop"
  /\ UNCHANGED <<cur, it, pollFds, server, upper>>

\* End of file instead of a header: the descriptor `pollFd' points at is
\* erased.  After an accept() that is the listening socket, or, if
\* push_back() moved the vector, memory that is no longer the vector's.
HeaderEndOfFile ==
  /\ pc = "header" /\ EndOfFile
  /\ \/ /\ pc' = "loop"
        /\ fdBuffers' = EraseBuffer(it)
        /\ \E k \in DOMAIN pollFds : pollFds[k] = it /\ pollFds' = RemoveAt(pollFds, k)
     \/ /\ it = Socket
        /\ pc' = "crashed"
        /\ UNCHANGED <<fdBuffers, pollFds>>
  /\ UNCHANGED <<cur, it, kernel, server, upper>>

\* What is left of the record was not all there.
ReadBody ==
  /\ pc = "body" /\ CanRead
  /\ Needed > avail[Conn]
  /\ Read(Needed)
  /\ fdBuffers' = [fdBuffers EXCEPT ![cur].got = Stored(Needed)]
  /\ pc' = "loop"
  /\ UNCHANGED <<cur, it, pollFds, server, upper>>

BodyEndOfFile ==
  /\ pc = "body" /\ EndOfFile /\ Needed > 0
  /\ pc' = "loop"
  /\ UNCHANGED <<cur, it, pollFds, fdBuffers, kernel, server, upper>>

\* The request of descriptor fd and id i, as the manager finds it.
Of(fd, i) == {q \in requests : q.fd = fd /\ q.id = i}

\* sendMessage(): a begin record creates the request unless there is one
\* with this FullId already, which is then given the record as any other.
HandUp(bytes) ==
  LET r  == RecordOf(bytes)
      qs == Of(cur, r.id)
  IN /\ requests' =
          IF qs = {}
            THEN IF r.kind \in Begins
                   THEN requests \cup {[fd |-> cur, id |-> r.id, conn |-> Conn,
                                        kill |-> r.kind = "begin", ready |-> FALSE]}
                   ELSE requests
            ELSE CASE r.kind \in Begins -> requests
                   [] r.kind = "abort" -> requests \ qs
                   [] r.kind = "last"  -> (requests \ qs) \cup
                                          {[q EXCEPT !.ready = TRUE] : q \in qs}
     /\ count' = [count EXCEPT ![Conn] = @ + 1]
     /\ handed' = << [bytes |-> bytes, conn |-> Conn,
                      owners |-> {q.conn : q \in qs}] >>
     /\ UNCHANGED replied

\* The buffer after its record went up.
Reset    == Fresh

ReadRecord ==
  /\ pc = "body"
  /\ Needed <= avail[Conn]
  /\ Read(Needed)
  /\ HandUp(Stored(Needed))
  /\ fdBuffers' = [fdBuffers EXCEPT ![cur] = Reset]
  /\ pc' = "loop"
  /\ UNCHANGED <<cur, it, pollFds, server>>

\* The signal handlers are installed without SA_RESTART: accept() gives
\* descriptor -1, whose read() fails; a read() that waits fails.  Both are
\* thrown through handler().
Interrupted ==
  /\ Signals
  /\ \/ pc = "accept" /\ backlog = <<>>
     \/ pc \in {"header", "body"} /\ ~CanRead /\ peerOpen[Conn]
        /\ ~(pc = "body" /\ Needed = 0)
  /\ pc' = "thrown"
  /\ UNCHANGED <<cur, it, pollFds, fdBuffers, kernel, server, upper>>

HandlerStep ==
  \/ PollHangUp \/ PollAccept \/ Accept     \/ PollRead      \/ ReadHeader
  \/ ReadBody   \/ ReadRecord \/ HeaderEndOfFile \/ BodyEndOfFile

-----------------------------------------------------------------------------
(* The manager, between two calls of handler(): a request answers, and the *)
(* last frame of the answer frees the descriptor if it is to be closed or  *)
(* cannot be written to (transmit()).                                      *)

Reply(q) ==
  /\ pc = "loop" /\ q.ready
  /\ requests' = requests \ {q}
  /\ replied' = << [owner |-> q.conn, to |-> fdConn[q.fd]] >>
  /\ LET c == fdConn[q.fd] IN
     /\ IF c = NoConn \/ q.kill \/ ~peerOpen[c]
          THEN FreeFd(q.fd)
          ELSE UNCHANGED <<pollFds, fdBuffers, kernel>>
     /\ phase' = IF c = NoConn THEN phase ELSE [phase EXCEPT ![c][q.id] = "none"]
  /\ UNCHANGED <<pc, cur, it, rec, count, handed>>

-----------------------------------------------------------------------------
(* The web server and the other worker processes.                          *)

Connect(c) ==
  /\ ~peerOpen[c] /\ rec[c] = <<>> /\ phase[c] = [i \in FcgiIds |-> "none"]
  /\ c \notin ToSet(backlog) /\ \A fd \in Fds : fdConn[fd] # c
  /\ peerOpen' = [peerOpen EXCEPT ![c] = TRUE]
  /\ phase' = [phase EXCEPT ![c] = [i \in FcgiIds |-> "new"]]
  /\ backlog' = Append(backlog, c)
  /\ UNCHANGED <<pc, cur, it, pollFds, fdBuffers, fdConn, wire, avail, rec, upper>>

Idle(c) == \A i \in FcgiIds : phase[c][i] \in {"new", "none"}

\* The records sent so far, of all connections.
Sent == FoldFunction(LAMBDA r, n : Len(r) + n, 0, rec)

Send(c, i, kind) ==
  /\ peerOpen[c] /\ (rec[c] = <<>> \/ Sent < MaxRecords)
  /\ \/ kind \in Begins /\ phase[c][i] \in {"new", "none"} /\ (Multiplex \/ Idle(c))
     \/ kind = "last"   /\ phase[c][i] \in Begins
     \/ kind = "abort"  /\ phase[c][i] \in Begins \cup {"last"}
  /\ \E len \in Contents :
       LET n == Len(rec[c]) + 1 IN
       /\ rec' = [rec EXCEPT ![c] = Append(@, [kind |-> kind, id |-> i, len |-> len])]
       /\ wire' = [wire EXCEPT ![c] = @ \o [k \in 1..(HeaderSize + len) |-> <<c, n, k>>]]
  /\ phase' = [phase EXCEPT ![c][i] = kind]
  /\ UNCHANGED <<pc, cur, it, pollFds, fdBuffers, fdConn, backlog, avail,
                 peerOpen, upper>>

Arrive(c) ==
  /\ \E n \in (avail[c] + 1)..Len(wire[c]) : avail' = [avail EXCEPT ![c] = n]
  /\ UNCHANGED <<pc, cur, it, pollFds, fdBuffers, fdConn, backlog, wire,
                 peerOpen, server, upper>>

\* Some bytes of the connection have arrived.
Heard(c) == avail[c] > 0 \/ count[c] > 0
            \/ \E fd \in DOMAIN fdBuffers : fdConn[fd] = c /\ fdBuffers[fd].got # <<>>

\* The server gives up a connection; what was under way is lost.
PeerClose(c) ==
  /\ peerOpen[c]
  /\ EarlyClose \/ Heard(c)
  /\ peerOpen' = [peerOpen EXCEPT ![c] = FALSE]
  /\ wire' = [wire EXCEPT ![c] = SubSeq(@, 1, avail[c])]
  /\ UNCHANGED <<pc, cur, it, pollFds, fdBuffers, fdConn, backlog, avail,
                 server, upper>>

RivalAccepts ==
  /\ Rivals /\ backlog # <<>>
  /\ backlog' = Tail(backlog)
  /\ peerOpen' = [peerOpen EXCEPT ![Head(backlog)] = FALSE]
  /\ wire' = [wire EXCEPT ![Head(backlog)] = <<>>]
  /\ avail' = [avail EXCEPT ![Head(backlog)] = 0]
  /\ UNCHANGED <<pc, cur, it, pollFds, fdBuffers, fdConn, server, upper>>

-----------------------------------------------------------------------------
Init ==
  /\ pc = "loop" /\ cur = Socket /\ it = Socket
  /\ pollFds = <<Socket>>
  /\ fdBuffers = <<>>
  /\ fdConn = [fd \in Fds |-> NoConn]
  /\ backlog = <<>>
  /\ wire = [c \in Conns |-> <<>>] /\ avail = [c \in Conns |-> 0]
  /\ peerOpen = [c \in Conns |-> FALSE]
  /\ rec = [c \in Conns |-> <<>>]
  /\ phase = [c \in Conns |-> [i \in FcgiIds |-> "none"]]
  /\ requests = {} /\ count = [c \in Conns |-> 0]
  /\ handed = <<>> /\ replied = <<>>

Next ==
  \/ HandlerStep
  \/ Interrupted
  \/ \E q \in requests : Reply(q)
  \/ \E c \in Conns : Connect(c) \/ Arrive(c) \/ PeerClose(c)
  \/ \E c \in Conns, i \in FcgiIds, kind \in Kinds : Send(c, i, kind)
  \/ RivalAccepts

Spec == Init /\ [][Next]_vars

\* handler() is called again and again; bytes sent arrive; the server sends
\* a first record on every connection it makes.
Fairness ==
  /\ WF_vars(HandlerStep)
  /\ \A c \in Conns :
       /\ WF_vars(Arrive(c))
       /\ WF_vars(rec[c] = <<>> /\ \E i \in FcgiIds, kind \in Begins : Send(c, i, kind))

FairSpec == Spec /\ Fairness
-----------------------------------------------------------------------------
(* Properties.                                                             *)

\* Every variable has its type; a buffer has data exactly when it has a whole
\* header (transceiver.cpp 116-153).
TypeOK ==
  /\ pc \in {"loop", "accept", "header", "body", "thrown", "crashed"}
  /\ cur \in Fds \cup {Socket} /\ it \in Fds \cup {Socket}
  /\ pollFds \in Seq(Fds \cup {Socket})
  /\ DOMAIN fdBuffers \subseteq Fds
  /\ \A fd \in DOMAIN fdBuffers : fdBuffers[fd].framed <=> Len(fdBuffers[fd].got) >= HeaderSize
  /\ fdConn \in [Fds -> Conns \cup {NoConn}]
  /\ avail \in [Conns -> Nat]
  /\ \A c \in Conns : avail[c] <= Len(wire[c])
  /\ peerOpen \in [Conns -> BOOLEAN]
  /\ rec \in [Conns -> Seq(RecordType)]
  /\ requests \subseteq RequestType
  /\ count \in [Conns -> Nat]

\* However the bytes of a connection are cut up, what goes up is exactly its
\* next record (transceiver.cpp 114-153); and every variable has its type.
WholeRecords ==
  /\ TypeOK
  /\ handed # <<>> =>
       LET h == handed[1] IN
       count[h.conn] <= Len(rec[h.conn]) /\ h.bytes = RecordBytes(h.conn, count[h.conn])

\* The listening socket stays polled (transceiver.cpp 123-128).
ListeningPolled == pc # "crashed" /\ Polled(Socket)

\* Neither an answer nor a record ever crosses to another connection, even when
\* the one it belongs to is long gone and its descriptor is still named by a
\* request: an answer goes to the connection its request came from or nowhere,
\* and a request is only given records of the connection it was begun on
\* (transceiver.cpp 81-86 against 316-325).
GoesHome ==
  /\ replied # <<>> => replied[1].to \in {replied[1].owner, NoConn}
  /\ handed # <<>> => handed[1].owners \subseteq {handed[1].conn}

\* Every open descriptor is polled, so it will be closed one day.
NoLeakedFd == \A fd \in Fds : fdConn[fd] # NoConn => Polled(fd)

\* A signal does not make handler() throw.
SignalDoesNotThrow == pc # "thrown"

\* accept() is called only when there is a connection to be had; another process may
\* have taken it since poll() (transceiver.cpp 90-93).
AcceptReturns == pc = "accept" => backlog # <<>>

\* The ways handler() ends for good: a signal, the listening socket lost, or a
\* wait in accept() for a connection that another process took.
Stuck == pc = "thrown" \/ ~ListeningPolled \/ ~AcceptReturns

\* Every record the server sends is handed up, unless the server has closed the
\* connection or handler() is stuck (transceiver.cpp 64-156).
RecordsHandedUp ==
  \A c \in Conns :
    count[c] < Len(rec[c]) ~> (count[c] = Len(rec[c]) \/ ~peerOpen[c] \/ Stuck)
=============================================================================
