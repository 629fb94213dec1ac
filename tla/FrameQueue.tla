----------------------------- MODULE FrameQueue -----------------------------
(***************************************************************************)
(* What the transmit buffer promises its users: frames leave in the order  *)
(* they were secured, each to its own file descriptor, none of their bytes *)
(* lost, repeated or out of order, and the descriptor of a frame that asks *)
(* for it is freed with the frame's last byte.  How and where the bytes    *)
(* are kept is left open.                                                  *)
(***************************************************************************)
EXTENDS Integers, Sequences

CONSTANTS
  Fds,      \* file descriptors of connections
  MaxFrame  \* the largest frame

VARIABLES
  queue,   \* frames not yet sent, each with the bytes it has left
  made,    \* bytes committed so far; byte number n is the n-th of them
  sent,    \* the bytes the last write() took and where they went
  freed    \* descriptors freeFd() was called for

Init == queue = <<>> /\ made = 0 /\ sent = <<>> /\ freed = {}

\* The next n bytes are committed as one frame.
Secure(n, fd, kill) ==
  /\ queue' = Append(queue, [bytes |-> [k \in 1..n |-> made + k],
                             fd |-> fd, kill |-> kill])
  /\ made' = made + n
  /\ UNCHANGED <<sent, freed>>

\* write() takes the first n bytes of the front frame.
Send(n) ==
  LET front == Head(queue) IN
  /\ sent' = << [fd |-> front.fd, bytes |-> SubSeq(front.bytes, 1, n)] >>
  /\ IF n = Len(front.bytes)
       THEN /\ queue' = Tail(queue)
            /\ freed' = IF front.kill THEN freed \cup {front.fd} ELSE freed
       ELSE /\ queue' = [queue EXCEPT ![1].bytes = SubSeq(@, n + 1, Len(@))]
            /\ UNCHANGED freed
  /\ UNCHANGED made

\* The reader of the front frame is gone: the rest of the frame is dropped.
Drop ==
  /\ freed' = freed \cup {Head(queue).fd}
  /\ queue' = Tail(queue)
  /\ UNCHANGED <<made, sent>>

Next ==
  \/ \E n \in 1..MaxFrame, fd \in Fds, kill \in BOOLEAN : Secure(n, fd, kill)
  \/ queue # <<>> /\ \E n \in 1..Len(Head(queue).bytes) : Send(n)
  \/ queue # <<>> /\ Drop

Spec == Init /\ [][Next]_<<queue, made, sent, freed>>
=============================================================================
