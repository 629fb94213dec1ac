--------------------------- MODULE TransmitBuffer ---------------------------
(***************************************************************************)
(* Transceiver::Buffer, the chunked transmit buffer, and the loop that     *)
(* empties it, Transceiver::transmit().                                    *)
(*                                                                         *)
(* A chunk is the sequence of the bytes written to it, so `end' is its     *)
(* length; byte number n stands for the n-th byte committed.  The list     *)
(* holds the chunk being read first, then full ones, then the one being    *)
(* written and at most one spare.  A frame of no bytes is never secured:   *)
(* every caller writes at least a record header.                           *)
(***************************************************************************)
EXTENDS Integers, Sequences

CONSTANTS
  Fds,            \* file descriptors of connections
  ChunkSize,      \* Chunk::size
  MinBlockSize,   \* Buffer::minBlockSize
  MaxBytes        \* bound: bytes committed

ASSUME SizesAssumption ==
  /\ ChunkSize \in Nat /\ MinBlockSize \in Nat
  /\ 0 < MinBlockSize /\ MinBlockSize <= ChunkSize
  /\ MaxBytes \in Nat

VARIABLES
  chunks,         \* Buffer::chunks
  writeIt,        \* Buffer::writeIt, as an index
  pRead,          \* Buffer::pRead, as an offset in the first chunk
  frames,         \* Buffer::frames
  transmitting,   \* the thread is in transmit()
  made, sent, freed   \* see FrameQueue

vars == <<chunks, writeIt, pRead, frames, transmitting, made, sent, freed>>

Init ==
  /\ chunks = << <<>> >> /\ writeIt = 1 /\ pRead = 0
  /\ frames = <<>>
  /\ transmitting = FALSE
  /\ made = 0 /\ sent = <<>> /\ freed = {}

-----------------------------------------------------------------------------
\* What requestWrite() has to give.
Room == ChunkSize - Len(chunks[writeIt])

\* secureWrite() of the buffer: n bytes were put into the block requestWrite()
\* gave.  With too little room left the writer moves on, to the spare chunk
\* if there is one.
ChunkFullLater(c) == ChunkSize = Len(c)
ChunkFull(c)      == ChunkSize - Len(c) < MinBlockSize

NewChunk(stored)   == IF writeIt = Len(chunks) THEN Append(stored, <<>>) ELSE stored

SecureWrite(n, fd, kill) ==
  LET written == chunks[writeIt] \o [k \in 1..n |-> made + k]
      stored  == [chunks EXCEPT ![writeIt] = written]
  IN /\ IF ChunkFull(written)
          THEN chunks' = NewChunk(stored) /\ writeIt' = writeIt + 1
          ELSE chunks' = stored /\ UNCHANGED writeIt
     /\ frames' = Append(frames, [size |-> n, fd |-> fd, kill |-> kill])
     /\ made' = made + n

\* secureWrite() of the transceiver: commit, then transmit.
Secure ==
  /\ ~transmitting
  /\ \E n \in 1..Room, fd \in Fds, kill \in BOOLEAN :
       made + n <= MaxBytes /\ SecureWrite(n, fd, kill)
  /\ transmitting' = TRUE
  /\ UNCHANGED <<pRead, sent, freed>>

\* The first chunk is read to its end.
ReadPastEnd(p) == p > Len(chunks[1])
ReadToEnd(p)   == p >= Len(chunks[1])

\* The chunk that was read goes to the back of the list, unless there is a
\* spare already.
RecycleAlways    == Append(Tail(chunks), <<>>)
RecycleUncleared == IF writeIt = Len(chunks) THEN Append(Tail(chunks), chunks[1])
                                             ELSE Tail(chunks)
Recycle          == IF writeIt = Len(chunks) THEN Append(Tail(chunks), <<>>)
                                             ELSE Tail(chunks)

\* freeRead(): n bytes are done with, at most those of the front frame.
FreeRead(n) ==
  /\ IF ~ReadToEnd(pRead + n)
       THEN pRead' = pRead + n /\ UNCHANGED <<chunks, writeIt>>
       ELSE /\ pRead' = 0
            /\ IF writeIt = 1
                 THEN chunks' = [chunks EXCEPT ![1] = <<>>] /\ UNCHANGED writeIt
                 ELSE chunks' = Recycle /\ writeIt' = writeIt - 1
  /\ frames' = IF n = Head(frames).size THEN Tail(frames)
                                        ELSE [frames EXCEPT ![1].size = @ - n]

\* freeFd() at the end of a frame that asks for it.
FreedAfter(n) ==
  IF n = Head(frames).size /\ Head(frames).kill THEN freed \cup {Head(frames).fd}
                                                ELSE freed

-----------------------------------------------------------------------------
(* transmit(), from Transceiver::handler() and after every secureWrite().  *)
(* The descriptors block, so write() takes a whole block unless a signal   *)
(* cuts it short or, before its first byte, makes it fail.                 *)

TransmitBegin ==
  /\ ~transmitting
  /\ transmitting' = TRUE
  /\ UNCHANGED <<chunks, writeIt, pRead, frames, made, sent, freed>>

WriteBlock(n) ==
  /\ sent' = << [fd |-> Head(frames).fd,
                bytes |-> SubSeq(chunks[1], pRead + 1, pRead + n)] >>
  /\ FreeRead(n)
  /\ freed' = FreedAfter(n)
  /\ UNCHANGED made

TransmitAll ==
  /\ transmitting /\ frames # <<>>
  /\ WriteBlock(Head(frames).size)
  /\ UNCHANGED transmitting

TransmitShort ==
  /\ transmitting /\ frames # <<>>
  /\ \E n \in 1..(Head(frames).size - 1) : WriteBlock(n)
  /\ transmitting' = FALSE

\* EPIPE or EBADF: the frame is dropped and the loop goes on.
TransmitBroken ==
  /\ transmitting /\ frames # <<>>
  /\ FreeRead(Head(frames).size)
  /\ freed' = freed \cup {Head(frames).fd}
  /\ UNCHANGED <<transmitting, made, sent>>

\* Any other error is thrown and leaves the buffer as it is.
TransmitThrow ==
  /\ transmitting /\ frames # <<>>
  /\ transmitting' = FALSE
  /\ UNCHANGED <<chunks, writeIt, pRead, frames, made, sent, freed>>

TransmitDone ==
  /\ transmitting /\ frames = <<>>
  /\ transmitting' = FALSE
  /\ UNCHANGED <<chunks, writeIt, pRead, frames, made, sent, freed>>

\* What transmit() returns: whether the read spot is the write spot.
Empty == writeIt = 1 /\ pRead = Len(chunks[1])

Next ==
  \/ Secure        \/ TransmitBegin  \/ TransmitAll \/ TransmitShort
  \/ TransmitThrow \/ TransmitBroken \/ TransmitDone

Spec == Init /\ [][Next]_vars
-----------------------------------------------------------------------------
(* Properties.                                                             *)

Frame == [size : Nat \ {0}, fd : Fds, kill : BOOLEAN]

\* Every variable has its type.
TypeOK ==
  /\ chunks \in Seq(Seq(Nat))
  /\ writeIt \in 1..Len(chunks)
  /\ \A c \in 1..Len(chunks) : Len(chunks[c]) <= ChunkSize
  /\ pRead \in 0..Len(chunks[1])
  /\ frames \in Seq(Frame)
  /\ transmitting \in BOOLEAN
  /\ made \in Nat
  /\ freed \in SUBSET Fds

\* requestWrite() always has room for a small record: complete() and
\* localHandler() write theirs without looking at the size of the block they
\* were given (transceiver.hpp 201-204, transceiver.cpp 53-61, request.cpp
\* 32-43).
RoomForRecord == Room >= MinBlockSize

\* The block handed to write() lies within the chunk it starts in
\* (transceiver.hpp 237-240).
FrontFrameInChunk == frames # <<>> => pRead + Head(frames).size <= Len(chunks[1])

\* transmit() says the buffer is empty exactly when no frame waits: handler()
\* sleeps on that answer (transceiver.hpp 251-254, manager.hpp 311-336).
EmptyAgrees == Empty <=> frames = <<>>

\* The read spot, which transmit(), freeRead() and empty() each use in their own
\* way, is where the queue of frames says it is.
ReadSpotRight == FrontFrameInChunk /\ EmptyAgrees

\* Chunks that were read do not pile up behind the writer
\* (transceiver.cpp 169-176).
OneSpareChunk == Len(chunks) <= writeIt + 1

\* The bytes of w stored chunks from offset p of the first one on; where frame k
\* of a queue ends among them; and each frame's share.
BytesFrom(stored, p, w) ==
  LET from[c \in 1..w] ==
        IF c = 1 THEN SubSeq(stored[1], p + 1, Len(stored[1]))
                 ELSE from[c - 1] \o stored[c]
  IN from[w]

FrameEnd(queue, k) ==
  LET upTo[j \in 0..k] == IF j = 0 THEN 0 ELSE upTo[j - 1] + queue[j].size
  IN upTo[k]

Shares(unread, queue) ==
  [k \in 1..Len(queue) |->
     [bytes |-> SubSeq(unread, FrameEnd(queue, k - 1) + 1, FrameEnd(queue, k)),
      fd |-> queue[k].fd, kill |-> queue[k].kill]]

Frames == Shares(BytesFrom(chunks, pRead, writeIt), frames)

FQ == INSTANCE FrameQueue WITH queue <- Frames, MaxFrame <- ChunkSize

\* The chunks keep the frames' bytes, order and descriptors: every step is a
\* step of the frame queue or invisible to it.
ImplementsFrameQueue == FQ!Spec
=============================================================================
