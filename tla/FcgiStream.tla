----------------------------- MODULE FcgiStream -----------------------------
(***************************************************************************)
(* Fastcgipp::Fcgistream: what a request writes goes through an encoder,   *)
(* which replaces characters, to FcgistreamSink::write(), which cuts it    *)
(* into records of the space the transmit buffer has (TransmitBuffer:      *)
(* RoomForRecord).  One thread runs it; the space it is given is another   *)
(* component's choice.  A character is its place in the text.              *)
(***************************************************************************)
EXTENDS Integers, Sequences

CONSTANTS
  MinRoom,   \* Buffer::minBlockSize: requestWrite() gives this much or more
  MaxRoom,   \* Chunk::size: and never more than this
  MaxSize,   \* numeric_limits<uint16_t>::max()
  MaxText,   \* bound: characters of a text
  MaxWrite   \* bound: bytes given to the sink at once

chunkSize  == 8
HeaderSize == 8   \* sizeof(Header)

ASSUME StreamAssumption ==
  /\ MinRoom \in Nat /\ MinRoom >= HeaderSize + chunkSize
  /\ MaxSize \in Nat /\ MaxSize >= HeaderSize + chunkSize
  /\ MaxRoom \in Nat /\ MaxText \in Nat /\ MaxWrite \in Nat

VARIABLES
  pc,       \* idle, encode, sink, crashed
  text,     \* the text that is written, as whether each character is replaced
  i,        \* Encoder::write()'s i, as an index
  start,    \* its start
  encoded,  \* what went to the sink's buffer
  n,        \* FcgistreamSink::write()'s n
  written,  \* bytes put in records since write() was called
  record    \* the last record: what its header says and the space it took

vars == <<pc, text, i, start, encoded, n, written, record>>

Raw(k)     == [place |-> k, replaced |-> FALSE]
Replace(k) == [place |-> k, replaced |-> TRUE]

\* Characters a up to but not including b, as they are.
Run(a, b) == [k \in 1..(b - a) |-> Raw(a + k - 1)]

-----------------------------------------------------------------------------
(* Encoder::write(): state HTML or URL.                                    *)

EncodeBegin ==
  /\ pc = "idle"
  /\ \E len \in 1..MaxText : text' \in [1..len -> BOOLEAN]
  /\ pc' = "encode" /\ i' = 1 /\ start' = 1 /\ encoded' = <<>>
  /\ UNCHANGED <<n, written, record>>

Special == i <= Len(text) /\ text[i]

AfterForgotten == start
After          == i + 1

\* The run before a replaced character is written with a length of start-i:
\* the sink's buffer takes nothing, or copies a negative number of bytes.
EncodeSpecial ==
  /\ pc = "encode" /\ Special
  /\ \/ /\ encoded' = Append(encoded, Replace(i))
        /\ start' = After /\ i' = i + 1
        /\ UNCHANGED pc
     \/ /\ start < i
        /\ pc' = "crashed"
        /\ UNCHANGED <<encoded, start, i>>
  /\ UNCHANGED <<text, n, written, record>>

EncodePlain ==
  /\ pc = "encode" /\ i <= Len(text) /\ ~text[i]
  /\ i' = i + 1
  /\ UNCHANGED <<pc, text, start, encoded, n, written, record>>

EncodeRest ==
  /\ pc = "encode" /\ i = Len(text) + 1
  /\ encoded' = encoded \o Run(start, i)
  /\ pc' = "idle"
  /\ UNCHANGED <<text, i, start, n, written, record>>

-----------------------------------------------------------------------------
(* FcgistreamSink::write().                                                *)

SinkBegin ==
  /\ pc = "idle"
  /\ n' \in 1..MaxWrite
  /\ pc' = "sink" /\ written' = 0
  /\ UNCHANGED <<text, i, start, encoded, record>>

\* The size asked for: the header and n bytes, filled up to whole chunks.
Filled(k) == IF k % chunkSize = 0 THEN k ELSE k + (chunkSize - (k % chunkSize))
AskedBare(k) == IF Filled(k) > MaxSize THEN MaxSize ELSE Filled(k)
Asked(k)  == IF Filled(k) + HeaderSize > MaxSize THEN MaxSize ELSE Filled(k) + HeaderSize

\* Whole chunks of the space that is given.
AsGiven(room)     == room
WholeChunks(room) == (room \div chunkSize) * chunkSize

\* contentLength and contentPadding.
Content(size, k) == IF size - HeaderSize < k THEN size - HeaderSize ELSE k
Padding(len)      == IF len % chunkSize = 0 THEN 0 ELSE chunkSize - (len % chunkSize)

NewRecord(size, k) == [content |-> Content(size, k),
                       padding |-> Padding(Content(size, k)),
                       size    |-> size]

\* requestWrite(): what is asked for or the space there is, if that is less.
Given(room) == IF Asked(n) < room THEN Asked(n) ELSE room

SinkWrite ==
  /\ pc = "sink" /\ n > 0
  /\ \E room \in MinRoom..MaxRoom :
       record' = NewRecord(WholeChunks(Given(room)), n)
  /\ n' = n - record'.content
  /\ written' = written + record'.content
  /\ UNCHANGED <<pc, text, i, start, encoded>>

SinkEnd ==
  /\ pc = "sink" /\ n = 0
  /\ pc' = "idle"
  /\ UNCHANGED <<text, i, start, encoded, n, written, record>>

-----------------------------------------------------------------------------
NoRecord == [content |-> 0, padding |-> 0, size |-> HeaderSize]

Init ==
  /\ pc = "idle"
  /\ text = <<>> /\ i = 1 /\ start = 1 /\ encoded = <<>>
  /\ n = 0 /\ written = 0
  /\ record = NoRecord

Next ==
  \/ EncodeBegin \/ EncodeSpecial \/ EncodePlain \/ EncodeRest
  \/ SinkBegin   \/ SinkWrite     \/ SinkEnd

Spec == Init /\ [][Next]_vars

-----------------------------------------------------------------------------
(* Properties.                                                             *)

\* Every variable has its type, and start never passes i.
TypeOK ==
  /\ pc \in {"idle", "encode", "sink", "crashed"}
  /\ i \in Nat /\ start \in 1..i
  /\ n \in Nat /\ written \in Nat
  /\ record \in [content : Nat, padding : 0..(chunkSize - 1), size : Nat]

\* The header of a record says exactly how much space it takes, whatever
\* space there was, so the web server finds the next record; and both
\* lengths fit their fields (fcgistream.cpp 147-169).
RecordFramed ==
  /\ record.size = HeaderSize + record.content + record.padding
  /\ record.size <= MaxSize

\* Every record carries something, so write() ends (fcgistream.cpp 142-157).
EveryRecordCounts == [][record' # record => record'.content > 0 /\ n' < n]_vars

\* No character that is to be replaced is written as it is
\* (fcgistream.cpp 119-134).
NoSpecialRaw ==
  \A k \in DOMAIN encoded : text[encoded[k].place] => encoded[k].replaced

\* Characters keep their order and are not written twice.
InOrder ==
  \A j, k \in DOMAIN encoded : j < k => encoded[j].place < encoded[k].place

\* All that was before `start' has been written, replaced or not: encoding
\* changes the characters of the table and no others.
NothingLost == Len(encoded) >= start - 1
=============================================================================
