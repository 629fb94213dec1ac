------------------------------ MODULE ByteStream ------------------------------
(***************************************************************************)
(* CByteStreamNetwork, by which the framework's requests and responses are *)
(* turned into bytes and back: each type is written as a row of calls of   *)
(* Write() and read by calls of Read(), a container with its size before   *)
(* its elements.  A stream without a buffer only counts.                   *)
(*                                                                         *)
(* An integer is the bytes of its width, the highest first, which is how   *)
(* it is sent; a uint64_t is a number.  A map has for each key the         *)
(* sequence of its values, which for a map is one.                         *)
(***************************************************************************)
EXTENDS Integers, Sequences, FiniteSets, SequencesExt, Functions, TLC

CONSTANTS
  Messages,  \* what is sent: a type, a value of it, and the object it is read into
  Wrap       \* the lengths of a stream are counted modulo this: 2^32

ASSUME StreamAssumption == Wrap \in Nat /\ Wrap > 256

VARIABLES
  bs,      \* the stream
  phase,   \* what the program does next
  message, \* the object that is written
  counted, \* the length that counting gave
  object   \* the object that is read into

streamVars == <<bs, phase, message, counted, object>>

\* The types.
Fixed(width)  == [is |-> "int", width |-> width]
Bool          == [is |-> "bool"]
String        == [is |-> "string"]
Long64        == [is |-> "uint64"]
Vector(type)  == [is |-> "vector", of |-> type]
Map(key, val) == [is |-> "map", key |-> key, val |-> val]
Multimap(key, val) == [is |-> "multimap", key |-> key, val |-> val]
Object(fields) == [is |-> "object", fields |-> fields]
\* Fields that are there from a version on, the object's first byte.
HTTP_REQUEST_VERSION_1 == 101
Since1(fields, more) == [is |-> "versioned", fields |-> fields, more |-> more]
Version1(value) == value[1][1] >= HTTP_REQUEST_VERSION_1

-----------------------------------------------------------------------------
(* Writing.                                                                *)

Size(n) == <<0, 0, n \div 256, n % 256>>
SizeOf(bytes) == 256 * bytes[3] + bytes[4]

\* snprintf() of "%016lix" into 17 bytes, the last of them zero: on a platform of 64
\* bits the number's digits are decimal, and the "x" that follows is cut off.
Digits16(n) == [k \in 1..16 |-> IF k < 8 THEN 0 ELSE (n \div 10^(16 - k)) % 10]
Nul == 10

RECURSIVE Chunks(_, _)
Pairs(v) ==
  LET keys == SetToSortSeq(DOMAIN v, LAMBDA a, b : a[1] < b[1])
  IN FlattenSeq([k \in DOMAIN keys |-> [j \in DOMAIN v[keys[k]] |-> <<keys[k], v[keys[k]][j]>>]])
Chunks(type, v) ==
  LET Row(fields, values) ==
        FlattenSeq([k \in DOMAIN fields |-> Chunks(fields[k], values[k])])
  IN CASE type.is = "int"    -> <<v>>
       [] type.is = "bool"   -> <<IF v THEN <<1>> ELSE <<0>> >>
       [] type.is = "string" -> IF v = <<>> THEN <<Size(0)>> ELSE <<Size(Len(v)), v>>
       [] type.is = "uint64" -> <<Append(Digits16(v), Nul)>>
       [] type.is = "vector" ->
            <<Size(Len(v))>> \o FlattenSeq([k \in DOMAIN v |-> Chunks(type.of, v[k])])
       [] type.is \in {"map", "multimap"} ->
            <<Size(Len(Pairs(v)))>>
            \o FlattenSeq([k \in DOMAIN Pairs(v) |->
                 Chunks(type.key, Pairs(v)[k][1]) \o Chunks(type.val, Pairs(v)[k][2])])
       [] type.is = "object" -> Row(type.fields, v)
       [] type.is = "versioned" ->
            Row(type.fields, v)
            \o IF Version1(v) THEN Row(type.more, SubSeq(v, Len(type.fields) + 1, Len(v)))
                              ELSE <<>>

\* resetStreamBuf() with a buffer of a length; good is both m_bReadGood and m_bWriteGood,
\* as a stream here is only written or only read.
Stream(buffer, length, real, store) ==
  [buffer |-> buffer, length |-> length, left |-> length, good |-> TRUE, real |-> real,
   store |-> store]

\* A stream that goes on after a failure with what still fits.
WriteOn(s, chunk) ==
  CASE ~s.real -> [s EXCEPT !.left = (@ - Len(chunk)) % Wrap]
    [] s.real /\ Len(chunk) <= s.left ->
         [s EXCEPT !.left = @ - Len(chunk), !.buffer = @ \o chunk, !.good = TRUE]
    [] OTHER -> [s EXCEPT !.good = FALSE]

\* A stream that counts never fails.  One that has failed stays so.
Write(s, chunk) ==
  CASE ~s.real -> [s EXCEPT !.left = (@ - Len(chunk)) % Wrap]
    [] s.real /\ s.good /\ Len(chunk) <= s.left ->
         [s EXCEPT !.left = @ - Len(chunk), !.buffer = @ \o chunk]
    [] OTHER -> [s EXCEPT !.good = FALSE]

WriteAll(s, type, v) == FoldLeft(Write, s, Chunks(type, v))
getWrittenLength(s)  == (s.length - s.left) % Wrap

-----------------------------------------------------------------------------
(* Reading: the stream after it, and the value in the object, of which     *)
(* old is the one before.                                                  *)

CanRead(s, n) == s.good /\ n <= s.left
\* Without as many bytes nothing is read, and the stream has failed.
Take(s, n) == IF CanRead(s, n)
              THEN [s EXCEPT !.buffer = SubSeq(@, n + 1, Len(@)), !.left = @ - n]
              ELSE [s EXCEPT !.good = FALSE]
Taken(s, n, old) == IF CanRead(s, n) THEN SubSeq(s.buffer, 1, n) ELSE old

Got(s, v) == [stream |-> s, value |-> v]

\* What is not read is turned over all the same.
GetInt(s, width, old) == Got(Take(s, width), Taken(s, width, Reverse(old)))
GetSize(s) == SizeOf(Taken(s, 4, Size(0)))

\* A string is emptied if its size is zero or cannot be read.
GetText(s, old) ==
  IF GetSize(s) = 0 THEN Got(Take(s, 4), <<>>)
  ELSE Got(Take(Take(s, 4), GetSize(s)), Taken(Take(s, 4), GetSize(s), old))

\* sscanf() of "%016lix": a number that begins with 0 is octal, up to a digit that is
\* not.  Of an empty text nothing is read.
OctalEnd(digits) == Min({17} \cup {k \in 1..16 : digits[k] > 7})
Octal(digits) == FoldLeft(LAMBDA n, d : 8 * n + d, 0, SubSeq(digits, 1, OctalEnd(digits) - 1))
GetLong(s, old) ==
  Got(Take(s, 17), IF CanRead(s, 17) THEN Octal(Taken(s, 17, <<>>)) ELSE old)

RECURSIVE Default(_)
Default(type) ==
  CASE type.is = "int" -> [k \in 1..type.width |-> 0]
    [] type.is = "bool" -> FALSE   [] type.is = "uint64" -> 0
    [] type.is \in {"string", "vector"} -> <<>>
    [] type.is \in {"map", "multimap"} -> [k \in {} |-> <<>>]
    [] type.is = "object" -> [k \in DOMAIN type.fields |-> Default(type.fields[k])]
    [] type.is = "versioned" -> [k \in DOMAIN (type.fields \o type.more) |->
                                   Default((type.fields \o type.more)[k])]

\* A map replaces the value of a key, a multimap adds to them.
Insert(type, v, key, val) ==
  key :> (IF type.is = "multimap" /\ key \in DOMAIN v THEN Append(v[key], val) ELSE <<val>>)
  @@ v

RECURSIVE Get(_, _, _)
Get(s, type, old) ==
  LET Next1(g, field) ==  \* g: the values read so far
        LET got == Get(g.stream, field, old[Len(g.value) + 1])
        IN Got(got.stream, Append(g.value, got.value))
      Row(g, fields) == FoldLeft(Next1, g, fields)
      size == GetSize(s)
      Element(g, k) ==
        LET got == Get(g.stream, type.of, g.value[k])
        IN Got(got.stream, [g.value EXCEPT ![k] = got.value])
      Entry(g, k) ==          \* g: also the key and the value read before
        LET key == Get(g.stream, type.key, g.key)
            val == Get(key.stream, type.val, g.val)
        IN [stream |-> val.stream, key |-> key.value, val |-> val.value,
            value |-> Insert(type, g.value, key.value, val.value)]
      Upto(n) == [k \in 1..n |-> k]
  IN CASE type.is = "int"    -> GetInt(s, type.width, old)
       [] type.is = "bool"   -> Got(Take(s, 1), Taken(s, 1, <<0>>) # <<0>>)
       [] type.is = "string" -> GetText(s, old)
       [] type.is = "uint64" -> GetLong(s, old)
       [] type.is \in {"vector", "map", "multimap"} /\ size = 0 -> Got(Take(s, 4), old)
       [] type.is = "vector" /\ size > 0 ->
            FoldLeft(Element,
                     Got(Take(s, 4), [k \in 1..size |-> IF k \in DOMAIN old THEN old[k]
                                                        ELSE Default(type.of)]), Upto(size))
       [] type.is \in {"map", "multimap"} /\ size > 0 ->
            LET g == FoldLeft(Entry, [stream |-> Take(s, 4), value |-> old,
                                      key |-> Default(type.key), val |-> Default(type.val)],
                              Upto(size))
            IN Got(g.stream, g.value)
       [] type.is = "object" -> Row(Got(s, <<>>), type.fields)
       [] type.is = "versioned" ->
            LET g == Row(Got(s, <<>>), type.fields)
            IN IF Version1(g.value) THEN Row(g, type.more)
               ELSE Got(g.stream, g.value \o SubSeq(old, Len(type.fields) + 1, Len(old)))

-----------------------------------------------------------------------------
(* A program counts the bytes of an object, writes it into a buffer, and   *)
(* reads it, perhaps cut short, on the other side.                         *)

NoStream  == Stream(<<>>, 0, TRUE, TRUE)
NoMessage == [type |-> String, value |-> <<>>, into |-> <<>>]

Count ==
  /\ phase = "count"
  /\ \E m \in Messages :
       LET s == WriteAll(Stream(<<>>, 0, FALSE, TRUE), m.type, m.value)
       IN bs' = s /\ message' = m /\ counted' = getWrittenLength(s)
  /\ phase' = "write" /\ UNCHANGED object

\* The buffer may be too short or larger than counted.
Store ==
  /\ phase = "write"
  /\ \E length \in 0..(counted + 1) :
       bs' = WriteAll(Stream(<<>>, length, TRUE, TRUE), message.type, message.value)
  /\ phase' = "read" /\ UNCHANGED <<message, counted, object>>

\* isStoring(false), and the bytes that have arrived.
Load ==
  /\ phase = "read"
  /\ \E length \in 0..Len(bs.buffer) :
       LET got == Get(Stream(SubSeq(bs.buffer, 1, length), length, TRUE, FALSE),
                      message.type, message.into)
       IN bs' = got.stream /\ object' = got.value
  /\ phase' = "done" /\ UNCHANGED <<message, counted>>

\* The next object.
NextObject ==
  /\ phase = "done"
  /\ bs' = NoStream /\ phase' = "count" /\ message' = NoMessage /\ counted' = 0 /\ object' = <<>>

StreamInit ==
  /\ bs = NoStream /\ phase = "count" /\ message = NoMessage /\ counted = 0 /\ object = <<>>

StreamNext == Count \/ Store \/ Load \/ NextObject

-----------------------------------------------------------------------------
(* Properties.                                                             *)

\* Every variable has its type; lengths are counted as numbers of 32 bits.
StreamTypeOK ==
  /\ phase \in {"count", "write", "read", "done"} /\ message \in Messages \cup {NoMessage}
  /\ bs.left \in 0..Wrap - 1 /\ counted \in 0..Wrap - 1 /\ bs.buffer \in Seq(0..255)

\* An object is written exactly if the buffer is as long as was counted, and what is
\* written is never more than the buffer; an object is read exactly if all of it is
\* there, to the last byte, and then is the one that was written: no part of one is
\* taken for the whole (byte_stream.h 224-671; http_request.cpp 14-93).
ReadsBack ==
  /\ StreamTypeOK
  /\ phase = "read" => /\ bs.good <=> bs.length >= counted
                       /\ bs.good => getWrittenLength(bs) = counted
                       /\ Len(bs.buffer) = getWrittenLength(bs) /\ Len(bs.buffer) <= bs.length
  /\ phase = "done" => /\ bs.good <=> bs.length = counted
                       /\ bs.good => bs.left = 0 /\ object = message.value
=============================================================================
