-------------------------- MODULE FcgiStreamProofs --------------------------
(***************************************************************************)
(* What is proved of FcgiStream, for every size of the buffer, the records *)
(* and the text: records are framed and each carries something, and the    *)
(* encoder lets no character of its table through.                         *)
(***************************************************************************)
EXTENDS FcgiStream, TLAPS

-----------------------------------------------------------------------------
(* The sizes.                                                              *)

\* What is asked for is whole chunks, or the largest record.
LEMMA AskedSize ==
  ASSUME NEW k \in Nat, k > 0
  PROVE  /\ Asked(k) \in Nat
         /\ Asked(k) >= HeaderSize + chunkSize
         /\ Asked(k) <= MaxSize
         /\ Asked(k) <= Filled(k) + HeaderSize
         /\ Filled(k) \in Nat /\ Filled(k) >= k
         /\ Filled(k) % chunkSize = 0 /\ Filled(k) < k + chunkSize
<1>1. /\ Filled(k) \in Nat /\ Filled(k) >= k /\ Filled(k) < k + 8
      /\ Filled(k) % 8 = 0 /\ Filled(k) >= 8
  BY SMTT(30) DEF Filled, chunkSize
<1>2. QED
  BY <1>1, StreamAssumption, SMT DEF Asked, HeaderSize, chunkSize

\* The record made of it: whatever space there is, it carries something, its
\* header says what it takes, and what is left is smaller.
LEMMA RecordMade ==
  ASSUME NEW k \in Nat, k > 0, NEW room \in Nat, room >= HeaderSize + chunkSize,
         NEW given, given = (IF Asked(k) < room THEN Asked(k) ELSE room),
         NEW r, r = NewRecord(WholeChunks(given), k)
  PROVE  /\ r \in [content : Nat, padding : 0..(chunkSize - 1), size : Nat]
         /\ r.content > 0 /\ r.content <= k
         /\ r.size = HeaderSize + r.content + r.padding
         /\ r.size <= MaxSize
<1> DEFINE size == WholeChunks(given)
           len  == Content(size, k)
<1>0. /\ Asked(k) \in Nat /\ Asked(k) >= 16
      /\ Asked(k) <= MaxSize /\ Asked(k) <= Filled(k) + 8
  BY AskedSize, SMT DEF HeaderSize, chunkSize
<1>1. given \in Nat /\ given >= 16 /\ given <= MaxSize /\ given <= Filled(k) + 8
  <2>1. CASE Asked(k) < room
    BY <2>1, <1>0
  <2>2. CASE ~(Asked(k) < room)
    <3>1. Filled(k) \in Nat
      BY AskedSize
    <3>2. given = room
      BY <2>2
    <3>3. QED
      BY <2>2, <3>1, <3>2, <1>0, StreamAssumption, SMT DEF HeaderSize, chunkSize
  <2>3. QED
    BY <2>1, <2>2
<1>2. size \in Nat /\ size % 8 = 0 /\ size >= 16 /\ size <= given
  BY <1>1, SMTT(30) DEF WholeChunks, chunkSize
<1>3. Filled(k) \in Nat /\ Filled(k) % 8 = 0 /\ Filled(k) < k + 8 /\ Filled(k) >= k
  BY AskedSize DEF chunkSize
<1> HIDE DEF size
<1>4. len \in Nat /\ len > 0 /\ len <= k
  BY <1>2, SMT DEF Content, HeaderSize
<1>5. Padding(len) \in 0..7 /\ size = 8 + len + Padding(len)
  <2>1. CASE size - 8 < k
    <3>1. len = size - 8
      BY <2>1, SMT DEF Content, HeaderSize
    <3>2. len % 8 = 0
      BY <3>1, <1>2, SMTT(30)
    <3>3. QED
      BY <3>1, <3>2, <1>2, SMT DEF Padding, chunkSize
  <2>2. CASE ~(size - 8 < k)
    <3>1. len = k
      BY <2>2, SMT DEF Content, HeaderSize
    <3>2. size = Filled(k) + 8
      BY <2>2, <1>1, <1>2, <1>3, SMTT(30)
    <3>3. QED
      BY <3>1, <3>2, SMTT(30) DEF Filled, Padding, chunkSize
  <2>3. QED
    BY <2>1, <2>2
<1>6. r = [content |-> len, padding |-> Padding(len), size |-> size]
  BY DEF NewRecord, size
<1>7. QED
  BY <1>1, <1>2, <1>4, <1>5, <1>6, StreamAssumption, SMT DEF HeaderSize, chunkSize

-----------------------------------------------------------------------------
(* The sink.                                                               *)

SinkInv == TypeOK /\ RecordFramed

LEMMA SinkInit == Init => SinkInv
  BY StreamAssumption, SMT
  DEF Init, SinkInv, TypeOK, RecordFramed, NoRecord, HeaderSize, chunkSize

\* A record that SinkWrite makes.
LEMMA SinkWriteMakes ==
  ASSUME SinkInv, SinkWrite
  PROVE  /\ record' \in [content : Nat, padding : 0..(chunkSize - 1), size : Nat]
         /\ record'.content > 0 /\ record'.content <= n
         /\ RecordFramed'
         /\ n' = n - record'.content
<1>1. PICK room \in MinRoom..MaxRoom : record' = NewRecord(WholeChunks(Given(room)), n)
  BY DEF SinkWrite
<1>2. n \in Nat /\ n > 0
  BY DEF SinkInv, TypeOK, SinkWrite
<1>3. room \in Nat /\ room >= HeaderSize + chunkSize
  BY <1>1, StreamAssumption, SMT DEF HeaderSize, chunkSize
<1>4. Given(room) = (IF Asked(n) < room THEN Asked(n) ELSE room)
  BY DEF Given
<1>5. n' = n - record'.content
  BY DEF SinkWrite
<1> HIDE DEF SinkWrite, SinkInv
<1>6. QED
  BY <1>1, <1>2, <1>3, <1>4, <1>5, RecordMade DEF RecordFramed

LEMMA SinkStep == SinkInv /\ [Next]_vars => SinkInv'
<1> SUFFICES ASSUME SinkInv, [Next]_vars
             PROVE  SinkInv'
  OBVIOUS
<1> USE DEF SinkInv
<1>1. CASE EncodeBegin
  BY <1>1, SMT DEF EncodeBegin, TypeOK, RecordFramed
<1>2. CASE EncodeSpecial
  BY <1>2, SMT DEF EncodeSpecial, After, TypeOK, RecordFramed
<1>3. CASE EncodePlain
  BY <1>3, SMT DEF EncodePlain, TypeOK, RecordFramed
<1>4. CASE EncodeRest
  BY <1>4, SMT DEF EncodeRest, TypeOK, RecordFramed
<1>5. CASE SinkBegin
  BY <1>5, StreamAssumption, SMT DEF SinkBegin, TypeOK, RecordFramed
<1>6. CASE SinkWrite
  <2>1. /\ record' \in [content : Nat, padding : 0..(chunkSize - 1), size : Nat]
        /\ record'.content > 0 /\ record'.content <= n
        /\ RecordFramed' /\ n' = n - record'.content
    BY <1>6, SinkWriteMakes
  <2>2. record'.content \in Nat
    BY <2>1
  <2>3. /\ n' \in Nat /\ written' \in Nat
        /\ UNCHANGED <<pc, text, i, start, encoded>>
    BY <1>6, <2>1, <2>2, SMT DEF SinkWrite, TypeOK
  <2>4. QED
    BY <2>1, <2>3 DEF TypeOK
<1>7. CASE SinkEnd
  BY <1>7 DEF SinkEnd, TypeOK, RecordFramed
<1>8. CASE UNCHANGED vars
  BY <1>8 DEF vars, TypeOK, RecordFramed
<1>9. QED
  BY <1>1, <1>2, <1>3, <1>4, <1>5, <1>6, <1>7, <1>8 DEF Next

\* Every variable has its type.
THEOREM StreamTypeCorrect == Spec => []TypeOK
<1>1. SinkInv => TypeOK
  BY DEF SinkInv
<1>2. QED
  BY <1>1, SinkInit, SinkStep, PTL DEF Spec

\* The header of every record says exactly how much space the record takes,
\* whatever space the transmit buffer had (fcgistream.cpp 147-169).
THEOREM RecordsFramed == Spec => []RecordFramed
<1>1. SinkInv => RecordFramed
  BY DEF SinkInv
<1>2. QED
  BY <1>1, SinkInit, SinkStep, PTL DEF Spec

\* Every record carries some of what is left (fcgistream.cpp 142-157).
THEOREM RecordsCount == Spec => EveryRecordCounts
<1>1. SinkInv /\ [Next]_vars => [record' # record => record'.content > 0 /\ n' < n]_vars
  <2> SUFFICES ASSUME SinkInv, [Next]_vars, record' # record
               PROVE  record'.content > 0 /\ n' < n
    OBVIOUS
  <2>1. SinkWrite
    BY DEF Next, vars, EncodeBegin, EncodeSpecial, EncodePlain, EncodeRest, SinkBegin, SinkEnd
  <2>2. /\ record' \in [content : Nat, padding : 0..(chunkSize - 1), size : Nat]
        /\ record'.content > 0 /\ record'.content <= n
        /\ n' = n - record'.content
    BY <2>1, SinkWriteMakes
  <2>3. record'.content \in Nat /\ n \in Nat
    BY <2>2 DEF SinkInv, TypeOK
  <2>4. QED
    BY <2>2, <2>3, SMT
<1>2. QED
  BY <1>1, SinkInit, SinkStep, PTL DEF Spec, EveryRecordCounts

-----------------------------------------------------------------------------
(* The encoder.                                                            *)

\* While it runs, what was written lies before `start', in order, and the
\* characters from `start' up to `i' are not in its table.
Pieces == Seq([place : Nat, replaced : BOOLEAN])
Encoding ==
  /\ pc \in {"idle", "encode", "sink", "crashed"}
  /\ text \in Seq(BOOLEAN) /\ encoded \in Pieces
  /\ i \in Nat /\ start \in Nat /\ start >= 1 /\ start <= i
  /\ pc = "encode" =>
       /\ i <= Len(text) + 1
       /\ \A k \in 1..Len(encoded) : encoded[k].place < start
       /\ \A k \in start..(i - 1) : ~text[k]
EncoderInv == Encoding /\ NoSpecialRaw /\ InOrder

LEMMA EncoderInit == Init => EncoderInv
  BY SMT DEF Init, EncoderInv, Encoding, Pieces, NoSpecialRaw, InOrder

\* A run is that many characters as they are.
LEMMA RunIs ==
  ASSUME NEW a \in Nat, NEW b \in Nat, a <= b
  PROVE  /\ Run(a, b) \in Pieces
         /\ Len(Run(a, b)) = b - a
         /\ \A k \in 1..(b - a) : Run(a, b)[k] = Raw(a + k - 1)
<1>1. b - a \in Nat
  BY SMT
<1>2. \A k \in 1..(b - a) : Raw(a + k - 1) \in [place : Nat, replaced : BOOLEAN]
  BY SMT DEF Raw
<1>3. Run(a, b) \in [1..(b - a) -> [place : Nat, replaced : BOOLEAN]]
  BY <1>2 DEF Run
<1>4. QED
  BY <1>1, <1>3, SMT DEF Run, Pieces

\* What is in a sequence of pieces.
LEMMA PieceTypes ==
  ASSUME NEW e \in Pieces
  PROVE  /\ Len(e) \in Nat /\ DOMAIN e = 1..Len(e)
         /\ \A k \in 1..Len(e) : e[k].place \in Nat
<1> DEFINE P == [place : Nat, replaced : BOOLEAN]
<1>1. e \in Seq(P)
  BY DEF Pieces
<1>2. \A p \in P : p.place \in Nat
  OBVIOUS
<1> HIDE DEF P
<1>3. Len(e) \in Nat /\ DOMAIN e = 1..Len(e)
  BY <1>1, SMT
<1>4. \A k \in 1..Len(e) : e[k] \in P
  BY <1>1, <1>3, SMT
<1>5. QED
  BY <1>2, <1>3, <1>4

\* What a concatenation is.
LEMMA Joined ==
  ASSUME NEW S, NEW a \in Seq(S), NEW b \in Seq(S)
  PROVE  /\ a \o b \in Seq(S) /\ Len(a \o b) = Len(a) + Len(b)
         /\ \A k \in 1..Len(a) : (a \o b)[k] = a[k]
         /\ \A k \in 1..Len(b) : (a \o b)[Len(a) + k] = b[k]
  BY SMT

LEMMA EncoderStep == EncoderInv /\ [Next]_vars => EncoderInv'
<1> SUFFICES ASSUME EncoderInv, [Next]_vars
             PROVE  EncoderInv'
  OBVIOUS
<1> USE DEF EncoderInv
<1>1. CASE EncodeBegin
  <2>1. text' \in Seq(BOOLEAN)
    BY <1>1, StreamAssumption, SMT DEF EncodeBegin
  <2>2. encoded' = <<>> /\ i' = 1 /\ start' = 1 /\ pc' = "encode"
    BY <1>1 DEF EncodeBegin
  <2>3. QED
    BY <2>1, <2>2, SMT DEF Encoding, Pieces, NoSpecialRaw, InOrder
<1>2. CASE EncodeSpecial
  <2>1. CASE pc' = "crashed"
    BY <1>2, <2>1, SMT DEF EncodeSpecial, Encoding, NoSpecialRaw, InOrder
  <2>2. CASE ~(pc' = "crashed")
    <3>1. /\ pc = "encode" /\ i \in 1..Len(text) /\ text' = text
          /\ encoded' = Append(encoded, Replace(i)) /\ start' = i + 1 /\ i' = i + 1
          /\ pc' = pc
      BY <1>2, <2>2, SMT DEF EncodeSpecial, Special, After, Encoding
    <3>2. Replace(i) \in [place : Nat, replaced : BOOLEAN]
          /\ Replace(i).place = i /\ Replace(i).replaced
      BY DEF Replace, Encoding
    <3>3. /\ encoded' \in Pieces /\ Len(encoded') = Len(encoded) + 1
          /\ \A k \in 1..Len(encoded) : encoded'[k] = encoded[k]
          /\ encoded'[Len(encoded) + 1] = Replace(i)
      BY <3>1, <3>2, SMT DEF Encoding, Pieces
    <3>a. /\ Len(encoded) \in Nat /\ DOMAIN encoded = 1..Len(encoded)
          /\ DOMAIN encoded' = 1..Len(encoded')
          /\ \A k \in 1..Len(encoded) : encoded[k].place \in Nat
          /\ i \in Nat /\ start \in Nat /\ start <= i
          /\ \A k \in 1..Len(encoded) : encoded[k].place < start
      BY <3>1, <3>3, PieceTypes DEF Encoding
    <3>b. \A k \in 1..Len(encoded) : encoded'[k].place = encoded[k].place
      BY <3>3
    <3>c. encoded'[Len(encoded) + 1].place = i
      BY <3>2, <3>3
    <3>4. \A k \in 1..Len(encoded') : encoded'[k].place < start'
      BY <3>1, <3>3, <3>a, <3>b, <3>c, SMT
    <3>5. Encoding'
      <4>1. \A k \in start'..(i' - 1) : ~text'[k]
        BY <3>1, <3>a, SMT
      <4>2. i' \in Nat /\ start' \in Nat /\ start' >= 1 /\ start' <= i' /\ i' <= Len(text') + 1
        BY <3>1, <3>a, SMT
      <4>3. pc' \in {"idle", "encode", "sink", "crashed"} /\ text' \in Seq(BOOLEAN)
        BY <3>1 DEF Encoding
      <4>4. QED
        BY <3>3, <3>4, <4>1, <4>2, <4>3 DEF Encoding
    <3>6. NoSpecialRaw'
      <4>1. \A k \in 1..Len(encoded) : text[encoded[k].place] => encoded[k].replaced
        BY <3>a DEF EncoderInv, NoSpecialRaw
      <4>2. \A k \in 1..Len(encoded') : k = Len(encoded) + 1 \/ k \in 1..Len(encoded)
        BY <3>3, <3>a, SMT
      <4>3. \A k \in 1..Len(encoded') : text[encoded'[k].place] => encoded'[k].replaced
        BY <4>1, <4>2, <3>2, <3>3
      <4>4. QED
        BY <4>3, <3>1, <3>a DEF NoSpecialRaw
    <3>7. InOrder'
      <4>1. \A j, k \in 1..Len(encoded) : j < k => encoded[j].place < encoded[k].place
        BY <3>a DEF EncoderInv, InOrder
      <4>2. \A j, k \in 1..Len(encoded') : j < k => encoded'[j].place < encoded'[k].place
        <5> SUFFICES ASSUME NEW j \in 1..Len(encoded'), NEW k \in 1..Len(encoded'), j < k
                     PROVE  encoded'[j].place < encoded'[k].place
          OBVIOUS
        <5>1. j \in 1..Len(encoded)
          BY <3>3, <3>a, SMT
        <5>2. CASE k \in 1..Len(encoded)
          BY <5>1, <5>2, <4>1, <3>b
        <5>3. CASE k = Len(encoded) + 1
          <6>1. encoded'[j].place \in Nat /\ encoded'[j].place < start
            BY <5>1, <3>a, <3>b
          <6>2. QED
            BY <5>3, <6>1, <3>a, <3>c, SMT
        <5>4. QED
          BY <5>2, <5>3, <3>3, <3>a, SMT
      <4>3. QED
        BY <4>2, <3>a DEF InOrder
    <3>8. QED
      BY <3>5, <3>6, <3>7
  <2>3. QED
    BY <2>1, <2>2
<1>3. CASE EncodePlain
  <2>1. /\ pc = "encode" /\ pc' = pc /\ text' = text /\ encoded' = encoded
        /\ start' = start /\ i' = i + 1 /\ i <= Len(text) /\ ~text[i]
    BY <1>3 DEF EncodePlain
  <2>2. \A k \in start'..(i' - 1) : ~text'[k]
    BY <2>1, SMT DEF Encoding
  <2>3. Encoding'
    BY <2>1, <2>2, SMT DEF Encoding
  <2>4. QED
    BY <2>1, <2>3 DEF NoSpecialRaw, InOrder
<1>4. CASE EncodeRest
  <2>1. /\ pc = "encode" /\ pc' = "idle" /\ text' = text /\ i' = i /\ start' = start
        /\ encoded' = encoded \o Run(start, i) /\ i = Len(text) + 1
    BY <1>4 DEF EncodeRest
  <2>2. /\ Run(start, i) \in Pieces /\ Len(Run(start, i)) = i - start
        /\ \A k \in 1..(i - start) : Run(start, i)[k] = Raw(start + k - 1)
    BY RunIs DEF Encoding
  <2>3. /\ Len(encoded) \in Nat /\ i - start \in Nat /\ start \in Nat /\ i \in Nat
        /\ DOMAIN encoded = 1..Len(encoded)
        /\ \A k \in 1..Len(encoded) : encoded[k].place \in Nat
        /\ \A k \in 1..Len(encoded) : encoded[k].place < start
        /\ \A k \in start..(i - 1) : ~text[k]
    <3>1. i - start \in Nat /\ start \in Nat /\ i \in Nat
      BY SMT DEF Encoding
    <3>2. encoded \in Pieces
      BY DEF Encoding
    <3>3. QED
      BY <2>1, <3>1, <3>2, PieceTypes DEF Encoding
  <2>a. encoded \in Pieces
    BY DEF Encoding
  <2>b. /\ encoded' \in Pieces
        /\ Len(encoded') = Len(encoded) + Len(Run(start, i))
        /\ \A k \in 1..Len(encoded) : encoded'[k] = encoded[k]
        /\ \A k \in 1..Len(Run(start, i)) : encoded'[Len(encoded) + k] = Run(start, i)[k]
    BY <2>1, <2>2, <2>a, Joined DEF Pieces
  <2>4. encoded' \in Pieces /\ Len(encoded') = Len(encoded) + (i - start)
    BY <2>b, <2>2
  <2>5. DOMAIN encoded' = 1..Len(encoded')
    BY <2>4, PieceTypes
  <2>6. \A k \in 1..Len(encoded) : encoded'[k] = encoded[k]
    BY <2>b
  <2>7. ASSUME NEW k \in 1..Len(encoded'), ~(k \in 1..Len(encoded))
        PROVE  /\ encoded'[k].place = start + (k - Len(encoded)) - 1
               /\ encoded'[k].place \in start..(i - 1)
    <3>1. k - Len(encoded) \in 1..(i - start)
      BY <2>7, <2>3, <2>4, SMT
    <3>2. encoded'[k] = Run(start, i)[k - Len(encoded)]
      <4>1. k = Len(encoded) + (k - Len(encoded))
        BY <2>3, <2>4, SMT
      <4>2. QED
        BY <4>1, <3>1, <2>b, <2>2
    <3>3. encoded'[k] = Raw(start + (k - Len(encoded)) - 1)
      BY <2>2, <3>1, <3>2
    <3>4. encoded'[k].place = start + (k - Len(encoded)) - 1
      BY <3>3 DEF Raw
    <3>5. QED
      BY <2>3, <3>1, <3>4, SMT
  <2>8. Encoding'
    BY <2>1, <2>4, SMT DEF Encoding
  <2>9. NoSpecialRaw'
    <3> SUFFICES ASSUME NEW k \in 1..Len(encoded'), text[encoded'[k].place]
                 PROVE  encoded'[k].replaced
      BY <2>1, <2>5 DEF NoSpecialRaw
    <3>1. CASE k \in 1..Len(encoded)
      BY <3>1, <2>3, <2>6 DEF NoSpecialRaw
    <3>2. CASE ~(k \in 1..Len(encoded))
      BY <3>2, <2>3, <2>7
    <3>3. QED
      BY <3>1, <3>2
  <2>10. InOrder'
    <3> SUFFICES ASSUME NEW j \in 1..Len(encoded'), NEW k \in 1..Len(encoded'), j < k
                 PROVE  encoded'[j].place < encoded'[k].place
      BY <2>5 DEF InOrder
    <3>1. CASE j \in 1..Len(encoded) /\ k \in 1..Len(encoded)
      BY <3>1, <2>3, <2>6 DEF InOrder
    <3>2. CASE j \in 1..Len(encoded) /\ ~(k \in 1..Len(encoded))
      <4>1. encoded'[j].place \in Nat /\ encoded'[j].place < start
        BY <3>2, <2>3, <2>6
      <4>2. encoded'[k].place \in start..(i - 1)
        BY <3>2, <2>7
      <4>3. QED
        BY <4>1, <4>2, <2>3, SMT
    <3>3. CASE ~(j \in 1..Len(encoded)) /\ ~(k \in 1..Len(encoded))
      <4>1. /\ encoded'[j].place = start + (j - Len(encoded)) - 1
            /\ encoded'[k].place = start + (k - Len(encoded)) - 1
        BY <3>3, <2>7
      <4>2. QED
        BY <4>1, <2>3, <2>4, SMT
    <3>4. CASE ~(j \in 1..Len(encoded)) /\ k \in 1..Len(encoded)
      BY <3>4, <2>3, <2>4, SMT
    <3>5. QED
      BY <3>1, <3>2, <3>3, <3>4
  <2>11. QED
    BY <2>8, <2>9, <2>10
<1>5. CASE SinkBegin
  BY <1>5 DEF SinkBegin, Encoding, NoSpecialRaw, InOrder
<1>6. CASE SinkWrite
  BY <1>6 DEF SinkWrite, Encoding, NoSpecialRaw, InOrder
<1>7. CASE SinkEnd
  BY <1>7 DEF SinkEnd, Encoding, NoSpecialRaw, InOrder
<1>8. CASE UNCHANGED vars
  BY <1>8 DEF vars, Encoding, NoSpecialRaw, InOrder
<1>9. QED
  BY <1>1, <1>2, <1>3, <1>4, <1>5, <1>6, <1>7, <1>8 DEF Next

\* No character of the encoder's table reaches the client as it is
\* (fcgistream.cpp 119-134).
THEOREM SpecialsReplaced == Spec => []NoSpecialRaw
<1>1. EncoderInv => NoSpecialRaw
  BY DEF EncoderInv
<1>2. QED
  BY <1>1, EncoderInit, EncoderStep, PTL DEF Spec

\* The encoder keeps the order of the characters and writes none twice.
THEOREM OrderKept == Spec => []InOrder
<1>1. EncoderInv => InOrder
  BY DEF EncoderInv
<1>2. QED
  BY <1>1, EncoderInit, EncoderStep, PTL DEF Spec
=============================================================================
