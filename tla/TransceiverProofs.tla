------------------------- MODULE TransceiverProofs -------------------------
(***************************************************************************)
(* Theorems about Transceiver, for any connections, ids, sizes and bounds, *)
(* with rival processes, early closes and signals:                         *)
(*                                                                         *)
(*   RecordsWhole           Spec => []WholeRecords                         *)
(*                                                                         *)
(* and, as long as the web server runs one request at a time on a          *)
(* connection (~Multiplex):                                                *)
(*                                                                         *)
(*   EverythingGoesHome     Spec => []GoesHome                             *)
(***************************************************************************)
EXTENDS Transceiver, SequenceTheorems, TLAPS

-----------------------------------------------------------------------------
(* Streams.  What was read of a connection and not handed up, followed by  *)
(* what was sent and not read, is a stream of whole records.               *)

Bytes      == Conns \X Nat \X Nat
Size(rs, r) == HeaderSize + rs[r].len

\* s begins with record n + 1 of the records rs of connection c, its bytes are in
\* their places in it, and one record follows the other.
InPlace(c, rs, s, j, r, k) ==
  /\ j - k + 1 >= 1
  /\ \A i \in 1..Size(rs, r) : j - k + i <= Len(s) => s[j - k + i] = <<c, r, i>>
  /\ k = Size(rs, r) /\ j < Len(s) => s[j + 1] = <<c, r + 1, 1>>

Frames(c, rs, n, s) ==
  /\ s \in Seq(Bytes)
  /\ \A j \in 1..Len(s) : \E r \in 1..Len(rs) : \E k \in 1..Size(rs, r) : s[j] = <<c, r, k>>
  /\ \A j \in 1..Len(s), r \in 1..Len(rs) : \A k \in 1..Size(rs, r) :
       s[j] = <<c, r, k>> => InPlace(c, rs, s, j, r, k)
  /\ s # <<>> => s[1] = <<c, n + 1, 1>>

\* It ends with the end of the last of the records.
Ends(c, rs, n, s) ==
  IF s = <<>> THEN n = Len(rs) ELSE s[Len(s)] = <<c, Len(rs), Size(rs, Len(rs))>>

\* Its first bytes are those of record n + 1.
BeginsWith(c, rs, n, s) ==
  \A i \in 1..Size(rs, n + 1) : i <= Len(s) => s[i] = <<c, n + 1, i>>

LEMMA SizeType ==
  ASSUME NEW rs \in Seq(RecordType), NEW r \in 1..Len(rs)
  PROVE  Size(rs, r) \in Nat \ {0} /\ HeaderSize <= Size(rs, r) /\ rs[r].len \in Nat
<1>1. rs[r] \in RecordType
  OBVIOUS
<1>2. rs[r].len \in Nat
  BY <1>1, TransceiverAssumption DEF RecordType
<1> QED
  BY <1>2, TransceiverAssumption DEF Size

\* What has arrived of a stream is one.
LEMMA FramesPrefix ==
  ASSUME NEW c, NEW rs \in Seq(RecordType), NEW n \in Nat, NEW s, Frames(c, rs, n, s),
         NEW m \in 0..Len(s)
  PROVE  Frames(c, rs, n, SubSeq(s, 1, m))
<1> DEFINE p == SubSeq(s, 1, m)
<1>1. /\ s \in Seq(Bytes) /\ Len(s) \in Nat /\ p \in Seq(Bytes) /\ Len(p) = m
      /\ \A j \in 1..m : p[j] = s[j] /\ j \in 1..Len(s)
  BY DEF Frames
<1> HIDE DEF p
<1>2. \A j \in 1..Len(p) : \E r \in 1..Len(rs) : \E k \in 1..Size(rs, r) : p[j] = <<c, r, k>>
  BY <1>1 DEF Frames
<1>3. ASSUME NEW j \in 1..Len(p), NEW r \in 1..Len(rs), NEW k \in 1..Size(rs, r),
             p[j] = <<c, r, k>>
      PROVE  InPlace(c, rs, p, j, r, k)
  <2>1. InPlace(c, rs, s, j, r, k)
    BY <1>1, <1>3 DEF Frames
  <2>2. ASSUME NEW i \in 1..Size(rs, r), j - k + i <= Len(p)
        PROVE  p[j - k + i] = <<c, r, i>>
    <3>1. Size(rs, r) \in Nat
      BY SizeType
    <3>2. j - k + i \in 1..m /\ j - k + i <= Len(s)
      BY <1>1, <2>1, <2>2, <3>1 DEF InPlace
    <3> QED
      BY <1>1, <2>1, <3>2 DEF InPlace
  <2>3. k = Size(rs, r) /\ j < Len(p) => p[j + 1] = <<c, r + 1, 1>>
    BY <1>1, <2>1 DEF InPlace
  <2> QED
    BY <2>1, <2>2, <2>3 DEF InPlace
<1>4. p # <<>> => p[1] = <<c, n + 1, 1>>
  <2>1. ASSUME p # <<>>
        PROVE  1 \in 1..m /\ s # <<>>
    BY <1>1, <2>1, EmptySeq
  <2> QED
    BY <1>1, <2>1 DEF Frames
<1> QED
  BY <1>1, <1>2, <1>3, <1>4 DEF Frames, p

\* The first bytes of a stream are those of its first record.
LEMMA FramesFirst ==
  ASSUME NEW c, NEW rs \in Seq(RecordType), NEW n \in Nat, NEW s, Frames(c, rs, n, s),
         s # <<>>
  PROVE  /\ n + 1 \in 1..Len(rs) /\ Size(rs, n + 1) \in Nat \ {0}
         /\ HeaderSize <= Size(rs, n + 1) /\ s[1] = <<c, n + 1, 1>>
         /\ BeginsWith(c, rs, n, s)
<1>1. s \in Seq(Bytes) /\ Len(s) \in Nat \ {0} /\ s[1] = <<c, n + 1, 1>>
  BY EmptySeq DEF Frames
<1>2. 1 \in 1..Len(s)
  BY <1>1
<1>3. PICK r \in 1..Len(rs) : \E k \in 1..Size(rs, r) : s[1] = <<c, r, k>>
  BY <1>2 DEF Frames
<1>4. n + 1 \in 1..Len(rs)
  BY <1>1, <1>3
<1>5. Size(rs, n + 1) \in Nat \ {0} /\ HeaderSize <= Size(rs, n + 1)
  BY <1>4, SizeType
<1>6. 1 \in 1..Size(rs, n + 1)
  BY <1>5
<1>7. InPlace(c, rs, s, 1, n + 1, 1)
  BY <1>1, <1>2, <1>4, <1>6 DEF Frames
<1>8. \A i \in 1..Size(rs, n + 1) : 1 - 1 + i = i
  BY <1>5
<1> QED
  BY <1>1, <1>4, <1>5, <1>7, <1>8 DEF InPlace, BeginsWith

\* What is behind the first record is a stream that begins with the next.
LEMMA FramesRest ==
  ASSUME NEW c, NEW rs \in Seq(RecordType), NEW n \in Nat, NEW s, Frames(c, rs, n, s),
         s # <<>>, Size(rs, n + 1) <= Len(s)
  PROVE  LET m    == Size(rs, n + 1)
             rest == SubSeq(s, m + 1, Len(s))
         IN  /\ Frames(c, rs, n + 1, rest)
             /\ Ends(c, rs, n, s) => Ends(c, rs, n + 1, rest)
<1> DEFINE m == Size(rs, n + 1)
           rest == SubSeq(s, m + 1, Len(s))
<1>0. /\ n + 1 \in 1..Len(rs) /\ m \in Nat \ {0} /\ s[1] = <<c, n + 1, 1>>
      /\ BeginsWith(c, rs, n, s)
  BY FramesFirst
<1>2. s \in Seq(Bytes) /\ Len(s) \in Nat /\ m <= Len(s)
  BY DEF Frames
<1>1. /\ n + 1 \in 1..Len(rs) /\ m \in Nat \ {0} /\ s[1] = <<c, n + 1, 1>>
      /\ \A i \in 1..m : s[i] = <<c, n + 1, i>>
  BY <1>0, <1>2 DEF BeginsWith
<1> HIDE DEF m
<1>3. rest \in Seq(Bytes) /\ Len(rest) = Len(s) - m
  BY <1>1, <1>2
<1>4. \A j \in 1..Len(rest) : rest[j] = s[j + m] /\ j + m \in 1..Len(s)
  BY <1>1, <1>2, <1>3
<1> HIDE DEF rest
<1>5. ASSUME NEW j \in 1..Len(rest)
      PROVE  \E r \in 1..Len(rs) : \E k \in 1..Size(rs, r) : rest[j] = <<c, r, k>>
  BY <1>4 DEF Frames
<1>6. ASSUME NEW j \in 1..Len(rest), NEW r \in 1..Len(rs), NEW k \in 1..Size(rs, r),
             rest[j] = <<c, r, k>>
      PROVE  InPlace(c, rs, rest, j, r, k)
  <2>1. InPlace(c, rs, s, j + m, r, k)
    BY <1>4, <1>6 DEF Frames
  <2>2. Size(rs, r) \in Nat \ {0}
    BY SizeType
  <2>3. (j + m) - k + 1 \in 1..Len(s) /\ s[(j + m) - k + 1] = <<c, r, 1>>
    BY <1>2, <1>4, <2>1, <2>2 DEF InPlace
  <2>4. (j + m) - k + 1 > m
    <3>1. CASE (j + m) - k + 1 \in 1..m
      <4>1. s[(j + m) - k + 1] = <<c, n + 1, (j + m) - k + 1>>
        BY <1>1, <3>1
      <4>2. r = n + 1 /\ (j + m) - k + 1 = 1
        BY <2>3, <4>1
      <4>3. k = j + m /\ k \in 1..m
        BY <1>1, <2>2, <4>2 DEF m
      <4> QED
        BY <1>1, <4>3
    <3> QED
      BY <1>1, <2>2, <2>3, <3>1
  <2>5. j - k + 1 >= 1
    BY <1>1, <2>2, <2>4
  <2>6. ASSUME NEW i \in 1..Size(rs, r), j - k + i <= Len(rest)
        PROVE  rest[j - k + i] = <<c, r, i>>
    <3>1. j - k + i \in 1..Len(rest) /\ (j - k + i) + m = (j + m) - k + i
      BY <1>1, <1>2, <1>3, <2>2, <2>5, <2>6
    <3>2. (j + m) - k + i <= Len(s)
      BY <1>4, <3>1
    <3> QED
      BY <1>4, <2>1, <3>1, <3>2 DEF InPlace
  <2>7. ASSUME k = Size(rs, r), j < Len(rest)
        PROVE  rest[j + 1] = <<c, r + 1, 1>>
    <3>1. j + 1 \in 1..Len(rest) /\ (j + 1) + m = (j + m) + 1 /\ j + m < Len(s)
      BY <1>1, <1>2, <1>3, <2>7
    <3> QED
      BY <1>4, <2>1, <2>7, <3>1 DEF InPlace
  <2> QED
    BY <2>5, <2>6, <2>7 DEF InPlace
<1>7. m \in 1..m /\ m \in 1..Len(s) /\ s[m] = <<c, n + 1, m>>
  BY <1>1, <1>2
<1>8. ASSUME rest # <<>>
      PROVE  rest[1] = <<c, (n + 1) + 1, 1>>
  <2>1. 1 \in 1..Len(rest) /\ m < Len(s) /\ 1 + m = m + 1
    BY <1>1, <1>2, <1>3, <1>8, EmptySeq
  <2>2. InPlace(c, rs, s, m, n + 1, m)
    BY <1>1, <1>7 DEF Frames, m
  <2> QED
    BY <1>4, <2>1, <2>2 DEF InPlace, m
<1>9. Frames(c, rs, n + 1, rest)
  BY <1>3, <1>5, <1>6, <1>8 DEF Frames
<1>10. ASSUME Ends(c, rs, n, s)
       PROVE  Ends(c, rs, n + 1, rest)
  <2>1. s[Len(s)] = <<c, Len(rs), Size(rs, Len(rs))>>
    BY <1>10 DEF Ends
  <2>2. CASE rest = <<>>
    <3>1. Len(s) = m
      BY <1>1, <1>2, <1>3, <2>2, EmptySeq
    <3> QED
      BY <1>7, <2>1, <2>2, <3>1 DEF Ends
  <2>3. CASE rest # <<>>
    <3>1. Len(rest) \in 1..Len(rest) /\ Len(rest) + m = Len(s)
      BY <1>1, <1>2, <1>3, <2>3, EmptySeq
    <3> QED
      BY <1>4, <2>1, <2>3, <3>1 DEF Ends
  <2> QED
    BY <2>2, <2>3
<1> QED
  BY <1>9, <1>10 DEF m, rest

\* A record is sent behind a stream that ends with the one before.
Sent1(c, n, size) == [k \in 1..size |-> <<c, n, k>>]

LEMMA FramesSent ==
  ASSUME NEW c \in Conns, NEW rs \in Seq(RecordType), NEW n \in Nat, NEW s, n <= Len(rs),
         Frames(c, rs, n, s), Ends(c, rs, n, s), NEW r \in RecordType
  PROVE  LET t == s \o Sent1(c, Len(rs) + 1, HeaderSize + r.len)
         IN  Frames(c, Append(rs, r), n, t) /\ Ends(c, Append(rs, r), n, t)
<1> DEFINE N  == Len(rs) + 1
           ns == Append(rs, r)
           z  == HeaderSize + r.len
           b  == Sent1(c, N, z)
           t  == s \o b
<1>1. /\ ns \in Seq(RecordType) /\ Len(ns) = N /\ Len(rs) \in Nat /\ N \in Nat \ {0}
      /\ \A i \in 1..Len(rs) : i \in 1..N /\ ns[i] = rs[i]
      /\ ns[N] = r /\ \A i \in 1..N : i = N \/ i \in 1..Len(rs)
  BY AppendProperties
<1>2. z \in Nat \ {0}
  <2>1. r.len \in Nat
    BY TransceiverAssumption DEF RecordType
  <2> QED
    BY <2>1, TransceiverAssumption
<1>3. Size(ns, N) = z /\ \A i \in 1..Len(rs) : Size(ns, i) = Size(rs, i)
  BY <1>1 DEF Size
<1> HIDE DEF ns, z
<1>4. b \in Seq(Bytes) /\ Len(b) = z /\ \A k \in 1..z : b[k] = <<c, N, k>>
  <2>1. \A k \in 1..z : <<c, N, k>> \in Bytes
    BY <1>1, <1>2 DEF Bytes
  <2>2. b = [k \in 1..z |-> <<c, N, k>>]
    BY DEF Sent1
  <2> QED
    BY <1>2, <2>1, <2>2
<1>5. s \in Seq(Bytes) /\ Len(s) \in Nat
  BY DEF Frames
<1> HIDE DEF b
<1>6. /\ t \in Seq(Bytes) /\ Len(t) = Len(s) + z
      /\ \A j \in 1..(Len(s) + z) : t[j] = IF j <= Len(s) THEN s[j] ELSE b[j - Len(s)]
  BY <1>4, <1>5, ConcatProperties
<1> HIDE DEF t, N
<1>7. \A j \in 1..Len(s) : j \in 1..Len(t) /\ t[j] = s[j]
  BY <1>2, <1>5, <1>6
<1>8. \A k \in 1..z : Len(s) + k \in 1..Len(t) /\ t[Len(s) + k] = <<c, N, k>>
  <2>1. ASSUME NEW k \in 1..z
        PROVE  Len(s) + k \in 1..Len(t) /\ t[Len(s) + k] = <<c, N, k>>
    <3>1. /\ Len(s) + k \in 1..(Len(s) + z) /\ ~(Len(s) + k <= Len(s))
          /\ (Len(s) + k) - Len(s) = k
      BY <1>2, <1>5
    <3> QED
      BY <1>4, <1>6, <3>1
  <2> QED
    BY <2>1
<1>9. ASSUME NEW j \in 1..Len(t)
      PROVE  j \in 1..Len(s) \/ \E k \in 1..z : j = Len(s) + k
  <2>1. CASE j > Len(s)
    <3>1. j - Len(s) \in 1..z /\ j = Len(s) + (j - Len(s))
      BY <1>2, <1>5, <1>6, <2>1
    <3> QED
      BY <3>1
  <2> QED
    BY <1>5, <1>6, <2>1
<1>10. ASSUME NEW j \in 1..Len(t)
       PROVE  \E i \in 1..Len(ns) : \E k \in 1..Size(ns, i) : t[j] = <<c, i, k>>
  <2>1. CASE j \in 1..Len(s)
    <3>1. PICK i \in 1..Len(rs) : \E k \in 1..Size(rs, i) : s[j] = <<c, i, k>>
      BY <2>1 DEF Frames
    <3> QED
      BY <1>1, <1>3, <1>7, <2>1, <3>1
  <2>2. ASSUME NEW k \in 1..z, j = Len(s) + k
        PROVE  \E i \in 1..Len(ns) : \E l \in 1..Size(ns, i) : t[j] = <<c, i, l>>
    <3>1. N \in 1..Len(ns)
      BY <1>1
    <3> QED
      BY <1>3, <1>8, <2>2, <3>1
  <2> QED
    BY <1>9, <2>1, <2>2
<1>11. ASSUME NEW j \in 1..Len(t), NEW i \in 1..Len(ns), NEW k \in 1..Size(ns, i),
              t[j] = <<c, i, k>>
       PROVE  InPlace(c, ns, t, j, i, k)
  <2>1. CASE j \in 1..Len(s)
    <3>1. i \in 1..Len(rs)
      <4>1. PICK l \in 1..Len(rs) : \E h \in 1..Size(rs, l) : s[j] = <<c, l, h>>
        BY <2>1 DEF Frames
      <4> QED
        BY <1>7, <1>11, <2>1, <4>1
    <3>2. InPlace(c, rs, s, j, i, k) /\ Size(ns, i) = Size(rs, i)
      BY <1>3, <1>7, <1>11, <2>1, <3>1 DEF Frames
    <3>3. Size(rs, i) \in Nat \ {0}
      BY <3>1, SizeType
    <3>4. s[Len(s)] = <<c, Len(rs), Size(rs, Len(rs))>>
      BY <1>5, <2>1, EmptySeq DEF Ends
    <3>5. Len(s) \in 1..Len(s) /\ Len(rs) \in 1..Len(rs) /\ Size(rs, Len(rs)) \in Nat \ {0}
          /\ Size(rs, Len(rs)) \in 1..Size(rs, Len(rs))
      <4>1. Len(s) \in 1..Len(s) /\ Len(rs) \in 1..Len(rs)
        BY <1>1, <1>5, <2>1, <3>1
      <4> QED
        BY <4>1, SizeType
    <3>6. InPlace(c, rs, s, Len(s), Len(rs), Size(rs, Len(rs)))
      BY <3>4, <3>5 DEF Frames
    \* The record that j is in ends within s.
    <3>7. j - k + Size(rs, i) <= Len(s)
      <4>1. CASE j - k + Size(rs, i) > Len(s)
        <5>1. Len(s) - (j - k) \in 1..Size(rs, i) /\ (j - k) + (Len(s) - (j - k)) = Len(s)
          BY <1>5, <2>1, <3>2, <3>3, <4>1
        <5>2. s[Len(s)] = <<c, i, Len(s) - (j - k)>>
          BY <3>2, <5>1 DEF InPlace
        <5>3. Len(s) - (j - k) = Size(rs, i)
          BY <3>4, <5>2
        <5> QED
          BY <1>5, <3>3, <4>1, <5>3
      <4> QED
        BY <1>5, <3>3, <4>1
    <3>8. ASSUME NEW l \in 1..Size(ns, i), j - k + l <= Len(t)
          PROVE  t[j - k + l] = <<c, i, l>>
      <4>1. j - k + l \in 1..Len(s)
        BY <1>5, <2>1, <3>2, <3>3, <3>7 DEF InPlace
      <4> QED
        BY <1>7, <3>2, <4>1 DEF InPlace
    <3>9. ASSUME k = Size(ns, i), j < Len(t)
          PROVE  t[j + 1] = <<c, i + 1, 1>>
      <4>1. CASE j < Len(s)
        <5>1. j + 1 \in 1..Len(s) /\ s[j + 1] = <<c, i + 1, 1>>
          BY <1>5, <2>1, <3>2, <3>9, <4>1 DEF InPlace
        <5> QED
          BY <1>7, <5>1
      <4>2. CASE j = Len(s)
        <5>1. i = Len(rs)
          BY <1>7, <1>11, <2>1, <3>4, <4>2
        <5>2. 1 \in 1..z /\ N = i + 1
          BY <1>2, <5>1 DEF N
        <5> QED
          BY <1>8, <4>2, <5>2
      <4> QED
        BY <1>5, <2>1, <4>1, <4>2
    <3> QED
      BY <3>2, <3>8, <3>9 DEF InPlace
  <2>2. ASSUME NEW h \in 1..z, j = Len(s) + h
        PROVE  InPlace(c, ns, t, j, i, k)
    <3>1. i = N /\ k = h
      BY <1>8, <1>11, <2>2
    <3>2. j - k = Len(s) /\ j - k + 1 >= 1
      BY <1>2, <1>5, <2>2, <3>1
    <3>3. \A l \in 1..Size(ns, i) : t[j - k + l] = <<c, i, l>>
      BY <1>3, <1>8, <3>1, <3>2
    <3>4. ~(k = Size(ns, i) /\ j < Len(t))
      BY <1>2, <1>3, <1>5, <1>6, <2>2, <3>1
    <3> QED
      BY <3>2, <3>3, <3>4 DEF InPlace
  <2> QED
    BY <1>9, <2>1, <2>2
<1>12. t # <<>> /\ t[1] = <<c, n + 1, 1>>
  <2>1. t # <<>>
    BY <1>2, <1>5, <1>6, EmptySeq
  <2>2. CASE s = <<>>
    <3>1. Len(s) = 0 /\ n + 1 = N /\ 1 \in 1..z /\ 0 + 1 = 1
      BY <1>2, <2>2, EmptySeq DEF Ends, N
    <3>2. t[Len(s) + 1] = <<c, N, 1>>
      BY <1>8, <3>1
    <3> QED
      BY <2>1, <3>1, <3>2
  <2>3. CASE s # <<>>
    <3>1. 1 \in 1..Len(s)
      BY <1>5, <2>3, EmptySeq
    <3> QED
      BY <1>7, <2>1, <2>3, <3>1 DEF Frames
  <2> QED
    BY <2>2, <2>3
<1>13. Frames(c, ns, n, t)
  BY <1>6, <1>10, <1>11, <1>12 DEF Frames
<1>14. Ends(c, ns, n, t)
  <2>1. z \in 1..z
    BY <1>2
  <2>2. t[Len(t)] = <<c, N, z>>
    BY <1>6, <1>8, <2>1
  <2> QED
    BY <1>1, <1>3, <1>12, <2>2 DEF Ends
<1> QED
  BY <1>13, <1>14 DEF t, b, z, ns, N

-----------------------------------------------------------------------------
(* Sequences.                                                              *)

\* Reading moves bytes from one side to the other.
Moves(g, w, m, g2, w2) == g2 = g \o SubSeq(w, 1, m) /\ w2 = SubSeq(w, m + 1, Len(w))
Halves(g, w, m, g2, w2) ==
  /\ g2 \in Seq(Bytes) /\ w2 \in Seq(Bytes) /\ Len(g2) = Len(g) + m
  /\ Len(w2) = Len(w) - m /\ g2 \o w2 = g \o w
  /\ g2 = SubSeq(g \o w, 1, Len(g) + m)
  /\ w2 = SubSeq(g \o w, Len(g) + m + 1, Len(g \o w))

LEMMA Moved ==
  ASSUME NEW g \in Seq(Bytes), NEW w \in Seq(Bytes), NEW m \in 0..Len(w), NEW g2, NEW w2,
         Moves(g, w, m, g2, w2)
  PROVE  Halves(g, w, m, g2, w2)
<1> DEFINE a  == SubSeq(w, 1, m)
           s  == g \o w
<1>0. g2 = g \o a
  BY DEF Moves
<1>1. /\ a \in Seq(Bytes) /\ Len(a) = m /\ \A i \in 1..m : a[i] = w[i]
      /\ w2 \in Seq(Bytes) /\ Len(w2) = Len(w) - m
      /\ \A i \in 1..(Len(w) - m) : w2[i] = w[i + m]
      /\ Len(g) \in Nat /\ Len(w) \in Nat /\ m \in Nat /\ m <= Len(w)
  BY DEF Moves
<1> HIDE DEF a
<1>2. /\ g2 \in Seq(Bytes) /\ Len(g2) = Len(g) + m
      /\ \A i \in 1..(Len(g) + m) : g2[i] = IF i <= Len(g) THEN g[i] ELSE a[i - Len(g)]
  <2> DEFINE c == g \o a
  <2>1. /\ c \in Seq(Bytes) /\ Len(c) = Len(g) + m
        /\ \A i \in 1..(Len(g) + m) : c[i] = IF i <= Len(g) THEN g[i] ELSE a[i - Len(g)]
    BY <1>1, ConcatProperties
  <2>2. g2 = c
    BY <1>0
  <2> HIDE DEF c
  <2> QED
    BY <2>1, <2>2
<1>3. /\ s \in Seq(Bytes) /\ Len(s) = Len(g) + Len(w)
      /\ \A i \in 1..(Len(g) + Len(w)) : s[i] = IF i <= Len(g) THEN g[i] ELSE w[i - Len(g)]
  BY <1>1, ConcatProperties
<1> HIDE DEF s
<1>4. \A i \in 1..(Len(g) + m) : s[i] = g2[i]
  <2>1. ASSUME NEW i \in 1..(Len(g) + m)
        PROVE  s[i] = g2[i]
    <3>1. i \in 1..(Len(g) + Len(w)) /\ (i <= Len(g) \/ i - Len(g) \in 1..m)
      BY <1>1
    <3> QED
      BY <1>1, <1>2, <1>3, <3>1
  <2> QED
    BY <2>1
<1>5. \A i \in 1..(Len(w) - m) : s[(Len(g) + m) + i] = w2[i]
  <2>1. ASSUME NEW i \in 1..(Len(w) - m)
        PROVE  s[(Len(g) + m) + i] = w2[i]
    <3>1. /\ (Len(g) + m) + i \in 1..(Len(g) + Len(w)) /\ ~((Len(g) + m) + i <= Len(g))
          /\ ((Len(g) + m) + i) - Len(g) = i + m
      BY <1>1
    <3> QED
      BY <1>1, <1>3, <3>1
  <2> QED
    BY <2>1
<1>6. g2 \o w2 = s
  <2>0. g2 \in Seq(Bytes) /\ w2 \in Seq(Bytes)
    BY <1>1, <1>2
  <2>1. /\ g2 \o w2 \in Seq(Bytes) /\ Len(g2 \o w2) = Len(g2) + Len(w2)
        /\ \A i \in 1..(Len(g2) + Len(w2)) :
             (g2 \o w2)[i] = IF i <= Len(g2) THEN g2[i] ELSE w2[i - Len(g2)]
    BY <2>0, ConcatProperties
  <2>2. Len(g2 \o w2) = Len(s)
    BY <1>1, <1>2, <1>3, <2>1
  <2>3. ASSUME NEW i \in 1..Len(s)
        PROVE  (g2 \o w2)[i] = s[i]
    <3>1. CASE i <= Len(g) + m
      BY <1>1, <1>2, <1>3, <1>4, <2>1, <2>3, <3>1
    <3>2. CASE ~(i <= Len(g) + m)
      <4>1. i - (Len(g) + m) \in 1..(Len(w) - m) /\ (Len(g) + m) + (i - (Len(g) + m)) = i
        BY <1>1, <1>3, <2>3, <3>2
      <4>2. i \in 1..(Len(g2) + Len(w2)) /\ ~(i <= Len(g2)) /\ i - Len(g2) = i - (Len(g) + m)
        BY <1>1, <1>2, <1>3, <2>3, <3>2
      <4>3. (g2 \o w2)[i] = w2[i - (Len(g) + m)]
        BY <2>1, <4>2
      <4> QED
        BY <1>5, <4>1, <4>3
    <3> QED
      BY <3>1, <3>2
  <2> QED
    BY <1>3, <2>1, <2>2, <2>3, SeqEqual
<1>7. g2 = SubSeq(s, 1, Len(g) + m)
  <2> DEFINE p == SubSeq(s, 1, Len(g) + m)
  <2>1. /\ p \in Seq(Bytes) /\ Len(p) = Len(g) + m
        /\ \A i \in 1..(Len(g) + m) : p[i] = s[i]
    BY <1>1, <1>3
  <2> HIDE DEF p
  <2>2. g2 = p
    BY <1>2, <1>4, <2>1, SeqEqual
  <2> QED
    BY <2>2 DEF p
<1>8. w2 = SubSeq(s, Len(g) + m + 1, Len(s))
  <2> DEFINE p == SubSeq(s, Len(g) + m + 1, Len(s))
  <2>1. /\ p \in Seq(Bytes) /\ Len(p) = Len(w) - m
        /\ \A i \in 1..(Len(w) - m) : p[i] = s[(Len(g) + m) + i]
    BY <1>1, <1>3
  <2> HIDE DEF p
  <2>2. w2 = p
    BY <1>1, <1>5, <2>1, SeqEqual
  <2> QED
    BY <2>2 DEF p
<1> QED
  BY <1>1, <1>2, <1>6, <1>7, <1>8 DEF s, Halves

\* Of a sequence without duplicates, one element is removed.
Distinct(s) == \A i, j \in DOMAIN s : s[i] = s[j] => i = j
In(x, s)    == \E i \in DOMAIN s : s[i] = x
Lacks(r, s, y) == \A x : In(x, r) <=> (In(x, s) /\ x # y)

LEMMA Removed ==
  ASSUME NEW S, NEW s \in Seq(S), NEW k \in DOMAIN s, Distinct(s)
  PROVE  /\ RemoveAt(s, k) \in Seq(S) /\ Distinct(RemoveAt(s, k))
         /\ Lacks(RemoveAt(s, k), s, s[k])
<1> DEFINE a == SubSeq(s, 1, k - 1)
           b == SubSeq(s, k + 1, Len(s))
           r == a \o b
           n == Len(s) - 1
<1>1. DOMAIN s = 1..Len(s) /\ Len(s) \in Nat /\ k \in 1..Len(s)
  OBVIOUS
<1>2. /\ a \in Seq(S) /\ Len(a) = k - 1 /\ \A i \in 1..(k - 1) : a[i] = s[i]
      /\ b \in Seq(S) /\ Len(b) = Len(s) - k /\ \A i \in 1..(Len(s) - k) : b[i] = s[i + k]
  BY <1>1
<1> HIDE DEF a, b
<1>3. /\ r \in Seq(S) /\ Len(r) = Len(a) + Len(b)
      /\ \A i \in 1..(Len(a) + Len(b)) : r[i] = IF i <= Len(a) THEN a[i] ELSE b[i - Len(a)]
  BY <1>2, ConcatProperties
<1> HIDE DEF r
<1>4. DOMAIN r = 1..n /\ n = Len(a) + Len(b)
  <2>1. Len(a) + Len(b) = n
    BY <1>1, <1>2
  <2>2. DOMAIN r = 1..Len(r)
    BY <1>3
  <2> QED
    BY <1>3, <2>1, <2>2
<1>5. ASSUME NEW i \in 1..n
      PROVE  r[i] = IF i < k THEN s[i] ELSE s[i + 1]
  <2>1. CASE i < k
    BY <1>1, <1>2, <1>3, <1>4, <2>1
  <2>2. CASE ~(i < k)
    <3>1. i - Len(a) \in 1..(Len(s) - k) /\ (i - Len(a)) + k = i + 1 /\ ~(i <= Len(a))
      BY <1>1, <1>2, <2>2
    <3> QED
      BY <1>2, <1>3, <1>4, <2>2, <3>1
  <2> QED
    BY <2>1, <2>2
<1>6. ASSUME NEW i \in 1..n, NEW j \in 1..n, r[i] = r[j]
      PROVE  i = j
  <2>1. i \in DOMAIN s /\ i + 1 \in DOMAIN s /\ j \in DOMAIN s /\ j + 1 \in DOMAIN s
    BY <1>1
  <2> QED
    BY <1>1, <1>5, <1>6, <2>1 DEF Distinct
<1>7. ASSUME NEW i \in 1..n
      PROVE  (\E j \in DOMAIN s : s[j] = r[i]) /\ r[i] # s[k]
  <2>1. i \in DOMAIN s /\ i + 1 \in DOMAIN s
    BY <1>1
  <2> QED
    BY <1>1, <1>5, <2>1 DEF Distinct
<1>8. ASSUME NEW j \in DOMAIN s, s[j] # s[k]
      PROVE  \E i \in 1..n : r[i] = s[j]
  <2>1. CASE j < k
    <3>1. j \in 1..n
      BY <1>1, <2>1
    <3> QED
      BY <1>5, <2>1, <3>1
  <2>2. CASE ~(j < k)
    <3>1. j - 1 \in 1..n /\ ~(j - 1 < k) /\ (j - 1) + 1 = j
      BY <1>1, <1>8, <2>2
    <3> QED
      BY <1>5, <3>1
  <2> QED
    BY <2>1, <2>2
<1>9. Lacks(r, s, s[k])
  BY <1>4, <1>7, <1>8 DEF Lacks, In
<1>10. Distinct(r)
  BY <1>4, <1>6 DEF Distinct
<1>11. RemoveAt(s, k) = r
  BY DEF r, a, b, RemoveAt
<1> QED
  BY <1>3, <1>9, <1>10, <1>11

-----------------------------------------------------------------------------
(* The invariant.                                                          *)

Phases == {"none", "new"} \cup Kinds

Typed ==
  /\ TypeOK
  /\ wire \in [Conns -> Seq(Bytes)]
  /\ phase \in [Conns -> [FcgiIds -> Phases]]
  /\ fdBuffers \in [DOMAIN fdBuffers -> [got : Seq(Bytes), framed : BOOLEAN]]

\* What is polled has a buffer, is open, and is polled once.
PollsOK ==
  /\ Distinct(pollFds)
  /\ \A fd \in Fds : Polled(fd) <=> fd \in DOMAIN fdBuffers
  /\ \A fd \in DOMAIN fdBuffers : fdConn[fd] # NoConn

\* A connection waits to be accepted, or has one descriptor, or is gone.
Waiting(c) == \E k \in DOMAIN backlog : backlog[k] = c
ConnsOK ==
  /\ \A f, g \in Fds : fdConn[f] = fdConn[g] /\ fdConn[f] # NoConn => f = g
  /\ backlog \in Seq(Conns)
  /\ Distinct(backlog)
  /\ \A c \in Conns : Waiting(c) => count[c] = 0 /\ \A fd \in Fds : fdConn[fd] # c
  /\ \A c \in Conns : peerOpen[c] => Waiting(c) \/ \E fd \in Fds : fdConn[fd] = c
  /\ \A c \in Conns : count[c] <= Len(rec[c])
  /\ \A c \in Conns : rec[c] = <<>> => wire[c] = <<>>

\* handler() reads from a descriptor that is polled.
CallOK ==
  pc \in {"header", "body"} =>
    cur \in DOMAIN fdBuffers /\ (fdBuffers[cur].framed <=> pc = "body")

Stream(fd) == fdBuffers[fd].got \o wire[fdConn[fd]]
Streaming(c, s) ==
  Frames(c, rec[c], count[c], s) /\ (peerOpen[c] => Ends(c, rec[c], count[c], s))
WaitingOK(c) == Waiting(c) => Streaming(c, wire[c])
BufferOK(fd) ==
  /\ Streaming(fdConn[fd], Stream(fd))
  /\ fdBuffers[fd].framed =>
       Len(fdBuffers[fd].got) <= Size(rec[fdConn[fd]], count[fdConn[fd]] + 1)
BytesOK == (\A c \in Conns : WaitingOK(c)) /\ (\A fd \in DOMAIN fdBuffers : BufferOK(fd))

HandedOK ==
  handed # <<>> =>
    LET h == handed[1] IN
    /\ h.conn \in Conns /\ count[h.conn] \in 1..Len(rec[h.conn])
    /\ h.bytes = RecordBytes(h.conn, count[h.conn])

IInv == Typed /\ PollsOK /\ ConnsOK /\ CallOK /\ BytesOK /\ HandedOK

LEMMA IInvEnough == IInv => WholeRecords
<1> SUFFICES ASSUME IInv PROVE WholeRecords
  OBVIOUS
<1>1. ASSUME handed # <<>>
      PROVE  count[handed[1].conn] <= Len(rec[handed[1].conn])
             /\ handed[1].bytes = RecordBytes(handed[1].conn, count[handed[1].conn])
  BY <1>1 DEF IInv, HandedOK, Typed, TypeOK
<1> QED
  BY <1>1 DEF IInv, Typed, WholeRecords

LEMMA Started == Init => IInv
<1> SUFFICES ASSUME Init PROVE IInv
  OBVIOUS
<1>1. Socket \in Int /\ Socket \notin Fds /\ DOMAIN fdBuffers = {} /\ DOMAIN pollFds = {1}
  BY DEF Init, Socket, Fds
<1>2. TypeOK
  BY <1>1, EmptySeq DEF Init, TypeOK
<1>3. Typed
  BY <1>1, <1>2, EmptySeq DEF Init, Typed, Phases
<1>4. PollsOK
  BY <1>1 DEF Init, PollsOK, Polled, Distinct
<1>5. DOMAIN backlog = {} /\ \A c \in Conns : ~Waiting(c)
  BY DEF Init, Waiting
<1>6. ConnsOK
  BY <1>5, EmptySeq DEF Init, ConnsOK, Distinct
<1>7. CallOK /\ HandedOK
  BY DEF Init, CallOK, HandedOK
<1>8. BytesOK
  BY <1>1, <1>5 DEF BytesOK, WaitingOK
<1> QED
  BY <1>3, <1>4, <1>6, <1>7, <1>8 DEF IInv

-----------------------------------------------------------------------------
(* What a step leaves alone.                                               *)

Same(c) == /\ wire'[c] = wire[c] /\ rec'[c] = rec[c] /\ count'[c] = count[c]
           /\ peerOpen'[c] => peerOpen[c]

LEMMA WaitingKept ==
  ASSUME NEW c \in Conns, WaitingOK(c), Waiting(c)' => Waiting(c), Same(c)
  PROVE  WaitingOK(c)'
BY DEF WaitingOK, Streaming, Same

LEMMA BufferKept ==
  ASSUME NEW fd \in Fds, BufferOK(fd), fdBuffers'[fd] = fdBuffers[fd],
         fdConn'[fd] = fdConn[fd], Same(fdConn[fd])
  PROVE  BufferOK(fd)'
BY DEF BufferOK, Streaming, Stream, Same, Size

LEMMA BytesKept ==
  ASSUME BytesOK, UNCHANGED <<wire, rec, count, peerOpen, backlog, fdConn>>,
         DOMAIN fdBuffers \subseteq Fds, DOMAIN fdBuffers' \subseteq DOMAIN fdBuffers,
         \A fd \in DOMAIN fdBuffers' : fdBuffers'[fd] = fdBuffers[fd]
  PROVE  BytesOK'
<1>1. ASSUME NEW c \in Conns
      PROVE  WaitingOK(c)'
  BY WaitingKept DEF BytesOK, Waiting, Same
<1>2. ASSUME NEW fd \in DOMAIN fdBuffers'
      PROVE  BufferOK(fd)'
  <2>1. fd \in Fds /\ BufferOK(fd)
    BY DEF BytesOK
  <2> QED
    BY <2>1, BufferKept DEF Same
<1> QED
  BY <1>1, <1>2 DEF BytesOK

\* Nothing but the call handler() is in changes.
LEMMA StateKept ==
  ASSUME IInv, UNCHANGED <<pollFds, fdBuffers, kernel, server, upper>>,
         pc' \in {"loop", "accept", "header", "body", "thrown", "crashed"},
         cur' \in Fds \cup {Socket}, it' \in Fds \cup {Socket}, CallOK'
  PROVE  IInv'
<1>1. Typed'
  BY DEF IInv, Typed, TypeOK, kernel, server, upper, Polled
<1>2. PollsOK' /\ ConnsOK'
  BY DEF IInv, PollsOK, ConnsOK, Waiting, kernel, server, upper, Polled
<1>3. BytesOK'
  BY BytesKept DEF IInv, Typed, TypeOK, kernel, server, upper
<1>4. HandedOK'
  BY DEF IInv, HandedOK, RecordBytes, kernel, server, upper
<1> QED
  BY <1>1, <1>2, <1>3, <1>4 DEF IInv

\* A descriptor is forgotten.
LEMMA Forgotten ==
  ASSUME IInv, NEW fd \in Fds \cup {Socket}, NEW k \in DOMAIN pollFds, pollFds[k] = fd,
         pollFds' = RemoveAt(pollFds, k), fdBuffers' = EraseBuffer(fd),
         \A g \in Fds \ {fd} : fdConn'[g] = fdConn[g]
  PROVE  /\ PollsOK' /\ pollFds' \in Seq(Fds \cup {Socket})
         /\ DOMAIN fdBuffers' = DOMAIN fdBuffers \ {fd}
         /\ fdBuffers' \in [DOMAIN fdBuffers' -> [got : Seq(Bytes), framed : BOOLEAN]]
         /\ \A g \in DOMAIN fdBuffers' : fdBuffers'[g] = fdBuffers[g]
<1>1. pollFds \in Seq(Fds \cup {Socket}) /\ Distinct(pollFds)
  BY DEF IInv, Typed, TypeOK, PollsOK
<1>2. pollFds' \in Seq(Fds \cup {Socket}) /\ Distinct(pollFds') /\ Lacks(pollFds', pollFds, fd)
  BY <1>1, Removed
<1>3. /\ DOMAIN fdBuffers' = DOMAIN fdBuffers \ {fd}
      /\ \A g \in DOMAIN fdBuffers' : fdBuffers'[g] = fdBuffers[g]
  BY DEF EraseBuffer
<1>4. fdBuffers' \in [DOMAIN fdBuffers' -> [got : Seq(Bytes), framed : BOOLEAN]]
  BY <1>3 DEF IInv, Typed, EraseBuffer
<1>5. PollsOK'
  <2>1. ASSUME NEW g \in Fds
        PROVE  Polled(g)' <=> g \in DOMAIN fdBuffers'
    BY <1>2, <1>3 DEF IInv, PollsOK, Polled, In, Lacks
  <2>2. ASSUME NEW g \in DOMAIN fdBuffers'
        PROVE  fdConn'[g] # NoConn
    BY <1>3 DEF IInv, PollsOK, Typed, TypeOK
  <2> QED
    BY <1>2, <2>1, <2>2 DEF PollsOK
<1> QED
  BY <1>2, <1>3, <1>4, <1>5

\* It is forgotten and not closed.
LEMMA ForgottenOnly ==
  ASSUME IInv, NEW fd \in Fds \cup {Socket}, NEW k \in DOMAIN pollFds, pollFds[k] = fd,
         pollFds' = RemoveAt(pollFds, k), fdBuffers' = EraseBuffer(fd), pc' = "loop",
         UNCHANGED <<cur, it, kernel, server, upper>>
  PROVE  IInv'
<1>1. \A g \in Fds \ {fd} : fdConn'[g] = fdConn[g]
  BY DEF kernel
<1>2. /\ PollsOK' /\ pollFds' \in Seq(Fds \cup {Socket})
      /\ DOMAIN fdBuffers' = DOMAIN fdBuffers \ {fd}
      /\ fdBuffers' \in [DOMAIN fdBuffers' -> [got : Seq(Bytes), framed : BOOLEAN]]
      /\ \A g \in DOMAIN fdBuffers' : fdBuffers'[g] = fdBuffers[g]
  BY <1>1, Forgotten
<1>3. Typed'
  BY <1>2 DEF IInv, Typed, TypeOK, kernel, server, upper
<1>4. ConnsOK' /\ CallOK'
  BY DEF IInv, ConnsOK, Waiting, CallOK, kernel, server, upper
<1>5. BytesOK'
  BY <1>2, BytesKept DEF IInv, Typed, TypeOK, kernel, server, upper
<1>6. HandedOK'
  BY DEF IInv, HandedOK, RecordBytes, kernel, server, upper
<1> QED
  BY <1>2, <1>3, <1>4, <1>5, <1>6 DEF IInv

-----------------------------------------------------------------------------
(* Every step keeps the invariant.                                         *)

LEMMA KeptByPoll == IInv /\ (PollHangUp \/ PollAccept \/ PollRead) => IInv'
<1>1. ASSUME IInv, PollHangUp PROVE IInv'
  <2>1. PICK k \in DOMAIN pollFds :
          /\ Hup(pollFds[k])
          /\ fdBuffers' = EraseBuffer(pollFds[k])
          /\ pollFds' = RemoveAt(pollFds, k)
          /\ HangUpKeeping(pollFds[k])
    BY <1>1 DEF PollHangUp
  <2>2. PICK fd \in Fds \cup {Socket} : pollFds[k] = fd
    BY <1>1 DEF IInv, Typed, TypeOK
  <2> QED
    BY <1>1, <2>1, <2>2, ForgottenOnly DEF PollHangUp, HangUpKeeping
<1>2. ASSUME IInv, PollAccept PROVE IInv'
  <2>1. CallOK'
    BY <1>2 DEF PollAccept, CallOK
  <2> QED
    BY <1>2, <2>1, StateKept DEF IInv, Typed, TypeOK, PollAccept
<1>3. ASSUME IInv, PollRead PROVE IInv'
  <2>1. PICK k \in DOMAIN pollFds :
          /\ pollFds[k] # Socket
          /\ cur' = pollFds[k] /\ it' = pollFds[k]
          /\ pc' = IF fdBuffers[pollFds[k]].framed THEN "body" ELSE "header"
    BY <1>3 DEF PollRead
  <2>2. pollFds[k] \in Fds /\ Polled(pollFds[k])
    BY <1>3, <2>1 DEF IInv, Typed, TypeOK, Polled
  <2>3. pollFds[k] \in DOMAIN fdBuffers
    BY <1>3, <2>2 DEF IInv, PollsOK
  <2>4. fdBuffers[pollFds[k]].framed \in BOOLEAN
    BY <1>3, <2>3 DEF IInv, Typed
  <2>5. CallOK'
    BY <1>3, <2>1, <2>3, <2>4 DEF PollRead, CallOK
  <2> QED
    BY <1>3, <2>1, <2>2, <2>5, StateKept DEF PollRead
<1> QED
  BY <1>1, <1>2, <1>3

LEMMA KeptByEndOfFile == IInv /\ (HeaderEndOfFile \/ BodyEndOfFile \/ Interrupted) => IInv'
<1>1. ASSUME IInv, HeaderEndOfFile PROVE IInv'
  <2>1. CASE /\ pc' = "loop"
             /\ fdBuffers' = EraseBuffer(it)
             /\ \E k \in DOMAIN pollFds : pollFds[k] = it /\ pollFds' = RemoveAt(pollFds, k)
    <3>1. PICK k \in DOMAIN pollFds : pollFds[k] = it /\ pollFds' = RemoveAt(pollFds, k)
      BY <2>1
    <3>2. PICK fd \in Fds \cup {Socket} : it = fd
      BY <1>1 DEF IInv, Typed, TypeOK
    <3> QED
      BY <1>1, <2>1, <3>1, <3>2, ForgottenOnly DEF HeaderEndOfFile
  <2>2. CASE pc' = "crashed" /\ UNCHANGED <<fdBuffers, pollFds>>
    <3>1. CallOK'
      BY <2>2 DEF CallOK
    <3> QED
      BY <1>1, <2>2, <3>1, StateKept DEF IInv, Typed, TypeOK, HeaderEndOfFile
  <2> QED
    BY <1>1, <2>1, <2>2 DEF HeaderEndOfFile
<1>2. ASSUME IInv, BodyEndOfFile PROVE IInv'
  <2>1. CallOK'
    BY <1>2 DEF BodyEndOfFile, CallOK
  <2> QED
    BY <1>2, <2>1, StateKept DEF IInv, Typed, TypeOK, BodyEndOfFile
<1>3. ASSUME IInv, Interrupted PROVE IInv'
  <2>1. CallOK'
    BY <1>3 DEF Interrupted, CallOK
  <2> QED
    BY <1>3, <2>1, StateKept DEF IInv, Typed, TypeOK, Interrupted
<1> QED
  BY <1>1, <1>2, <1>3

\* The first connection of the backlog is taken from it.
LEMMA HeadTaken ==
  ASSUME IInv, backlog # <<>>, backlog' = Tail(backlog)
  PROVE  /\ Head(backlog) \in Conns /\ Waiting(Head(backlog))
         /\ backlog' \in Seq(Conns) /\ Distinct(backlog')
         /\ \A d \in Conns : Waiting(d)' <=> (Waiting(d) /\ d # Head(backlog))
<1>2. backlog \in Seq(Conns) /\ Distinct(backlog)
  BY DEF IInv, ConnsOK
<1>3. /\ Head(backlog) \in Conns /\ Len(backlog) \in Nat \ {0} /\ 1 \in DOMAIN backlog
      /\ backlog[1] = Head(backlog) /\ backlog' \in Seq(Conns)
      /\ Len(backlog') = Len(backlog) - 1 /\ \A i \in 1..Len(backlog') : backlog'[i] = backlog[i + 1]
  BY <1>2, HeadTailProperties, EmptySeq
<1>4. PICK c \in Conns : c = Head(backlog)
  BY <1>3
<1>5. Waiting(c)
  BY <1>3, <1>4 DEF Waiting
<1>6. Distinct(backlog') /\ ~Waiting(c)' /\ \A d \in Conns : Waiting(d)' <=> Waiting(d) /\ d # c
  <2>1. DOMAIN backlog = 1..Len(backlog) /\ DOMAIN backlog' = 1..Len(backlog')
    BY <1>2, <1>3
  <2>2. ASSUME NEW i \in DOMAIN backlog'
        PROVE  i + 1 \in DOMAIN backlog /\ backlog'[i] = backlog[i + 1] /\ i + 1 # 1 /\ i \in Nat
    BY <1>3, <2>1
  <2>3. Distinct(backlog')
    <3>1. ASSUME NEW i \in DOMAIN backlog', NEW j \in DOMAIN backlog', backlog'[i] = backlog'[j]
          PROVE  i = j
      <4>1. i + 1 = j + 1
        BY <1>2, <2>2, <3>1 DEF Distinct
      <4> QED
        BY <2>2, <4>1
    <3> QED
      BY <3>1 DEF Distinct
  <2>4. ~Waiting(c)'
    BY <1>2, <1>3, <1>4, <2>2 DEF Waiting, Distinct
  <2>5. ASSUME NEW d \in Conns, Waiting(d), d # c
        PROVE  Waiting(d)'
    <3>1. PICK k \in DOMAIN backlog : backlog[k] = d
      BY <2>5 DEF Waiting
    <3>2. k # 1
      BY <1>3, <1>4, <2>5, <3>1
    <3>3. k - 1 \in DOMAIN backlog' /\ (k - 1) + 1 = k
      BY <1>3, <2>1, <3>1, <3>2
    <3> QED
      BY <2>2, <3>1, <3>3 DEF Waiting
  <2>6. ASSUME NEW d \in Conns, Waiting(d)'
        PROVE  Waiting(d)
    BY <2>2, <2>6 DEF Waiting
  <2> QED
    BY <2>3, <2>4, <2>5, <2>6
<1> QED
  BY <1>3, <1>4, <1>5, <1>6

LEMMA KeptByAccept == IInv /\ Accept => IInv'
<1> SUFFICES ASSUME IInv, Accept PROVE IInv'
  OBVIOUS
<1>1. PICK fd \in Fds :
        /\ fdConn[fd] = NoConn
        /\ fdConn' = [fdConn EXCEPT ![fd] = Head(backlog)]
        /\ pollFds' = Append(pollFds, fd)
        /\ fdBuffers' = [g \in DOMAIN fdBuffers \cup {fd} |->
                           IF g = fd THEN Fresh ELSE fdBuffers[g]]
        /\ cur' = fd
  BY DEF Accept, NewFd, Watch
<1>2. backlog # <<>> /\ backlog' = Tail(backlog)
  BY DEF Accept
<1>4. PICK c \in Conns : c = Head(backlog)
  BY <1>2, HeadTaken
<1>6. /\ Waiting(c) /\ ~Waiting(c)' /\ \A d \in Conns : Waiting(d)' <=> Waiting(d) /\ d # c
      /\ backlog' \in Seq(Conns) /\ Distinct(backlog')
  BY <1>2, <1>4, HeadTaken
<1>5. count[c] = 0 /\ \A g \in Fds : fdConn[g] # c
  BY <1>6 DEF IInv, ConnsOK
<1>7. fd \notin DOMAIN fdBuffers /\ ~Polled(fd)
  BY <1>1 DEF IInv, PollsOK
<1>8. /\ fdConn' \in [Fds -> Conns \cup {NoConn}] /\ fdConn'[fd] = c
      /\ \A g \in Fds \ {fd} : fdConn'[g] = fdConn[g]
  BY <1>1, <1>4 DEF IInv, Typed, TypeOK
<1>9. /\ pollFds \in Seq(Fds \cup {Socket}) /\ Len(pollFds) \in Nat
      /\ pollFds' \in Seq(Fds \cup {Socket}) /\ Len(pollFds') = Len(pollFds) + 1
      /\ \A i \in 1..Len(pollFds) : pollFds'[i] = pollFds[i]
      /\ pollFds'[Len(pollFds) + 1] = fd
  BY <1>1, AppendProperties DEF IInv, Typed, TypeOK
<1>10. /\ DOMAIN fdBuffers' = DOMAIN fdBuffers \cup {fd} /\ fdBuffers'[fd] = Fresh
       /\ \A g \in DOMAIN fdBuffers : fdBuffers'[g] = fdBuffers[g]
       /\ DOMAIN fdBuffers \subseteq Fds
  BY <1>1, <1>7 DEF IInv, Typed, TypeOK
<1>11. Fresh.got = <<>> /\ Fresh.framed = FALSE /\ Fresh \in [got : Seq(Bytes), framed : BOOLEAN]
       /\ ~(Len(Fresh.got) >= HeaderSize)
  BY EmptySeq, TransceiverAssumption DEF Fresh
<1>12. /\ pc' = "header"
       /\ UNCHANGED <<it, wire, avail, peerOpen, server, upper>>
  BY DEF Accept
<1>13. Typed'
  <2>1. \A g \in DOMAIN fdBuffers' : fdBuffers'[g].framed <=> Len(fdBuffers'[g].got) >= HeaderSize
    BY <1>10, <1>11 DEF IInv, Typed, TypeOK
  <2>2. TypeOK'
    BY <1>1, <1>8, <1>9, <1>10, <1>12, <2>1 DEF IInv, Typed, TypeOK, server, upper
  <2>3. fdBuffers' \in [DOMAIN fdBuffers' -> [got : Seq(Bytes), framed : BOOLEAN]]
    BY <1>1, <1>10, <1>11 DEF IInv, Typed
  <2> QED
    BY <1>12, <2>2, <2>3 DEF IInv, Typed, server, upper
<1>14. PollsOK'
  <2>1. DOMAIN pollFds = 1..Len(pollFds) /\ DOMAIN pollFds' = 1..(Len(pollFds) + 1)
    BY <1>9
  <2>2. \A i \in DOMAIN pollFds' : i \in DOMAIN pollFds \/ i = Len(pollFds) + 1
    BY <1>9, <2>1
  <2>3. \A i \in DOMAIN pollFds : pollFds'[i] = pollFds[i] /\ pollFds[i] # fd /\ i # Len(pollFds) + 1
    BY <1>7, <1>9, <2>1 DEF Polled
  <2>4. Distinct(pollFds')
    BY <1>9, <2>1, <2>2, <2>3 DEF IInv, PollsOK, Distinct
  <2>5. \A g \in Fds : Polled(g)' <=> Polled(g) \/ g = fd
    <3>1. \A i \in DOMAIN pollFds : i \in DOMAIN pollFds'
      BY <1>9, <2>1
    <3>2. Len(pollFds) + 1 \in DOMAIN pollFds'
      BY <1>9, <2>1
    <3> QED
      BY <1>9, <2>2, <2>3, <3>1, <3>2 DEF Polled
  <2> QED
    BY <1>8, <1>10, <2>4, <2>5, NoConnAssumption DEF IInv, PollsOK
<1>15. ConnsOK'
  <2>1. \A f, g \in Fds : fdConn'[f] = fdConn'[g] /\ fdConn'[f] # NoConn => f = g
    BY <1>5, <1>8 DEF IInv, ConnsOK
  <2>2. \A d \in Conns : Waiting(d)' => count'[d] = 0 /\ \A g \in Fds : fdConn'[g] # d
    BY <1>6, <1>8, <1>12 DEF IInv, ConnsOK, upper
  <2>3. \A d \in Conns : peerOpen'[d] => Waiting(d)' \/ \E g \in Fds : fdConn'[g] = d
    <3>1. ASSUME NEW d \in Conns, peerOpen'[d], ~Waiting(d)', d # c
          PROVE  \E g \in Fds : fdConn'[g] = d
      <4>1. PICK g \in Fds : fdConn[g] = d
        BY <1>6, <1>12, <3>1 DEF IInv, ConnsOK
      <4>2. g # fd
        BY <1>1, <4>1, NoConnAssumption
      <4> QED
        BY <1>8, <4>1, <4>2
    <3> QED
      BY <1>8, <3>1
  <2> QED
    BY <1>6, <1>12, <2>1, <2>2, <2>3 DEF IInv, ConnsOK, Distinct, server, upper
<1>16. CallOK'
  BY <1>1, <1>10, <1>11, <1>12 DEF CallOK
<1>17. BytesOK'
  <2>1. ASSUME NEW d \in Conns
        PROVE  WaitingOK(d)'
    BY <1>6, <1>12, WaitingKept DEF IInv, BytesOK, Same, server, upper
  <2>2. ASSUME NEW g \in DOMAIN fdBuffers
        PROVE  BufferOK(g)'
    <3>1. g \in Fds /\ g # fd /\ BufferOK(g)
      BY <1>7, <1>10 DEF IInv, BytesOK
    <3>2. fdBuffers'[g] = fdBuffers[g] /\ fdConn'[g] = fdConn[g]
      BY <1>8, <1>10, <3>1
    <3> QED
      BY <1>12, <3>1, <3>2, BufferKept DEF Same, server, upper
  <2>3. BufferOK(fd)'
    <3>1. Streaming(c, wire[c])
      BY <1>6 DEF IInv, BytesOK, WaitingOK
    <3>2. Stream(fd)' = wire[c]
      <4>1. <<>> \o wire[c] = wire[c]
        BY DEF IInv, Typed
      <4> QED
        BY <1>8, <1>10, <1>11, <1>12, <4>1 DEF Stream
    <3> QED
      BY <1>8, <1>10, <1>11, <1>12, <3>1, <3>2 DEF BufferOK, Streaming, server, upper
  <2> QED
    BY <1>10, <2>1, <2>2, <2>3 DEF BytesOK
<1>18. HandedOK'
  BY <1>12 DEF IInv, HandedOK, RecordBytes, server, upper
<1> QED
  BY <1>13, <1>14, <1>15, <1>16, <1>17, <1>18 DEF IInv

\* A descriptor is closed: the connection behind it is gone.
LEMMA KeptByReply == \A q \in requests : IInv /\ Reply(q) => IInv'
<1> SUFFICES ASSUME NEW q \in requests, IInv, Reply(q) PROVE IInv'
  OBVIOUS
<1>1. PICK fd \in Fds : q.fd = fd
  BY DEF IInv, Typed, TypeOK, RequestType
<1>2. fdConn[fd] \in Conns \cup {NoConn}
  BY DEF IInv, Typed, TypeOK
<1>3. PICK c : c = fdConn[fd]
  OBVIOUS
<1>4. /\ pc = "loop" /\ requests' = requests \ {q}
      /\ IF c = NoConn \/ q.kill \/ ~peerOpen[c]
           THEN FreeFd(fd) ELSE UNCHANGED <<pollFds, fdBuffers, kernel>>
      /\ phase' = IF c = NoConn THEN phase ELSE [phase EXCEPT ![c][q.id] = "none"]
      /\ UNCHANGED <<pc, cur, it, rec, count, handed>>
  BY <1>1, <1>3 DEF Reply
<1>5. requests' \subseteq RequestType
  BY <1>4 DEF IInv, Typed, TypeOK
<1>6. phase' \in [Conns -> [FcgiIds -> Phases]]
  <2>1. q.id \in FcgiIds /\ "none" \in Phases
    BY DEF IInv, Typed, TypeOK, RequestType, Phases
  <2> QED
    BY <1>2, <1>3, <1>4, <2>1 DEF IInv, Typed
<1>7. CallOK' /\ HandedOK'
  BY <1>4 DEF IInv, CallOK, HandedOK, RecordBytes
<1>8. CASE UNCHANGED <<pollFds, fdBuffers, kernel>>
  <2>1. Typed'
    BY <1>4, <1>5, <1>6, <1>8 DEF IInv, Typed, TypeOK, kernel
  <2>2. PollsOK' /\ ConnsOK'
    BY <1>4, <1>8 DEF IInv, PollsOK, Polled, ConnsOK, Waiting, kernel
  <2>3. BytesOK'
    BY <1>4, <1>8, BytesKept DEF IInv, Typed, TypeOK, kernel
  <2> QED
    BY <1>7, <2>1, <2>2, <2>3 DEF IInv
<1>9. CASE Polled(fd) /\ FreeFd(fd)
  <2>1. PICK k \in DOMAIN pollFds : pollFds[k] = fd /\ pollFds' = RemoveAt(pollFds, k)
    BY <1>9 DEF FreeFd
  <2>2. fd \in DOMAIN fdBuffers /\ c \in Conns
    BY <1>2, <1>3, <1>9 DEF IInv, PollsOK
  <2>3. /\ fdBuffers' = EraseBuffer(fd)
        /\ fdConn' = [fdConn EXCEPT ![fd] = NoConn]
        /\ peerOpen' = [peerOpen EXCEPT ![c] = FALSE]
        /\ wire' = [wire EXCEPT ![c] = <<>>] /\ avail' = [avail EXCEPT ![c] = 0]
        /\ UNCHANGED backlog
    BY <1>3, <1>9 DEF FreeFd, Close
  <2>4. /\ fdConn' \in [Fds -> Conns \cup {NoConn}] /\ fdConn'[fd] = NoConn
        /\ \A g \in Fds \ {fd} : fdConn'[g] = fdConn[g] /\ fdConn[g] # c
    BY <1>3, <2>2, <2>3, NoConnAssumption DEF IInv, Typed, TypeOK, ConnsOK
  <2>5. /\ PollsOK' /\ pollFds' \in Seq(Fds \cup {Socket})
        /\ DOMAIN fdBuffers' = DOMAIN fdBuffers \ {fd}
        /\ fdBuffers' \in [DOMAIN fdBuffers' -> [got : Seq(Bytes), framed : BOOLEAN]]
        /\ \A g \in DOMAIN fdBuffers' : fdBuffers'[g] = fdBuffers[g]
    BY <2>1, <2>3, <2>4, Forgotten
  <2>6. ~Waiting(c) /\ \A d \in Conns : Waiting(d)' <=> Waiting(d)
    BY <1>3, <2>2, <2>3 DEF IInv, ConnsOK, Waiting
  <2>7. \A d \in Conns \ {c} : Same(d) /\ avail'[d] = avail[d]
    BY <1>4, <2>2, <2>3 DEF IInv, Typed, TypeOK, Same
  <2>8. /\ wire' \in [Conns -> Seq(Bytes)] /\ wire'[c] = <<>> /\ Len(wire'[c]) = 0
        /\ avail' \in [Conns -> Nat] /\ avail'[c] = 0
        /\ peerOpen' \in [Conns -> BOOLEAN] /\ peerOpen'[c] = FALSE
    BY <2>2, <2>3, EmptySeq DEF IInv, Typed, TypeOK
  <2>9. Typed'
    <3>1. ASSUME NEW d \in Conns
          PROVE  avail'[d] <= Len(wire'[d])
      <4>1. avail[d] <= Len(wire[d])
        BY DEF IInv, Typed, TypeOK
      <4>2. CASE d = c
        BY <2>8, <4>2
      <4>3. CASE d # c
        <5>1. avail'[d] = avail[d] /\ wire'[d] = wire[d]
          BY <2>7, <4>3 DEF Same
        <5> QED
          BY <4>1, <5>1
      <4> QED
        BY <4>2, <4>3
    <3>2. DOMAIN fdBuffers' \subseteq Fds
      BY <2>5 DEF IInv, Typed, TypeOK
    <3>3. \A g \in DOMAIN fdBuffers' : fdBuffers'[g].framed <=> Len(fdBuffers'[g].got) >= HeaderSize
      BY <2>5 DEF IInv, Typed, TypeOK
    <3>4. TypeOK'
      BY <1>4, <1>5, <2>4, <2>5, <2>8, <3>1, <3>2, <3>3 DEF IInv, Typed, TypeOK
    <3> QED
      BY <1>6, <2>5, <2>8, <3>4 DEF Typed
  <2>10. ConnsOK'
    <3>1. \A f, g \in Fds : fdConn'[f] = fdConn'[g] /\ fdConn'[f] # NoConn => f = g
      BY <2>4 DEF IInv, ConnsOK
    <3>2. \A d \in Conns : Waiting(d)' => count'[d] = 0 /\ \A g \in Fds : fdConn'[g] # d
      <4>1. \A d \in Conns : Waiting(d)' => count'[d] = 0 /\ \A g \in Fds : fdConn[g] # d
        BY <1>4, <2>6 DEF IInv, ConnsOK
      <4> QED
        BY <2>4, <4>1, NoConnAssumption
    <3>3. \A d \in Conns : peerOpen'[d] => Waiting(d)' \/ \E g \in Fds : fdConn'[g] = d
      <4>1. ASSUME NEW d \in Conns \ {c}, peerOpen[d]
            PROVE  Waiting(d)' \/ \E g \in Fds : fdConn'[g] = d
        BY <1>3, <2>4, <2>6, <4>1 DEF IInv, ConnsOK
      <4> QED
        BY <2>7, <2>8, <4>1 DEF Same
    <3>4. \A d \in Conns : rec'[d] = <<>> => wire'[d] = <<>>
      BY <1>4, <2>7, <2>8 DEF IInv, ConnsOK, Same
    <3> QED
      BY <1>4, <2>3, <3>1, <3>2, <3>3, <3>4 DEF IInv, ConnsOK, Distinct
  <2>11. BytesOK'
    <3>1. ASSUME NEW d \in Conns
          PROVE  WaitingOK(d)'
      <4>1. CASE d = c
        BY <2>6, <4>1 DEF WaitingOK
      <4>2. CASE d # c
        BY <2>6, <2>7, <4>2, WaitingKept DEF IInv, BytesOK
      <4> QED
        BY <4>1, <4>2
    <3>2. ASSUME NEW g \in DOMAIN fdBuffers'
          PROVE  BufferOK(g)'
      <4>1. g \in Fds \ {fd} /\ BufferOK(g) /\ fdConn[g] \in Conns \ {c}
        BY <2>4, <2>5 DEF IInv, Typed, TypeOK, BytesOK, PollsOK
      <4> QED
        BY <2>4, <2>5, <2>7, <4>1, BufferKept
    <3> QED
      BY <3>1, <3>2 DEF BytesOK
  <2> QED
    BY <1>7, <2>5, <2>9, <2>10, <2>11 DEF IInv
<1> QED
  BY <1>4, <1>8, <1>9 DEF FreeFd

-----------------------------------------------------------------------------
(* The web server and the other processes.                                 *)

\* The variables of handler() and of the manager.
Ours == <<pc, cur, it, pollFds, fdBuffers, requests, handed, replied>>

LEMMA OursKept ==
  ASSUME IInv, UNCHANGED Ours, UNCHANGED <<fdConn, count>>,
         wire' \in [Conns -> Seq(Bytes)], avail' \in [Conns -> Nat],
         \A c \in Conns : avail'[c] <= Len(wire'[c]),
         peerOpen' \in [Conns -> BOOLEAN], rec' \in [Conns -> Seq(RecordType)],
         phase' \in [Conns -> [FcgiIds -> Phases]]
  PROVE  Typed' /\ PollsOK' /\ CallOK'
<1>1. Typed'
  BY DEF IInv, Typed, TypeOK, Ours
<1>2. PollsOK' /\ CallOK'
  BY DEF IInv, PollsOK, Polled, CallOK, Ours
<1> QED
  BY <1>1, <1>2

LEMMA KeptByArrive == \A c \in Conns : IInv /\ Arrive(c) => IInv'
<1> SUFFICES ASSUME NEW c \in Conns, IInv, Arrive(c) PROVE IInv'
  OBVIOUS
<1>1. PICK n \in (avail[c] + 1)..Len(wire[c]) : avail' = [avail EXCEPT ![c] = n]
  BY DEF Arrive
<1>2. /\ UNCHANGED Ours
      /\ UNCHANGED <<fdConn, backlog, wire, peerOpen, rec, phase, count>>
  BY DEF Arrive, Ours, server, upper
<1>3. avail[c] \in Nat /\ n \in Nat /\ n <= Len(wire[c])
  BY <1>1 DEF IInv, Typed, TypeOK
<1>4. avail' \in [Conns -> Nat] /\ \A d \in Conns : avail'[d] <= Len(wire[d])
  BY <1>1, <1>3 DEF IInv, Typed, TypeOK
<1>5. Typed' /\ PollsOK' /\ CallOK'
  BY <1>2, <1>4, OursKept DEF IInv, Typed, TypeOK
<1>6. ConnsOK' /\ HandedOK'
  BY <1>2 DEF IInv, ConnsOK, Waiting, HandedOK, RecordBytes, Ours
<1>7. BytesOK'
  BY <1>2, BytesKept DEF IInv, Typed, TypeOK, Ours
<1> QED
  BY <1>5, <1>6, <1>7 DEF IInv

LEMMA KeptByConnect == \A c \in Conns : IInv /\ Connect(c) => IInv'
<1> SUFFICES ASSUME NEW c \in Conns, IInv, Connect(c) PROVE IInv'
  OBVIOUS
<1>1. /\ rec[c] = <<>> /\ wire[c] = <<>> /\ count[c] = 0 /\ \A fd \in Fds : fdConn[fd] # c
  <2>1. rec[c] = <<>> /\ \A fd \in Fds : fdConn[fd] # c
    BY DEF Connect
  <2>2. count[c] \in Nat /\ count[c] <= Len(rec[c]) /\ Len(rec[c]) = 0 /\ wire[c] = <<>>
    BY <2>1, EmptySeq DEF IInv, Typed, TypeOK, ConnsOK
  <2> QED
    BY <2>1, <2>2
<1>2. /\ UNCHANGED Ours
      /\ UNCHANGED <<fdConn, wire, avail, rec, count>>
      /\ peerOpen' = [peerOpen EXCEPT ![c] = TRUE]
      /\ phase' = [phase EXCEPT ![c] = [i \in FcgiIds |-> "new"]]
      /\ backlog' = Append(backlog, c)
  BY DEF Connect, Ours, upper
<1>3. ~Waiting(c)
  BY DEF Connect, Waiting, ToSet
<1>4. /\ backlog \in Seq(Conns) /\ Len(backlog) \in Nat
      /\ backlog' \in Seq(Conns) /\ Len(backlog') = Len(backlog) + 1
      /\ \A i \in 1..Len(backlog) : backlog'[i] = backlog[i]
      /\ backlog'[Len(backlog) + 1] = c
  BY <1>2, AppendProperties DEF IInv, ConnsOK
<1>5. Distinct(backlog') /\ \A d \in Conns : Waiting(d)' <=> Waiting(d) \/ d = c
  <2>1. DOMAIN backlog = 1..Len(backlog) /\ DOMAIN backlog' = 1..(Len(backlog) + 1)
    BY <1>4
  <2>2. /\ \A i \in DOMAIN backlog' : i \in DOMAIN backlog \/ i = Len(backlog) + 1
        /\ \A i \in DOMAIN backlog : i \in DOMAIN backlog'
        /\ Len(backlog) + 1 \in DOMAIN backlog'
    BY <1>4, <2>1
  <2>3. \A i \in DOMAIN backlog : backlog'[i] = backlog[i] /\ backlog[i] # c
    BY <1>3, <1>4, <2>1 DEF Waiting
  <2>4. Distinct(backlog')
    BY <1>4, <2>2, <2>3 DEF IInv, ConnsOK, Distinct
  <2> QED
    BY <1>4, <2>2, <2>3, <2>4 DEF Waiting
<1>6. peerOpen' \in [Conns -> BOOLEAN] /\ \A d \in Conns \ {c} : peerOpen'[d] = peerOpen[d]
  BY <1>2 DEF IInv, Typed, TypeOK
<1>7. Typed' /\ PollsOK' /\ CallOK'
  <2>1. phase' \in [Conns -> [FcgiIds -> Phases]]
    BY <1>2 DEF IInv, Typed, Phases
  <2> QED
    BY <1>2, <1>6, <2>1, OursKept DEF IInv, Typed, TypeOK
<1>8. ConnsOK'
  <2>1. \A d \in Conns : Waiting(d)' => count'[d] = 0 /\ \A fd \in Fds : fdConn'[fd] # d
    BY <1>1, <1>2, <1>5 DEF IInv, ConnsOK
  <2>2. \A d \in Conns : peerOpen'[d] => Waiting(d)' \/ \E fd \in Fds : fdConn'[fd] = d
    BY <1>2, <1>5, <1>6 DEF IInv, ConnsOK
  <2> QED
    BY <1>2, <1>4, <1>5, <2>1, <2>2 DEF IInv, ConnsOK
<1>9. BytesOK'
  <2>1. \A d \in Conns \ {c} : Same(d)
    BY <1>2, <1>6 DEF Same
  <2>2. ASSUME NEW d \in Conns \ {c}
        PROVE  WaitingOK(d)'
    BY <1>5, <2>1, WaitingKept DEF IInv, BytesOK
  <2>3. WaitingOK(c)'
    <3>1. Frames(c, <<>>, 0, <<>>) /\ Ends(c, <<>>, 0, <<>>)
      BY EmptySeq DEF Frames, Ends
    <3>2. wire'[c] = <<>> /\ rec'[c] = <<>> /\ count'[c] = 0
      BY <1>1, <1>2
    <3> QED
      BY <3>1, <3>2 DEF WaitingOK, Streaming
  <2>4. ASSUME NEW fd \in DOMAIN fdBuffers'
        PROVE  BufferOK(fd)'
    <3>1. fd \in Fds /\ BufferOK(fd) /\ fdConn[fd] \in Conns \ {c}
      BY <1>1, <1>2 DEF Ours, IInv, Typed, TypeOK, BytesOK, PollsOK
    <3> QED
      BY <1>2, <2>1, <3>1, BufferKept DEF Ours
  <2> QED
    BY <2>2, <2>3, <2>4 DEF BytesOK
<1>10. HandedOK'
  BY <1>2 DEF IInv, HandedOK, RecordBytes, Ours
<1> QED
  BY <1>7, <1>8, <1>9, <1>10 DEF IInv

LEMMA KeptByRival == IInv /\ RivalAccepts => IInv'
<1> SUFFICES ASSUME IInv, RivalAccepts PROVE IInv'
  OBVIOUS
<1>1. backlog # <<>> /\ backlog' = Tail(backlog)
  BY DEF RivalAccepts
<1>2. PICK c \in Conns : c = Head(backlog)
  BY <1>1, HeadTaken
<1>3. /\ Waiting(c) /\ ~Waiting(c)' /\ \A d \in Conns : Waiting(d)' <=> Waiting(d) /\ d # c
      /\ backlog' \in Seq(Conns) /\ Distinct(backlog')
  BY <1>1, <1>2, HeadTaken
<1>4. \A fd \in Fds : fdConn[fd] # c
  BY <1>3 DEF IInv, ConnsOK
<1>5. /\ UNCHANGED Ours
      /\ UNCHANGED <<fdConn, rec, phase, count>>
      /\ peerOpen' = [peerOpen EXCEPT ![c] = FALSE]
      /\ wire' = [wire EXCEPT ![c] = <<>>] /\ avail' = [avail EXCEPT ![c] = 0]
  BY <1>2 DEF RivalAccepts, Ours, server, upper
<1>6. /\ wire' \in [Conns -> Seq(Bytes)] /\ wire'[c] = <<>> /\ Len(wire'[c]) = 0
      /\ avail' \in [Conns -> Nat] /\ avail'[c] = 0
      /\ peerOpen' \in [Conns -> BOOLEAN] /\ peerOpen'[c] = FALSE
  BY <1>5, EmptySeq DEF IInv, Typed, TypeOK
<1>7. \A d \in Conns \ {c} : Same(d) /\ avail'[d] = avail[d]
  BY <1>5 DEF IInv, Typed, TypeOK, Same
<1>8. Typed' /\ PollsOK' /\ CallOK'
  <2>1. ASSUME NEW d \in Conns
        PROVE  avail'[d] <= Len(wire'[d])
    <3>1. avail[d] <= Len(wire[d])
      BY DEF IInv, Typed, TypeOK
    <3>2. CASE d = c
      BY <1>6, <3>2
    <3>3. CASE d # c
      <4>1. avail'[d] = avail[d] /\ wire'[d] = wire[d]
        BY <1>7, <3>3 DEF Same
      <4> QED
        BY <3>1, <4>1
    <3> QED
      BY <3>2, <3>3
  <2> QED
    BY <1>5, <1>6, <2>1, OursKept DEF IInv, Typed, TypeOK
<1>9. ConnsOK'
  <2>1. \A d \in Conns : peerOpen'[d] => Waiting(d)' \/ \E fd \in Fds : fdConn'[fd] = d
    BY <1>3, <1>5, <1>6, <1>7 DEF IInv, ConnsOK, Same
  <2>2. \A d \in Conns : Waiting(d)' => count'[d] = 0 /\ \A fd \in Fds : fdConn'[fd] # d
    BY <1>3, <1>5 DEF IInv, ConnsOK
  <2>3. \A d \in Conns : rec'[d] = <<>> => wire'[d] = <<>>
    BY <1>6, <1>7 DEF IInv, ConnsOK, Same
  <2> QED
    BY <1>3, <1>5, <2>1, <2>2, <2>3 DEF IInv, ConnsOK
<1>10. BytesOK'
  <2>1. ASSUME NEW d \in Conns
        PROVE  WaitingOK(d)'
    <3>1. CASE d = c
      BY <1>3, <3>1 DEF WaitingOK
    <3>2. CASE d # c
      BY <1>3, <1>7, <3>2, WaitingKept DEF IInv, BytesOK
    <3> QED
      BY <3>1, <3>2
  <2>2. ASSUME NEW fd \in DOMAIN fdBuffers'
        PROVE  BufferOK(fd)'
    <3>1. fd \in Fds /\ BufferOK(fd) /\ fdConn[fd] \in Conns \ {c}
      BY <1>4, <1>5 DEF Ours, IInv, Typed, TypeOK, BytesOK, PollsOK
    <3> QED
      BY <1>5, <1>7, <3>1, BufferKept DEF Ours
  <2> QED
    BY <2>1, <2>2 DEF BytesOK
<1>11. HandedOK'
  BY <1>5 DEF IInv, HandedOK, RecordBytes, Ours
<1> QED
  BY <1>8, <1>9, <1>10, <1>11 DEF IInv

\* The server gives a connection up: what has arrived of its stream stays.
LEMMA KeptByPeerClose == \A c \in Conns : IInv /\ PeerClose(c) => IInv'
<1> SUFFICES ASSUME NEW c \in Conns, IInv, PeerClose(c) PROVE IInv'
  OBVIOUS
<1>1. PICK m : m = avail[c]
  OBVIOUS
<1>2. wire[c] \in Seq(Bytes) /\ m \in 0..Len(wire[c]) /\ m \in Nat
  BY <1>1 DEF IInv, Typed, TypeOK
<1>3. /\ UNCHANGED Ours
      /\ UNCHANGED <<fdConn, backlog, avail, rec, phase, count>>
      /\ peerOpen' = [peerOpen EXCEPT ![c] = FALSE]
      /\ wire' = [wire EXCEPT ![c] = SubSeq(@, 1, m)]
  BY <1>1 DEF PeerClose, Ours, server, upper
<1>4. SubSeq(wire[c], 1, m) \in Seq(Bytes) /\ Len(SubSeq(wire[c], 1, m)) = m
  BY <1>2
<1>5. /\ wire' \in [Conns -> Seq(Bytes)] /\ wire'[c] = SubSeq(wire[c], 1, m)
      /\ peerOpen' \in [Conns -> BOOLEAN] /\ peerOpen'[c] = FALSE
  BY <1>3, <1>4 DEF IInv, Typed, TypeOK
<1>6. \A d \in Conns \ {c} : Same(d)
  BY <1>3 DEF IInv, Typed, TypeOK, Same
<1>7. Typed' /\ PollsOK' /\ CallOK'
  <2>1. ASSUME NEW d \in Conns
        PROVE  avail'[d] <= Len(wire'[d])
    <3>1. CASE d = c
      BY <1>1, <1>2, <1>3, <1>4, <1>5, <3>1
    <3>2. CASE d # c
      <4>1. avail'[d] = avail[d] /\ wire'[d] = wire[d]
        BY <1>3, <1>6, <3>2 DEF Same
      <4> QED
        BY <4>1 DEF IInv, Typed, TypeOK
    <3> QED
      BY <3>1, <3>2
  <2> QED
    BY <1>3, <1>5, <2>1, OursKept DEF IInv, Typed, TypeOK
<1>8. ConnsOK'
  <2>1. \A d \in Conns : peerOpen'[d] => Waiting(d)' \/ \E fd \in Fds : fdConn'[fd] = d
    BY <1>3, <1>5, <1>6 DEF IInv, ConnsOK, Same, Waiting
  <2>2. ASSUME NEW d \in Conns, rec'[d] = <<>>
        PROVE  wire'[d] = <<>>
    <3>1. wire[d] = <<>>
      BY <1>3, <2>2 DEF IInv, ConnsOK
    <3>2. CASE d = c
      <4>1. m = 0
        BY <1>2, <3>1, <3>2, EmptySeq
      <4> QED
        BY <1>4, <1>5, <3>2, <4>1, EmptySeq
    <3> QED
      BY <1>6, <3>1, <3>2 DEF Same
  <2> QED
    BY <1>3, <2>1, <2>2 DEF IInv, ConnsOK, Waiting
<1>9. BytesOK'
  <2>1. ASSUME NEW d \in Conns, Waiting(d)'
        PROVE  Streaming(d, wire[d])'
    <3>1. Waiting(d) /\ WaitingOK(d)
      BY <1>3, <2>1 DEF Waiting, IInv, BytesOK
    <3>2. CASE d = c
      <4>1. Frames(c, rec[c], count[c], wire[c])
        BY <3>1, <3>2 DEF WaitingOK, Streaming
      <4>2. Frames(c, rec[c], count[c], SubSeq(wire[c], 1, m))
        BY <1>2, <4>1, FramesPrefix DEF IInv, Typed, TypeOK
      <4> QED
        BY <1>3, <1>5, <3>2, <4>2 DEF Streaming
    <3>3. CASE d # c
      BY <1>6, <2>1, <3>1, <3>3, WaitingKept DEF WaitingOK
    <3> QED
      BY <3>2, <3>3
  <2>2. ASSUME NEW fd \in DOMAIN fdBuffers'
        PROVE  BufferOK(fd)'
    <3>1. /\ fd \in Fds /\ fd \in DOMAIN fdBuffers /\ BufferOK(fd)
          /\ fdBuffers[fd].got \in Seq(Bytes) /\ fdConn[fd] \in Conns
      BY <1>3 DEF Ours, IInv, Typed, TypeOK, BytesOK, PollsOK
    <3>2. CASE fdConn[fd] = c
      <4>1. Frames(c, rec[c], count[c], fdBuffers[fd].got \o wire[c])
        BY <3>1, <3>2 DEF BufferOK, Streaming, Stream
      <4>2. PICK g \in Seq(Bytes) : g = fdBuffers[fd].got
        BY <3>1
      <4>3. /\ g \o SubSeq(wire[c], 1, m) = SubSeq(g \o wire[c], 1, Len(g) + m)
            /\ Len(g) + m \in 0..Len(g \o wire[c])
        <5>1. PICK w \in Seq(Bytes) : w = wire[c]
          BY <1>2
        <5>2. PICK a, b : Moves(g, w, m, a, b)
          BY DEF Moves
        <5>3. a = SubSeq(g \o w, 1, Len(g) + m)
          <6>1. m \in 0..Len(w)
            BY <1>2, <5>1
          <6>2. Halves(g, w, m, a, b)
            BY <5>2, <6>1, Moved
          <6> QED
            BY <6>2 DEF Halves
        <5>4. Len(g) + m \in 0..Len(g \o w)
          BY <1>2, <5>1, ConcatProperties
        <5> QED
          BY <5>1, <5>2, <5>3, <5>4 DEF Moves
      <4>4. Frames(c, rec[c], count[c], g \o SubSeq(wire[c], 1, m))
        <5>1. rec[c] \in Seq(RecordType) /\ count[c] \in Nat
          BY DEF IInv, Typed, TypeOK
        <5>2. PICK s : s = g \o wire[c]
          OBVIOUS
        <5>3. Frames(c, rec[c], count[c], s) /\ Len(g) + m \in 0..Len(s)
          BY <4>1, <4>2, <4>3, <5>2
        <5>4. Frames(c, rec[c], count[c], SubSeq(s, 1, Len(g) + m))
          BY <5>1, <5>3, FramesPrefix
        <5> QED
          BY <4>3, <5>2, <5>4
      <4>5. Stream(fd)' = g \o SubSeq(wire[c], 1, m)
        BY <1>3, <1>5, <3>2, <4>2 DEF Stream, Ours
      <4>6. Streaming(c, Stream(fd))'
        BY <1>3, <1>5, <4>2, <4>4, <4>5 DEF Streaming
      <4> QED
        BY <1>3, <3>1, <3>2, <4>6 DEF BufferOK, Ours, Size
    <3>3. CASE fdConn[fd] # c
      BY <1>3, <1>6, <3>1, <3>3, BufferKept DEF Ours
    <3> QED
      BY <3>2, <3>3
  <2> QED
    BY <2>1, <2>2 DEF BytesOK, WaitingOK
<1>10. HandedOK'
  BY <1>3 DEF IInv, HandedOK, RecordBytes, Ours
<1> QED
  BY <1>7, <1>8, <1>9, <1>10 DEF IInv

\* The server sends a record behind what it has sent.
LEMMA KeptBySend ==
  \A c \in Conns, i \in FcgiIds, kind \in Kinds : IInv /\ Send(c, i, kind) => IInv'
<1> SUFFICES ASSUME NEW c \in Conns, NEW i \in FcgiIds, NEW kind \in Kinds, IInv,
                    Send(c, i, kind)
             PROVE  IInv'
  OBVIOUS
<1>1. PICK len \in Contents :
        /\ rec' = [rec EXCEPT ![c] = Append(@, [kind |-> kind, id |-> i, len |-> len])]
        /\ wire' = [wire EXCEPT ![c] =
                      @ \o [k \in 1..(HeaderSize + len) |-> <<c, Len(rec[c]) + 1, k>>]]
  BY DEF Send
<1>2. PICK r \in RecordType : r = [kind |-> kind, id |-> i, len |-> len]
  BY DEF RecordType
<1>3. PICK b : b = Sent1(c, Len(rec[c]) + 1, HeaderSize + len)
  OBVIOUS
<1>4. /\ UNCHANGED Ours
      /\ UNCHANGED <<fdConn, backlog, avail, peerOpen, count>>
      /\ phase' = [phase EXCEPT ![c][i] = kind]
      /\ peerOpen[c]
  BY DEF Send, Ours, upper
<1>5. /\ rec[c] \in Seq(RecordType) /\ Len(rec[c]) \in Nat
      /\ wire[c] \in Seq(Bytes) /\ Len(wire[c]) \in Nat
      /\ count[c] \in Nat /\ count[c] <= Len(rec[c])
  BY DEF IInv, Typed, TypeOK, ConnsOK
<1>6. /\ Append(rec[c], r) \in Seq(RecordType)
      /\ Len(Append(rec[c], r)) = Len(rec[c]) + 1
      /\ \A n \in 1..Len(rec[c]) : Append(rec[c], r)[n] = rec[c][n]
      /\ Append(rec[c], r) # <<>>
  BY <1>5, AppendProperties
<1>7. b \in Seq(Bytes)
  <2>1. HeaderSize + len \in Nat
    BY TransceiverAssumption
  <2>2. \A k \in 1..(HeaderSize + len) : <<c, Len(rec[c]) + 1, k>> \in Bytes
    BY <1>5, <2>1 DEF Bytes
  <2> QED
    BY <1>3, <2>1, <2>2 DEF Sent1
<1>8. wire[c] \o b \in Seq(Bytes) /\ Len(wire[c] \o b) = Len(wire[c]) + Len(b) /\ Len(b) \in Nat
  BY <1>5, <1>7, ConcatProperties
<1>9. /\ wire' \in [Conns -> Seq(Bytes)] /\ wire'[c] = wire[c] \o b
      /\ rec' \in [Conns -> Seq(RecordType)] /\ rec'[c] = Append(rec[c], r)
  BY <1>1, <1>2, <1>3, <1>6, <1>8 DEF IInv, Typed, TypeOK, Sent1
<1>10. \A d \in Conns \ {c} : Same(d)
  BY <1>1, <1>4 DEF IInv, Typed, TypeOK, Same
<1>11. Typed' /\ PollsOK' /\ CallOK'
  <2>1. ASSUME NEW d \in Conns
        PROVE  avail'[d] <= Len(wire'[d])
    <3>1. avail[d] <= Len(wire[d]) /\ avail[d] \in Nat
      BY DEF IInv, Typed, TypeOK
    <3>2. CASE d = c
      BY <1>4, <1>5, <1>8, <1>9, <3>1, <3>2
    <3>3. CASE d # c
      <4>1. avail'[d] = avail[d] /\ wire'[d] = wire[d]
        BY <1>4, <1>10, <3>3 DEF Same
      <4> QED
        BY <3>1, <4>1
    <3> QED
      BY <3>2, <3>3
  <2>2. phase' \in [Conns -> [FcgiIds -> Phases]]
    BY <1>4 DEF IInv, Typed, Phases
  <2> QED
    BY <1>4, <1>9, <2>1, <2>2, OursKept DEF IInv, Typed, TypeOK
<1>12. ConnsOK'
  <2>1. ASSUME NEW d \in Conns
        PROVE  count'[d] <= Len(rec'[d]) /\ (rec'[d] = <<>> => wire'[d] = <<>>)
    <3>1. CASE d = c
      BY <1>4, <1>5, <1>6, <1>9, <3>1
    <3>2. CASE d # c
      BY <1>4, <1>10, <3>2 DEF Same, IInv, ConnsOK
    <3> QED
      BY <3>1, <3>2
  <2> QED
    BY <1>4, <2>1 DEF IInv, ConnsOK, Waiting
<1>13. BytesOK'
  <2>1. ASSUME NEW s, Frames(c, rec[c], count[c], s), Ends(c, rec[c], count[c], s)
        PROVE  Streaming(c, s \o b)'
    <3>1. r.len = len
      BY <1>2
    <3>2. /\ Frames(c, Append(rec[c], r), count[c], s \o b)
          /\ Ends(c, Append(rec[c], r), count[c], s \o b)
      BY <1>3, <1>5, <2>1, <3>1, FramesSent
    <3> QED
      BY <1>4, <1>9, <3>2 DEF Streaming
  <2>2. ASSUME NEW d \in Conns, Waiting(d)'
        PROVE  Streaming(d, wire[d])'
    <3>1. Waiting(d) /\ WaitingOK(d)
      BY <1>4, <2>2 DEF Waiting, IInv, BytesOK
    <3>2. CASE d = c
      <4>1. Frames(c, rec[c], count[c], wire[c]) /\ Ends(c, rec[c], count[c], wire[c])
        BY <1>4, <3>1, <3>2 DEF WaitingOK, Streaming
      <4>2. PICK s : s = wire[c]
        OBVIOUS
      <4>3. Streaming(c, s \o b)'
        BY <2>1, <4>1, <4>2
      <4> QED
        BY <1>9, <3>2, <4>2, <4>3 DEF Streaming
    <3>3. CASE d # c
      BY <1>10, <2>2, <3>1, <3>3, WaitingKept DEF WaitingOK
    <3> QED
      BY <3>2, <3>3
  <2>3. ASSUME NEW fd \in DOMAIN fdBuffers'
        PROVE  BufferOK(fd)'
    <3>1. /\ fd \in Fds /\ fd \in DOMAIN fdBuffers /\ BufferOK(fd)
          /\ fdBuffers[fd].got \in Seq(Bytes) /\ fdConn[fd] \in Conns
      BY <1>4 DEF Ours, IInv, Typed, TypeOK, BytesOK, PollsOK
    <3>2. CASE fdConn[fd] = c
      <4>1. Frames(c, rec[c], count[c], Stream(fd)) /\ Ends(c, rec[c], count[c], Stream(fd))
        BY <1>4, <3>1, <3>2 DEF BufferOK, Streaming
      <4>2. PICK s : s = Stream(fd)
        OBVIOUS
      <4>3. Streaming(c, s \o b)'
        BY <2>1, <4>1, <4>2
      <4>4. Stream(fd)' = s \o b
        <5>0. PICK g \in Seq(Bytes) : g = fdBuffers[fd].got
          BY <3>1
        <5>2. PICK w \in Seq(Bytes) : w = wire[c]
          BY <1>5
        <5>1. (g \o w) \o b = g \o (w \o b)
          BY <1>7, ConcatAssociative
        <5> QED
          BY <1>4, <1>9, <3>2, <4>2, <5>0, <5>1, <5>2 DEF Stream, Ours
      <4>5. ASSUME fdBuffers[fd].framed
            PROVE  Len(fdBuffers[fd].got) <= Size(rec'[c], count[c] + 1)
        <5>1. Len(fdBuffers[fd].got) <= Size(rec[c], count[c] + 1)
          BY <3>1, <3>2, <4>5 DEF BufferOK
        <5>2. s # <<>>
          <6>1. Len(fdBuffers[fd].got) >= HeaderSize /\ Len(fdBuffers[fd].got) \in Nat
            BY <3>1, <4>5 DEF IInv, Typed, TypeOK
          <6>2. Len(s) = Len(fdBuffers[fd].got) + Len(wire[c])
            BY <1>5, <3>1, <3>2, <4>2, ConcatProperties DEF Stream
          <6>3. Len(s) # 0
            <7>1. HeaderSize \in Nat \ {0}
              BY TransceiverAssumption
            <7>2. PICK n \in Nat : n = Len(fdBuffers[fd].got)
              BY <6>1
            <7>3. PICK l \in Nat : l = Len(wire[c])
              BY <1>5
            <7>4. Len(s) = n + l /\ n >= HeaderSize
              BY <6>1, <6>2, <7>2, <7>3
            <7>5. n >= HeaderSize => n + l # 0
              BY <7>1
            <7> QED
              BY <7>4, <7>5
          <6> QED
            BY <6>3, EmptySeq
        <5>3. count[c] + 1 \in 1..Len(rec[c])
          BY <1>5, <4>1, <4>2, <5>2, FramesFirst
        <5>4. Size(rec'[c], count[c] + 1) = Size(rec[c], count[c] + 1)
          BY <1>6, <1>9, <5>3 DEF Size
        <5> QED
          BY <5>1, <5>4
      <4>6. Streaming(c, Stream(fd))'
        BY <4>3, <4>4 DEF Streaming
      <4> QED
        BY <1>4, <3>2, <4>5, <4>6 DEF BufferOK, Ours
    <3>3. CASE fdConn[fd] # c
      BY <1>4, <1>10, <3>1, <3>3, BufferKept DEF Ours
    <3> QED
      BY <3>2, <3>3
  <2> QED
    BY <2>2, <2>3 DEF BytesOK, WaitingOK
<1>14. HandedOK'
  <2>1. ASSUME handed # <<>>, NEW d \in Conns, count[d] \in 1..Len(rec[d])
        PROVE  count[d] \in 1..Len(rec'[d]) /\ rec'[d][count[d]] = rec[d][count[d]]
    <3>1. CASE d = c
      BY <1>5, <1>6, <1>9, <2>1, <3>1
    <3>2. CASE d # c
      BY <1>10, <2>1, <3>2 DEF Same
    <3> QED
      BY <3>1, <3>2
  <2> QED
    BY <1>4, <2>1 DEF IInv, HandedOK, RecordBytes, Ours
<1> QED
  BY <1>11, <1>12, <1>13, <1>14 DEF IInv

-----------------------------------------------------------------------------
(* Reading.                                                                *)

\* m bytes of connection c go to the buffer of handler()'s descriptor, whose
\* contents are then g.
Reads(c, m, g) ==
  /\ m <= avail[c] /\ cur \in DOMAIN fdBuffers /\ fdConn[cur] = c
  /\ wire' = [wire EXCEPT ![c] = SubSeq(@, m + 1, Len(@))]
  /\ avail' = [avail EXCEPT ![c] = @ - m]
  /\ g = fdBuffers[cur].got \o SubSeq(wire[c], 1, m)
  /\ UNCHANGED <<cur, it, pollFds, fdConn, backlog, peerOpen, server>>

\* The stream of the connection stays as it was.
LEMMA ReadsStream ==
  ASSUME IInv, NEW c \in Conns, NEW m \in Nat, NEW g, Reads(c, m, g)
  PROVE  /\ g \in Seq(Bytes) /\ Len(g) = Len(fdBuffers[cur].got) + m
         /\ wire' \in [Conns -> Seq(Bytes)] /\ avail' \in [Conns -> Nat]
         /\ \A d \in Conns : avail'[d] <= Len(wire'[d])
         /\ \A d \in Conns \ {c} : wire'[d] = wire[d]
         /\ \A d \in Conns : rec[d] = <<>> => wire'[d] = <<>>
         /\ g \o wire'[c] = Stream(cur)
         /\ g = SubSeq(Stream(cur), 1, Len(g))
         /\ wire'[c] = SubSeq(Stream(cur), Len(g) + 1, Len(Stream(cur)))
<1>1. PICK w \in Seq(Bytes) : w = wire[c]
  BY DEF IInv, Typed
<1>2. PICK h \in Seq(Bytes) : h = fdBuffers[cur].got
  BY DEF IInv, Typed, Reads
<1>3. avail[c] \in Nat /\ avail[c] <= Len(w) /\ m <= avail[c] /\ m \in 0..Len(w)
  BY <1>1 DEF IInv, Typed, TypeOK, Reads
<1>4. PICK v : v = SubSeq(w, m + 1, Len(w))
  OBVIOUS
<1>5. /\ g \in Seq(Bytes) /\ v \in Seq(Bytes) /\ Len(g) = Len(h) + m
      /\ Len(v) = Len(w) - m /\ g \o v = h \o w
      /\ g = SubSeq(h \o w, 1, Len(h) + m)
      /\ v = SubSeq(h \o w, Len(h) + m + 1, Len(h \o w))
  <2>1. g = h \o SubSeq(w, 1, m)
    BY <1>1, <1>2 DEF Reads
  <2>2. m \in 0..Len(w)
    BY <1>3
  <2>3. Moves(h, w, m, g, v)
    BY <1>4, <2>1 DEF Moves
  <2>4. Halves(h, w, m, g, v)
    BY <2>2, <2>3, Moved
  <2> QED
    BY <2>4 DEF Halves
<1>6. /\ wire' \in [Conns -> Seq(Bytes)] /\ wire'[c] = v
      /\ \A d \in Conns \ {c} : wire'[d] = wire[d]
  BY <1>1, <1>4, <1>5 DEF IInv, Typed, Reads
<1>7. /\ avail' \in [Conns -> Nat] /\ avail'[c] = avail[c] - m
      /\ \A d \in Conns \ {c} : avail'[d] = avail[d]
  <2>1. avail[c] - m \in Nat
    BY <1>3
  <2> QED
    BY <2>1 DEF IInv, Typed, TypeOK, Reads
<1>8. ASSUME NEW d \in Conns
      PROVE  avail'[d] <= Len(wire'[d]) /\ (rec[d] = <<>> => wire'[d] = <<>>)
  <2>1. avail[d] <= Len(wire[d]) /\ (rec[d] = <<>> => wire[d] = <<>>)
    BY DEF IInv, Typed, TypeOK, ConnsOK
  <2>2. CASE d # c
    BY <1>6, <1>7, <2>1, <2>2
  <2>3. CASE d = c
    <3>1. avail'[d] <= Len(wire'[d])
      BY <1>3, <1>5, <1>6, <1>7, <2>3
    <3>2. ASSUME rec[d] = <<>>
          PROVE  Len(v) = 0
      BY <1>1, <1>3, <1>5, <2>1, <2>3, <3>2, EmptySeq
    <3> QED
      BY <1>5, <1>6, <2>3, <3>1, <3>2, EmptySeq
  <2> QED
    BY <2>2, <2>3
<1>9. Stream(cur) = h \o w
  BY <1>1, <1>2 DEF Stream, Reads
<1> QED
  BY <1>2, <1>5, <1>6, <1>7, <1>8, <1>9

\* A part of a record is read.
LEMMA ReadsPart ==
  ASSUME IInv, NEW c \in Conns, NEW m \in Nat, NEW g, Reads(c, m, g),
         NEW b \in [got : Seq(Bytes), framed : BOOLEAN], b.got = g,
         b.framed <=> Len(g) >= HeaderSize,
         b.framed => Len(g) <= Size(rec[c], count[c] + 1),
         fdBuffers' = [fdBuffers EXCEPT ![cur] = b], UNCHANGED upper,
         pc' \in {"loop", "body"}, pc' = "body" => b.framed
  PROVE  IInv'
<1>1. /\ g \in Seq(Bytes)
      /\ wire' \in [Conns -> Seq(Bytes)] /\ avail' \in [Conns -> Nat]
      /\ \A d \in Conns : avail'[d] <= Len(wire'[d])
      /\ \A d \in Conns \ {c} : wire'[d] = wire[d]
      /\ \A d \in Conns : rec[d] = <<>> => wire'[d] = <<>>
      /\ g \o wire'[c] = Stream(cur)
  BY ReadsStream
<1>2. /\ cur \in DOMAIN fdBuffers /\ cur \in Fds /\ fdConn[cur] = c
      /\ UNCHANGED <<cur, it, pollFds, fdConn, backlog, peerOpen, server>>
  BY DEF IInv, Typed, TypeOK, Reads
<1>3. /\ fdBuffers' \in [DOMAIN fdBuffers -> [got : Seq(Bytes), framed : BOOLEAN]]
      /\ DOMAIN fdBuffers' = DOMAIN fdBuffers /\ fdBuffers'[cur] = b
      /\ \A fd \in DOMAIN fdBuffers \ {cur} : fdBuffers'[fd] = fdBuffers[fd]
  BY <1>2 DEF IInv, Typed
<1>4. Typed'
  <2>1. \A fd \in DOMAIN fdBuffers' : fdBuffers'[fd].framed <=> Len(fdBuffers'[fd].got) >= HeaderSize
    BY <1>3 DEF IInv, Typed, TypeOK
  <2>2. TypeOK'
    BY <1>1, <1>2, <1>3, <2>1 DEF IInv, Typed, TypeOK, server, upper
  <2> QED
    BY <1>1, <1>2, <1>3, <2>2 DEF IInv, Typed, server
<1>5. PollsOK' /\ ConnsOK'
  <2>1. \A d \in Conns : rec'[d] = <<>> => wire'[d] = <<>>
    BY <1>1, <1>2 DEF server
  <2>2. ConnsOK'
    BY <1>2, <2>1 DEF IInv, ConnsOK, Waiting, Distinct, server, upper
  <2> QED
    BY <1>2, <1>3, <2>2 DEF IInv, PollsOK, Polled, Distinct
<1>6. CallOK'
  <2>1. pc' = "body" => b.framed = TRUE
    OBVIOUS
  <2> QED
    BY <1>2, <1>3, <2>1 DEF CallOK
<1>7. BytesOK'
  <2>1. \A d \in Conns \ {c} : Same(d)
    BY <1>1, <1>2 DEF Same, server, upper
  <2>2. ~Waiting(c)
    BY <1>2 DEF IInv, ConnsOK
  <2>3. ASSUME NEW d \in Conns
        PROVE  WaitingOK(d)'
    <3>1. Waiting(d)' => Waiting(d) /\ d # c
      BY <1>2, <2>2 DEF Waiting
    <3>2. CASE d = c
      BY <3>1, <3>2 DEF WaitingOK
    <3>3. CASE d # c
      BY <2>1, <3>1, <3>3, WaitingKept DEF IInv, BytesOK
    <3> QED
      BY <3>2, <3>3
  <2>4. ASSUME NEW fd \in DOMAIN fdBuffers \ {cur}
        PROVE  BufferOK(fd)'
    <3>1. fd \in Fds /\ BufferOK(fd) /\ fdConn[fd] \in Conns \ {c}
      BY <1>2 DEF IInv, Typed, TypeOK, BytesOK, PollsOK, ConnsOK
    <3> QED
      BY <1>2, <1>3, <2>1, <3>1, BufferKept
  <2>5. BufferOK(cur)'
    <3>1. Streaming(c, Stream(cur))
      BY <1>2 DEF IInv, BytesOK, BufferOK
    <3>2. Stream(cur)' = Stream(cur)
      BY <1>1, <1>2, <1>3 DEF Stream
    <3>3. Streaming(c, Stream(cur))'
      BY <1>2, <3>1, <3>2 DEF Streaming, server, upper
    <3> QED
      BY <1>2, <1>3, <3>3 DEF BufferOK, server, upper
  <2>6. \A fd \in DOMAIN fdBuffers' : BufferOK(fd)'
    BY <1>2, <1>3, <2>4, <2>5
  <2> QED
    BY <2>3, <2>6 DEF BytesOK
<1>8. HandedOK'
  BY <1>2 DEF IInv, HandedOK, RecordBytes, server, upper
<1> QED
  BY <1>4, <1>5, <1>6, <1>7, <1>8 DEF IInv

\* What was got of a record tells which it is.
LEMMA Framed ==
  ASSUME IInv, NEW c \in Conns, NEW g, cur \in DOMAIN fdBuffers, fdConn[cur] = c,
         g = fdBuffers[cur].got, g # <<>>
  PROVE  /\ count[c] + 1 \in 1..Len(rec[c]) /\ Size(rec[c], count[c] + 1) \in Nat \ {0}
         /\ HeaderSize <= Size(rec[c], count[c] + 1)
         /\ g[1] = <<c, count[c] + 1, 1>> /\ Stream(cur) # <<>>
<1>1. PICK w \in Seq(Bytes) : w = wire[c]
  BY DEF IInv, Typed
<1>2. g \in Seq(Bytes) /\ Len(g) \in Nat \ {0}
  BY EmptySeq DEF IInv, Typed
<1>3. PICK s : s = Stream(cur)
  OBVIOUS
<1>4. s = g \o w
  BY <1>1, <1>3 DEF Stream
<1>5. /\ s \in Seq(Bytes) /\ Len(s) = Len(g) + Len(w) /\ Len(w) \in Nat
      /\ \A i \in 1..(Len(g) + Len(w)) : s[i] = IF i <= Len(g) THEN g[i] ELSE w[i - Len(g)]
  BY <1>2, <1>4, ConcatProperties
<1>6. 1 \in 1..(Len(g) + Len(w)) /\ 1 <= Len(g) /\ Len(g) + Len(w) # 0
  BY <1>2, <1>5
<1>7. s # <<>> /\ s[1] = g[1]
  BY <1>5, <1>6, EmptySeq
<1>8. Frames(c, rec[c], count[c], s) /\ rec[c] \in Seq(RecordType) /\ count[c] \in Nat
  BY <1>3 DEF IInv, Typed, TypeOK, BytesOK, BufferOK, Streaming
<1>9. s # <<>>
  BY <1>7
<1>10. /\ count[c] + 1 \in 1..Len(rec[c]) /\ Size(rec[c], count[c] + 1) \in Nat \ {0}
       /\ HeaderSize <= Size(rec[c], count[c] + 1) /\ s[1] = <<c, count[c] + 1, 1>>
  <2>1. PICK rs \in Seq(RecordType) : rs = rec[c]
    BY <1>8
  <2>2. PICK n \in Nat : n = count[c]
    BY <1>8
  <2>3. Frames(c, rs, n, s)
    BY <1>8, <2>1, <2>2
  <2>4. /\ n + 1 \in 1..Len(rs) /\ Size(rs, n + 1) \in Nat \ {0}
        /\ HeaderSize <= Size(rs, n + 1) /\ s[1] = <<c, n + 1, 1>>
    BY <1>9, <2>3, FramesFirst
  <2> QED
    BY <2>1, <2>2, <2>4
<1> QED
  BY <1>3, <1>7, <1>9, <1>10

LEMMA KeptByReadHeader == IInv /\ ReadHeader => IInv'
<1> SUFFICES ASSUME IInv, ReadHeader PROVE IInv'
  OBVIOUS
<1>1. /\ cur \in DOMAIN fdBuffers /\ cur \in Fds /\ fdConn[cur] \in Conns
      /\ ~fdBuffers[cur].framed /\ fdBuffers[cur].got \in Seq(Bytes)
      /\ ~(Len(fdBuffers[cur].got) >= HeaderSize)
  BY DEF IInv, CallOK, Typed, TypeOK, PollsOK, ReadHeader
<1>2. PICK c \in Conns : c = fdConn[cur]
  BY <1>1
<1>3. PICK h \in Seq(Bytes) : h = fdBuffers[cur].got
  BY <1>1
<1>4. PICK n : n = Missing
  OBVIOUS
<1>5. n \in Nat \ {0} /\ Len(h) \in Nat /\ n = HeaderSize - Len(h)
  <2>1. n = HeaderSize - Len(h) /\ ~(Len(h) >= HeaderSize)
    BY <1>1, <1>3, <1>4 DEF Missing, Buffer
  <2>2. HeaderSize \in Nat /\ Len(h) \in Nat
    BY TransceiverAssumption
  <2> QED
    BY <2>1, <2>2
<1>6. PICK m : m = Taken(n)
  OBVIOUS
<1>7. m \in Nat \ {0} /\ m <= avail[c] /\ m <= n
  <2>1. avail[c] \in Nat /\ avail[c] > 0 /\ m = IF n < avail[c] THEN n ELSE avail[c]
    BY <1>2, <1>6 DEF IInv, Typed, TypeOK, ReadHeader, CanRead, Conn, Taken
  <2> QED
    BY <1>5, <2>1
<1>8. PICK g : g = Stored(n)
  OBVIOUS
<1>9. Reads(c, m, g) /\ UNCHANGED upper
  BY <1>1, <1>2, <1>4, <1>6, <1>7, <1>8
     DEF ReadHeader, Read, Reads, Conn, Stored, Buffer
<1>10. g \in Seq(Bytes) /\ Len(g) = Len(h) + m
  <2>1. m \in Nat
    BY <1>7
  <2> QED
    BY <1>3, <1>9, <2>1, ReadsStream
<1>11. PICK b : b = [got |-> g, framed |-> m = n]
  OBVIOUS
<1>12. b \in [got : Seq(Bytes), framed : BOOLEAN] /\ b.got = g
  BY <1>10, <1>11
<1>13. b.framed = (m = n)
  BY <1>11
<1>14. (m = n) <=> Len(g) >= HeaderSize
  BY <1>5, <1>7, <1>10, TransceiverAssumption
<1>15. b.framed <=> Len(g) >= HeaderSize
  BY <1>13, <1>14, Zenon
<1>16. fdBuffers' = [fdBuffers EXCEPT ![cur] = b]
  BY <1>4, <1>6, <1>8, <1>11 DEF ReadHeader
<1>17. pc' \in {"loop", "body"} /\ (pc' = "body" => b.framed)
  BY <1>4, <1>6, <1>13 DEF ReadHeader
<1>18. ASSUME b.framed
       PROVE  Len(g) <= Size(rec[c], count[c] + 1)
  <2>1. Len(g) = HeaderSize
    <3>1. m = n
      BY <1>13, <1>18, Zenon
    <3> QED
      BY <1>5, <1>10, <3>1, TransceiverAssumption
  <2>2. /\ g \o wire'[c] = Stream(cur) /\ wire'[c] \in Seq(Bytes)
    BY <1>2, <1>7, <1>9, ReadsStream
  <2>3. PICK s : s = Stream(cur)
    OBVIOUS
  <2>4. s # <<>>
    <3>1. g # <<>>
      BY <2>1, EmptySeq, TransceiverAssumption
    <3> QED
      BY <1>10, <2>2, <2>3, <3>1, ConcatEmptySeq
  <2>5. Frames(c, rec[c], count[c], s) /\ rec[c] \in Seq(RecordType) /\ count[c] \in Nat
    BY <1>1, <1>2, <2>3 DEF IInv, Typed, TypeOK, BytesOK, BufferOK, Streaming
  <2>6. HeaderSize <= Size(rec[c], count[c] + 1)
    BY <2>4, <2>5, FramesFirst
  <2> QED
    BY <2>1, <2>6
<1> QED
  BY <1>7, <1>9, <1>12, <1>15, <1>16, <1>17, <1>18, ReadsPart

\* What the second read asks for is the rest of the record.
LEMMA NeededIs ==
  ASSUME IInv, pc = "body"
  PROVE  LET c == fdConn[cur] IN
         /\ cur \in DOMAIN fdBuffers /\ cur \in Fds /\ c \in Conns
         /\ fdBuffers[cur].framed = TRUE /\ fdBuffers[cur].got \in Seq(Bytes)
         /\ Len(fdBuffers[cur].got) >= HeaderSize
         /\ count[c] + 1 \in 1..Len(rec[c]) /\ Stream(cur) # <<>>
         /\ Size(rec[c], count[c] + 1) \in Nat \ {0}
         /\ Needed = Size(rec[c], count[c] + 1) - Len(fdBuffers[cur].got)
         /\ Needed \in Nat
<1>1. /\ cur \in DOMAIN fdBuffers /\ cur \in Fds /\ fdConn[cur] \in Conns
      /\ fdBuffers[cur].framed = TRUE /\ fdBuffers[cur].got \in Seq(Bytes)
      /\ Len(fdBuffers[cur].got) >= HeaderSize
      /\ Len(fdBuffers[cur].got) <= Size(rec[fdConn[cur]], count[fdConn[cur]] + 1)
  BY DEF IInv, CallOK, Typed, TypeOK, PollsOK, BytesOK, BufferOK
<1>2. PICK c \in Conns : c = fdConn[cur]
  BY <1>1
<1>3. PICK h \in Seq(Bytes) : h = fdBuffers[cur].got
  BY <1>1
<1>4. Len(h) \in Nat /\ Len(h) >= HeaderSize /\ h # <<>>
  <2>1. Len(h) \in Nat /\ Len(h) >= HeaderSize /\ Len(h) # 0
    BY <1>1, <1>3, TransceiverAssumption
  <2> QED
    BY <2>1, EmptySeq
<1>5. /\ count[c] + 1 \in 1..Len(rec[c]) /\ Size(rec[c], count[c] + 1) \in Nat \ {0}
      /\ h[1] = <<c, count[c] + 1, 1>> /\ Stream(cur) # <<>>
  BY <1>1, <1>2, <1>3, <1>4, Framed
<1>6. RecordOf(h) = rec[c][count[c] + 1]
  BY <1>5 DEF RecordOf
<1>7. Needed = Size(rec[c], count[c] + 1) - Len(h)
  <2>1. Needed = HeaderSize + (RecordOf(h).len - Len(h))
    BY <1>3 DEF Needed, Buffer
  <2>2. Size(rec[c], count[c] + 1) = HeaderSize + rec[c][count[c] + 1].len
    BY DEF Size
  <2>3. rec[c][count[c] + 1].len \in Nat
    BY <1>5, SizeType DEF IInv, Typed, TypeOK
  <2> QED
    BY <1>4, <1>6, <2>1, <2>2, <2>3, TransceiverAssumption
<1>8. Needed \in Nat
  BY <1>1, <1>2, <1>3, <1>4, <1>5, <1>7
<1> QED
  BY <1>1, <1>2, <1>3, <1>5, <1>7, <1>8

LEMMA KeptByReadBody == IInv /\ ReadBody => IInv'
<1> SUFFICES ASSUME IInv, ReadBody PROVE IInv'
  OBVIOUS
<1>0. pc = "body"
  BY DEF ReadBody
<1>1. PICK c \in Conns : c = fdConn[cur]
  BY <1>0, NeededIs
<1>2. PICK h \in Seq(Bytes) : h = fdBuffers[cur].got
  BY <1>0, NeededIs
<1>3. PICK n \in Nat : n = Needed
  BY <1>0, NeededIs
<1>4. PICK z : z = Size(rec[c], count[c] + 1)
  OBVIOUS
<1>5. /\ cur \in DOMAIN fdBuffers /\ cur \in Fds /\ fdBuffers[cur].framed = TRUE
      /\ Len(h) >= HeaderSize /\ z \in Nat \ {0} /\ n = z - Len(h)
  BY <1>0, <1>1, <1>2, <1>3, <1>4, NeededIs
<1>6. PICK m : m = Taken(n)
  OBVIOUS
<1>7. m \in Nat /\ m = avail[c] /\ m < n
  BY <1>1, <1>3, <1>6 DEF IInv, Typed, TypeOK, ReadBody, Conn, Taken
<1>8. PICK g : g = Stored(n)
  OBVIOUS
<1>9. Reads(c, m, g) /\ UNCHANGED upper
  BY <1>1, <1>3, <1>5, <1>6, <1>7, <1>8
     DEF ReadBody, Read, Reads, Conn, Stored, Buffer
<1>10. g \in Seq(Bytes) /\ Len(g) = Len(h) + m
  BY <1>2, <1>7, <1>9, ReadsStream
<1>11. PICK b : b = [got |-> g, framed |-> TRUE]
  OBVIOUS
<1>12. b \in [got : Seq(Bytes), framed : BOOLEAN] /\ b.got = g /\ b.framed = TRUE
  BY <1>10, <1>11
<1>13. Len(g) >= HeaderSize /\ Len(g) <= z
  BY <1>5, <1>7, <1>10, TransceiverAssumption
<1>14. fdBuffers' = [fdBuffers EXCEPT ![cur] = b]
  <2>1. PICK f \in [got : Seq(Bytes), framed : BOOLEAN] : f = fdBuffers[cur]
    BY <1>5 DEF IInv, Typed
  <2>2. [f EXCEPT !.got = g] = b
    <3>1. f.framed = TRUE
      BY <1>5, <2>1
    <3>2. [f EXCEPT !.got = g] = [got |-> g, framed |-> f.framed]
      OBVIOUS
    <3> QED
      BY <1>11, <3>1, <3>2
  <2>3. fdBuffers' = [fdBuffers EXCEPT ![cur].got = g]
    BY <1>3, <1>8 DEF ReadBody
  <2> QED
    BY <2>1, <2>2, <2>3
<1> QED
  BY <1>4, <1>7, <1>9, <1>12, <1>13, <1>14, ReadsPart DEF ReadBody

-----------------------------------------------------------------------------
(* A record goes up.                                                       *)

LEMMA KeptByReadRecord == IInv /\ ReadRecord => IInv'
<1> SUFFICES ASSUME IInv, ReadRecord PROVE IInv'
  OBVIOUS
<1>0. pc = "body"
  BY DEF ReadRecord
<1>1. PICK c \in Conns : c = fdConn[cur]
  BY <1>0, NeededIs
<1>2. PICK h \in Seq(Bytes) : h = fdBuffers[cur].got
  BY <1>0, NeededIs
<1>3. PICK m \in Nat : m = Needed
  BY <1>0, NeededIs
<1>4. PICK z : z = Size(rec[c], count[c] + 1)
  OBVIOUS
<1>5. /\ cur \in DOMAIN fdBuffers /\ cur \in Fds
      /\ count[c] + 1 \in 1..Len(rec[c]) /\ Stream(cur) # <<>>
      /\ z \in Nat \ {0} /\ m = z - Len(h)
  BY <1>0, <1>1, <1>2, <1>3, <1>4, NeededIs
<1>6. m <= avail[c] /\ Taken(m) = m
  BY <1>1, <1>3 DEF IInv, Typed, TypeOK, ReadRecord, Conn, Taken
<1>7. PICK g : g = Stored(m)
  OBVIOUS
<1>8. Reads(c, m, g)
  BY <1>1, <1>3, <1>5, <1>6, <1>7 DEF ReadRecord, Read, Reads, Conn, Stored, Buffer
<1>9. PICK s : s = Stream(cur)
  OBVIOUS
<1>10. /\ g \in Seq(Bytes) /\ Len(g) = Len(h) + m
       /\ wire' \in [Conns -> Seq(Bytes)] /\ avail' \in [Conns -> Nat]
       /\ \A d \in Conns : avail'[d] <= Len(wire'[d])
       /\ \A d \in Conns \ {c} : wire'[d] = wire[d]
       /\ \A d \in Conns : rec[d] = <<>> => wire'[d] = <<>>
       /\ g \o wire'[c] = s
       /\ g = SubSeq(s, 1, Len(g))
       /\ wire'[c] = SubSeq(s, Len(g) + 1, Len(s))
  BY <1>2, <1>8, <1>9, ReadsStream
<1>11. Len(g) = z
  BY <1>5, <1>10
<1>12. /\ Frames(c, rec[c], count[c], s) /\ s # <<>>
       /\ peerOpen[c] => Ends(c, rec[c], count[c], s)
       /\ rec[c] \in Seq(RecordType) /\ count[c] \in Nat
  BY <1>1, <1>5, <1>9 DEF IInv, Typed, TypeOK, BytesOK, BufferOK, Streaming
<1>13. s \in Seq(Bytes) /\ Len(s) \in Nat /\ z <= Len(s)
  <2>1. PICK v \in Seq(Bytes) : v = wire'[c]
    BY <1>10
  <2>2. Len(g \o v) = z + Len(v) /\ Len(v) \in Nat
    <3>1. g \in Seq(Bytes)
      BY <1>10
    <3>2. Len(g \o v) = Len(g) + Len(v) /\ Len(v) \in Nat
      BY <3>1, ConcatProperties
    <3> QED
      BY <1>11, <3>2
  <2>3. s = g \o v
    BY <1>10, <2>1
  <2> QED
    BY <1>5, <1>12, <2>2, <2>3 DEF Frames
<1>14. g = RecordBytes(c, count[c] + 1)
  <2>1. BeginsWith(c, rec[c], count[c], s)
    BY <1>12, FramesFirst
  <2>2. \A i \in 1..z : g[i] = <<c, count[c] + 1, i>>
    <3>1. \A i \in 1..z : g[i] = s[i] /\ i <= Len(s)
      BY <1>5, <1>10, <1>11, <1>13
    <3> QED
      BY <1>4, <2>1, <3>1 DEF BeginsWith
  <2>3. g = [i \in 1..z |-> <<c, count[c] + 1, i>>]
    <3>1. g = [i \in 1..Len(g) |-> g[i]]
      BY <1>10
    <3> QED
      BY <1>11, <2>2, <3>1
  <2> QED
    BY <1>4, <2>3 DEF RecordBytes, Size
<1>15. /\ Frames(c, rec[c], count[c] + 1, wire'[c])
       /\ peerOpen[c] => Ends(c, rec[c], count[c] + 1, wire'[c])
  <2>1. PICK rs \in Seq(RecordType) : rs = rec[c]
    BY <1>12
  <2>2. PICK n \in Nat : n = count[c]
    BY <1>12
  <2>3. Frames(c, rs, n, s) /\ s # <<>> /\ Size(rs, n + 1) <= Len(s)
    BY <1>4, <1>12, <1>13, <2>1, <2>2
  <2>4. PICK v : v = SubSeq(s, Size(rs, n + 1) + 1, Len(s))
    OBVIOUS
  <2>5. Frames(c, rs, n + 1, v) /\ (Ends(c, rs, n, s) => Ends(c, rs, n + 1, v))
    BY <2>3, <2>4, FramesRest
  <2>6. v = wire'[c]
    BY <1>4, <1>10, <1>11, <2>1, <2>2, <2>4
  <2> QED
    BY <1>12, <2>1, <2>2, <2>5, <2>6
<1>16. /\ HandUp(g) /\ pc' = "loop"
       /\ fdBuffers' = [fdBuffers EXCEPT ![cur] = Fresh]
       /\ UNCHANGED <<cur, it, pollFds, fdConn, backlog, peerOpen, rec, phase>>
  BY <1>3, <1>7 DEF ReadRecord, Read, Reset, server
<1>17. /\ count' \in [Conns -> Nat] /\ count'[c] = count[c] + 1
       /\ \A d \in Conns \ {c} : count'[d] = count[d]
  BY <1>1, <1>12, <1>16 DEF HandUp, Conn, IInv, Typed, TypeOK
<1>18. requests' \subseteq RequestType
  <2>1. PICK r \in RecordType : r = RecordOf(g)
    <3>1. RecordOf(g) = rec[c][count[c] + 1]
      <4>1. 1 \in 1..z
        BY <1>5
      <4>2. g[1] = <<c, count[c] + 1, 1>>
        BY <1>4, <1>14, <4>1 DEF RecordBytes, Size
      <4> QED
        BY <4>2 DEF RecordOf
    <3> QED
      BY <1>5, <1>12, <3>1
  <2>2. \A q \in requests : [q EXCEPT !.ready = TRUE] \in RequestType
    BY DEF IInv, Typed, TypeOK, RequestType
  <2>3. \A b \in BOOLEAN : [fd |-> cur, id |-> r.id, conn |-> c, kill |-> b,
                            ready |-> FALSE] \in RequestType
    BY <1>5 DEF RecordType, RequestType
  <2>4. requests \subseteq RequestType /\ Of(cur, r.id) \subseteq requests
    BY DEF IInv, Typed, TypeOK, Of
  <2>5. r.kind \in Begins \/ r.kind = "last" \/ r.kind = "abort"
    BY DEF RecordType, Kinds
  <2> QED
    BY <1>1, <1>16, <2>1, <2>2, <2>3, <2>4, <2>5 DEF HandUp, Conn
<1>19. /\ Fresh.got = <<>> /\ Fresh.framed = FALSE /\ Fresh \in [got : Seq(Bytes), framed : BOOLEAN]
       /\ ~(Len(Fresh.got) >= HeaderSize)
  BY EmptySeq, TransceiverAssumption DEF Fresh
<1>20. /\ fdBuffers' \in [DOMAIN fdBuffers -> [got : Seq(Bytes), framed : BOOLEAN]]
       /\ DOMAIN fdBuffers' = DOMAIN fdBuffers /\ fdBuffers'[cur] = Fresh
       /\ \A fd \in DOMAIN fdBuffers \ {cur} : fdBuffers'[fd] = fdBuffers[fd]
  BY <1>5, <1>16, <1>19 DEF IInv, Typed
<1>21. Typed'
  <2>1. \A fd \in DOMAIN fdBuffers' : fdBuffers'[fd].framed <=> Len(fdBuffers'[fd].got) >= HeaderSize
    BY <1>19, <1>20 DEF IInv, Typed, TypeOK
  <2>2. TypeOK'
    BY <1>10, <1>16, <1>17, <1>18, <1>20, <2>1 DEF IInv, Typed, TypeOK
  <2> QED
    BY <1>10, <1>16, <1>20, <2>2 DEF IInv, Typed
<1>22. PollsOK'
  BY <1>16, <1>20 DEF IInv, PollsOK, Polled, Distinct
<1>23. ~Waiting(c) /\ \A d \in Conns : Waiting(d)' <=> Waiting(d)
  BY <1>1, <1>5, <1>16 DEF IInv, ConnsOK, Waiting
<1>24. ConnsOK'
  <2>1. \A d \in Conns : Waiting(d)' => count'[d] = 0 /\ \A fd \in Fds : fdConn'[fd] # d
    BY <1>16, <1>17, <1>23 DEF IInv, ConnsOK
  <2>2. \A d \in Conns : count'[d] <= Len(rec'[d])
    BY <1>5, <1>12, <1>16, <1>17 DEF IInv, ConnsOK
  <2>3. \A d \in Conns : rec'[d] = <<>> => wire'[d] = <<>>
    BY <1>10, <1>16
  <2> QED
    BY <1>16, <1>23, <2>1, <2>2, <2>3 DEF IInv, ConnsOK
<1>25. CallOK'
  BY <1>16 DEF CallOK
<1>26. BytesOK'
  <2>1. \A d \in Conns \ {c} : Same(d)
    BY <1>10, <1>16, <1>17 DEF Same
  <2>2. ASSUME NEW d \in Conns
        PROVE  WaitingOK(d)'
    <3>1. CASE d = c
      BY <1>23, <3>1 DEF WaitingOK
    <3>2. CASE d # c
      BY <1>23, <2>1, <3>2, WaitingKept DEF IInv, BytesOK
    <3> QED
      BY <3>1, <3>2
  <2>3. ASSUME NEW fd \in DOMAIN fdBuffers \ {cur}
        PROVE  BufferOK(fd)'
    <3>1. fd \in Fds /\ BufferOK(fd) /\ fdConn[fd] \in Conns \ {c}
      BY <1>1, <1>5 DEF IInv, Typed, TypeOK, BytesOK, PollsOK, ConnsOK
    <3> QED
      BY <1>16, <1>20, <2>1, <3>1, BufferKept
  <2>4. BufferOK(cur)'
    <3>1. Stream(cur)' = wire'[c]
      <4>1. <<>> \o wire'[c] = wire'[c]
        BY <1>10
      <4> QED
        BY <1>1, <1>16, <1>19, <1>20, <4>1 DEF Stream
    <3>2. Streaming(c, Stream(cur))'
      BY <1>15, <1>16, <1>17, <3>1 DEF Streaming
    <3> QED
      BY <1>1, <1>16, <1>19, <1>20, <3>2 DEF BufferOK
  <2>5. \A fd \in DOMAIN fdBuffers' : BufferOK(fd)'
    BY <1>5, <1>16, <1>20, <2>3, <2>4
  <2> QED
    BY <2>2, <2>5 DEF BytesOK
<1>27. HandedOK'
  <2>1. handed'[1].conn = c /\ handed'[1].bytes = g
    BY <1>1, <1>16 DEF HandUp, Conn
  <2>2. rec'[c] = rec[c] /\ count'[c] = count[c] + 1
    BY <1>16, <1>17
  <2>3. RecordBytes(c, count[c])' = RecordBytes(c, count[c] + 1)
    BY <2>2 DEF RecordBytes
  <2>4. handed'[1].bytes = RecordBytes(c, count[c])'
    BY <1>14, <2>1, <2>3
  <2>5. count'[c] \in 1..Len(rec'[c])
    BY <1>5, <2>2
  <2> QED
    BY <2>1, <2>4, <2>5 DEF HandedOK
<1> QED
  BY <1>21, <1>22, <1>24, <1>25, <1>26, <1>27 DEF IInv

\* No step disturbs the invariant.
LEMMA IInvKept == IInv /\ [Next]_vars => IInv'
<1> SUFFICES ASSUME IInv, [Next]_vars PROVE IInv'
  OBVIOUS
<1>1. CASE HandlerStep
  BY <1>1, KeptByPoll, KeptByAccept, KeptByReadHeader, KeptByReadBody, KeptByReadRecord,
     KeptByEndOfFile DEF HandlerStep
<1>2. CASE Interrupted
  BY <1>2, KeptByEndOfFile
<1>3. CASE \E q \in requests : Reply(q)
  BY <1>3, KeptByReply
<1>4. CASE \E c \in Conns : Connect(c) \/ Arrive(c) \/ PeerClose(c)
  BY <1>4, KeptByConnect, KeptByArrive, KeptByPeerClose
<1>5. CASE \E c \in Conns, i \in FcgiIds, kind \in Kinds : Send(c, i, kind)
  BY <1>5, KeptBySend
<1>6. CASE RivalAccepts
  BY <1>6, KeptByRival
<1>7. CASE UNCHANGED vars
  <2>1. CallOK'
    BY <1>7 DEF IInv, CallOK, vars
  <2> QED
    BY <1>7, <2>1, StateKept DEF IInv, Typed, TypeOK, vars
<1> QED
  BY <1>1, <1>2, <1>3, <1>4, <1>5, <1>6, <1>7 DEF Next

\* However the bytes of a connection are cut up between calls of handler(), and
\* whatever other connections, other processes, signals and answers do meanwhile,
\* what goes up is exactly the connection's next record, whole (transceiver.cpp
\* 114-153).
THEOREM RecordsWhole == Spec => []WholeRecords
<1>1. Spec => []IInv
  BY Started, IInvKept, PTL DEF Spec
<1> QED
  BY <1>1, IInvEnough, PTL

-----------------------------------------------------------------------------
(* Answers and records go home.                                            *)
(*                                                                         *)
(* A request names its connection by the descriptor, and that is given to  *)
(* another connection when it is closed.  It is closed by the last frame   *)
(* of an answer, so what has to be shown is that no other request is left  *)
(* on the connection then: none in the manager, and none whose BEGIN       *)
(* record is still to be read.                                             *)

Unread(c)   == (count[c] + 1)..Len(rec[c])
Begin(c, r) == rec[c][r].kind \in Begins

OwnersOK   == \A q \in requests : fdConn[q.fd] = q.conn
OneAtATime == \A q, u \in requests : q.conn = u.conn => q = u
BeginOK(c) ==
  \A r \in Unread(c) : Begin(c, r) =>
    /\ \A q \in requests : q.conn # c
    /\ \A n \in Unread(c) : Begin(c, n) => n = r
    /\ ~Idle(c)
BusyOK(c) == \A q \in requests : q.conn = c => ~Idle(c)

RInv == /\ GoesHome /\ OwnersOK /\ OneAtATime
        /\ \A c \in Conns : BeginOK(c) /\ BusyOK(c)

\* Steps that none of this is about.
LEMMA HomeKept ==
  ASSUME RInv, UNCHANGED <<rec, phase, count, requests, handed, replied>>,
         \A q \in requests : fdConn'[q.fd] = fdConn[q.fd]
  PROVE  RInv'
<1>1. GoesHome' /\ OwnersOK' /\ OneAtATime'
  BY DEF RInv, GoesHome, OwnersOK, OneAtATime
<1>2. \A c \in Conns : BeginOK(c)' /\ BusyOK(c)'
  BY DEF RInv, BeginOK, BusyOK, Unread, Begin, Idle
<1> QED
  BY <1>1, <1>2 DEF RInv

LEMMA HomeByAccept == IInv /\ RInv /\ Accept => RInv'
<1> SUFFICES ASSUME IInv, RInv, Accept PROVE RInv'
  OBVIOUS
<1>1. PICK fd \in Fds :
        fdConn[fd] = NoConn /\ fdConn' = [fdConn EXCEPT ![fd] = Head(backlog)]
  BY DEF Accept, NewFd
<1>2. ASSUME NEW q \in requests
      PROVE  fdConn'[q.fd] = fdConn[q.fd]
  <2>1. q.fd # fd
    BY <1>1, NoConnAssumption DEF IInv, Typed, TypeOK, RequestType, RInv, OwnersOK
  <2> QED
    BY <1>1, <2>1 DEF IInv, Typed, TypeOK
<1> QED
  BY <1>2, HomeKept DEF Accept, server, upper

\* The request that answers is the only one of its connection.
LEMMA HomeByReply == \A q \in requests : IInv /\ RInv /\ Reply(q) => RInv'
<1> SUFFICES ASSUME NEW q \in requests, IInv, RInv, Reply(q) PROVE RInv'
  OBVIOUS
<1>1. q.fd \in Fds /\ q.id \in FcgiIds /\ q.conn \in Conns /\ fdConn[q.fd] = q.conn
  BY DEF IInv, Typed, TypeOK, RequestType, RInv, OwnersOK
<1>2. PICK c \in Conns : c = q.conn
  BY <1>1
<1>3. c # NoConn
  BY NoConnAssumption
<1>4. /\ requests' = requests \ {q} /\ replied' = <<[owner |-> c, to |-> c]>>
      /\ phase' = [phase EXCEPT ![c][q.id] = "none"]
      /\ UNCHANGED <<rec, count, handed>>
  BY <1>1, <1>2, <1>3 DEF Reply
<1>5. \A u \in requests' : u \in requests /\ u.conn # c
  BY <1>2, <1>4 DEF RInv, OneAtATime
<1>6. \A g \in Fds : fdConn[g] # c => fdConn'[g] = fdConn[g]
  BY <1>1, <1>2 DEF Reply, FreeFd, Close, kernel, IInv, Typed, TypeOK
<1>7. OwnersOK' /\ OneAtATime'
  <2>1. \A u \in requests' : u.fd \in Fds /\ fdConn[u.fd] = u.conn
    BY <1>4 DEF IInv, Typed, TypeOK, RequestType, RInv, OwnersOK
  <2>2. OwnersOK'
    BY <1>5, <1>6, <2>1 DEF OwnersOK
  <2> QED
    BY <1>4, <2>2 DEF RInv, OneAtATime
<1>8. GoesHome'
  BY <1>4 DEF RInv, GoesHome
<1>9. BeginOK(c)' /\ BusyOK(c)'
  <2>1. \A r \in Unread(c) : ~Begin(c, r)
    BY <1>2 DEF RInv, BeginOK
  <2> QED
    BY <1>4, <1>5, <2>1 DEF BeginOK, BusyOK, Unread, Begin
<1>10. ASSUME NEW d \in Conns, d # c
       PROVE  BeginOK(d)' /\ BusyOK(d)'
  <2>1. phase'[d] = phase[d]
    BY <1>4, <1>10 DEF IInv, Typed
  <2>2. BeginOK(d) /\ BusyOK(d)
    BY DEF RInv
  <2> QED
    BY <1>4, <2>1, <2>2 DEF BeginOK, BusyOK, Unread, Begin, Idle
<1> QED
  BY <1>7, <1>8, <1>9, <1>10 DEF RInv

\* A connection that is made has no requests: none of them names it.
LEMMA HomeByConnect == \A c \in Conns : IInv /\ RInv /\ Connect(c) => RInv'
<1> SUFFICES ASSUME NEW c \in Conns, IInv, RInv, Connect(c) PROVE RInv'
  OBVIOUS
<1>1. /\ rec[c] = <<>> /\ \A fd \in Fds : fdConn[fd] # c
      /\ phase' = [phase EXCEPT ![c] = [i \in FcgiIds |-> "new"]]
      /\ UNCHANGED <<rec, count, fdConn, requests, handed, replied>>
  BY DEF Connect, upper
<1>2. \A q \in requests : q.conn # c
  BY <1>1 DEF IInv, Typed, TypeOK, RequestType, RInv, OwnersOK
<1>3. Unread(c) = {}
  BY <1>1, EmptySeq DEF Unread, IInv, Typed, TypeOK
<1>4. BeginOK(c)' /\ BusyOK(c)'
  BY <1>1, <1>2, <1>3 DEF BeginOK, BusyOK, Unread
<1>5. ASSUME NEW d \in Conns, d # c
      PROVE  BeginOK(d)' /\ BusyOK(d)'
  <2>1. phase'[d] = phase[d]
    BY <1>1, <1>5 DEF IInv, Typed
  <2>2. BeginOK(d) /\ BusyOK(d)
    BY DEF RInv
  <2> QED
    BY <1>1, <2>1, <2>2 DEF BeginOK, BusyOK, Unread, Begin, Idle
<1>6. GoesHome' /\ OwnersOK' /\ OneAtATime'
  BY <1>1 DEF RInv, GoesHome, OwnersOK, OneAtATime
<1> QED
  BY <1>4, <1>5, <1>6 DEF RInv

\* The server begins a request on a connection only if none is under way there.
LEMMA HomeBySend ==
  ASSUME ~Multiplex
  PROVE  \A c \in Conns, i \in FcgiIds, kind \in Kinds :
           IInv /\ RInv /\ Send(c, i, kind) => RInv'
<1> SUFFICES ASSUME NEW c \in Conns, NEW i \in FcgiIds, NEW kind \in Kinds, IInv, RInv,
                    Send(c, i, kind)
             PROVE  RInv'
  OBVIOUS
<1>1. PICK r : /\ r.kind = kind
               /\ r \in RecordType
               /\ rec' = [rec EXCEPT ![c] = Append(@, r)]
  <2>1. PICK len \in Contents :
          rec' = [rec EXCEPT ![c] = Append(@, [kind |-> kind, id |-> i, len |-> len])]
    BY DEF Send
  <2> QED
    BY <2>1 DEF RecordType
<1>2. /\ phase' = [phase EXCEPT ![c][i] = kind]
      /\ UNCHANGED <<fdConn, count, requests, handed, replied>>
  BY DEF Send, upper
<1>3. /\ rec'[c] = Append(rec[c], r) /\ \A d \in Conns \ {c} : rec'[d] = rec[d]
      /\ rec[c] \in Seq(RecordType) /\ Len(rec[c]) \in Nat /\ count[c] \in Nat
      /\ count[c] <= Len(rec[c])
  BY <1>1 DEF IInv, Typed, TypeOK, ConnsOK
<1>4. /\ Len(rec'[c]) = Len(rec[c]) + 1 /\ rec'[c][Len(rec[c]) + 1] = r
      /\ \A n \in 1..Len(rec[c]) : rec'[c][n] = rec[c][n]
  BY <1>1, <1>3, AppendProperties
<1>5. /\ phase'[c][i] = kind /\ \A d \in Conns \ {c} : phase'[d] = phase[d]
  BY <1>2 DEF IInv, Typed
<1>6. kind \notin {"new", "none"} /\ ~Idle(c)'
  <2>1. kind \notin {"new", "none"}
    BY TransceiverAssumption DEF Kinds
  <2> QED
    BY <1>5, <2>1 DEF Idle
<1>7. /\ \A n \in Unread(c)' : n \in Unread(c) \/ n = Len(rec[c]) + 1
      /\ \A n \in Unread(c) : Begin(c, n)' <=> Begin(c, n)
      /\ rec'[c][Len(rec[c]) + 1].kind = kind
  <2>1. \A n \in Unread(c)' : n \in Unread(c) \/ n = Len(rec[c]) + 1
    BY <1>2, <1>3, <1>4 DEF Unread
  <2>2. \A n \in Unread(c) : n \in 1..Len(rec[c])
    BY <1>3 DEF Unread
  <2>3. \A n \in Unread(c) : Begin(c, n)' <=> Begin(c, n)
    BY <1>4, <2>2 DEF Begin
  <2>4. rec'[c][Len(rec[c]) + 1].kind = kind
    BY <1>1, <1>4
  <2> QED
    BY <2>1, <2>3, <2>4
<1>8. BeginOK(c) /\ BusyOK(c)
  BY DEF RInv
<1>9. BeginOK(c)'
  <2>1. CASE kind \in Begins
    <3>1. Idle(c)
      BY <2>1, TransceiverAssumption DEF Send
    <3>2. \A n \in Unread(c) : ~Begin(c, n)
      BY <1>8, <3>1 DEF BeginOK
    <3>3. \A q \in requests : q.conn # c
      BY <1>8, <3>1 DEF BusyOK
    <3>4. \A n \in Unread(c)' : Begin(c, n)' => n = Len(rec[c]) + 1
      BY <1>7, <3>2
    <3> QED
      BY <1>2, <1>6, <3>3, <3>4 DEF BeginOK
  <2>2. CASE kind \notin Begins
    <3>1. \A n \in Unread(c)' : Begin(c, n)' => n \in Unread(c) /\ Begin(c, n)
      BY <1>7, <2>2 DEF Begin
    <3> QED
      BY <1>2, <1>6, <1>8, <3>1 DEF BeginOK
  <2> QED
    BY <2>1, <2>2
<1>10. BusyOK(c)'
  BY <1>6 DEF BusyOK
<1>11. ASSUME NEW d \in Conns, d # c
       PROVE  BeginOK(d)' /\ BusyOK(d)'
  <2>1. BeginOK(d) /\ BusyOK(d)
    BY DEF RInv
  <2> QED
    BY <1>2, <1>3, <1>5, <1>11, <2>1 DEF BeginOK, BusyOK, Unread, Begin, Idle
<1>12. GoesHome' /\ OwnersOK' /\ OneAtATime'
  BY <1>2 DEF RInv, GoesHome, OwnersOK, OneAtATime
<1> QED
  BY <1>9, <1>10, <1>11, <1>12 DEF RInv

\* A record goes to requests of its own connection, and begins one only if the
\* connection has none.
LEMMA HomeByReadRecord == IInv /\ IInv' /\ RInv /\ ReadRecord => RInv'
<1> SUFFICES ASSUME IInv, IInv', RInv, ReadRecord PROVE RInv'
  OBVIOUS
<1>1. PICK c \in Conns : c = fdConn[cur]
  BY NeededIs DEF ReadRecord
<1>2. PICK g : g = Stored(Needed)
  OBVIOUS
<1>3. /\ HandUp(g) /\ cur \in Fds /\ count'[c] = count[c] + 1
      /\ \A d \in Conns \ {c} : count'[d] = count[d]
      /\ count[c] + 1 \in 1..Len(rec[c])
      /\ UNCHANGED <<fdConn, rec, phase>>
  <2>1. cur \in Fds /\ count[c] + 1 \in 1..Len(rec[c])
    BY <1>1, NeededIs DEF ReadRecord
  <2> QED
    BY <1>1, <1>2, <2>1 DEF ReadRecord, Read, HandUp, Conn, server, IInv, Typed, TypeOK
<1>4. RecordOf(g) = rec[c][count[c] + 1]
  <2>1. handed'[1].conn = c /\ handed'[1].bytes = g /\ handed' # <<>>
    BY <1>1, <1>3 DEF HandUp, Conn
  <2>2. g = RecordBytes(c, count[c] + 1)
    <3>1. g = RecordBytes(c, count[c])'
      BY <2>1 DEF IInv, HandedOK
    <3>2. rec' = rec /\ count'[c] = count[c] + 1
      BY <1>3
    <3> QED
      BY <3>1, <3>2 DEF RecordBytes
  <2>3. 1 \in 1..(HeaderSize + rec[c][count[c] + 1].len)
    <3>1. Size(rec[c], count[c] + 1) \in Nat \ {0}
      BY <1>3, SizeType DEF IInv, Typed, TypeOK
    <3> QED
      BY <3>1 DEF Size
  <2>4. g[1] = <<c, count[c] + 1, 1>>
    BY <2>2, <2>3 DEF RecordBytes
  <2> QED
    BY <2>4 DEF RecordOf
<1>5. PICK r \in RecordType : r = RecordOf(g) /\ r = rec[c][count[c] + 1]
  BY <1>3, <1>4 DEF IInv, Typed, TypeOK
<1>6. PICK qs : qs = Of(cur, r.id)
  OBVIOUS
<1>7. qs \subseteq requests /\ \A q \in qs : q.conn = c
  BY <1>1, <1>6 DEF Of, RInv, OwnersOK
<1>8. GoesHome'
  <2>1. handed' = <<[bytes |-> g, conn |-> c, owners |-> {q.conn : q \in qs}]>>
        /\ UNCHANGED replied
    BY <1>1, <1>3, <1>5, <1>6 DEF HandUp, Conn
  <2>2. {q.conn : q \in qs} \subseteq {c}
    BY <1>7
  <2> QED
    BY <2>1, <2>2 DEF RInv, GoesHome
<1>9. BeginOK(c) /\ BusyOK(c) /\ count[c] + 1 \in Unread(c)
      /\ (Begin(c, count[c] + 1) <=> r.kind \in Begins)
  BY <1>3, <1>5 DEF RInv, Unread, Begin
<1>10. \A d \in Conns : /\ Unread(d)' \subseteq Unread(d)
                        /\ \A n \in Unread(d) : Begin(d, n)' <=> Begin(d, n)
  <2>1. ASSUME NEW d \in Conns
        PROVE  Unread(d)' \subseteq Unread(d)
    <3>1. count[d] \in Nat /\ Len(rec[d]) \in Nat
      BY DEF IInv, Typed, TypeOK
    <3>2. count'[d] = count[d] \/ count'[d] = count[d] + 1
      BY <1>3
    <3> QED
      BY <1>3, <3>1, <3>2 DEF Unread
  <2> QED
    BY <1>3, <2>1 DEF Begin
<1>11. count[c] + 1 \notin Unread(c)'
  BY <1>3 DEF Unread, IInv, Typed, TypeOK
\* A request is begun.
<1>12. CASE qs = {} /\ r.kind \in Begins
  <2>1. PICK q : q = [fd |-> cur, id |-> r.id, conn |-> c,
                      kill |-> r.kind = "begin", ready |-> FALSE]
    OBVIOUS
  <2>2. requests' = requests \cup {q}
    BY <1>1, <1>3, <1>5, <1>6, <1>12, <2>1 DEF HandUp, Conn
  <2>3. \A u \in requests : u.conn # c
    BY <1>9, <1>12 DEF BeginOK
  <2>4. ~Idle(c) /\ \A n \in Unread(c) : Begin(c, n) => n = count[c] + 1
    BY <1>9, <1>12 DEF BeginOK
  <2>5. q.fd = cur /\ q.conn = c
    BY <2>1
  <2>6. OwnersOK' /\ OneAtATime'
    BY <1>1, <1>3, <2>2, <2>3, <2>5 DEF RInv, OwnersOK, OneAtATime
  <2>7. BeginOK(c)' /\ BusyOK(c)'
    <3>1. \A n \in Unread(c)' : ~Begin(c, n)'
      BY <1>10, <1>11, <2>4
    <3> QED
      BY <1>3, <2>4, <3>1 DEF BeginOK, BusyOK, Idle
  <2>8. ASSUME NEW d \in Conns, d # c
        PROVE  BeginOK(d)' /\ BusyOK(d)'
    <3>1. BeginOK(d) /\ BusyOK(d)
      BY DEF RInv
    <3> QED
      BY <1>3, <1>10, <2>2, <2>5, <2>8, <3>1 DEF BeginOK, BusyOK, Idle
  <2> QED
    BY <1>8, <2>6, <2>7, <2>8 DEF RInv
\* A request is given a record.
<1>13. CASE ~(qs = {} /\ r.kind \in Begins)
  <2>1. \/ requests' \subseteq requests
        \/ requests' = (requests \ qs) \cup {[q EXCEPT !.ready = TRUE] : q \in qs}
    <3>1. r.kind \in Begins \/ r.kind = "last" \/ r.kind = "abort"
      BY DEF RecordType, Kinds
    <3> QED
      BY <1>3, <1>5, <1>6, <1>13, <3>1 DEF HandUp
  <2>6. ASSUME NEW q \in qs
        PROVE  [q EXCEPT !.ready = TRUE].conn = q.conn /\ [q EXCEPT !.ready = TRUE].fd = q.fd
    <3>1. q \in RequestType
      BY <1>7 DEF IInv, Typed, TypeOK
    <3> QED
      BY <3>1 DEF RequestType
  <2>2. ASSUME NEW u \in requests'
        PROVE  \E q \in requests : u.conn = q.conn /\ u.fd = q.fd
    <3>1. CASE u \in requests
      BY <3>1
    <3>2. ASSUME NEW q \in qs, u = [q EXCEPT !.ready = TRUE]
          PROVE  \E p \in requests : u.conn = p.conn /\ u.fd = p.fd
      <4>1. q \in requests /\ u.conn = q.conn /\ u.fd = q.fd
        BY <1>7, <2>6, <3>2
      <4> QED
        BY <4>1
    <3> QED
      BY <2>1, <3>1, <3>2
  <2>3. OneAtATime'
    <3>1. CASE requests' \subseteq requests
      BY <3>1 DEF RInv, OneAtATime
    <3>2. CASE requests' = (requests \ qs) \cup {[q EXCEPT !.ready = TRUE] : q \in qs}
      <4>1. \A u \in requests' : \/ u \in requests /\ u \notin qs
                                 \/ \E q \in qs : u = [q EXCEPT !.ready = TRUE] /\ u.conn = q.conn
        BY <2>6, <3>2
      <4>2. ASSUME NEW u \in requests', NEW v \in requests', u.conn = v.conn
            PROVE  u = v
        <5>1. CASE u \in requests /\ u \notin qs /\ v \in requests /\ v \notin qs
          BY <4>2, <5>1 DEF RInv, OneAtATime
        <5>2. ASSUME NEW q \in qs, u = [q EXCEPT !.ready = TRUE], u.conn = q.conn
              PROVE  u = v
          <6>1. \A p \in requests : p.conn = u.conn => p = q
            BY <1>7, <5>2 DEF RInv, OneAtATime
          <6> QED
            BY <1>7, <4>1, <4>2, <5>2, <6>1
        <5>3. ASSUME NEW q \in qs, v = [q EXCEPT !.ready = TRUE], v.conn = q.conn
              PROVE  u = v
          <6>1. \A p \in requests : p.conn = v.conn => p = q
            BY <1>7, <5>3 DEF RInv, OneAtATime
          <6> QED
            BY <1>7, <4>1, <4>2, <5>3, <6>1
        <5> QED
          BY <4>1, <5>1, <5>2, <5>3
      <4> QED
        BY <4>2 DEF OneAtATime
    <3> QED
      BY <2>1, <3>1, <3>2
  <2>4. OwnersOK'
    BY <1>3, <2>2 DEF RInv, OwnersOK
  <2>5. ASSUME NEW d \in Conns
        PROVE  BeginOK(d)' /\ BusyOK(d)'
    <3>1. BeginOK(d) /\ BusyOK(d)
      BY DEF RInv
    <3> QED
      BY <1>3, <1>10, <2>2, <3>1 DEF BeginOK, BusyOK, Idle
  <2> QED
    BY <1>8, <2>3, <2>4, <2>5 DEF RInv
<1> QED
  BY <1>12, <1>13

LEMMA RInvKept ==
  ASSUME ~Multiplex
  PROVE  IInv /\ IInv' /\ RInv /\ [Next]_vars => RInv'
<1> SUFFICES ASSUME IInv, IInv', RInv, [Next]_vars PROVE RInv'
  OBVIOUS
<1>1. CASE PollHangUp \/ PollAccept \/ PollRead \/ ReadHeader \/ ReadBody
           \/ HeaderEndOfFile \/ BodyEndOfFile
  BY <1>1, HomeKept DEF PollHangUp, PollAccept, PollRead, ReadHeader, ReadBody, Read,
     HeaderEndOfFile, BodyEndOfFile, HangUpKeeping, kernel, server, upper
<1>2. CASE Interrupted \/ UNCHANGED vars
  BY <1>2, HomeKept DEF Interrupted, vars, kernel, server, upper
<1>3. CASE (\E c \in Conns : Arrive(c) \/ PeerClose(c)) \/ RivalAccepts
  BY <1>3, HomeKept DEF Arrive, PeerClose, RivalAccepts, server, upper
<1>4. CASE Accept \/ ReadRecord
  BY <1>4, HomeByAccept, HomeByReadRecord
<1>5. CASE \E q \in requests : Reply(q)
  BY <1>5, HomeByReply
<1>6. CASE \E c \in Conns : Connect(c)
  BY <1>6, HomeByConnect
<1>7. CASE \E c \in Conns, i \in FcgiIds, kind \in Kinds : Send(c, i, kind)
  BY <1>7, HomeBySend
<1> QED
  BY <1>1, <1>2, <1>3, <1>4, <1>5, <1>6, <1>7 DEF Next, HandlerStep

\* As long as the server runs one request at a time on a connection, an answer
\* goes to the connection its request came from, and a request is only given
\* records of that connection, whatever becomes of descriptors and connections
\* meanwhile (transceiver.cpp 81-86 against 316-325).
THEOREM EverythingGoesHome ==
  ASSUME ~Multiplex
  PROVE  Spec => []GoesHome
<1>1. Init => RInv
  <2> SUFFICES ASSUME Init PROVE RInv
    OBVIOUS
  <2>1. GoesHome /\ OwnersOK /\ OneAtATime
    BY DEF Init, GoesHome, OwnersOK, OneAtATime
  <2>2. \A c \in Conns : Unread(c) = {}
    BY EmptySeq DEF Init, Unread
  <2>3. \A c \in Conns : BeginOK(c) /\ BusyOK(c)
    BY <2>2 DEF Init, BeginOK, BusyOK
  <2> QED
    BY <2>1, <2>3 DEF RInv
<1>2. IInv /\ RInv /\ [Next]_vars => IInv' /\ RInv'
  BY IInvKept, RInvKept
<1>3. Spec => [](IInv /\ RInv)
  BY Started, <1>1, <1>2, PTL DEF Spec
<1>4. RInv => GoesHome
  BY DEF RInv
<1> QED
  BY <1>3, <1>4, PTL
=============================================================================
