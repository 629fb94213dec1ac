----------------------- MODULE TransmitBufferProofs -----------------------
(***************************************************************************)
(* Theorems about TransmitBuffer, for every chunk size, minimum block size *)
(* and set of descriptors, and with no bound on what is written:           *)
(*                                                                         *)
(*   BufferTypeCorrect      Spec => []TypeOK                               *)
(*   RoomAlways             Spec => []RoomForRecord                        *)
(*   ChunksBounded          Spec => []OneSpareChunk                        *)
(*   ReadSpotAlways         Spec => []ReadSpotRight                        *)
(*   BufferIsFrameQueue     Spec => ImplementsFrameQueue                   *)
(*                                                                         *)
(* The writer moves on to a spare chunk without looking into it, so room   *)
(* depends on the spare being empty (SpareEmpty); the list stays short     *)
(* because a chunk is recycled only when the writer is in the last one.    *)
(*                                                                         *)
(* The last two rest on there being one numbering of the committed bytes   *)
(* that both lists follow (Aligned): the chunks hold consecutive bytes,    *)
(* the frames' sizes divide the same bytes, and every chunk but the first  *)
(* begins where a frame ends.  Hence no frame lies across two chunks, and  *)
(* the unread bytes, cut at the frames' sizes, are the frames' own.        *)
(***************************************************************************)
EXTENDS TransmitBuffer, WellFoundedInduction, TLAPS

SpareEmpty == \A c \in 1..Len(chunks) : c > writeIt => chunks[c] = <<>>

BufferInv == TypeOK /\ RoomForRecord /\ OneSpareChunk /\ SpareEmpty

\* Appending to and cutting the front off a list of chunks.
LEMMA ChunkLists ==
  ASSUME NEW s \in Seq(Seq(Nat)), s # <<>>
  PROVE  /\ Len(s) \in Nat \ {0}
         /\ \A c \in 1..Len(s) : s[c] \in Seq(Nat) /\ Len(s[c]) \in Nat
         /\ Append(s, <<>>) \in Seq(Seq(Nat))
         /\ Len(Append(s, <<>>)) = Len(s) + 1
         /\ \A c \in 1..Len(s) : Append(s, <<>>)[c] = s[c]
         /\ Append(s, <<>>)[Len(s) + 1] = <<>>
         /\ Tail(s) \in Seq(Seq(Nat)) /\ Len(Tail(s)) = Len(s) - 1
         /\ \A c \in 1..(Len(s) - 1) : Tail(s)[c] = s[c + 1]
<1>1. /\ Len(s) \in Nat \ {0}
      /\ \A c \in 1..Len(s) : s[c] \in Seq(Nat) /\ Len(s[c]) \in Nat
  OBVIOUS
<1>2. <<>> \in Seq(Nat)
  OBVIOUS
<1>3. /\ Append(s, <<>>) \in Seq(Seq(Nat))
      /\ Len(Append(s, <<>>)) = Len(s) + 1
      /\ \A c \in 1..Len(s) : Append(s, <<>>)[c] = s[c]
      /\ Append(s, <<>>)[Len(s) + 1] = <<>>
  BY <1>2
<1>4. /\ Tail(s) \in Seq(Seq(Nat)) /\ Len(Tail(s)) = Len(s) - 1
      /\ \A c \in 1..(Len(s) - 1) : Tail(s)[c] = s[c + 1]
  OBVIOUS
<1> QED
  BY <1>1, <1>3, <1>4

\* Committing a frame that fits the block given.
LEMMA SecureStep ==
  ASSUME BufferInv, Secure
  PROVE  BufferInv'
<1>1. PICK n \in 1..Room, fd \in Fds, kill \in BOOLEAN : SecureWrite(n, fd, kill)
  BY DEF Secure
<1> DEFINE written == chunks[writeIt] \o [k \in 1..n |-> made + k]
           stored  == [chunks EXCEPT ![writeIt] = written]
<1>2. /\ chunks \in Seq(Seq(Nat)) /\ Len(chunks) \in Nat \ {0}
      /\ writeIt \in 1..Len(chunks) /\ made \in Nat
      /\ \A c \in 1..Len(chunks) : chunks[c] \in Seq(Nat) /\ Len(chunks[c]) \in Nat
      /\ \A c \in 1..Len(chunks) : Len(chunks[c]) <= ChunkSize
      /\ pRead \in 0..Len(chunks[1])
      /\ n \in Nat \ {0} /\ n <= ChunkSize - Len(chunks[writeIt])
      /\ ChunkSize \in Nat /\ MinBlockSize \in Nat
      /\ 0 < MinBlockSize /\ MinBlockSize <= ChunkSize
  BY SizesAssumption DEF BufferInv, TypeOK, RoomForRecord, Room
<1>3. /\ written \in Seq(Nat)
      /\ Len(written) = Len(chunks[writeIt]) + n
  <2>1. /\ [k \in 1..n |-> made + k] \in Seq(Nat)
        /\ Len([k \in 1..n |-> made + k]) = n
    BY <1>2
  <2>2. chunks[writeIt] \in Seq(Nat)
    BY <1>2
  <2> QED
    BY <2>1, <2>2
<1> HIDE DEF written
<1>4. /\ stored \in Seq(Seq(Nat)) /\ Len(stored) = Len(chunks) /\ stored # <<>>
      /\ stored[writeIt] = written
      /\ \A c \in 1..Len(chunks) : c # writeIt => stored[c] = chunks[c]
  BY <1>2, <1>3
<1> HIDE DEF stored
<1>l. ASSUME NEW c \in 1..Len(chunks)
      PROVE  /\ Len(stored[c]) \in Nat /\ Len(stored[c]) <= ChunkSize
             /\ Len(chunks[c]) <= Len(stored[c])
  <2>1. CASE c = writeIt
    BY <1>2, <1>3, <1>4, <2>1
  <2>2. CASE c # writeIt
    BY <1>2, <1>4, <2>2
  <2> QED
    BY <2>1, <2>2
<1>p. pRead \in 0..Len(stored[1])
  <2>1. 1 \in 1..Len(chunks) /\ Len(chunks[1]) \in Nat
    BY <1>2
  <2>2. Len(chunks[1]) <= Len(stored[1]) /\ Len(stored[1]) \in Nat
    BY <2>1, <1>l
  <2> QED
    BY <1>2, <2>1, <2>2
<1>5. /\ frames' = Append(frames, [size |-> n, fd |-> fd, kill |-> kill])
      /\ made' = made + n /\ UNCHANGED <<pRead, sent, freed>>
      /\ transmitting' = TRUE
  BY <1>1 DEF SecureWrite, Secure
<1>6. /\ frames' \in Seq(Frame)
      /\ made' \in Nat /\ freed' \in SUBSET Fds /\ transmitting' \in BOOLEAN
  <2>1. [size |-> n, fd |-> fd, kill |-> kill] \in Frame
    BY <1>2 DEF Frame
  <2>2. frames \in Seq(Frame) /\ freed \in SUBSET Fds
    BY DEF BufferInv, TypeOK
  <2> QED
    BY <1>2, <1>5, <2>1, <2>2
<1>7. CASE ~ChunkFull(written)
  <2>1. chunks' = stored /\ writeIt' = writeIt
    BY <1>1, <1>7 DEF SecureWrite, written, stored
  <2>a. /\ chunks' \in Seq(Seq(Nat)) /\ writeIt' \in 1..Len(chunks')
        /\ \A c \in 1..Len(chunks') : Len(chunks'[c]) <= ChunkSize
    BY <1>2, <1>4, <1>l, <1>7, <2>1
  <2>b. pRead' \in 0..Len(chunks'[1])
    BY <1>2, <1>p, <1>5, <1>7, <2>1
  <2>c. TypeOK'
    BY <1>6, <2>a, <2>b DEF TypeOK
  <2>d. RoomForRecord'
    BY <1>2, <1>3, <1>4, <1>7, <2>1 DEF RoomForRecord, Room, ChunkFull
  <2>e. OneSpareChunk' /\ SpareEmpty'
    <3>1. \A c \in 1..Len(chunks) : c > writeIt => stored[c] = chunks[c]
      BY <1>2, <1>4
    <3>2. SpareEmpty'
      BY <1>4, <2>1, <3>1 DEF BufferInv, SpareEmpty
    <3> QED
      BY <1>4, <2>1, <3>2 DEF BufferInv, OneSpareChunk
  <2> QED
    BY <2>c, <2>d, <2>e DEF BufferInv
<1>8. CASE ChunkFull(written) /\ writeIt = Len(chunks)
  <2>1. chunks' = Append(stored, <<>>) /\ writeIt' = writeIt + 1
    BY <1>1, <1>8 DEF SecureWrite, NewChunk, written, stored
  <2>2. /\ chunks' \in Seq(Seq(Nat)) /\ Len(chunks') = Len(chunks) + 1
        /\ \A c \in 1..Len(chunks) : chunks'[c] = stored[c]
        /\ chunks'[Len(chunks) + 1] = <<>> /\ Len(<<>>) = 0
    BY <1>4, <2>1, ChunkLists
  <2>f. chunks' \in Seq(Seq(Nat)) /\ writeIt' \in 1..Len(chunks')
    BY <1>2, <1>4, <1>8, <2>1, <2>2
  <2>g. ASSUME NEW c \in 1..Len(chunks')
        PROVE  Len(chunks'[c]) <= ChunkSize
    <3>1. CASE c \in 1..Len(chunks)
      BY <3>1, <1>l, <2>2
    <3>2. CASE c = Len(chunks) + 1
      BY <3>2, <1>2, <2>2
    <3>3. Len(chunks) \in Nat /\ Len(chunks') = Len(chunks) + 1
      BY <1>2, <2>2
    <3>4. c \in 1..Len(chunks) \/ c = Len(chunks) + 1
      BY <3>3
    <3> QED
      BY <3>1, <3>2, <3>4
  <2>a. /\ chunks' \in Seq(Seq(Nat)) /\ writeIt' \in 1..Len(chunks')
        /\ \A c \in 1..Len(chunks') : Len(chunks'[c]) <= ChunkSize
    BY <2>f, <2>g
  <2>b. pRead' \in 0..Len(chunks'[1])
    BY <1>2, <1>p, <1>5, <1>8, <2>1, <2>2
  <2>c. TypeOK'
    BY <1>6, <2>a, <2>b DEF TypeOK
  <2>d. RoomForRecord'
    BY <1>2, <1>3, <1>4, <1>8, <2>1, <2>2 DEF RoomForRecord, Room
  <2>e. OneSpareChunk' /\ SpareEmpty'
    BY <1>2, <1>4, <1>8, <2>1, <2>2 DEF BufferInv, OneSpareChunk, SpareEmpty
  <2> QED
    BY <2>c, <2>d, <2>e DEF BufferInv
<1>9. CASE ChunkFull(written) /\ writeIt # Len(chunks)
  <2>1. chunks' = stored /\ writeIt' = writeIt + 1
    BY <1>1, <1>9 DEF SecureWrite, NewChunk, written, stored
  <2>3. writeIt \in Nat /\ Len(chunks) \in Nat /\ Len(stored) = Len(chunks)
    BY <1>2, <1>4
  <2>4. /\ writeIt + 1 \in 1..Len(chunks) /\ writeIt + 1 # writeIt
        /\ writeIt + 1 > writeIt
    BY <1>2, <1>9, <2>3
  <2>5. \A c \in 1..Len(chunks) : c > writeIt => stored[c] = <<>>
    BY <1>4, <2>3 DEF BufferInv, SpareEmpty
  <2>2. /\ writeIt + 1 \in 1..Len(chunks) /\ writeIt + 1 # writeIt
        /\ stored[writeIt + 1] = <<>> /\ Len(<<>>) = 0
    BY <2>4, <2>5
  <2>f. chunks' \in Seq(Seq(Nat)) /\ writeIt' \in 1..Len(chunks')
    BY <1>2, <1>4, <1>9, <2>1, <2>2
  <2>g. ASSUME NEW c \in 1..Len(chunks')
        PROVE  Len(chunks'[c]) <= ChunkSize
    BY <1>4, <1>l, <2>1
  <2>a. /\ chunks' \in Seq(Seq(Nat)) /\ writeIt' \in 1..Len(chunks')
        /\ \A c \in 1..Len(chunks') : Len(chunks'[c]) <= ChunkSize
    BY <2>f, <2>g
  <2>b. pRead' \in 0..Len(chunks'[1])
    BY <1>2, <1>p, <1>5, <1>9, <2>1, <2>2
  <2>c. TypeOK'
    BY <1>6, <2>a, <2>b DEF TypeOK
  <2>d. RoomForRecord'
    BY <1>2, <1>4, <1>9, <2>1, <2>2 DEF RoomForRecord, Room
  <2>e. OneSpareChunk' /\ SpareEmpty'
    BY <2>1, <2>3, <2>5 DEF BufferInv, OneSpareChunk, SpareEmpty
  <2> QED
    BY <2>c, <2>d, <2>e DEF BufferInv
<1> QED
  BY <1>7, <1>8, <1>9

LEMMA FrontFrame ==
  ASSUME NEW s \in Seq(Frame), s # <<>>
  PROVE  /\ Head(s) = s[1] /\ 1 \in 1..Len(s) /\ s[1] \in Frame
         /\ s[1].size \in Nat \ {0} /\ s[1].fd \in Fds
<1>1. Head(s) = s[1] /\ 1 \in 1..Len(s) /\ s[1] \in Frame
  OBVIOUS
<1> QED
  BY <1>1 DEF Frame

\* Giving back n bytes of the front frame.
LEMMA FreeStep ==
  ASSUME BufferInv, frames # <<>>, NEW n \in 1..Head(frames).size, FreeRead(n),
         made' = made, transmitting' \in BOOLEAN, freed' \in SUBSET Fds
  PROVE  BufferInv'
<1>1. /\ chunks \in Seq(Seq(Nat)) /\ Len(chunks) \in Nat \ {0} /\ chunks # <<>>
      /\ writeIt \in 1..Len(chunks) /\ writeIt \in Nat
      /\ \A c \in 1..Len(chunks) : chunks[c] \in Seq(Nat) /\ Len(chunks[c]) \in Nat
      /\ \A c \in 1..Len(chunks) : Len(chunks[c]) <= ChunkSize
      /\ pRead \in Nat /\ made \in Nat
      /\ ChunkSize \in Nat /\ MinBlockSize \in Nat
      /\ 0 < MinBlockSize /\ MinBlockSize <= ChunkSize
  BY SizesAssumption DEF BufferInv, TypeOK
<1>m. made' \in Nat /\ transmitting' \in BOOLEAN /\ freed' \in SUBSET Fds
  BY <1>1
<1>z. ChunkSize \in Nat /\ 0 <= ChunkSize
  BY <1>1
<1>2. frames' \in Seq(Frame) /\ n \in Nat
  <2>1. /\ frames \in Seq(Frame)
        /\ Head(frames) = frames[1] /\ 1 \in 1..Len(frames)
        /\ frames[1] \in Frame /\ frames[1].size \in Nat \ {0}
    BY FrontFrame DEF BufferInv, TypeOK
  <2>2. CASE n = Head(frames).size
    BY <2>1, <2>2 DEF FreeRead
  <2>3. CASE n # Head(frames).size
    <3>1. frames' = [frames EXCEPT ![1].size = @ - n]
      BY <2>3 DEF FreeRead
    <3>2. frames[1].size - n \in Nat \ {0} /\ n \in Nat
      BY <2>1, <2>3
    <3>3. [frames[1] EXCEPT !.size = frames[1].size - n] \in Frame
      BY <2>1, <3>2 DEF Frame
    <3>4. frames' = [frames EXCEPT ![1] =
                       [frames[1] EXCEPT !.size = frames[1].size - n]]
      BY <3>1
    <3> HIDE DEF Frame
    <3> QED
      BY <2>1, <3>2, <3>3, <3>4
  <2> QED
    BY <2>1, <2>2, <2>3
<1>3. CASE ~ReadToEnd(pRead + n)
  <2>1. pRead' = pRead + n /\ UNCHANGED <<chunks, writeIt>>
    BY <1>3 DEF FreeRead
  <2>2. pRead + n \in 0..Len(chunks[1])
    BY <1>1, <1>2, <1>3 DEF ReadToEnd
  <2>3. TypeOK'
    BY <1>1, <1>2, <2>1, <2>2 DEF BufferInv, TypeOK
  <2> QED
    BY <2>1, <2>3
       DEF BufferInv, RoomForRecord, Room, OneSpareChunk, SpareEmpty
<1>4. CASE ReadToEnd(pRead + n) /\ writeIt = 1
  <2>1. pRead' = 0 /\ chunks' = [chunks EXCEPT ![1] = <<>>] /\ writeIt' = writeIt
    BY <1>4 DEF FreeRead
  <2>2. /\ chunks' \in Seq(Seq(Nat)) /\ Len(chunks') = Len(chunks)
        /\ chunks'[1] = <<>> /\ Len(<<>>) = 0
        /\ \A c \in 1..Len(chunks) : c # 1 => chunks'[c] = chunks[c]
    <3>1. <<>> \in Seq(Nat)
      OBVIOUS
    <3> QED
      BY <1>1, <2>1, <3>1
  <2>3. TypeOK'
    BY <1>1, <1>2, <2>1, <2>2 DEF TypeOK
  <2>4. RoomForRecord'
    BY <1>1, <1>4, <2>1, <2>2 DEF RoomForRecord, Room
  <2> QED
    BY <1>1, <1>4, <2>1, <2>2, <2>3, <2>4
       DEF BufferInv, OneSpareChunk, SpareEmpty
<1>5. CASE ReadToEnd(pRead + n) /\ writeIt # 1
  <2> DEFINE rest == Tail(chunks)
  <2>1. pRead' = 0 /\ chunks' = Recycle /\ writeIt' = writeIt - 1
    BY <1>5 DEF FreeRead
  <2>2. /\ rest \in Seq(Seq(Nat)) /\ Len(rest) = Len(chunks) - 1
        /\ \A c \in 1..(Len(chunks) - 1) : rest[c] = chunks[c + 1]
    BY <1>1, ChunkLists
  <2> HIDE DEF rest
  <2>3. Len(rest) \in Nat \ {0} /\ rest # <<>> /\ writeIt - 1 \in 1..Len(rest)
    <3>1. writeIt - 1 \in 1..(Len(chunks) - 1) /\ Len(chunks) - 1 \in Nat \ {0}
      <4>1. /\ writeIt \in Nat /\ Len(chunks) \in Nat /\ writeIt # 1
            /\ 1 <= writeIt /\ writeIt <= Len(chunks)
        BY <1>1, <1>5
      <4>2. 2 <= writeIt /\ 2 <= Len(chunks)
        BY <4>1
      <4>3. writeIt - 1 \in 1..(Len(chunks) - 1)
        BY <4>1, <4>2
      <4>4. Len(chunks) - 1 \in Nat /\ Len(chunks) - 1 # 0
        <5>1. \A k \in Nat : 2 <= k => k - 1 \in Nat /\ k - 1 # 0
          OBVIOUS
        <5> QED
          BY <4>1, <4>2, <5>1
      <4> QED
        BY <4>3, <4>4
    <3>2. Len(<<>>) = 0
      OBVIOUS
    <3> QED
      BY <2>2, <3>1, <3>2
  <2>4. /\ rest[writeIt - 1] = chunks[writeIt]
        /\ \A c \in 1..Len(rest) : Len(rest[c]) <= ChunkSize /\ Len(rest[c]) \in Nat
        /\ \A c \in 1..Len(rest) : c > writeIt - 1 => rest[c] = <<>>
    <3>1. ASSUME NEW c \in 1..Len(rest)
          PROVE  /\ c + 1 \in 1..Len(chunks) /\ rest[c] = chunks[c + 1]
                 /\ c > writeIt - 1 => c + 1 > writeIt
      BY <1>1, <2>2
    <3>2. rest[writeIt - 1] = chunks[writeIt]
      BY <1>1, <2>3, <3>1
    <3> QED
      BY <1>1, <3>1, <3>2 DEF BufferInv, SpareEmpty
  <2>5. Len(chunks[writeIt]) <= ChunkSize - MinBlockSize
    BY <1>1 DEF BufferInv, RoomForRecord, Room
  <2>6. CASE writeIt # Len(chunks)
    <3>1. chunks' = rest
      BY <2>1, <2>6 DEF Recycle, rest
    <3>5. pRead' \in 0..Len(chunks'[1]) /\ writeIt' \in 1..Len(chunks')
      <4>1. 1 \in 1..Len(rest)
        BY <2>3
      <4>2. Len(rest[1]) \in Nat
        BY <2>4, <4>1
      <4> QED
        BY <2>1, <2>3, <3>1, <4>2
    <3>2. TypeOK'
      BY <1>2, <2>2, <2>4, <3>1, <3>5, <1>m DEF TypeOK
    <3>3. RoomForRecord'
      BY <1>1, <2>1, <2>4, <2>5, <3>1 DEF RoomForRecord, Room
    <3>4. OneSpareChunk' /\ SpareEmpty'
      <4>1. SpareEmpty'
        BY <2>1, <2>4, <3>1 DEF SpareEmpty
      <4>2. writeIt \in Nat /\ Len(chunks) \in Nat /\ Len(chunks) <= writeIt + 1
        BY <1>1 DEF BufferInv, OneSpareChunk
      <4> QED
        BY <2>1, <2>2, <3>1, <4>1, <4>2 DEF OneSpareChunk
    <3> QED
      BY <3>2, <3>3, <3>4 DEF BufferInv
  <2>7. CASE writeIt = Len(chunks)
    <3>1. chunks' = Append(rest, <<>>)
      BY <2>1, <2>7 DEF Recycle, rest
    <3>2. /\ chunks' \in Seq(Seq(Nat)) /\ Len(chunks') = Len(rest) + 1
          /\ \A c \in 1..Len(rest) : chunks'[c] = rest[c]
          /\ chunks'[Len(rest) + 1] = <<>> /\ Len(<<>>) = 0
      BY <2>2, <2>3, <3>1, ChunkLists
    <3>3. \A c \in 1..Len(chunks') : Len(chunks'[c]) <= ChunkSize
      <4>1. \A c \in 1..Len(chunks') : c \in 1..Len(rest) \/ c = Len(rest) + 1
        BY <2>3, <3>2
      <4> QED
        BY <1>z, <2>4, <3>2, <4>1
    <3>7. pRead' \in 0..Len(chunks'[1]) /\ writeIt' \in 1..Len(chunks')
      <4>1. 1 \in 1..Len(rest) /\ Len(rest) \in Nat
        BY <2>3
      <4>2. Len(rest[1]) \in Nat /\ chunks'[1] = rest[1]
        BY <2>4, <3>2, <4>1
      <4>3. writeIt' \in 1..Len(chunks')
        BY <2>1, <2>3, <3>2
      <4> QED
        BY <2>1, <4>2, <4>3
    <3>4. TypeOK'
      BY <1>2, <3>2, <3>3, <3>7, <1>m DEF TypeOK
    <3>5. RoomForRecord'
      <4>1. chunks'[writeIt'] = chunks[writeIt]
        BY <2>1, <2>3, <2>4, <3>2
      <4> QED
        BY <1>1, <2>5, <4>1 DEF RoomForRecord, Room
    <3>6. OneSpareChunk' /\ SpareEmpty'
      <4>1. Len(chunks') = Len(chunks) /\ writeIt' = Len(chunks) - 1
        BY <1>1, <2>1, <2>2, <2>7, <3>2
      <4>2. OneSpareChunk'
        BY <1>1, <4>1 DEF OneSpareChunk
      <4>3. \A c \in 1..Len(chunks') : c > writeIt' => c = Len(rest) + 1
        BY <1>1, <2>2, <4>1
      <4> QED
        BY <3>2, <4>2, <4>3 DEF SpareEmpty
    <3> QED
      BY <3>4, <3>5, <3>6 DEF BufferInv
  <2> QED
    BY <2>6, <2>7
<1> QED
  BY <1>3, <1>4, <1>5

LEMMA BufferInvariance == Spec => []BufferInv
<1>1. Init => BufferInv
  <2> SUFFICES ASSUME Init
               PROVE  BufferInv
    OBVIOUS
  <2>1. /\ chunks = << <<>> >> /\ writeIt = 1 /\ pRead = 0 /\ frames = <<>>
        /\ transmitting = FALSE /\ made = 0 /\ freed = {}
    BY DEF Init
  <2>2. /\ << <<>> >> \in Seq(Seq(Nat)) /\ Len(<< <<>> >>) = 1
        /\ << <<>> >>[1] = <<>> /\ Len(<<>>) = 0
    OBVIOUS
  <2>4. \A c \in 1..Len(chunks) : c = 1
    BY <2>1, <2>2
  <2>5. chunks[1] = <<>> /\ Len(chunks[1]) = 0
    BY <2>1, <2>2
  <2>6. frames \in Seq(Frame)
    BY <2>1
  <2>7. /\ writeIt \in 1..Len(chunks) /\ pRead \in 0..Len(chunks[1])
        /\ \A c \in 1..Len(chunks) : Len(chunks[c]) <= ChunkSize
    BY <2>1, <2>2, <2>4, <2>5, SizesAssumption
  <2>3. TypeOK
    BY <2>1, <2>2, <2>6, <2>7 DEF TypeOK
  <2> QED
    BY <2>1, <2>2, <2>3, SizesAssumption
       DEF BufferInv, RoomForRecord, Room, OneSpareChunk, SpareEmpty
<1>2. ASSUME BufferInv, [Next]_vars
      PROVE  BufferInv'
  <2>1. ASSUME frames # <<>>
        PROVE  /\ Head(frames).size \in Nat \ {0}
               /\ Head(frames).fd \in Fds
    BY <1>2, <2>1, FrontFrame DEF BufferInv, TypeOK
  <2>2. CASE Secure
    BY <1>2, <2>2, SecureStep
  <2>3. CASE TransmitAll
    <3>1. Head(frames).size \in 1..Head(frames).size /\ frames # <<>>
      BY <2>1, <2>3 DEF TransmitAll
    <3>2. /\ FreeRead(Head(frames).size) /\ made' = made
          /\ transmitting' \in BOOLEAN /\ freed' \in SUBSET Fds
      BY <1>2, <2>1, <2>3
         DEF TransmitAll, WriteBlock, FreedAfter, BufferInv, TypeOK
    <3> QED
      BY <1>2, <3>1, <3>2, FreeStep
  <2>4. CASE TransmitShort
    <3>1. PICK n \in 1..(Head(frames).size - 1) : WriteBlock(n)
      BY <2>4 DEF TransmitShort
    <3>2. n \in 1..Head(frames).size /\ frames # <<>>
      BY <2>1, <2>4, <3>1 DEF TransmitShort
    <3>3. /\ FreeRead(n) /\ made' = made
          /\ transmitting' \in BOOLEAN /\ freed' \in SUBSET Fds
      BY <1>2, <2>1, <2>4, <3>1, <3>2
         DEF TransmitShort, WriteBlock, FreedAfter, BufferInv, TypeOK
    <3> QED
      BY <1>2, <3>2, <3>3, FreeStep
  <2>5. CASE TransmitBroken
    <3>1. Head(frames).size \in 1..Head(frames).size /\ frames # <<>>
      BY <2>1, <2>5 DEF TransmitBroken
    <3>2. /\ FreeRead(Head(frames).size) /\ made' = made
          /\ transmitting' \in BOOLEAN /\ freed' \in SUBSET Fds
      BY <1>2, <2>1, <2>5 DEF TransmitBroken, BufferInv, TypeOK
    <3> QED
      BY <1>2, <3>1, <3>2, FreeStep
  <2>6. CASE TransmitBegin \/ TransmitThrow \/ TransmitDone \/ UNCHANGED vars
    <3>1. /\ UNCHANGED <<chunks, writeIt, pRead, frames, made, freed>>
          /\ transmitting' \in BOOLEAN
      BY <1>2, <2>6 DEF TransmitBegin, TransmitThrow, TransmitDone, vars,
         BufferInv, TypeOK
    <3> QED
      BY <1>2, <3>1 DEF BufferInv, TypeOK, RoomForRecord, Room, OneSpareChunk,
         SpareEmpty
  <2> QED
    BY <1>2, <2>2, <2>3, <2>4, <2>5, <2>6 DEF Next
<1> QED
  BY <1>1, <1>2, PTL DEF Spec

\* The buffer's variables keep their types whatever is written and sent; the
\* read spot never leaves the first chunk (secureWrite() and freeRead()).
THEOREM BufferTypeCorrect == Spec => []TypeOK
<1>1. BufferInv => TypeOK
  BY DEF BufferInv
<1> QED
  BY BufferInvariance, <1>1, PTL

\* requestWrite() grants every request of up to minBlockSize bytes in full, on
\* which complete() and localHandler() rely (transceiver.hpp 201-204,
\* transceiver.cpp 53-61).
THEOREM RoomAlways == Spec => []RoomForRecord
<1>1. BufferInv => RoomForRecord
  BY DEF BufferInv
<1> QED
  BY BufferInvariance, <1>1, PTL

\* However long the buffer is in use, at most one chunk lies behind the one
\* being written (transceiver.cpp 169-176).
THEOREM ChunksBounded == Spec => []OneSpareChunk
<1>1. BufferInv => OneSpareChunk
  BY DEF BufferInv
<1> QED
  BY BufferInvariance, <1>1, PTL
-----------------------------------------------------------------------------
\* F[k] bytes are committed once frame k of a queue is, m of them in the end.
Ends(F, fr, m) ==
  /\ F \in [0..Len(fr) -> Nat] /\ F[Len(fr)] = m
  /\ \A k \in 1..Len(fr) : F[k] = F[k - 1] + fr[k].size
  /\ \A i, j \in 0..Len(fr) : i < j => F[i] < F[j]

\* B[c] bytes were committed before chunk c: chunks and frames divide the same
\* bytes, and a chunk after the first begins where a frame ends.
Aligned(B, F, cs, w, p, fr, m) ==
  /\ Ends(F, fr, m)
  /\ B \in [1..w -> Nat] /\ F[0] = B[1] + p /\ B[w] + Len(cs[w]) = m
  /\ \A c \in 1..w : \A j \in 1..Len(cs[c]) : cs[c][j] = B[c] + j
  /\ \A c \in 1..(w - 1) : B[c + 1] = B[c] + Len(cs[c])
  /\ \A c, d \in 1..w : c < d => B[c] < B[d]
  /\ \A c \in 2..w : \E k \in 1..Len(fr) : B[c] = F[k]
  /\ p < Len(cs[1]) \/ (p = 0 /\ w = 1 /\ Len(cs[1]) = 0)

Sizes(cs, w, p, fr, m) ==
  /\ cs \in Seq(Seq(Nat)) /\ w \in 1..Len(cs) /\ p \in 0..Len(cs[1])
  /\ fr \in Seq(Frame) /\ m \in Nat

LEMMA SizesFacts ==
  ASSUME NEW cs, NEW w, NEW p, NEW fr, NEW m, Sizes(cs, w, p, fr, m)
  PROVE  /\ Len(cs) \in Nat \ {0} /\ w \in Nat \ {0} /\ 1 \in 1..w /\ w \in 1..w
         /\ \A c \in 1..w : cs[c] \in Seq(Nat) /\ Len(cs[c]) \in Nat
         /\ p \in Nat /\ p <= Len(cs[1]) /\ m \in Nat
         /\ Len(fr) \in Nat /\ 0 \in 0..Len(fr) /\ Len(fr) \in 0..Len(fr)
         /\ \A k \in 1..Len(fr) : /\ fr[k].size \in Nat \ {0}
                                  /\ k \in 0..Len(fr) /\ k - 1 \in 0..Len(fr)
<1>1. ASSUME NEW k \in 1..Len(fr) PROVE fr[k].size \in Nat \ {0}
  <2>1. fr[k] \in Frame
    BY DEF Sizes
  <2> QED
    BY <2>1 DEF Frame
<1> QED
  BY <1>1 DEF Sizes

\* The front frame ends in the first chunk: the second begins where a frame ends.
LEMMA FrontFits ==
  ASSUME NEW cs, NEW w, NEW p, NEW fr, NEW m, Sizes(cs, w, p, fr, m),
         NEW B, NEW F, Aligned(B, F, cs, w, p, fr, m), fr # <<>>
  PROVE  /\ 1 \in 1..Len(fr) /\ F[1] = F[0] + fr[1].size
         /\ F[0] \in Nat /\ F[1] \in Nat
         /\ p + fr[1].size <= Len(cs[1])
<1>1. /\ w \in Nat \ {0} /\ 1 \in 1..w /\ p \in Nat /\ Len(cs[1]) \in Nat
      /\ Len(fr) \in Nat /\ 0 \in 0..Len(fr) /\ Len(fr) \in 0..Len(fr)
      /\ B[1] \in Nat
  BY SizesFacts DEF Aligned, Ends
<1>2. 1 \in 1..Len(fr) /\ 1 \in 0..Len(fr)
  BY DEF Sizes
<1>3. /\ fr[1].size \in Nat \ {0} /\ F[1] = F[0] + fr[1].size
      /\ F[0] \in Nat /\ F[1] \in Nat /\ F[0] = B[1] + p
  <2>1. fr[1].size \in Nat \ {0}
    BY <1>2, SizesFacts
  <2>2. F \in [0..Len(fr) -> Nat] /\ F[0] = B[1] + p
    BY DEF Aligned, Ends
  <2>3. F[1] = F[1 - 1] + fr[1].size
    BY <1>2 DEF Aligned, Ends
  <2> QED
    BY <1>1, <1>2, <2>1, <2>2, <2>3
<1>4. F[1] <= B[1] + Len(cs[1])
  <2>1. ASSUME NEW k \in 1..Len(fr) PROVE F[1] <= F[k] /\ F[k] \in Nat
    <3>1. k \in 0..Len(fr) /\ k \in Nat /\ (k = 1 \/ 1 < k)
      BY <1>1, <2>1
    <3>2. F[k] \in Nat
      BY <3>1 DEF Aligned, Ends
    <3>3. 1 < k => F[1] < F[k]
      BY <1>2, <3>1 DEF Aligned, Ends
    <3> QED
      BY <1>3, <3>1, <3>2, <3>3
  <2>2. CASE w = 1
    BY <1>1, <1>2, <2>1, <2>2 DEF Aligned, Ends
  <2>3. CASE w # 1
    <3>1. 1 \in 1..(w - 1) /\ 2 \in 2..w
      BY <1>1, <2>3
    <3>2. PICK k \in 1..Len(fr) : B[2] = F[k]
      BY <3>1 DEF Aligned, Ends
    <3>3. B[2] = B[1] + Len(cs[1])
      BY <3>1 DEF Aligned, Ends
    <3> QED
      BY <2>1, <3>2, <3>3
  <2> QED
    BY <2>2, <2>3
<1> QED
  BY <1>1, <1>2, <1>3, <1>4

LEMMA EmptyRight ==
  ASSUME NEW cs, NEW w, NEW p, NEW fr, NEW m, Sizes(cs, w, p, fr, m),
         NEW B, NEW F, Aligned(B, F, cs, w, p, fr, m)
  PROVE  (w = 1 /\ p = Len(cs[1])) <=> fr = <<>>
<1>1. /\ w \in Nat \ {0} /\ 1 \in 1..w /\ p \in Nat /\ Len(cs[1]) \in Nat
      /\ Len(fr) \in Nat /\ 0 \in 0..Len(fr) /\ Len(fr) \in 0..Len(fr)
      /\ B[1] \in Nat
  BY SizesFacts DEF Aligned, Ends
<1>2. ASSUME w = 1, p = Len(cs[1]) PROVE fr = <<>>
  <2>1. F[0] = F[Len(fr)] /\ F[0] \in Nat
    BY <1>1, <1>2 DEF Aligned, Ends
  <2>2. ~(0 < Len(fr))
    <3>1. ASSUME 0 < Len(fr) PROVE FALSE
      <4>1. \A i, j \in 0..Len(fr) : i < j => F[i] < F[j]
        BY DEF Aligned, Ends
      <4>2. F[0] < F[Len(fr)]
        BY <1>1, <3>1, <4>1
      <4> QED
        BY <2>1, <4>2
    <3> QED
      BY <3>1
  <2>3. Len(fr) = 0
    BY <1>1, <2>2
  <2> QED
    BY <2>3 DEF Sizes
<1>3. ASSUME fr = <<>> PROVE w = 1 /\ p = Len(cs[1])
  <2>1. Len(fr) = 0
    BY <1>3
  <2>2. w = 1
    <3>1. ASSUME w # 1 PROVE FALSE
      <4>1. 2 \in 2..w
        BY <1>1, <3>1
      <4>2. \E k \in 1..Len(fr) : B[2] = F[k]
        BY <4>1 DEF Aligned, Ends
      <4> QED
        BY <2>1, <4>2
    <3> QED
      BY <3>1
  <2> QED
    BY <1>1, <2>1, <2>2 DEF Aligned, Ends
<1> QED
  BY <1>2, <1>3

\* Where chunks begin and frames end once a frame up to byte m was committed.
BeginsWith(B, w, v, m) == [c \in 1..v |-> IF c <= w THEN B[c] ELSE m]
EndsWith(F, fr, m)     == [k \in 0..(Len(fr) + 1) |-> IF k <= Len(fr) THEN F[k] ELSE m]

\* A frame of n bytes is committed; v is where the writer is afterwards.
Committed(cs, w, fr, m, n, ds, v, gr) ==
  /\ \E f \in Frame : f.size = n /\ gr = Append(fr, f)
  /\ v = w \/ (v = w + 1 /\ Len(ds[v]) = 0)
  /\ \A c \in 1..(w - 1) : ds[c] = cs[c]
  /\ Len(ds[w]) = Len(cs[w]) + n
  /\ \A j \in 1..Len(cs[w]) : ds[w][j] = cs[w][j]
  /\ \A j \in 1..n : ds[w][Len(cs[w]) + j] = m + j

LEMMA AlignAppend ==
  ASSUME NEW cs, NEW w, NEW p, NEW fr, NEW m, Sizes(cs, w, p, fr, m),
         NEW B, NEW F, Aligned(B, F, cs, w, p, fr, m),
         NEW n \in Nat \ {0}, NEW ds, NEW v, NEW gr, Sizes(ds, v, p, gr, m + n),
         Committed(cs, w, fr, m, n, ds, v, gr)
  PROVE  Aligned(BeginsWith(B, w, v, m + n), EndsWith(F, fr, m + n), ds, v, p, gr, m + n)
<1>0. PICK f \in Frame : f.size = n /\ gr = Append(fr, f)
  BY DEF Committed
<1>c. /\ v = w \/ (v = w + 1 /\ Len(ds[v]) = 0)
      /\ \A c \in 1..(w - 1) : ds[c] = cs[c]
      /\ Len(ds[w]) = Len(cs[w]) + n
      /\ \A j \in 1..Len(cs[w]) : ds[w][j] = cs[w][j]
      /\ \A j \in 1..n : ds[w][Len(cs[w]) + j] = m + j
  BY DEF Committed
<1> DEFINE C == BeginsWith(B, w, v, m + n)
           G == EndsWith(F, fr, m + n)
<1>1. /\ w \in Nat \ {0} /\ 1 \in 1..w /\ w \in 1..w /\ p \in Nat /\ m \in Nat
      /\ \A c \in 1..w : Len(cs[c]) \in Nat /\ B[c] \in Nat
      /\ Len(fr) \in Nat /\ 0 \in 0..Len(fr) /\ Len(fr) \in 0..Len(fr)
      /\ \A k \in 0..Len(fr) : F[k] \in Nat
  BY SizesFacts DEF Aligned, Ends
<1>2. /\ Len(gr) = Len(fr) + 1 /\ gr[Len(fr) + 1] = f
      /\ \A k \in 1..Len(fr) : gr[k] = fr[k]
  BY <1>0 DEF Sizes
<1>3. v \in Nat \ {0} /\ 1 \in 1..v /\ w \in 1..v
  BY <1>c, <1>1
<1>b. /\ C \in [1..v -> Nat]
      /\ \A c \in 1..w : C[c] = B[c]
      /\ v = w + 1 => C[v] = m + n
  BY <1>c, <1>1, <1>3 DEF BeginsWith
<1>f. /\ G \in [0..Len(gr) -> Nat]
      /\ \A k \in 0..Len(fr) : G[k] = F[k]
      /\ G[Len(fr) + 1] = m + n
  BY <1>c, <1>1, <1>2 DEF EndsWith
<1> HIDE DEF C, G
<1>4. G[0] = C[1] + p /\ G[Len(gr)] = m + n /\ C[v] + Len(ds[v]) = m + n
  <2>1. F[0] = B[1] + p /\ B[w] + Len(cs[w]) = m
    BY DEF Aligned, Ends
  <2>2. G[0] = C[1] + p
    BY <1>c, <1>1, <1>b, <1>f, <2>1
  <2>3. v = w => C[v] + Len(ds[v]) = m + n
    <3>1. C[w] = B[w] /\ B[w] \in Nat /\ Len(cs[w]) \in Nat
      BY <1>c, <1>1, <1>b
    <3>2. C[w] + Len(cs[w]) = m /\ n \in Nat
      BY <1>c, <2>1, <3>1
    <3>3. C[w] + (Len(cs[w]) + n) = m + n
      BY <1>c, <3>1, <3>2
    <3> QED
      BY <1>c, <3>3
  <2>4. v = w + 1 => C[v] + Len(ds[v]) = m + n
    BY <1>c, <1>1, <1>b
  <2> QED
    BY <1>c, <1>2, <1>f, <2>2, <2>3, <2>4
<1>5. ASSUME NEW k \in 1..Len(gr) PROVE G[k] = G[k - 1] + gr[k].size
  <2>1. CASE k \in 1..Len(fr)
    <3>1. k \in 0..Len(fr) /\ k - 1 \in 0..Len(fr)
      BY <1>1, <2>1
    <3> QED
      BY <1>2, <1>f, <2>1, <3>1 DEF Aligned, Ends
  <2>2. CASE k = Len(fr) + 1
    <3>1. F[Len(fr)] = m
      BY DEF Aligned, Ends
    <3>2. k - 1 = Len(fr) /\ gr[k].size = n /\ G[k] = m + n
      BY <1>0, <1>1, <1>2, <1>f, <2>2
    <3>3. G[k - 1] = m
      BY <1>1, <1>f, <3>1, <3>2
    <3> QED
      BY <3>2, <3>3
  <2>3. k \in 1..Len(fr) \/ k = Len(fr) + 1
    BY <1>1, <1>2
  <2> QED
    BY <2>1, <2>2, <2>3
<1>6. ASSUME NEW i \in 0..Len(gr), NEW j \in 0..Len(gr), i < j PROVE G[i] < G[j]
  <2>0. i \in 0..Len(fr)
    BY <1>1, <1>2, <1>6
  <2>1. CASE j \in 0..Len(fr)
    BY <1>6, <1>f, <2>0, <2>1 DEF Aligned, Ends
  <2>2. CASE j = Len(fr) + 1
    <3>1. F[i] <= m
      <4>1. CASE i = Len(fr)
        BY <1>1, <4>1 DEF Aligned, Ends
      <4>2. CASE i < Len(fr)
        <5>1. F[i] < F[Len(fr)] /\ F[Len(fr)] = m
          BY <1>1, <2>0, <4>2 DEF Aligned, Ends
        <5> QED
          BY <1>1, <2>0, <5>1
      <4> QED
        BY <1>1, <2>0, <4>1, <4>2
    <3> QED
      BY <1>1, <1>f, <2>0, <2>2, <3>1
  <2> QED
    BY <1>1, <1>2, <2>1, <2>2
<1>7. ASSUME NEW c \in 1..v, NEW j \in 1..Len(ds[c]) PROVE ds[c][j] = C[c] + j
  <2>1. CASE c \in 1..(w - 1)
    <3>1. c \in 1..w /\ ds[c] = cs[c]
      BY <1>c, <1>1, <2>1
    <3> QED
      BY <1>c, <1>7, <1>b, <3>1 DEF Aligned, Ends
  <2>2. CASE c = w
    <3>0. C[w] = B[w] /\ B[w] + Len(cs[w]) = m /\ Len(cs[w]) \in Nat /\ B[w] \in Nat
      BY <1>c, <1>1, <1>b DEF Aligned, Ends
    <3>1. CASE j <= Len(cs[w])
      <4>1. j \in 1..Len(cs[w])
        BY <1>c, <1>7, <2>2, <3>0, <3>1
      <4> QED
        BY <1>c, <1>1, <2>2, <3>0, <4>1 DEF Aligned, Ends
    <3>2. CASE ~(j <= Len(cs[w]))
      <4>1. PICK i \in 1..n : j = Len(cs[w]) + i
        <5>1. j - Len(cs[w]) \in 1..n /\ j = Len(cs[w]) + (j - Len(cs[w]))
          BY <1>c, <1>7, <2>2, <3>0, <3>2
        <5> QED
          BY <5>1
      <4>2. ds[w][Len(cs[w]) + i] = m + i
        BY <1>c, <4>1
      <4>3. ds[c][j] = m + i /\ C[c] = B[w] /\ j = Len(cs[w]) + i
        BY <1>c, <2>2, <3>0, <4>1, <4>2
      <4>4. m \in Nat /\ i \in Nat
        BY <1>c, <1>1
      <4>5. (B[w] + Len(cs[w])) + i = B[w] + (Len(cs[w]) + i)
        BY <1>c, <3>0, <4>4
      <4> QED
        BY <1>c, <3>0, <4>3, <4>5
    <3> QED
      BY <1>c, <3>1, <3>2
  <2>3. CASE c = w + 1
    <3>1. c = v /\ Len(ds[v]) = 0
      BY <1>c, <1>1, <1>3, <2>3
    <3> QED
      BY <1>c, <1>7, <3>1
  <2> QED
    BY <1>c, <1>1, <1>3, <2>1, <2>2, <2>3
<1>8. ASSUME NEW c \in 1..(v - 1) PROVE C[c + 1] = C[c] + Len(ds[c])
  <2>1. CASE c \in 1..(w - 1)
    <3>0. c \in 1..w /\ c + 1 \in 1..w
      BY <1>1, <2>1
    <3>1. c \in 1..w /\ c + 1 \in 1..w /\ ds[c] = cs[c]
      BY <1>c, <2>1, <3>0
    <3> QED
      BY <1>c, <1>b, <2>1, <3>1 DEF Aligned, Ends
  <2>2. CASE c = w /\ v = w + 1
    <3>1. C[w] = B[w] /\ B[w] + Len(cs[w]) = m /\ C[w + 1] = m + n
      BY <1>c, <1>1, <1>b, <2>2 DEF Aligned
    <3>2. B[w] \in Nat /\ Len(cs[w]) \in Nat
      BY <1>c, <1>1
    <3>3. m + n = B[w] + (Len(cs[w]) + n)
      <4>1. n \in Nat
        OBVIOUS
      <4> QED
        BY <1>c, <3>1, <3>2, <4>1
    <3> QED
      BY <1>c, <2>2, <3>1, <3>3
  <2> QED
    BY <1>c, <1>1, <2>1, <2>2
<1>9. ASSUME NEW c \in 1..v, NEW d \in 1..v, c < d PROVE C[c] < C[d]
  <2>0. c \in 1..w
    BY <1>c, <1>1, <1>9
  <2>1. CASE d \in 1..w
    BY <1>c, <1>9, <1>b, <2>0, <2>1 DEF Aligned, Ends
  <2>2. CASE d = w + 1 /\ v = w + 1
    <3>1. B[c] <= m
      <4>1. CASE c = w
        BY <1>c, <1>1, <4>1 DEF Aligned, Ends
      <4>2. CASE c < w
        <5>1. B[c] < B[w] /\ B[w] + Len(cs[w]) = m
          BY <1>c, <1>1, <2>0, <4>2 DEF Aligned, Ends
        <5> QED
          BY <1>c, <1>1, <2>0, <5>1
      <4> QED
        BY <1>c, <1>1, <2>0, <4>1, <4>2
    <3> QED
      BY <1>c, <1>1, <1>b, <2>0, <2>2, <3>1
  <2> QED
    BY <1>c, <1>1, <2>1, <2>2
<1>10. ASSUME NEW c \in 2..v PROVE \E k \in 1..Len(gr) : C[c] = G[k]
  <2>1. CASE c \in 2..w
    <3>1. PICK k \in 1..Len(fr) : B[c] = F[k]
      BY <1>c, <2>1 DEF Aligned, Ends
    <3>2. k \in 1..Len(gr) /\ k \in 0..Len(fr) /\ c \in 1..w
      BY <1>c, <1>1, <1>2, <2>1
    <3> QED
      BY <1>c, <1>b, <1>f, <3>1, <3>2
  <2>2. CASE c = v /\ v = w + 1
    <3>1. Len(fr) + 1 \in 1..Len(gr)
      BY <1>c, <1>1, <1>2
    <3> QED
      BY <1>c, <1>b, <1>f, <2>2, <3>1
  <2> QED
    BY <1>c, <1>1, <2>1, <2>2
<1>11. p < Len(ds[1]) \/ (p = 0 /\ v = 1 /\ Len(ds[1]) = 0)
  <2>1. p <= Len(cs[1]) /\ Len(cs[1]) \in Nat
    BY <1>c, <1>1, SizesFacts
  <2>2. CASE w = 1
    BY <1>c, <1>1, <2>1, <2>2
  <2>3. CASE w # 1
    <3>1. 1 \in 1..(w - 1)
      BY <1>c, <1>1, <2>3
    <3> QED
      BY <1>c, <2>3, <3>1 DEF Aligned, Ends
  <2> QED
    BY <1>c, <2>2, <2>3
<1>12. Aligned(C, G, ds, v, p, gr, m + n)
  <2>1. Ends(G, gr, m + n)
    BY <1>f, <1>4, <1>5, <1>6 DEF Ends
  <2> QED
    BY <1>b, <1>4, <1>7, <1>8, <1>9, <1>10, <1>11, <2>1 DEF Aligned
<1> QED
  BY <1>12 DEF C, G

\* n bytes of the front frame are done with; p + n stays in the first chunk.
FreedFrames(fr, n, gr) ==
  \/ n = fr[1].size /\ gr = Tail(fr)
  \/ /\ n # fr[1].size /\ Len(gr) = Len(fr)
     /\ gr[1].size = fr[1].size - n
     /\ \A k \in 2..Len(fr) : gr[k] = fr[k]

EndsAfter(F, fr, n) ==
  IF n = fr[1].size THEN [k \in 0..(Len(fr) - 1) |-> F[k + 1]]
                    ELSE [k \in 0..Len(fr) |-> IF k = 0 THEN F[0] + n ELSE F[k]]

LEMMA FreedEnds ==
  ASSUME NEW fr \in Seq(Frame), fr # <<>>, NEW m \in Nat,
         NEW F, Ends(F, fr, m),
         NEW n \in 1..fr[1].size, NEW gr \in Seq(Frame), FreedFrames(fr, n, gr)
  PROVE  LET G == EndsAfter(F, fr, n)
         IN  /\ Ends(G, gr, m) /\ G[0] = F[0] + n
             /\ \A k \in 1..Len(fr) : F[k] > F[0] + n =>
                  \E l \in 1..Len(gr) : F[k] = G[l]
<1> DEFINE G == EndsAfter(F, fr, n)
<1>1. Len(fr) \in Nat \ {0} /\ 1 \in 1..Len(fr) /\ 0 \in 0..Len(fr) /\ 1 \in 0..Len(fr)
  OBVIOUS
<1>F. /\ F \in [0..Len(fr) -> Nat] /\ F[Len(fr)] = m
      /\ \A k \in 1..Len(fr) : F[k] = F[k - 1] + fr[k].size
      /\ \A i, j \in 0..Len(fr) : i < j => F[i] < F[j]
  BY DEF Ends
<1>T. \A k \in 0..Len(fr) : F[k] \in Nat
  BY <1>F
<1>2. fr[1].size \in Nat \ {0} /\ n \in Nat \ {0} /\ n <= fr[1].size
  <2>1. fr[1] \in Frame
    BY <1>1
  <2> QED
    BY <2>1 DEF Frame
<1>3. F[0] \in Nat /\ F[1] \in Nat /\ F[1] = F[0] + fr[1].size
  <2>1. F[1] = F[1 - 1] + fr[1].size
    BY <1>F, <1>1
  <2> QED
    BY <1>T, <1>1, <2>1
<1>4. CASE n = fr[1].size
  <2>0. gr = Tail(fr)
    BY <1>F, <1>4 DEF FreedFrames
  <2>1. /\ Len(gr) = Len(fr) - 1
        /\ \A k \in 1..(Len(fr) - 1) : gr[k] = fr[k + 1]
    BY <1>F, <1>1, <2>0
  <2>2. /\ G = [k \in 0..Len(gr) |-> F[k + 1]]
        /\ \A k \in 0..Len(gr) : G[k] = F[k + 1] /\ k + 1 \in 0..Len(fr)
    BY <1>F, <1>1, <1>4, <2>1 DEF EndsAfter
  <2> HIDE DEF G
  <2>3. G \in [0..Len(gr) -> Nat] /\ G[0] = F[0] + n /\ G[Len(gr)] = m
    <3>1. 0 \in 0..Len(gr) /\ Len(gr) \in 0..Len(gr) /\ Len(gr) + 1 = Len(fr)
      BY <1>F, <1>1, <2>1
    <3>2. G[0] = F[1] /\ G[Len(gr)] = F[Len(fr)]
      BY <1>F, <2>2, <3>1
    <3>3. F[Len(fr)] = m
      BY <1>F
    <3>4. \A k \in 0..Len(gr) : F[k + 1] \in Nat
      BY <1>T, <2>2
    <3>5. G \in [0..Len(gr) -> Nat]
      BY <2>2, <3>4
    <3> QED
      BY <1>3, <1>4, <3>2, <3>3, <3>5
  <2>4. ASSUME NEW k \in 1..Len(gr) PROVE G[k] = G[k - 1] + gr[k].size
    <3>1. /\ k \in 0..Len(gr) /\ k - 1 \in 0..Len(gr) /\ k + 1 \in 1..Len(fr)
          /\ (k - 1) + 1 = (k + 1) - 1 /\ k \in 1..(Len(fr) - 1)
      BY <1>F, <1>1, <2>1
    <3>2. F[k + 1] = F[(k + 1) - 1] + fr[k + 1].size
      BY <1>F, <3>1
    <3> QED
      BY <1>F, <2>1, <2>2, <3>1, <3>2
  <2>5. ASSUME NEW i \in 0..Len(gr), NEW j \in 0..Len(gr), i < j PROVE G[i] < G[j]
    <3>1. i + 1 \in 0..Len(fr) /\ j + 1 \in 0..Len(fr) /\ i + 1 < j + 1
      BY <1>F, <2>2, <2>5
    <3> QED
      BY <1>F, <2>2, <3>1
  <2>6. ASSUME NEW k \in 1..Len(fr), F[k] > F[0] + n
        PROVE  \E l \in 1..Len(gr) : F[k] = G[l]
    <3>1. k # 1
      BY <1>F, <1>3, <1>4, <2>6
    <3>2. k - 1 \in 1..Len(gr) /\ k - 1 \in 0..Len(gr) /\ (k - 1) + 1 = k
      BY <1>F, <1>1, <2>1, <3>1
    <3> QED
      BY <1>F, <2>2, <3>2
  <2> QED
    BY <2>3, <2>4, <2>5, <2>6 DEF G, Ends
<1>5. CASE n # fr[1].size
  <2>1. /\ Len(gr) = Len(fr) /\ gr[1].size = fr[1].size - n
        /\ \A k \in 2..Len(fr) : gr[k] = fr[k]
    BY <1>F, <1>5 DEF FreedFrames
  <2>2. /\ G = [k \in 0..Len(gr) |-> IF k = 0 THEN F[0] + n ELSE F[k]]
        /\ G[0] = F[0] + n
        /\ \A k \in 1..Len(gr) : G[k] = F[k]
    BY <1>F, <1>1, <1>5, <2>1 DEF EndsAfter
  <2> HIDE DEF G
  <2>3. G \in [0..Len(gr) -> Nat] /\ G[Len(gr)] = m
    BY <1>F, <1>1, <1>2, <1>3, <2>1, <2>2
  <2>4. ASSUME NEW k \in 1..Len(gr) PROVE G[k] = G[k - 1] + gr[k].size
    <3>1. CASE k = 1
      BY <1>F, <1>1, <1>2, <1>3, <2>1, <2>2, <3>1
    <3>2. CASE k # 1
      <4>1. k \in 2..Len(fr) /\ k \in 1..Len(fr) /\ k - 1 \in 1..Len(gr)
        BY <1>F, <1>1, <2>1, <3>2
      <4> QED
        BY <1>F, <2>1, <2>2, <4>1
    <3> QED
      BY <3>1, <3>2
  <2>5. ASSUME NEW i \in 0..Len(gr), NEW j \in 0..Len(gr), i < j PROVE G[i] < G[j]
    <3>1. j \in 1..Len(gr) /\ G[j] = F[j] /\ j \in 0..Len(fr)
      BY <1>F, <2>1, <2>2, <2>5
    <3>2. CASE i = 0
      <4>1. F[1] <= F[j]
        <5>1. j = 1 \/ 1 < j
          BY <3>1
        <5>2. 1 < j => F[1] < F[j]
          BY <1>F, <1>1, <3>1
        <5>3. F[j] \in Nat
          BY <1>T, <3>1
        <5> QED
          BY <1>3, <5>1, <5>2, <5>3
      <4>2. F[0] + n < F[1] /\ F[j] \in Nat
        <5>1. F[j] \in Nat
          BY <1>T, <3>1
        <5>2. n < fr[1].size
          BY <1>F, <1>2, <1>5
        <5> QED
          BY <1>F, <1>2, <1>3, <5>1, <5>2
      <4> QED
        BY <1>F, <1>2, <1>3, <2>2, <3>1, <3>2, <4>1, <4>2
    <3>3. CASE i # 0
      <4>1. i \in 1..Len(gr) /\ G[i] = F[i] /\ i \in 0..Len(fr)
        BY <1>F, <2>1, <2>2, <3>3
      <4> QED
        BY <1>F, <2>5, <3>1, <4>1
    <3> QED
      BY <3>2, <3>3
  <2>6. ASSUME NEW k \in 1..Len(fr), F[k] > F[0] + n
        PROVE  \E l \in 1..Len(gr) : F[k] = G[l]
    BY <1>F, <2>1, <2>2
  <2> QED
    BY <2>2, <2>3, <2>4, <2>5, <2>6 DEF G, Ends
<1> QED
  BY <1>4, <1>5

FreedChunks(cs, w, p, n, ds, v, q) ==
  \/ p + n < Len(cs[1]) /\ ds = cs /\ v = w /\ q = p + n
  \/ p + n >= Len(cs[1]) /\ w = 1 /\ v = 1 /\ q = 0 /\ Len(ds[1]) = 0
  \/ /\ p + n >= Len(cs[1]) /\ w # 1 /\ v = w - 1 /\ q = 0
     /\ \A c \in 1..v : ds[c] = cs[c + 1]

LEMMA AlignFree ==
  ASSUME NEW cs, NEW w, NEW p, NEW fr, NEW m, Sizes(cs, w, p, fr, m),
         NEW B, NEW F, Aligned(B, F, cs, w, p, fr, m), fr # <<>>,
         NEW n \in 1..fr[1].size,
         NEW ds, NEW v, NEW q, NEW gr, Sizes(ds, v, q, gr, m),
         FreedFrames(fr, n, gr), FreedChunks(cs, w, p, n, ds, v, q)
  PROVE  \E C : Aligned(C, EndsAfter(F, fr, n), ds, v, q, gr, m)
<1> DEFINE G == EndsAfter(F, fr, n)
<1>1. /\ Ends(G, gr, m) /\ G[0] = F[0] + n
      /\ \A k \in 1..Len(fr) : F[k] > F[0] + n => \E l \in 1..Len(gr) : F[k] = G[l]
  <2>1. fr \in Seq(Frame) /\ gr \in Seq(Frame) /\ m \in Nat
    BY DEF Sizes
  <2>2. Ends(F, fr, m)
    BY DEF Aligned
  <2> QED
    BY <2>1, <2>2, FreedEnds
<1> HIDE DEF G
<1>2. /\ w \in Nat \ {0} /\ 1 \in 1..w /\ w \in 1..w /\ p \in Nat /\ m \in Nat
      /\ \A c \in 1..w : Len(cs[c]) \in Nat /\ B[c] \in Nat
  BY SizesFacts DEF Aligned, Ends
<1>3. /\ F[0] = B[1] + p /\ F[0] \in Nat /\ n \in Nat \ {0} /\ p + n <= Len(cs[1])
  <2>1. fr[1].size \in Nat /\ p + fr[1].size <= Len(cs[1])
    BY FrontFits, SizesFacts
  <2>2. F[0] = B[1] + p /\ B[1] \in Nat /\ Len(cs[1]) \in Nat
    BY <1>2 DEF Aligned, Ends
  <2> QED
    BY <1>2, <2>1, <2>2
<1>4. /\ B \in [1..w -> Nat] /\ B[w] + Len(cs[w]) = m
      /\ \A c \in 1..w : \A j \in 1..Len(cs[c]) : cs[c][j] = B[c] + j
      /\ \A c \in 1..(w - 1) : B[c + 1] = B[c] + Len(cs[c])
      /\ \A c, d \in 1..w : c < d => B[c] < B[d]
      /\ \A c \in 2..w : \E k \in 1..Len(fr) : B[c] = F[k]
  BY DEF Aligned, Ends
<1>l. Len(cs[1]) \in Nat /\ B[1] \in Nat
  BY <1>2
<1>5. w # 1 => /\ B[2] = B[1] + Len(cs[1]) /\ B[2] \in Nat
               /\ 2 \in 1..w /\ Len(cs[2]) \in Nat
  <2>1. w # 1 => 1 \in 1..(w - 1) /\ 1 + 1 = 2 /\ 2 \in 1..w
    BY <1>2
  <2> QED
    <3>1. ASSUME w # 1
          PROVE  /\ B[2] = B[1] + Len(cs[1]) /\ B[2] \in Nat
                 /\ 2 \in 1..w /\ Len(cs[2]) \in Nat
      <4>1. B[1 + 1] = B[1] + Len(cs[1])
        BY <1>4, <2>1, <3>1
      <4>2. Len(cs[2]) \in Nat /\ B[2] \in Nat
        BY <1>2, <2>1, <3>1
      <4> QED
        BY <2>1, <3>1, <4>1, <4>2
    <3> QED
      BY <3>1
<1>e. p + n >= Len(cs[1]) => p + n = Len(cs[1])
  <2>1. p + n \in Nat /\ p + n <= Len(cs[1])
    BY <1>2, <1>3
  <2> QED
    BY <1>l, <2>1
<1>6. CASE p + n < Len(cs[1]) /\ ds = cs /\ v = w /\ q = p + n
  <2>1. G[0] = B[1] + q
    BY <1>1, <1>2, <1>3, <1>6
  <2>2. ASSUME NEW c \in 2..w PROVE \E l \in 1..Len(gr) : B[c] = G[l]
    <3>1. PICK k \in 1..Len(fr) : B[c] = F[k]
      BY <1>4
    <3>2. B[2] <= B[c] /\ w # 1 /\ c \in 1..w
      <4>1. c \in 1..w /\ 2 \in 1..w /\ w # 1 /\ (c = 2 \/ 2 < c)
        BY <1>2
      <4> QED
        BY <1>2, <1>4, <4>1
    <3>3. F[0] + n < B[2] /\ B[c] \in Nat /\ B[2] \in Nat
      <4>1. F[0] + n = B[1] + (p + n)
        BY <1>2, <1>3, <1>l
      <4>2. B[1] + (p + n) < B[1] + Len(cs[1])
        BY <1>2, <1>3, <1>6, <1>l
      <4> QED
        BY <1>2, <1>5, <3>2, <4>1, <4>2
    <3>4. F[k] > F[0] + n
      BY <1>3, <3>1, <3>2, <3>3
    <3> QED
      BY <1>1, <3>1, <3>4
  <2>3. q < Len(ds[1])
    BY <1>6
  <2>4. Aligned(B, G, ds, v, q, gr, m)
    BY <1>1, <1>4, <1>6, <2>1, <2>2, <2>3 DEF Aligned
  <2> QED
    BY <2>4 DEF G
<1>7. CASE p + n >= Len(cs[1]) /\ w = 1 /\ v = 1 /\ q = 0 /\ Len(ds[1]) = 0
  <2> DEFINE C == [c \in 1..1 |-> m]
  <2>1. C \in [1..v -> Nat] /\ C[1] = m
    BY <1>2, <1>7
  <2> HIDE DEF C
  <2>2. G[0] = C[1] + q
    <3>1. B[1] \in Nat /\ Len(cs[1]) \in Nat /\ B[1] + Len(cs[1]) = m /\ p + n = Len(cs[1])
      BY <1>4, <1>7, <1>l, <1>e
    <3> QED
      BY <1>1, <1>2, <1>3, <1>7, <2>1, <3>1
  <2>3. C[v] + Len(ds[v]) = m
    BY <1>2, <1>7, <2>1
  <2>4. /\ \A c \in 1..v : \A j \in 1..Len(ds[c]) : ds[c][j] = C[c] + j
        /\ \A c \in 1..(v - 1) : C[c + 1] = C[c] + Len(ds[c])
        /\ \A c, d \in 1..v : c < d => C[c] < C[d]
        /\ \A c \in 2..v : \E k \in 1..Len(gr) : C[c] = G[k]
    BY <1>7
  <2>5. Aligned(C, G, ds, v, q, gr, m)
    BY <1>1, <1>7, <2>1, <2>2, <2>3, <2>4 DEF Aligned
  <2> QED
    BY <2>5 DEF G
<1>8. CASE /\ p + n >= Len(cs[1]) /\ w # 1 /\ v = w - 1 /\ q = 0
           /\ \A c \in 1..v : ds[c] = cs[c + 1]
  <2> DEFINE C == [c \in 1..v |-> B[c + 1]]
  <2>0. /\ v \in Nat \ {0} /\ 1 \in 1..v /\ v \in 1..v /\ v + 1 = w
        /\ \A c \in 1..v : c + 1 \in 1..w
    BY <1>2, <1>8
  <2>1. C \in [1..v -> Nat] /\ \A c \in 1..v : C[c] = B[c + 1]
    BY <1>2, <2>0
  <2> HIDE DEF C
  <2>2. G[0] = C[1] + q /\ G[0] = B[2]
    <3>1. /\ B[1] \in Nat /\ Len(cs[1]) \in Nat /\ p + n = Len(cs[1])
          /\ B[2] = B[1] + Len(cs[1]) /\ B[2] \in Nat
      BY <1>5, <1>8, <1>l, <1>e
    <3>2. C[1] = B[2]
      BY <2>0, <2>1
    <3> QED
      BY <1>1, <1>2, <1>3, <1>8, <3>1, <3>2
  <2>3. C[v] + Len(ds[v]) = m
    BY <1>4, <1>8, <2>0, <2>1
  <2>4. ASSUME NEW c \in 1..v, NEW j \in 1..Len(ds[c]) PROVE ds[c][j] = C[c] + j
    <3>1. c + 1 \in 1..w /\ ds[c] = cs[c + 1] /\ C[c] = B[c + 1]
      BY <1>8, <2>0, <2>1
    <3> QED
      BY <1>4, <2>4, <3>1
  <2>5. ASSUME NEW c \in 1..(v - 1) PROVE C[c + 1] = C[c] + Len(ds[c])
    <3>1. c \in 1..v /\ c + 1 \in 1..v /\ c + 1 \in 1..(w - 1)
      BY <2>0
    <3> QED
      BY <1>4, <1>8, <2>1, <3>1
  <2>6. ASSUME NEW c \in 1..v, NEW d \in 1..v, c < d PROVE C[c] < C[d]
    <3>1. c + 1 \in 1..w /\ d + 1 \in 1..w /\ c + 1 < d + 1
      BY <2>0, <2>6
    <3> QED
      BY <1>4, <2>1, <3>1
  <2>7. ASSUME NEW c \in 2..v PROVE \E l \in 1..Len(gr) : C[c] = G[l]
    <3>0. c \in 1..v /\ c + 1 \in 2..w /\ c + 1 \in 1..w /\ 2 < c + 1 /\ 2 \in 1..w
      BY <2>0
    <3>1. PICK k \in 1..Len(fr) : B[c + 1] = F[k]
      BY <1>4, <3>0
    <3>2. B[2] < B[c + 1]
      BY <1>4, <3>0
    <3>4. F[k] > F[0] + n
      BY <1>1, <2>2, <3>1, <3>2
    <3> QED
      BY <1>1, <2>1, <3>0, <3>1, <3>4
  <2>8. q < Len(ds[1]) \/ (q = 0 /\ v = 1 /\ Len(ds[1]) = 0)
    <3>1. ds[1] = cs[2] /\ 2 \in 1..w /\ Len(cs[2]) \in Nat
      BY <1>5, <1>8, <2>0
    <3>2. CASE v = 1
      <4>1. Len(ds[1]) = 0 \/ 0 < Len(ds[1])
        BY <3>1
      <4> QED
        BY <1>8, <3>2, <4>1
    <3>3. CASE v # 1
      <4>1. 2 \in 1..(w - 1) /\ 3 \in 1..w /\ 2 < 3
        BY <1>8, <2>0, <3>3
      <4>3. 2 + 1 = 3
        OBVIOUS
      <4>4. B[2 + 1] = B[2] + Len(cs[2])
        BY <1>4, <4>1
      <4>2. B[3] = B[2] + Len(cs[2]) /\ B[2] < B[3]
        BY <1>4, <3>1, <4>1, <4>3, <4>4
      <4> QED
        BY <1>5, <1>8, <3>1, <4>2
    <3> QED
      BY <3>2, <3>3
  <2>9. Aligned(C, G, ds, v, q, gr, m)
    BY <1>1, <2>1, <2>2, <2>3, <2>4, <2>5, <2>6, <2>7, <2>8 DEF Aligned
  <2> QED
    BY <2>9 DEF G
<1> QED
  BY <1>6, <1>7, <1>8 DEF FreedChunks

\* The n bytes after byte number a.
Run(a, n) == [j \in 1..n |-> a + j]

LEMMA RunSeq ==
  ASSUME NEW a \in Nat, NEW n \in Nat
  PROVE  /\ Run(a, n) \in Seq(Nat) /\ Len(Run(a, n)) = n
         /\ \A j \in 1..n : Run(a, n)[j] = a + j
  BY DEF Run

LEMMA RunIs ==
  ASSUME NEW a \in Nat, NEW n \in Nat, NEW s \in Seq(Nat), Len(s) = n,
         \A j \in 1..n : s[j] = a + j
  PROVE  s = Run(a, n)
<1>1. s = [j \in 1..Len(s) |-> s[j]]
  OBVIOUS
<1>2. s = [j \in 1..n |-> s[j]]
  BY <1>1
<1> QED
  BY <1>2 DEF Run

LEMMA RunCut ==
  ASSUME NEW a \in Nat, NEW n \in Nat, NEW i \in 0..n, NEW j \in i..n
  PROVE  SubSeq(Run(a, n), i + 1, j) = Run(a + i, j - i)
<1> DEFINE s == SubSeq(Run(a, n), i + 1, j)
<1>1. /\ Run(a, n) \in Seq(Nat) /\ Len(Run(a, n)) = n
      /\ \A k \in 1..n : Run(a, n)[k] = a + k
  BY RunSeq
<1>2. /\ s \in Seq(Nat) /\ Len(s) = j - i
      /\ \A k \in 1..(j - i) : s[k] = Run(a, n)[i + k]
  BY <1>1
<1> HIDE DEF s
<1>3. \A k \in 1..(j - i) : i + k \in 1..n /\ a + (i + k) = (a + i) + k
  OBVIOUS
<1>4. \A k \in 1..(j - i) : s[k] = (a + i) + k
  BY <1>1, <1>2, <1>3
<1>5. a + i \in Nat /\ j - i \in Nat
  OBVIOUS
<1>6. s = Run(a + i, j - i)
  BY <1>2, <1>4, <1>5, RunIs
<1> QED
  BY <1>6 DEF s

LEMMA Joined ==
  ASSUME NEW r \in Seq(Nat), NEW t \in Seq(Nat)
  PROVE  /\ r \o t \in Seq(Nat) /\ Len(r \o t) = Len(r) + Len(t)
         /\ \A j \in 1..Len(r) : (r \o t)[j] = r[j]
         /\ \A j \in 1..Len(t) : (r \o t)[Len(r) + j] = t[j]
  OBVIOUS

LEMMA RunJoin ==
  ASSUME NEW a \in Nat, NEW n \in Nat, NEW k \in Nat
  PROVE  Run(a, n) \o Run(a + n, k) = Run(a, n + k)
<1> DEFINE r == Run(a, n)
           t == Run(a + n, k)
           s == r \o t
<1>1. /\ r \in Seq(Nat) /\ Len(r) = n /\ \A j \in 1..n : r[j] = a + j
  BY RunSeq
<1>2. /\ t \in Seq(Nat) /\ Len(t) = k /\ \A j \in 1..k : t[j] = (a + n) + j
  <2>1. a + n \in Nat
    OBVIOUS
  <2> QED
    BY <2>1, RunSeq
<1> HIDE DEF r, t
<1>3. s \in Seq(Nat) /\ Len(s) = n + k
  <2>1. r \in Seq(Nat) /\ t \in Seq(Nat) /\ Len(r) = n /\ Len(t) = k
    BY <1>1, <1>2
  <2> QED
    BY <2>1, Joined
<1>4. ASSUME NEW j \in 1..(n + k) PROVE s[j] = a + j
  <2>1. CASE j <= n
    <3>1. j \in 1..Len(r) /\ j \in 1..n
      BY <1>1, <2>1
    <3>2. s[j] = r[j]
      BY <1>1, <1>2, <3>1
    <3> QED
      BY <1>1, <3>1, <3>2
  <2>2. CASE ~(j <= n)
    <3>1. j - n \in 1..k /\ Len(r) = n /\ (a + n) + (j - n) = a + j
      BY <1>1, <2>2
    <3>2. s[j] = t[j - n]
      BY <1>1, <1>2, <3>1, <2>2
    <3> QED
      BY <1>2, <3>1, <3>2
  <2> QED
    BY <2>1, <2>2
<1> HIDE DEF s
<1>5. s = Run(a, n + k)
  BY <1>3, <1>4, RunIs
<1> QED
  BY <1>5 DEF r, t, s

\* A set of naturals has a least member.
LEMMA Least ==
  ASSUME NEW S \in SUBSET Nat, S # {}
  PROVE  \E l \in S : \A n \in S : l <= n
<1> DEFINE R == OpToRel(<, Nat)
<1>1. IsWellFoundedOn(R, Nat)
  BY NatLessThanWellFounded
<1>2. \A l, n \in Nat : l < n => <<l, n>> \in R
  BY DEF OpToRel
<1> HIDE DEF R
<1>3. PICK l \in S : \A n \in S : ~(<<n, l>> \in R)
  BY <1>1, WFMin
<1>4. ASSUME NEW n \in S PROVE l <= n
  <2>1. l \in Nat /\ n \in Nat /\ ~(n < l)
    BY <1>2, <1>3
  <2> QED
    BY <2>1
<1> QED
  BY <1>4

\* FrameEnd sums the sizes of the first frames.
LEMMA EndOfFrame ==
  ASSUME NEW fr \in Seq(Frame), NEW m \in Nat, NEW F, Ends(F, fr, m), NEW k \in 0..Len(fr)
  PROVE  FrameEnd(fr, k) = F[k] - F[0]
<1> DEFINE Is(g) == g = [j \in 0..k |-> IF j = 0 THEN 0 ELSE g[j - 1] + fr[j].size]
           e     == [j \in 0..k |-> F[j] - F[0]]
           upTo  == CHOOSE g : Is(g)
<1>1. Len(fr) \in Nat /\ \A j \in 1..Len(fr) : fr[j].size \in Nat
  <2>1. ASSUME NEW j \in 1..Len(fr) PROVE fr[j].size \in Nat
    <3>1. fr[j] \in Frame
      OBVIOUS
    <3> QED
      BY <3>1 DEF Frame
  <2> QED
    BY <2>1
<1>2. /\ \A j \in 0..k : F[j] \in Nat
      /\ \A j \in 1..k : F[j] = F[j - 1] + fr[j].size /\ fr[j].size \in Nat
  <2>1. /\ F \in [0..Len(fr) -> Nat]
        /\ \A j \in 1..Len(fr) : F[j] = F[j - 1] + fr[j].size
    BY DEF Ends
  <2>2. /\ \A j \in 0..k : j \in 0..Len(fr)
        /\ \A j \in 1..k : j \in 1..Len(fr)
    BY <1>1
  <2> QED
    BY <1>1, <2>1, <2>2
<1>3. Is(e)
  <2>1. ASSUME NEW j \in 0..k
        PROVE  F[j] - F[0] = IF j = 0 THEN 0 ELSE e[j - 1] + fr[j].size
    <3>1. CASE j = 0
      BY <1>2, <3>1
    <3>2. CASE j # 0
      <4>1. j \in 1..k /\ j - 1 \in 0..k /\ 0 \in 0..k
        BY <3>2
      <4>2. e[j - 1] = F[j - 1] - F[0]
        BY <4>1
      <4> QED
        BY <1>2, <3>2, <4>1, <4>2
    <3> QED
      BY <3>1, <3>2
  <2> QED
    BY <2>1
<1>4. Is(upTo)
  BY <1>3
<1>5. FrameEnd(fr, k) = upTo[k]
  BY DEF FrameEnd
<1> HIDE DEF upTo, e
<1> DEFINE Odd == {j \in Nat : j <= k /\ upTo[j] # F[j] - F[0]}
<1>6. ASSUME Odd # {} PROVE FALSE
  <2>0. Odd \in SUBSET Nat
    OBVIOUS
  <2>1. PICK l \in Odd : \A n \in Odd : l <= n
    BY <1>6, <2>0, Least
  <2>2. l # 0
    BY <1>2, <1>4, <2>1
  <2>3. l \in 1..k /\ l - 1 \in Nat /\ l - 1 <= k /\ ~(l <= l - 1)
    BY <2>1, <2>2
  <2>4. upTo[l - 1] = F[l - 1] - F[0]
    BY <2>1, <2>3
  <2>5. upTo[l] = upTo[l - 1] + fr[l].size
    BY <1>4, <2>2, <2>3
  <2>6. F[l] = F[l - 1] + fr[l].size /\ F[l - 1] \in Nat /\ F[0] \in Nat /\ fr[l].size \in Nat
    BY <1>2, <2>3
  <2> QED
    BY <2>1, <2>4, <2>5, <2>6
<1> QED
  BY <1>5, <1>6

\* The unread bytes are the last ones committed, in order.
LEMMA BytesRead ==
  ASSUME NEW cs, NEW w, NEW p, NEW fr, NEW m, Sizes(cs, w, p, fr, m),
         NEW B, NEW F, Aligned(B, F, cs, w, p, fr, m)
  PROVE  F[0] \in Nat /\ m - F[0] \in Nat /\ BytesFrom(cs, p, w) = Run(F[0], m - F[0])
<1> DEFINE Upto(c) == Run(F[0], B[c] + Len(cs[c]) - F[0])
           Is(g)   == g = [c \in 1..w |->
                             IF c = 1 THEN SubSeq(cs[1], p + 1, Len(cs[1]))
                                      ELSE g[c - 1] \o cs[c]]
           e       == [c \in 1..w |-> Upto(c)]
           from    == CHOOSE g : Is(g)
<1>1. /\ w \in Nat \ {0} /\ 1 \in 1..w /\ w \in 1..w /\ p \in Nat /\ m \in Nat
      /\ \A c \in 1..w : cs[c] \in Seq(Nat) /\ Len(cs[c]) \in Nat /\ B[c] \in Nat
      /\ p <= Len(cs[1])
  <2>1. B \in [1..w -> Nat]
    BY DEF Aligned
  <2> QED
    BY <2>1, SizesFacts
<1>2. /\ F[0] = B[1] + p /\ B[w] + Len(cs[w]) = m
      /\ \A c \in 1..w : \A j \in 1..Len(cs[c]) : cs[c][j] = B[c] + j
      /\ \A c \in 1..(w - 1) : B[c + 1] = B[c] + Len(cs[c])
      /\ \A c, d \in 1..w : c < d => B[c] < B[d]
  BY DEF Aligned
<1>l. Len(cs[1]) \in Nat /\ B[1] \in Nat /\ F[0] \in Nat
  BY <1>1, <1>2
<1>3. ASSUME NEW c \in 1..w
      PROVE  B[c] + Len(cs[c]) - F[0] \in Nat /\ (c # 1 => B[c] - F[0] \in Nat)
  <2>1. CASE c = 1
    BY <1>1, <1>2, <1>l, <2>1
  <2>2. CASE c # 1
    <3>1. 1 \in 1..(w - 1) /\ 1 + 1 = 2 /\ 2 \in 1..w /\ (c = 2 \/ 2 < c)
      BY <1>1, <2>2
    <3>2. B[2] = B[1] + Len(cs[1])
      BY <1>2, <3>1
    <3>3. B[2] <= B[c]
      BY <1>1, <1>2, <3>1
    <3>4. B[c] \in Nat /\ Len(cs[c]) \in Nat
      BY <1>1
    <3>5. F[0] <= B[c]
      BY <1>1, <1>2, <1>l, <3>2, <3>3, <3>4
    <3> QED
      BY <1>l, <3>4, <3>5
  <2> QED
    BY <2>1, <2>2
<1>4. ASSUME NEW c \in 1..w, c # 1 PROVE Upto(c) = Upto(c - 1) \o cs[c]
  <2>1. c - 1 \in 1..(w - 1) /\ (c - 1) + 1 = c
    BY <1>1, <1>4
  <2>2. B[c] = B[c - 1] + Len(cs[c - 1])
    BY <1>2, <2>1
  <2>3. B[c] \in Nat /\ Len(cs[c]) \in Nat /\ cs[c] \in Seq(Nat) /\ B[c] - F[0] \in Nat
    BY <1>1, <1>3, <1>4
  <2>4. cs[c] = Run(B[c], Len(cs[c]))
    BY <1>2, <2>3, RunIs
  <2>5. F[0] + (B[c] - F[0]) = B[c]
    BY <1>l, <2>3
  <2>6. Run(F[0], B[c] - F[0]) \o Run(F[0] + (B[c] - F[0]), Len(cs[c]))
          = Run(F[0], (B[c] - F[0]) + Len(cs[c]))
    BY <1>l, <2>3, RunJoin
  <2>7. (B[c] - F[0]) + Len(cs[c]) = B[c] + Len(cs[c]) - F[0]
    BY <1>l, <2>3
  <2>8. Upto(c - 1) = Run(F[0], B[c] - F[0])
    <3>0. /\ B[c - 1] \in Nat /\ Len(cs[c - 1]) \in Nat /\ B[c] \in Nat
          /\ F[0] \in Nat
      BY <1>1, <1>l, <2>1, <2>3
    <3>1. B[c - 1] + Len(cs[c - 1]) - F[0] = B[c] - F[0]
      BY <2>2, <3>0
    <3> QED
      BY <3>1
  <2>9. Upto(c) = Run(F[0], (B[c] - F[0]) + Len(cs[c]))
    BY <2>7
  <2> QED
    BY <2>4, <2>5, <2>6, <2>8, <2>9
<1>5. Upto(1) = SubSeq(cs[1], p + 1, Len(cs[1]))
  <2>1. cs[1] = Run(B[1], Len(cs[1]))
    BY <1>1, <1>2, <1>l, RunIs
  <2>2. p \in 0..Len(cs[1]) /\ Len(cs[1]) \in p..Len(cs[1])
    BY <1>1, <1>l
  <2>3. SubSeq(Run(B[1], Len(cs[1])), p + 1, Len(cs[1])) = Run(B[1] + p, Len(cs[1]) - p)
    BY <1>l, <2>2, RunCut
  <2>4. Len(cs[1]) - p = B[1] + Len(cs[1]) - F[0]
    BY <1>1, <1>2, <1>l
  <2> QED
    BY <1>2, <2>1, <2>3, <2>4
<1> HIDE DEF Upto
<1>6. Is(e)
  <2>1. ASSUME NEW c \in 1..w
        PROVE  Upto(c) = IF c = 1 THEN SubSeq(cs[1], p + 1, Len(cs[1])) ELSE e[c - 1] \o cs[c]
    <3>1. CASE c = 1
      BY <1>5, <3>1
    <3>2. CASE c # 1
      <4>1. c - 1 \in 1..w
        BY <1>1, <3>2
      <4>2. e[c - 1] = Upto(c - 1)
        BY <4>1
      <4> QED
        BY <1>4, <3>2, <4>2
    <3> QED
      BY <3>1, <3>2
  <2> QED
    BY <2>1
<1>7. Is(from)
  BY <1>6
<1>8. BytesFrom(cs, p, w) = from[w]
  BY DEF BytesFrom
<1> HIDE DEF from, e
<1> DEFINE Odd == {c \in Nat : c \in 1..w /\ from[c] # Upto(c)}
<1>9. ASSUME Odd # {} PROVE FALSE
  <2>0. Odd \in SUBSET Nat
    OBVIOUS
  <2>1. PICK l \in Odd : \A n \in Odd : l <= n
    BY <1>9, <2>0, Least
  <2>2. l # 1
    BY <1>1, <1>5, <1>7, <2>1
  <2>3. l \in 1..w /\ l - 1 \in 1..w /\ l - 1 \in Nat /\ ~(l <= l - 1)
    BY <1>1, <2>1, <2>2
  <2>4. from[l - 1] = Upto(l - 1)
    BY <2>1, <2>3
  <2>5. from[l] = from[l - 1] \o cs[l]
    BY <1>7, <2>2, <2>3
  <2> QED
    BY <1>4, <2>1, <2>2, <2>3, <2>4, <2>5
<1>10. from[w] = Upto(w)
  BY <1>1, <1>9
<1> QED
  <2>0. B[w] + Len(cs[w]) = m
    BY <1>2
  <2>1. B[w] + Len(cs[w]) - F[0] = m - F[0]
    <3>1. B[w] \in Nat /\ Len(cs[w]) \in Nat /\ F[0] \in Nat
      BY <1>1, <1>l
    <3> QED
      BY <2>0, <3>1
  <2>2. Upto(w) = Run(F[0], m - F[0])
    BY <2>1 DEF Upto
  <2>3. m - F[0] \in Nat
    BY <1>1, <1>3, <2>1
  <2> QED
    BY <1>8, <1>10, <1>l, <2>2, <2>3

\* Each frame's share is the run of bytes committed with it.
Numbered(F, fr) ==
  [k \in 1..Len(fr) |->
     [bytes |-> Run(F[k - 1], fr[k].size), fd |-> fr[k].fd, kill |-> fr[k].kill]]

LEMMA SharesAre ==
  ASSUME NEW cs, NEW w, NEW p, NEW fr, NEW m, Sizes(cs, w, p, fr, m),
         NEW B, NEW F, Aligned(B, F, cs, w, p, fr, m)
  PROVE  Shares(BytesFrom(cs, p, w), fr) = Numbered(F, fr)
<1>1. F[0] \in Nat /\ m - F[0] \in Nat /\ BytesFrom(cs, p, w) = Run(F[0], m - F[0])
  BY BytesRead
<1>2. ASSUME NEW k \in 1..Len(fr)
      PROVE  SubSeq(Run(F[0], m - F[0]), FrameEnd(fr, k - 1) + 1, FrameEnd(fr, k))
               = Run(F[k - 1], fr[k].size)
  <2>1. /\ k \in 0..Len(fr) /\ k - 1 \in 0..Len(fr) /\ fr[k].size \in Nat /\ m \in Nat
        /\ 0 \in 0..Len(fr) /\ Len(fr) \in 0..Len(fr) /\ Len(fr) \in Nat
    BY SizesFacts
  <2>0. fr \in Seq(Frame) /\ Ends(F, fr, m)
    BY DEF Sizes, Aligned
  <2>2. FrameEnd(fr, k - 1) = F[k - 1] - F[0] /\ FrameEnd(fr, k) = F[k] - F[0]
    BY <2>0, <2>1, EndOfFrame
  <2>3. /\ F[k - 1] \in Nat /\ F[k] \in Nat /\ F[k] = F[k - 1] + fr[k].size
        /\ \A i, j \in 0..Len(fr) : i < j => F[i] < F[j]
        /\ F[Len(fr)] = m
    BY <2>0, <2>1 DEF Ends
  <2>4. F[0] <= F[k - 1]
    <3>1. k - 1 = 0 \/ 0 < k - 1
      BY <2>1
    <3> QED
      BY <1>1, <2>1, <2>3, <3>1
  <2>5. F[k] <= m
    <3>1. k = Len(fr) \/ k < Len(fr)
      BY <2>1
    <3>2. k < Len(fr) => F[k] < F[Len(fr)]
      BY <2>1, <2>3
    <3> QED
      BY <2>1, <2>3, <3>1, <3>2
  <2>6. F[k - 1] - F[0] \in 0..(m - F[0]) /\ F[k] - F[0] \in (F[k - 1] - F[0])..(m - F[0])
    <3>1. /\ F[0] \in Nat /\ F[k - 1] \in Nat /\ F[k] \in Nat /\ m \in Nat
          /\ fr[k].size \in Nat /\ F[k] = F[k - 1] + fr[k].size
      BY <1>1, <2>1, <2>3
    <3> QED
      BY <3>1, <2>4, <2>5
  <2>7. SubSeq(Run(F[0], m - F[0]), (F[k - 1] - F[0]) + 1, F[k] - F[0])
          = Run(F[0] + (F[k - 1] - F[0]), (F[k] - F[0]) - (F[k - 1] - F[0]))
    <3> DEFINE a == F[0]  n == m - F[0]  i == F[k - 1] - F[0]  j == F[k] - F[0]
    <3>1. a \in Nat /\ n \in Nat /\ i \in 0..n /\ j \in i..n
      BY <1>1, <2>6
    <3> HIDE DEF a, n, i, j
    <3>2. SubSeq(Run(a, n), i + 1, j) = Run(a + i, j - i)
      BY <3>1, RunCut
    <3> QED
      BY <3>2 DEF a, n, i, j
  <2>8. /\ F[0] + (F[k - 1] - F[0]) = F[k - 1]
        /\ (F[k] - F[0]) - (F[k - 1] - F[0]) = fr[k].size
    <3>1. /\ F[0] \in Nat /\ F[k - 1] \in Nat /\ F[k] \in Nat
          /\ fr[k].size \in Nat /\ F[k] = F[k - 1] + fr[k].size
      BY <1>1, <2>1, <2>3
    <3> QED
      BY <3>1
  <2> QED
    BY <2>2, <2>7, <2>8
<1> QED
  BY <1>1, <1>2 DEF Shares, Numbered

-----------------------------------------------------------------------------
AlignedNow == \E B, F : Aligned(B, F, chunks, writeIt, pRead, frames, made)

\* Committing a frame keeps chunks and frames aligned.
LEMMA SecureAligned ==
  ASSUME BufferInv, BufferInv', NEW B, NEW F,
         Aligned(B, F, chunks, writeIt, pRead, frames, made),
         NEW n \in 1..Room, NEW fd \in Fds, NEW kill \in BOOLEAN,
         SecureWrite(n, fd, kill), pRead' = pRead
  PROVE  \E C : Aligned(C, EndsWith(F, frames, made + n),
                        chunks', writeIt', pRead', frames', made')
<1> DEFINE f  == [size |-> n, fd |-> fd, kill |-> kill]
           written == chunks[writeIt] \o [k \in 1..n |-> made + k]
           stored  == [chunks EXCEPT ![writeIt] = written]
<1>1. /\ Sizes(chunks, writeIt, pRead, frames, made)
      /\ Sizes(chunks', writeIt', pRead', frames', made')
  BY DEF BufferInv, TypeOK, Sizes
<1>2. /\ chunks \in Seq(Seq(Nat)) /\ Len(chunks) \in Nat \ {0}
      /\ writeIt \in 1..Len(chunks) /\ made \in Nat
      /\ \A c \in 1..Len(chunks) : chunks[c] \in Seq(Nat) /\ Len(chunks[c]) \in Nat
      /\ n \in Nat \ {0}
  <2>1. /\ chunks \in Seq(Seq(Nat)) /\ writeIt \in 1..Len(chunks) /\ made \in Nat
    BY DEF BufferInv, TypeOK
  <2>2. /\ Len(chunks) \in Nat \ {0}
        /\ \A c \in 1..Len(chunks) : chunks[c] \in Seq(Nat) /\ Len(chunks[c]) \in Nat
    BY <2>1
  <2>3. Room \in Int
    BY <2>1, <2>2, SizesAssumption DEF Room
  <2> QED
    BY <2>1, <2>2, <2>3
<1>3. f \in Frame /\ f.size = n
  BY <1>2 DEF Frame
<1>4. frames' = Append(frames, f) /\ made' = made + n
  BY DEF SecureWrite
<1> HIDE DEF f
<1>5. /\ Len(written) = Len(chunks[writeIt]) + n
      /\ \A j \in 1..Len(chunks[writeIt]) : written[j] = chunks[writeIt][j]
      /\ \A j \in 1..n : written[Len(chunks[writeIt]) + j] = made + j
  <2> DEFINE t == [k \in 1..n |-> made + k]
  <2>1. t \in Seq(Nat) /\ Len(t) = n /\ \A j \in 1..n : t[j] = made + j
    BY <1>2
  <2> HIDE DEF t
  <2>2. chunks[writeIt] \in Seq(Nat)
    BY <1>2
  <2>3. written = chunks[writeIt] \o t
    BY DEF t
  <2> HIDE DEF written
  <2> QED
    BY <2>1, <2>2, <2>3, Joined
<1>6. /\ DOMAIN stored = 1..Len(chunks) /\ Len(stored) = Len(chunks)
      /\ stored[writeIt] = written /\ stored \in Seq(Seq(Nat)) /\ stored # <<>>
      /\ \A c \in 1..Len(chunks) : c # writeIt => stored[c] = chunks[c]
  <2>1. written \in Seq(Nat)
    <3>1. [k \in 1..n |-> made + k] \in Seq(Nat) /\ chunks[writeIt] \in Seq(Nat)
      BY <1>2
    <3> QED
      BY <3>1
  <2> HIDE DEF written
  <2> QED
    BY <1>2, <2>1
<1> HIDE DEF written
<1>7. \/ chunks' = stored /\ writeIt' = writeIt
      \/ /\ writeIt' = writeIt + 1
         /\ writeIt = Len(chunks) => chunks' = Append(stored, <<>>)
         /\ writeIt # Len(chunks) => chunks' = stored
  BY <1>6 DEF SecureWrite, NewChunk, stored, written
<1> HIDE DEF stored
<1>8. /\ chunks'[writeIt] = written
      /\ \A c \in 1..(writeIt - 1) : chunks'[c] = chunks[c]
  <2>1. \A c \in 1..Len(chunks) : chunks'[c] = stored[c]
    <3>1. \A c \in 1..Len(stored) : Append(stored, <<>>)[c] = stored[c]
      BY <1>6, ChunkLists
    <3> QED
      BY <1>6, <1>7, <3>1
  <2>2. \A c \in 1..(writeIt - 1) : c \in 1..Len(chunks) /\ c # writeIt
    BY <1>2
  <2> QED
    BY <1>2, <1>6, <2>1, <2>2
<1>9. writeIt' = writeIt \/ (writeIt' = writeIt + 1 /\ Len(chunks'[writeIt']) = 0)
  <2>0. Len(<<>>) = 0
    OBVIOUS
  <2>1. CASE writeIt' = writeIt + 1 /\ writeIt = Len(chunks) /\ chunks' = Append(stored, <<>>)
    BY <1>6, <2>0, <2>1, ChunkLists
  <2>2. CASE writeIt' = writeIt + 1 /\ writeIt # Len(chunks) /\ chunks' = stored
    <3>1. writeIt + 1 \in 1..Len(chunks) /\ writeIt + 1 > writeIt /\ writeIt + 1 # writeIt
      BY <1>2, <2>2
    <3>2. stored[writeIt + 1] = <<>>
      BY <1>6, <3>1 DEF BufferInv, SpareEmpty
    <3> QED
      BY <2>0, <2>2, <3>2
  <2> QED
    BY <1>7, <2>1, <2>2
<1>10. Aligned(BeginsWith(B, writeIt, writeIt', made + n), EndsWith(F, frames, made + n),
               chunks', writeIt', pRead, frames', made + n)
  <2>1. /\ Len(chunks'[writeIt]) = Len(chunks[writeIt]) + n
        /\ \A j \in 1..Len(chunks[writeIt]) : chunks'[writeIt][j] = chunks[writeIt][j]
        /\ \A j \in 1..n : chunks'[writeIt][Len(chunks[writeIt]) + j] = made + j
    BY <1>5, <1>8
  <2>2. Sizes(chunks', writeIt', pRead, frames', made + n)
    BY <1>1, <1>4
  <2>3. Committed(chunks, writeIt, frames, made, n, chunks', writeIt', frames')
    BY <1>3, <1>4, <1>8, <1>9, <2>1 DEF Committed
  <2> QED
    BY <1>1, <1>2, <2>2, <2>3, AlignAppend
<1> QED
  BY <1>4, <1>10

\* So does giving bytes of the front frame back.
LEMMA FreeAligned ==
  ASSUME BufferInv, BufferInv', NEW B, NEW F,
         Aligned(B, F, chunks, writeIt, pRead, frames, made),
         frames # <<>>, NEW n \in 1..frames[1].size, FreeRead(n), made' = made
  PROVE  \E C : Aligned(C, EndsAfter(F, frames, n),
                        chunks', writeIt', pRead', frames', made')
<1>1. /\ Sizes(chunks, writeIt, pRead, frames, made)
      /\ Sizes(chunks', writeIt', pRead', frames', made)
  BY DEF BufferInv, TypeOK, Sizes
<1>2. /\ chunks \in Seq(Seq(Nat)) /\ Len(chunks) \in Nat \ {0} /\ chunks # <<>>
      /\ writeIt \in 1..Len(chunks) /\ pRead \in Nat /\ Len(chunks[1]) \in Nat
  <2>1. /\ chunks \in Seq(Seq(Nat)) /\ writeIt \in 1..Len(chunks)
        /\ pRead \in 0..Len(chunks[1])
    BY DEF BufferInv, TypeOK
  <2>2. Len(chunks) \in Nat \ {0} /\ chunks # <<>> /\ 1 \in 1..Len(chunks)
    BY <2>1
  <2>3. chunks[1] \in Seq(Nat)
    BY <2>1, <2>2
  <2> QED
    BY <2>1, <2>2, <2>3
<1>f. /\ frames \in Seq(Frame) /\ Head(frames) = frames[1] /\ 1 \in 1..Len(frames)
      /\ frames[1] \in Frame /\ frames[1].size \in Nat \ {0}
  BY FrontFrame DEF BufferInv, TypeOK
<1>3. FreedFrames(frames, n, frames')
  <2>1. CASE n = frames[1].size
    BY <1>f, <2>1 DEF FreeRead, FreedFrames
  <2>2. CASE n # frames[1].size
    <3>1. frames' = [frames EXCEPT ![1].size = @ - n]
      BY <1>f, <2>2 DEF FreeRead
    <3>2. /\ Len(frames') = Len(frames)
          /\ frames'[1] = [frames[1] EXCEPT !.size = @ - n]
          /\ \A k \in 2..Len(frames) : frames'[k] = frames[k]
      BY <1>f, <3>1
    <3>3. frames'[1].size = frames[1].size - n
      BY <1>f, <3>2 DEF Frame
    <3> QED
      BY <2>2, <3>2, <3>3 DEF FreedFrames
  <2> QED
    BY <2>1, <2>2
<1>4. FreedChunks(chunks, writeIt, pRead, n, chunks', writeIt', pRead')
  <2>1. CASE ~ReadToEnd(pRead + n)
    <3>1. pRead + n < Len(chunks[1])
      BY <1>2, <2>1 DEF ReadToEnd
    <3> QED
      BY <2>1, <3>1 DEF FreeRead, FreedChunks
  <2>2. CASE ReadToEnd(pRead + n) /\ writeIt = 1
    <3>1. pRead' = 0 /\ chunks' = [chunks EXCEPT ![1] = <<>>] /\ writeIt' = writeIt
      BY <2>2 DEF FreeRead
    <3>2. chunks'[1] = <<>> /\ Len(<<>>) = 0
      BY <1>2, <3>1
    <3> QED
      BY <2>2, <3>1, <3>2 DEF FreedChunks, ReadToEnd
  <2>3. CASE ReadToEnd(pRead + n) /\ writeIt # 1
    <3>1. pRead' = 0 /\ chunks' = Recycle /\ writeIt' = writeIt - 1
      BY <2>3 DEF FreeRead
    <3>2. /\ Tail(chunks) \in Seq(Seq(Nat)) /\ Len(Tail(chunks)) = Len(chunks) - 1
          /\ \A c \in 1..(Len(chunks) - 1) : Tail(chunks)[c] = chunks[c + 1]
      <4>1. chunks \in Seq(Seq(Nat)) /\ chunks # <<>>
        BY <1>2
      <4> QED
        BY <4>1, ChunkLists
    <3>3. Tail(chunks) # <<>>
      <4>1. Len(chunks) - 1 # 0 /\ Len(<<>>) = 0
        <5>1. writeIt \in Nat /\ Len(chunks) \in Nat /\ 2 <= writeIt /\ writeIt <= Len(chunks)
          <6>1. writeIt \in 1..Len(chunks) /\ Len(chunks) \in Nat /\ writeIt # 1
            BY <1>2, <2>3
          <6> QED
            BY <6>1
        <5>2. 2 <= Len(chunks)
          BY <5>1
        <5>3. \A k \in Nat : 2 <= k => k - 1 # 0
          OBVIOUS
        <5>4. Len(<<>>) = 0
          OBVIOUS
        <5> QED
          BY <5>1, <5>2, <5>3, <5>4
      <4> QED
        BY <3>2, <4>1
    <3>4. \A c \in 1..(Len(chunks) - 1) : Append(Tail(chunks), <<>>)[c] = Tail(chunks)[c]
      BY <3>2, <3>3, ChunkLists
    <3>5. \A c \in 1..(writeIt - 1) : c \in 1..(Len(chunks) - 1)
      BY <1>2
    <3>6. \A c \in 1..(writeIt - 1) : chunks'[c] = chunks[c + 1]
      BY <3>1, <3>2, <3>4, <3>5 DEF Recycle
    <3> QED
      BY <2>3, <3>1, <3>6 DEF FreedChunks, ReadToEnd
  <2> QED
    BY <2>1, <2>2, <2>3
<1> QED
  BY <1>1, <1>3, <1>4, AlignFree

\* The two steps of the buffer that move bytes, as every action takes them.
LEMMA WholeInvariance == Spec => [](BufferInv /\ AlignedNow)
<1>1. Init => AlignedNow
  <2> SUFFICES ASSUME Init
               PROVE  AlignedNow
    OBVIOUS
  <2>1. /\ chunks = << <<>> >> /\ writeIt = 1 /\ pRead = 0 /\ frames = <<>>
        /\ made = 0
    BY DEF Init
  <2>2. Len(<<>>) = 0 /\ << <<>> >>[1] = <<>>
    OBVIOUS
  <2> DEFINE B == [c \in 1..1 |-> 0]
             F == [k \in 0..0 |-> 0]
  <2>3. B \in [1..1 -> Nat] /\ B[1] = 0 /\ F \in [0..0 -> Nat] /\ F[0] = 0
    OBVIOUS
  <2> HIDE DEF B, F
  <2>4. Ends(F, <<>>, 0)
    BY <2>2, <2>3 DEF Ends
  <2>5. Aligned(B, F, << <<>> >>, 1, 0, <<>>, 0)
    BY <2>2, <2>3, <2>4 DEF Aligned
  <2> QED
    BY <2>1, <2>5 DEF AlignedNow
<1>2. ASSUME BufferInv, BufferInv', AlignedNow, [Next]_vars
      PROVE  AlignedNow'
  <2>1. PICK B, F : Aligned(B, F, chunks, writeIt, pRead, frames, made)
    BY <1>2 DEF AlignedNow
  <2>f. ASSUME frames # <<>>
        PROVE  Head(frames) = frames[1] /\ frames[1].size \in Nat \ {0}
    BY <1>2, <2>f, FrontFrame DEF BufferInv, TypeOK
  <2>2. CASE Secure
    <3>1. PICK n \in 1..Room, fd \in Fds, kill \in BOOLEAN : SecureWrite(n, fd, kill)
      BY <2>2 DEF Secure
    <3>2. pRead' = pRead
      BY <2>2 DEF Secure
    <3> QED
      BY <1>2, <2>1, <3>1, <3>2, SecureAligned DEF AlignedNow
  <2>3. CASE TransmitAll \/ TransmitShort \/ TransmitBroken
    <3>1. frames # <<>> /\ made' = made
      BY <2>3 DEF TransmitAll, TransmitShort, TransmitBroken, WriteBlock
    <3>2. PICK n \in 1..frames[1].size : FreeRead(n)
      BY <2>3, <2>f, <3>1 DEF TransmitAll, TransmitShort, TransmitBroken, WriteBlock
    <3> QED
      BY <1>2, <2>1, <3>1, <3>2, FreeAligned DEF AlignedNow
  <2>4. CASE TransmitBegin \/ TransmitThrow \/ TransmitDone \/ UNCHANGED vars
    <3>1. UNCHANGED <<chunks, writeIt, pRead, frames, made>>
      BY <2>4 DEF TransmitBegin, TransmitThrow, TransmitDone, vars
    <3> QED
      BY <2>1, <3>1 DEF AlignedNow
  <2> QED
    BY <1>2, <2>2, <2>3, <2>4 DEF Next
<1> QED
  BY <1>1, <1>2, BufferInvariance, PTL DEF Spec

\* The block handed to write() lies within its chunk and transmit() tells its
\* caller the truth about whether frames wait (transceiver.hpp 237-254).
THEOREM ReadSpotAlways == Spec => []ReadSpotRight
<1>1. BufferInv /\ AlignedNow => ReadSpotRight
  <2> SUFFICES ASSUME BufferInv, AlignedNow
               PROVE  ReadSpotRight
    OBVIOUS
  <2>1. PICK B, F : Aligned(B, F, chunks, writeIt, pRead, frames, made)
    BY DEF AlignedNow
  <2>2. Sizes(chunks, writeIt, pRead, frames, made)
    BY DEF BufferInv, TypeOK, Sizes
  <2>3. FrontFrameInChunk
    <3>1. ASSUME frames # <<>>
          PROVE  pRead + Head(frames).size <= Len(chunks[1])
      <4>1. Head(frames) = frames[1]
        BY <3>1, FrontFrame DEF BufferInv, TypeOK
      <4> QED
        BY <2>1, <2>2, <3>1, <4>1, FrontFits
    <3> QED
      BY <3>1 DEF FrontFrameInChunk
  <2>4. EmptyAgrees
    BY <2>1, <2>2, EmptyRight DEF EmptyAgrees, Empty
  <2> QED
    BY <2>3, <2>4 DEF ReadSpotRight
<1> QED
  BY <1>1, WholeInvariance, PTL

-----------------------------------------------------------------------------
(* The chunks implement the frame queue.                                   *)

Queued == [bytes : Seq(Nat), fd : Fds, kill : BOOLEAN]

Entry(a, n, fd, kill) == [bytes |-> Run(a, n), fd |-> fd, kill |-> kill]

LEMMA EntryFields ==
  ASSUME NEW a \in Nat, NEW n \in Nat, NEW fd \in Fds, NEW kill \in BOOLEAN
  PROVE  /\ Entry(a, n, fd, kill) \in Queued
         /\ Entry(a, n, fd, kill).bytes = Run(a, n)
         /\ Entry(a, n, fd, kill).fd = fd
         /\ Entry(a, n, fd, kill).kill = kill
         /\ Len(Entry(a, n, fd, kill).bytes) = n
  BY RunSeq DEF Entry, Queued

LEMMA FrameFields ==
  ASSUME NEW f \in Frame
  PROVE  f.size \in Nat \ {0} /\ f.fd \in Fds /\ f.kill \in BOOLEAN
  BY DEF Frame

LEMMA SameQueue ==
  ASSUME NEW q \in Seq(Queued), NEW r \in Seq(Queued), Len(q) = Len(r),
         \A k \in 1..Len(q) : q[k] = r[k]
  PROVE  q = r
<1>1. q = [k \in 1..Len(q) |-> q[k]] /\ r = [k \in 1..Len(r) |-> r[k]]
  OBVIOUS
<1> QED
  BY <1>1

LEMMA NumberedQueue ==
  ASSUME NEW fr \in Seq(Frame), NEW m \in Nat, NEW F, Ends(F, fr, m)
  PROVE  /\ Numbered(F, fr) \in Seq(Queued) /\ Len(Numbered(F, fr)) = Len(fr)
         /\ \A k \in 1..Len(fr) :
              /\ fr[k] \in Frame /\ F[k - 1] \in Nat
              /\ Numbered(F, fr)[k] = Entry(F[k - 1], fr[k].size, fr[k].fd, fr[k].kill)
<1>1. Len(fr) \in Nat
  OBVIOUS
<1>2. ASSUME NEW k \in 1..Len(fr)
      PROVE  /\ fr[k] \in Frame /\ F[k - 1] \in Nat
             /\ Entry(F[k - 1], fr[k].size, fr[k].fd, fr[k].kill) \in Queued
  <2>1. k - 1 \in 0..Len(fr) /\ fr[k] \in Frame
    BY <1>1
  <2>2. F[k - 1] \in Nat
    BY <2>1 DEF Ends
  <2>3. fr[k].size \in Nat /\ fr[k].fd \in Fds /\ fr[k].kill \in BOOLEAN
    BY <2>1, FrameFields
  <2> QED
    BY <2>1, <2>2, <2>3, EntryFields
<1>3. Numbered(F, fr) = [k \in 1..Len(fr) |-> Entry(F[k - 1], fr[k].size, fr[k].fd, fr[k].kill)]
  BY DEF Numbered, Entry
<1> DEFINE q == [k \in 1..Len(fr) |-> Entry(F[k - 1], fr[k].size, fr[k].fd, fr[k].kill)]
<1>4. q \in Seq(Queued) /\ Len(q) = Len(fr)
  BY <1>1, <1>2
<1>5. \A k \in 1..Len(fr) : q[k] = Entry(F[k - 1], fr[k].size, fr[k].fd, fr[k].kill)
  OBVIOUS
<1> HIDE DEF q
<1>6. Numbered(F, fr) = q
  BY <1>3 DEF q
<1> QED
  BY <1>2, <1>4, <1>5, <1>6

\* Committing a frame appends its bytes.
LEMMA NumberedAppend ==
  ASSUME NEW fr \in Seq(Frame), NEW m \in Nat, NEW F, Ends(F, fr, m),
         NEW n \in Nat \ {0}, NEW f \in Frame, f.size = n,
         Ends(EndsWith(F, fr, m + n), Append(fr, f), m + n)
  PROVE  Numbered(EndsWith(F, fr, m + n), Append(fr, f))
           = Append(Numbered(F, fr), Entry(m, n, f.fd, f.kill))
<1> DEFINE G == EndsWith(F, fr, m + n)
           gr == Append(fr, f)
           e == Entry(m, n, f.fd, f.kill)
<1>0. Len(fr) \in Nat
  OBVIOUS
<1>1. /\ gr \in Seq(Frame) /\ Len(gr) = Len(fr) + 1 /\ gr[Len(fr) + 1] = f
      /\ \A k \in 1..Len(fr) : gr[k] = fr[k]
  OBVIOUS
<1>2. \A k \in 0..Len(fr) : G[k] = F[k]
  BY <1>0 DEF EndsWith
<1> HIDE DEF gr, G
<1>3. /\ Numbered(F, fr) \in Seq(Queued) /\ Len(Numbered(F, fr)) = Len(fr)
      /\ \A k \in 1..Len(fr) :
           Numbered(F, fr)[k] = Entry(F[k - 1], fr[k].size, fr[k].fd, fr[k].kill)
  BY NumberedQueue
<1>4. /\ Numbered(G, gr) \in Seq(Queued) /\ Len(Numbered(G, gr)) = Len(fr) + 1
      /\ \A k \in 1..Len(gr) :
           Numbered(G, gr)[k] = Entry(G[k - 1], gr[k].size, gr[k].fd, gr[k].kill)
  <2>1. m + n \in Nat /\ Ends(G, gr, m + n)
    BY DEF G, gr
  <2> QED
    BY <1>1, <2>1, NumberedQueue
<1>5. e \in Queued
  BY FrameFields, EntryFields
<1> HIDE DEF e
<1>6. /\ Append(Numbered(F, fr), e) \in Seq(Queued)
      /\ Len(Append(Numbered(F, fr), e)) = Len(fr) + 1
      /\ \A k \in 1..Len(fr) : Append(Numbered(F, fr), e)[k] = Numbered(F, fr)[k]
      /\ Append(Numbered(F, fr), e)[Len(fr) + 1] = e
  BY <1>3, <1>5
<1>7. ASSUME NEW k \in 1..(Len(fr) + 1)
      PROVE  Numbered(G, gr)[k] = Append(Numbered(F, fr), e)[k]
  <2>1. CASE k \in 1..Len(fr)
    <3>1. k \in 1..Len(gr) /\ k - 1 \in 0..Len(fr)
      BY <1>0, <1>1, <2>1
    <3> QED
      BY <1>1, <1>2, <1>3, <1>4, <1>6, <2>1, <3>1
  <2>2. CASE k = Len(fr) + 1
    <3>1. k \in 1..Len(gr) /\ k - 1 = Len(fr) /\ Len(fr) \in 0..Len(fr)
      BY <1>0, <1>1, <2>2
    <3>2. G[k - 1] = m
      BY <1>2, <3>1 DEF Ends
    <3>3. Numbered(G, gr)[k] = Entry(m, f.size, f.fd, f.kill)
      BY <1>1, <1>4, <2>2, <3>1, <3>2
    <3>4. Append(Numbered(F, fr), e)[k] = Entry(m, n, f.fd, f.kill)
      BY <1>6, <2>2 DEF e
    <3> QED
      BY <3>3, <3>4
  <2>3. k \in 1..Len(fr) \/ k = Len(fr) + 1
    BY <1>0
  <2> QED
    BY <2>1, <2>2, <2>3
<1>8. Numbered(G, gr) = Append(Numbered(F, fr), e)
  BY <1>4, <1>6, <1>7, SameQueue
<1> QED
  BY <1>8 DEF G, gr, e

\* A frame that is done with leaves the front of the queue.
LEMMA NumberedTail ==
  ASSUME NEW fr \in Seq(Frame), fr # <<>>, NEW m \in Nat, NEW F, Ends(F, fr, m),
         NEW n, n = fr[1].size, Ends(EndsAfter(F, fr, n), Tail(fr), m)
  PROVE  Numbered(EndsAfter(F, fr, n), Tail(fr)) = Tail(Numbered(F, fr))
<1> DEFINE G == EndsAfter(F, fr, n)
           gr == Tail(fr)
<1>0. Len(fr) \in Nat \ {0}
  OBVIOUS
<1>1. /\ gr \in Seq(Frame) /\ Len(gr) = Len(fr) - 1
      /\ \A k \in 1..(Len(fr) - 1) : gr[k] = fr[k + 1]
  OBVIOUS
<1>2. \A k \in 0..(Len(fr) - 1) : G[k] = F[k + 1]
  BY <1>0 DEF EndsAfter
<1> HIDE DEF gr, G
<1>3. /\ Numbered(F, fr) \in Seq(Queued) /\ Len(Numbered(F, fr)) = Len(fr)
      /\ \A k \in 1..Len(fr) :
           Numbered(F, fr)[k] = Entry(F[k - 1], fr[k].size, fr[k].fd, fr[k].kill)
  BY NumberedQueue
<1>4. /\ Numbered(G, gr) \in Seq(Queued) /\ Len(Numbered(G, gr)) = Len(gr)
      /\ \A k \in 1..Len(gr) :
           Numbered(G, gr)[k] = Entry(G[k - 1], gr[k].size, gr[k].fd, gr[k].kill)
  <2>1. Ends(G, gr, m)
    BY DEF G, gr
  <2> QED
    BY <1>1, <2>1, NumberedQueue
<1>5. Numbered(F, fr) # <<>>
  <2>1. Len(<<>>) = 0
    OBVIOUS
  <2> QED
    BY <1>0, <1>3, <2>1
<1>6. /\ Tail(Numbered(F, fr)) \in Seq(Queued)
      /\ Len(Tail(Numbered(F, fr))) = Len(fr) - 1
      /\ \A k \in 1..(Len(fr) - 1) : Tail(Numbered(F, fr))[k] = Numbered(F, fr)[k + 1]
  BY <1>3, <1>5
<1>7. ASSUME NEW k \in 1..Len(gr)
      PROVE  Numbered(G, gr)[k] = Tail(Numbered(F, fr))[k]
  <2>1. /\ k \in 1..(Len(fr) - 1) /\ k - 1 \in 0..(Len(fr) - 1)
        /\ k + 1 \in 1..Len(fr) /\ (k - 1) + 1 = (k + 1) - 1
    BY <1>0, <1>1
  <2>2. G[k - 1] = F[(k + 1) - 1] /\ gr[k] = fr[k + 1]
    BY <1>1, <1>2, <2>1
  <2>3. Numbered(F, fr)[k + 1] = Entry(F[(k + 1) - 1], fr[k + 1].size, fr[k + 1].fd, fr[k + 1].kill)
    BY <1>3, <2>1
  <2> QED
    BY <1>4, <1>6, <2>1, <2>2, <2>3
<1>8. Numbered(G, gr) = Tail(Numbered(F, fr))
  BY <1>1, <1>4, <1>6, <1>7, SameQueue
<1> QED
  BY <1>8 DEF G, gr

\* A frame of which n bytes went keeps the others.
Shortened(fr, n) == [fr EXCEPT ![1].size = @ - n]
Cut(q, n)        == [q EXCEPT ![1].bytes = SubSeq(@, n + 1, Len(@))]

LEMMA NumberedShort ==
  ASSUME NEW fr \in Seq(Frame), fr # <<>>, NEW m \in Nat, NEW F, Ends(F, fr, m),
         NEW n \in 1..fr[1].size, n # fr[1].size,
         Ends(EndsAfter(F, fr, n), Shortened(fr, n), m)
  PROVE  Numbered(EndsAfter(F, fr, n), Shortened(fr, n)) = Cut(Numbered(F, fr), n)
<1> DEFINE G == EndsAfter(F, fr, n)
           gr == Shortened(fr, n)
           q == Numbered(F, fr)
           r == Cut(q, n)
<1>0. Len(fr) \in Nat \ {0} /\ 1 \in 1..Len(fr) /\ fr[1] \in Frame
  OBVIOUS
<1>s. /\ fr[1].size \in Nat \ {0} /\ n \in Nat /\ n < fr[1].size
      /\ fr[1].fd \in Fds /\ fr[1].kill \in BOOLEAN
  BY <1>0, FrameFields
<1>1. /\ gr \in Seq(Frame) /\ Len(gr) = Len(fr) /\ gr[1].size = fr[1].size - n
      /\ gr[1].fd = fr[1].fd /\ gr[1].kill = fr[1].kill
      /\ \A k \in 2..Len(fr) : gr[k] = fr[k]
  <2> DEFINE f == [fr[1] EXCEPT !.size = @ - n]
  <2>1. f \in Frame /\ f.size = fr[1].size - n /\ f.fd = fr[1].fd /\ f.kill = fr[1].kill
    <3>1. fr[1].size - n \in Nat \ {0}
      BY <1>s
    <3> QED
      BY <1>0, <3>1 DEF Frame
  <2>2. gr = [fr EXCEPT ![1] = f]
    BY DEF Shortened
  <2> HIDE DEF f, gr
  <2>3. /\ gr \in Seq(Frame) /\ Len(gr) = Len(fr) /\ gr[1] = f
        /\ \A k \in 2..Len(fr) : gr[k] = fr[k]
    BY <1>0, <2>1, <2>2
  <2> QED
    BY <2>1, <2>3
<1>2. /\ G[0] = F[0] + n
      /\ \A k \in 1..Len(fr) : G[k] = F[k]
  BY <1>0 DEF EndsAfter
<1>e. Ends(G, gr, m)
  OBVIOUS
<1> HIDE DEF gr, G
<1>3. /\ q \in Seq(Queued) /\ Len(q) = Len(fr) /\ F[0] \in Nat
      /\ \A k \in 1..Len(fr) : q[k] = Entry(F[k - 1], fr[k].size, fr[k].fd, fr[k].kill)
  <2>1. 0 \in 0..Len(fr)
    BY <1>0
  <2>2. F[0] \in Nat
    BY <2>1 DEF Ends
  <2> QED
    BY <2>2, NumberedQueue
<1>4. /\ Numbered(G, gr) \in Seq(Queued) /\ Len(Numbered(G, gr)) = Len(gr)
      /\ \A k \in 1..Len(gr) :
           Numbered(G, gr)[k] = Entry(G[k - 1], gr[k].size, gr[k].fd, gr[k].kill)
  BY <1>1, <1>e, NumberedQueue
<1> HIDE DEF q
<1>5. q[1] = Entry(F[0], fr[1].size, fr[1].fd, fr[1].kill)
  <2>1. 1 - 1 = 0
    OBVIOUS
  <2> QED
    BY <1>0, <1>3, <2>1
<1>6. SubSeq(q[1].bytes, n + 1, Len(q[1].bytes)) = Run(F[0] + n, fr[1].size - n)
  <2>1. q[1].bytes = Run(F[0], fr[1].size) /\ Len(q[1].bytes) = fr[1].size
    BY <1>3, <1>5, <1>s, EntryFields
  <2>2. n \in 0..fr[1].size /\ fr[1].size \in n..fr[1].size
    BY <1>s
  <2>3. F[0] \in Nat /\ fr[1].size \in Nat
    BY <1>3, <1>s
  <2>4. SubSeq(Run(F[0], fr[1].size), n + 1, fr[1].size) = Run(F[0] + n, fr[1].size - n)
    BY <2>2, <2>3, RunCut
  <2> QED
    BY <2>1, <2>4
<1> DEFINE e == Entry(F[0] + n, fr[1].size - n, fr[1].fd, fr[1].kill)
<1>7. /\ e \in Queued
      /\ [q[1] EXCEPT !.bytes = SubSeq(@, n + 1, Len(@))] = e
  <2>1. e \in Queued
    <3>1. F[0] \in Nat
      BY <1>3
    <3>2. F[0] + n \in Nat /\ fr[1].size - n \in Nat
      BY <1>s, <3>1
    <3> QED
      BY <1>s, <3>2, EntryFields
  <2> DEFINE b == SubSeq(q[1].bytes, n + 1, Len(q[1].bytes))
  <2>2. [q[1] EXCEPT !.bytes = SubSeq(@, n + 1, Len(@))] = [q[1] EXCEPT !.bytes = b]
    OBVIOUS
  <2>3. b = Run(F[0] + n, fr[1].size - n)
    BY <1>6
  <2> HIDE DEF b
  <2>4. [q[1] EXCEPT !.bytes = b] = e
    BY <1>5, <2>3 DEF Entry
  <2> QED
    BY <2>1, <2>2, <2>4
<1> HIDE DEF e
<1>8. r = [q EXCEPT ![1] = e]
  BY <1>7 DEF Cut
<1> HIDE DEF r
<1>9. /\ r \in Seq(Queued) /\ Len(r) = Len(fr) /\ r[1] = e
      /\ \A k \in 2..Len(fr) : r[k] = q[k]
  BY <1>0, <1>3, <1>7, <1>8
<1>10. ASSUME NEW k \in 1..Len(gr) PROVE Numbered(G, gr)[k] = r[k]
  <2>1. CASE k = 1
    <3>1. G[k - 1] = F[0] + n
      BY <1>2, <2>1
    <3>2. Numbered(G, gr)[k] = Entry(G[k - 1], gr[k].size, gr[k].fd, gr[k].kill)
      BY <1>4
    <3> QED
      BY <1>1, <1>9, <2>1, <3>1, <3>2 DEF e
  <2>2. CASE k # 1
    <3>1. k \in 2..Len(fr) /\ k \in 1..Len(fr) /\ k - 1 \in 1..Len(fr)
      BY <1>0, <1>1, <2>2
    <3>2. /\ G[k - 1] = F[k - 1] /\ gr[k] = fr[k]
          /\ q[k] = Entry(F[k - 1], fr[k].size, fr[k].fd, fr[k].kill)
      BY <1>1, <1>2, <1>3, <3>1
    <3> QED
      BY <1>4, <1>9, <3>1, <3>2
  <2> QED
    BY <2>1, <2>2
<1>11. Numbered(G, gr) = r
  BY <1>1, <1>4, <1>9, <1>10, SameQueue
<1> QED
  BY <1>11 DEF G, gr, q, r

\* The front frame's bytes are those at the read spot.
FrontIs(q, f, n, stored, p) ==
  /\ q # <<>> /\ Head(q) = q[1] /\ q[1].fd = f.fd /\ q[1].kill = f.kill
  /\ Len(q[1].bytes) = f.size
  /\ SubSeq(q[1].bytes, 1, n) = SubSeq(stored[1], p + 1, p + n)

LEMMA FrontBytes ==
  ASSUME NEW cs, NEW w, NEW p, NEW fr, NEW m, Sizes(cs, w, p, fr, m),
         NEW B, NEW F, Aligned(B, F, cs, w, p, fr, m), fr # <<>>,
         NEW n \in 1..fr[1].size
  PROVE  FrontIs(Numbered(F, fr), fr[1], n, cs, p)
<1> DEFINE q == Numbered(F, fr)
<1>1. fr \in Seq(Frame) /\ m \in Nat /\ Ends(F, fr, m)
  BY DEF Sizes, Aligned
<1>2. Len(fr) \in Nat \ {0} /\ 1 \in 1..Len(fr) /\ 0 \in 0..Len(fr) /\ 1 - 1 = 0
  BY <1>1
<1>3. /\ q \in Seq(Queued) /\ Len(q) = Len(fr) /\ F[0] \in Nat /\ fr[1] \in Frame
      /\ q[1] = Entry(F[0], fr[1].size, fr[1].fd, fr[1].kill)
  BY <1>1, <1>2, NumberedQueue
<1> HIDE DEF q
<1>4. q # <<>> /\ Head(q) = q[1]
  <2>1. Len(<<>>) = 0
    OBVIOUS
  <2>2. q # <<>>
    BY <1>2, <1>3, <2>1
  <2> QED
    BY <1>3, <2>2
<1>5. fr[1].size \in Nat /\ fr[1].fd \in Fds /\ fr[1].kill \in BOOLEAN
  BY <1>3, FrameFields
<1>6. /\ q[1].fd = fr[1].fd /\ q[1].kill = fr[1].kill
      /\ q[1].bytes = Run(F[0], fr[1].size) /\ Len(q[1].bytes) = fr[1].size
  BY <1>3, <1>5, EntryFields
<1>7. SubSeq(q[1].bytes, 1, n) = Run(F[0], n)
  <2>1. 0 \in 0..fr[1].size /\ n \in 0..fr[1].size
    BY <1>5
  <2>2. SubSeq(Run(F[0], fr[1].size), 0 + 1, n) = Run(F[0] + 0, n - 0)
    BY <1>3, <1>5, <2>1, RunCut
  <2>3. 0 + 1 = 1 /\ F[0] + 0 = F[0] /\ n - 0 = n
    BY <1>3
  <2> QED
    BY <1>6, <2>2, <2>3
<1>8. SubSeq(cs[1], p + 1, p + n) = Run(F[0], n)
  <2>1. /\ 1 \in 1..w /\ cs[1] \in Seq(Nat) /\ Len(cs[1]) \in Nat /\ p \in Nat
    BY SizesFacts
  <2>2. B[1] \in Nat /\ F[0] = B[1] + p /\ \A j \in 1..Len(cs[1]) : cs[1][j] = B[1] + j
    BY <2>1 DEF Aligned
  <2>3. cs[1] = Run(B[1], Len(cs[1]))
    BY <2>1, <2>2, RunIs
  <2>4. p + fr[1].size <= Len(cs[1])
    BY FrontFits
  <2>5. p \in 0..Len(cs[1]) /\ p + n \in p..Len(cs[1])
    BY <1>5, <2>1, <2>4
  <2>6. SubSeq(Run(B[1], Len(cs[1])), p + 1, p + n) = Run(B[1] + p, (p + n) - p)
    BY <2>1, <2>2, <2>5, RunCut
  <2>7. (p + n) - p = n
    BY <2>1
  <2> QED
    BY <2>2, <2>3, <2>6, <2>7
<1> QED
  BY <1>4, <1>6, <1>7, <1>8 DEF q, FrontIs

\* Every step of the buffer is a step of the frame queue or invisible to it.
LEMMA FrameQueueStep ==
  ASSUME BufferInv, BufferInv', AlignedNow, [Next]_vars
  PROVE  [FQ!Next]_<<Frames, made, sent, freed>>
<1>1. PICK B, F : Aligned(B, F, chunks, writeIt, pRead, frames, made)
  BY DEF AlignedNow
<1>2. /\ Sizes(chunks, writeIt, pRead, frames, made)
      /\ Sizes(chunks', writeIt', pRead', frames', made')
  BY DEF BufferInv, TypeOK, Sizes
<1>3. Frames = Numbered(F, frames)
  BY <1>1, <1>2, SharesAre DEF Frames
<1>4. ASSUME NEW C, NEW G, Aligned(C, G, chunks', writeIt', pRead', frames', made')
      PROVE  Frames' = Numbered(G, frames')
  <2>1. Shares(BytesFrom(chunks', pRead', writeIt'), frames') = Numbered(G, frames')
    BY <1>2, <1>4, SharesAre
  <2> QED
    BY <2>1 DEF Frames
<1>5. frames \in Seq(Frame) /\ made \in Nat /\ Ends(F, frames, made)
  BY <1>1, <1>2 DEF Sizes, Aligned
<1>f. ASSUME frames # <<>>
      PROVE  /\ Head(frames) = frames[1] /\ frames[1].size \in Nat \ {0}
             /\ frames[1].size \in 1..frames[1].size
  BY <1>5, <1>f, FrontFrame
<1>6. CASE Secure
  <2>1. PICK n \in 1..Room, fd \in Fds, kill \in BOOLEAN : SecureWrite(n, fd, kill)
    BY <1>6 DEF Secure
  <2>2. pRead' = pRead /\ sent' = sent /\ freed' = freed
    BY <1>6 DEF Secure
  <2>n. n \in 1..ChunkSize /\ n \in Nat \ {0}
    <3>1. chunks \in Seq(Seq(Nat)) /\ writeIt \in 1..Len(chunks)
      BY <1>2 DEF Sizes
    <3>2. Len(chunks[writeIt]) \in Nat
      BY <3>1
    <3> QED
      BY <3>2, SizesAssumption DEF Room
  <2> DEFINE f == [size |-> n, fd |-> fd, kill |-> kill]
  <2>3. frames' = Append(frames, f) /\ made' = made + n
    BY <2>1 DEF SecureWrite
  <2>4. f \in Frame /\ f.size = n /\ f.fd = fd /\ f.kill = kill
    BY <2>n DEF Frame
  <2> HIDE DEF f
  <2> DEFINE G == EndsWith(F, frames, made + n)
  <2>5. PICK C : Aligned(C, G, chunks', writeIt', pRead', frames', made')
    BY <1>1, <2>1, <2>2, SecureAligned
  <2>6. Ends(G, Append(frames, f), made + n)
    BY <2>3, <2>5 DEF Aligned
  <2>7. Frames' = Numbered(G, frames')
    BY <1>4, <2>5
  <2>8. Numbered(G, Append(frames, f)) = Append(Numbered(F, frames), Entry(made, n, f.fd, f.kill))
    BY <1>5, <2>n, <2>4, <2>6, NumberedAppend
  <2>9. Frames' = Append(Frames, Entry(made, n, fd, kill))
    BY <1>3, <2>3, <2>4, <2>7, <2>8
  <2>10. FQ!Secure(n, fd, kill)
    BY <2>2, <2>3, <2>9 DEF FQ!Secure, Entry, Run
  <2> QED
    BY <2>n, <2>10 DEF FQ!Next
<1>7. ASSUME frames # <<>>, FreeRead(Head(frames).size), made' = made
      PROVE  Frames' = Tail(Frames)
  <2> DEFINE n == frames[1].size
             G == EndsAfter(F, frames, n)
  <2>1. PICK C : Aligned(C, G, chunks', writeIt', pRead', frames', made')
    BY <1>1, <1>7, <1>f, FreeAligned
  <2>2. frames' = Tail(frames)
    BY <1>7, <1>f DEF FreeRead
  <2>3. Ends(G, Tail(frames), made)
    BY <1>7, <2>1, <2>2 DEF Aligned
  <2>4. Numbered(G, Tail(frames)) = Tail(Numbered(F, frames))
    BY <1>5, <1>7, <2>3, NumberedTail
  <2> QED
    BY <1>3, <1>4, <2>1, <2>2, <2>4
<1>8. ASSUME frames # <<>>, NEW n \in 1..frames[1].size
      PROVE  FrontIs(Frames, frames[1], n, chunks, pRead)
  <2>1. FrontIs(Numbered(F, frames), frames[1], n, chunks, pRead)
    BY <1>1, <1>2, <1>8, FrontBytes
  <2> QED
    BY <1>3, <2>1
<1>9. ASSUME frames # <<>>, NEW n \in 1..frames[1].size, WriteBlock(n)
      PROVE  FQ!Next
  <2>1. /\ Frames # <<>> /\ Head(Frames) = Frames[1]
        /\ Frames[1].fd = frames[1].fd /\ Frames[1].kill = frames[1].kill
        /\ Len(Frames[1].bytes) = frames[1].size
        /\ SubSeq(Frames[1].bytes, 1, n) = SubSeq(chunks[1], pRead + 1, pRead + n)
    BY <1>8, <1>9 DEF FrontIs
  <2>2. /\ sent' = << [fd |-> frames[1].fd,
                       bytes |-> SubSeq(chunks[1], pRead + 1, pRead + n)] >>
        /\ FreeRead(n) /\ freed' = FreedAfter(n) /\ made' = made
    BY <1>9, <1>f DEF WriteBlock
  <2>3. sent' = << [fd |-> Head(Frames).fd, bytes |-> SubSeq(Head(Frames).bytes, 1, n)] >>
    BY <2>1, <2>2
  <2>4. CASE n = frames[1].size
    <3>1. Frames' = Tail(Frames)
      BY <1>7, <1>9, <1>f, <2>2, <2>4
    <3>2. freed' = IF Head(Frames).kill THEN freed \cup {Head(Frames).fd} ELSE freed
      BY <1>9, <1>f, <2>1, <2>2, <2>4 DEF FreedAfter
    <3>3. FQ!Send(n)
      BY <2>1, <2>2, <2>3, <2>4, <3>1, <3>2 DEF FQ!Send
    <3> QED
      BY <2>1, <3>3 DEF FQ!Next
  <2>5. CASE n # frames[1].size
    <3> DEFINE G  == EndsAfter(F, frames, n)
               gr == Shortened(frames, n)
    <3>1. PICK C : Aligned(C, G, chunks', writeIt', pRead', frames', made')
      BY <1>1, <1>9, <2>2, FreeAligned
    <3>2. frames' = gr
      BY <1>9, <1>f, <2>2, <2>5 DEF FreeRead, Shortened
    <3>3. Ends(G, gr, made)
      BY <2>2, <3>1, <3>2 DEF Aligned
    <3>4. Numbered(G, gr) = Cut(Numbered(F, frames), n)
      BY <1>5, <1>9, <2>5, <3>3, NumberedShort
    <3>5. Frames' = [Frames EXCEPT ![1].bytes = SubSeq(@, n + 1, Len(@))]
      BY <1>3, <1>4, <3>1, <3>2, <3>4 DEF Cut
    <3>6. freed' = freed
      BY <1>9, <1>f, <2>2, <2>5 DEF FreedAfter
    <3>7. FQ!Send(n)
      BY <2>1, <2>2, <2>3, <2>5, <3>5, <3>6 DEF FQ!Send
    <3> QED
      BY <2>1, <3>7 DEF FQ!Next
  <2> QED
    BY <2>4, <2>5
<1>10. CASE TransmitAll
  BY <1>9, <1>10, <1>f DEF TransmitAll
<1>11. CASE TransmitShort
  <2>1. frames # <<>>
    BY <1>11 DEF TransmitShort
  <2>2. PICK n \in 1..(frames[1].size - 1) : WriteBlock(n)
    BY <1>11, <1>f, <2>1 DEF TransmitShort
  <2>3. n \in 1..frames[1].size
    BY <1>f, <2>1
  <2> QED
    BY <1>9, <2>1, <2>2, <2>3
<1>12. CASE TransmitBroken
  <2>1. /\ frames # <<>> /\ FreeRead(Head(frames).size) /\ made' = made /\ sent' = sent
        /\ freed' = freed \cup {frames[1].fd}
    BY <1>12, <1>f DEF TransmitBroken
  <2>2. Frames # <<>> /\ Head(Frames).fd = frames[1].fd
    BY <1>8, <1>f, <2>1 DEF FrontIs
  <2>3. Frames' = Tail(Frames)
    BY <1>7, <2>1
  <2> QED
    BY <2>1, <2>2, <2>3 DEF FQ!Next, FQ!Drop
<1>13. CASE TransmitBegin \/ TransmitThrow \/ TransmitDone \/ UNCHANGED vars
  <2>1. UNCHANGED <<chunks, writeIt, pRead, frames, made, sent, freed>>
    BY <1>13 DEF TransmitBegin, TransmitThrow, TransmitDone, vars
  <2>2. Frames' = Frames
    BY <2>1 DEF Frames
  <2> QED
    BY <2>1, <2>2
<1> QED
  BY <1>6, <1>10, <1>11, <1>12, <1>13 DEF Next

\* Frames leave in the order they were committed, whole, each to its own
\* descriptor, whatever chunks their bytes lie in: the buffer implements the
\* frame queue (transceiver.hpp 223-266, transceiver.cpp 100-181).
THEOREM BufferIsFrameQueue == Spec => ImplementsFrameQueue
<1>1. Init => FQ!Init
  <2> SUFFICES ASSUME Init
               PROVE  FQ!Init
    OBVIOUS
  <2>1. frames = <<>> /\ made = 0 /\ sent = <<>> /\ freed = {} /\ Len(<<>>) = 0
    BY DEF Init
  <2>2. Frames = <<>>
    BY <2>1 DEF Frames, Shares
  <2> QED
    BY <2>1, <2>2 DEF FQ!Init
<1>2. BufferInv /\ BufferInv' /\ AlignedNow /\ [Next]_vars
        => [FQ!Next]_<<Frames, made, sent, freed>>
  BY FrameQueueStep
<1> QED
  BY <1>1, <1>2, WholeInvariance, PTL DEF Spec, ImplementsFrameQueue, FQ!Spec
=============================================================================
