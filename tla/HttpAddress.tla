----------------------------- MODULE HttpAddress -----------------------------
(***************************************************************************)
(* The internet addresses of Fastcgi++: an address is its eight words, as  *)
(* sent, and a text a sequence of hexadecimal digits, colons and dots.     *)
(* assign() reads the address of a FastCGI parameter, operator>> one from  *)
(* a stream, and operator<< writes one.                                    *)
(***************************************************************************)
EXTENDS Integers, Sequences, FiniteSets, SequencesExt

\* The digits are 0 .. 15.  Other is any other character but a sign.
Colon == 16
Dot == 17
Other == 18
Digits == 0..15

Size == 16
None == -1
Bytes(word)  == <<word \div 256, word % 256>>
Words(bytes) == [k \in 1..8 |-> 256 * bytes[2 * k - 1] + bytes[2 * k]]
Zero == [k \in 1..8 |-> 0]

-----------------------------------------------------------------------------
(* Reading.  What both readers share: the bytes written, where zeros go in *)
(* between (pad), the word that is being read (chunk), the character       *)
(* before, and whether reading has stopped or failed.                      *)

Start == [written |-> <<>>, pad |-> None, chunk |-> 0, before |-> Colon,
          stopped |-> FALSE, error |-> FALSE]

Fails(r) == [r EXCEPT !.stopped = TRUE, !.error = TRUE]

\* A chunk is 16 bits: the first of five digits is shifted out.
Digit(r, c) == [r EXCEPT !.chunk = (16 * @ + c) % 65536, !.before = c]

\* A colon after a colon, or at the start.  One gap may be passed several times.
Gap(r) == IF r.pad \notin {None, Len(r.written)} THEN Fails(r)
          ELSE [r EXCEPT !.pad = Len(r.written), !.before = Colon]

Group(r) == LET written == r.written \o Bytes(r.chunk)
            IN [r EXCEPT !.written = written, !.chunk = 0, !.before = Colon,
                         !.stopped = Len(written) >= Size]

\* The first number before a dot was read as hexadecimal digits: the last three of them
\* are taken as decimal ones, and a byte is kept.
Hex(chunk, n) == (chunk \div 16^n) % 16
Octet(chunk)  == (100 * Hex(chunk, 2) + 10 * Hex(chunk, 1) + Hex(chunk, 0)) % 256

\* An address that begins with a dotted part is a v4 address.  There is no room for a
\* dotted part after more than six words.
Dotted(r) ==
  IF Len(r.written) > 12 THEN Fails(r)
  ELSE LET six == IF r.written = <<>> THEN [r EXCEPT !.written = <<255, 255>>, !.pad = 0]
                                      ELSE r
       IN [six EXCEPT !.written = Append(@, Octet(r.chunk)), !.stopped = TRUE]

Push(r, octets) == [r EXCEPT !.written = @ \o octets]

\* The words after the gap are moved to the end.  Without a gap what is not written
\* stays as the array had it.
Result(r, array) ==
  LET missing == Size - Len(r.written)
      front   == SubSeq(r.written, 1, r.pad)
      back    == SubSeq(r.written, r.pad + 1, Len(r.written))
  IN Words(IF r.pad = None THEN r.written \o SubSeq(array, Len(r.written) + 1, Size)
           ELSE front \o [k \in 1..missing |-> 0] \o back)

-----------------------------------------------------------------------------
(* assign().                                                               *)

\* atoi(): the decimal digits from a place on, and of the number a byte.
NumberEnd(text, k) ==
  Min({Len(text) + 1} \cup {j \in k..Len(text) : text[j] \notin 0..9})
atoi(text, k) ==
  FoldLeft(LAMBDA n, c : (10 * n + c) % 256, 0, SubSeq(text, k, NumberEnd(text, k) - 1))

DotsFrom(text, k) == SetToSortSeq({j \in k..Len(text) : text[j] = Dot}, <)

\* The three numbers after the dots, whatever lies between them.
AssignDotted(r, text, k) ==
  LET dots == DotsFrom(text, k)
  IN IF Dotted(r).error THEN Fails(r)
     ELSE IF Len(dots) < 3 \/ dots[3] = Len(text) THEN Fails(r)
     ELSE Push(Dotted(r), [i \in 1..3 |-> atoi(text, dots[i] + 1)])

AssignAt(r, text, k) ==
  CASE r.stopped                              -> r
    [] ~r.stopped /\ text[k] \in Digits       -> Digit(r, text[k])
    [] ~r.stopped /\ text[k] = Dot            -> AssignDotted(r, text, k)
    [] ~r.stopped /\ text[k] = Other          -> Fails(r)
    [] ~r.stopped /\ text[k] = Colon          ->
         IF r.before = Colon THEN Gap(r) ELSE Group(r)

\* The end is a colon too.  After one the gap is passed, and reading goes on past the
\* end, where it stops at what is not a colon after a colon: one word of zeros.
AssignEnd(r) ==
  CASE r.stopped                           -> r
    [] ~r.stopped /\ r.before # Colon      -> Group(r)
    [] ~r.stopped /\ r.before = Colon      -> IF Gap(r).error THEN Gap(r) ELSE Group(Gap(r))

assign(address, text) ==
  LET r == AssignEnd(FoldLeft(LAMBDA s, k : AssignAt(s, text, k), Start,
                              [k \in DOMAIN text |-> k]))
  IN IF r.error THEN Zero ELSE Result(r, FlattenSeq([k \in 1..8 |-> Bytes(address[k])]))

-----------------------------------------------------------------------------
(* operator>>.                                                             *)

\* The three numbers are read one after the other, each after a dot.  None may be
\* missing, and the stream may not end after the last: the error is then eof, and
\* like any error it leaves the address as it was.
ReadDotted(r, text, k) ==
  LET first(i) == IF i = 1 THEN k + 1
                  ELSE NumberEnd(text, IF i = 2 THEN k + 1
                                       ELSE NumberEnd(text, k + 1) + 1) + 1
      Here(i)  == /\ first(i) - 1 \in DOMAIN text /\ text[first(i) - 1] = Dot
                  /\ NumberEnd(text, first(i)) > first(i)
  IN IF Dotted(r).error \/ \E i \in 1..3 : ~Here(i) THEN Fails(r)
     ELSE IF NumberEnd(text, first(3)) > Len(text) THEN Fails(r)
     ELSE Push(Dotted(r), [i \in 1..3 |-> atoi(text, first(i))])

\* What ends the address ends a word, even after a colon, and must follow eight words
\* or a gap.  At most forty characters are read, the one that ends the address with them.
ReadEnd(r) == LET w == Group(r)
              IN IF ~w.stopped /\ w.pad = None THEN Fails(w) ELSE [w EXCEPT !.stopped = TRUE]

ReadAt(r, text, k) ==
  LET c == IF k \in DOMAIN text THEN text[k] ELSE Other
  IN CASE r.stopped                                       -> r
       [] ~r.stopped /\ k > 40                            -> Fails(r)
       [] ~r.stopped /\ k <= 40 /\ c \in Digits           -> Digit(r, c)
       [] ~r.stopped /\ k <= 40 /\ c = Dot                -> ReadDotted(r, text, k)
       [] ~r.stopped /\ k <= 40 /\ c = Other              -> ReadEnd(r)
       [] ~r.stopped /\ k <= 40 /\ c = Colon              ->
            IF r.before = Colon THEN Gap(r) ELSE Group(r)

\* array is what the function's local array holds before.
Read(address, text, array) ==
  LET r == FoldLeft(LAMBDA s, k : ReadAt(s, text, k), Start,
                    [k \in 1..(Len(text) + 1) |-> k])
  IN IF r.error THEN address ELSE Result(r, array)

-----------------------------------------------------------------------------
(* operator<<.                                                             *)

Hexadecimal(word) ==
  LET digits == [n \in 1..4 |-> Hex(word, 4 - n)]
  IN IF word = 0 THEN <<0>>
     ELSE SubSeq(digits, SelectInSeq(digits, LAMBDA d : d # 0), 4)
Decimal(byte) ==
  IF byte < 10 THEN <<byte>>
  ELSE IF byte < 100 THEN <<byte \div 10, byte % 10>>
  ELSE <<byte \div 100, (byte \div 10) % 10, byte % 10>>

\* The zero words that are left out: the longest run of them, the last of several.  The
\* words are numbered from 1.
Runs(address) == {run \in (1..8) \X (1..8) :
                    /\ run[1] <= run[2] /\ \A k \in run[1]..run[2] : address[k] = 0
                    /\ run[1] = 1 \/ address[run[1] - 1] # 0
                    /\ run[2] = 8 \/ address[run[2] + 1] # 0}
LongerRuns(run, runs) == {other \in runs : \/ other[2] - other[1] > run[2] - run[1]
                                           \/ other[2] - other[1] = run[2] - run[1]
                                              /\ other[1] > run[1]}
Sub(address) ==
  IF Runs(address) = {} THEN <<0, 0>>
  ELSE CHOOSE run \in Runs(address) : LongerRuns(run, Runs(address)) = {}

Piece(address, k, sub) ==
  IF k \in sub[1]..sub[2]
    THEN (IF k = sub[1] /\ k = 1 THEN <<Colon>> ELSE <<>>)
         \o (IF k = sub[2] THEN <<Colon>> ELSE <<>>)
    ELSE Hexadecimal(address[k]) \o (IF k < 8 THEN <<Colon>> ELSE <<>>)

V4(address) == <<Colon, Colon, 15, 15, 15, 15, Colon>>
               \o Decimal(address[7] \div 256) \o <<Dot>> \o Decimal(address[7] % 256)
               \o <<Dot>>
               \o Decimal(address[8] \div 256) \o <<Dot>> \o Decimal(address[8] % 256)
IsV4(address) == Sub(address) = <<1, 5>> /\ address[6] = 65535

Output(address) == IF IsV4(address) THEN V4(address)
                   ELSE FlattenSeq([k \in 1..8 |-> Piece(address, k, Sub(address))])
=============================================================================
