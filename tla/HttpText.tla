------------------------------ MODULE HttpText ------------------------------
(***************************************************************************)
(* How Fastcgi++ reads the texts of a request: percent escapes, url        *)
(* encoded fields (query strings, cookies, simple posts), multipart posts  *)
(* and base 64.  A character is its code, and a decoded byte a number;     *)
(* in a multipart post a character is a symbol, as is each string that the *)
(* parser looks for.                                                       *)
(***************************************************************************)
EXTENDS Integers, Sequences, FiniteSets, SequencesExt, Functions, TLC

Percent == 37
Plus == 43
Space == 32
And == 38
Equals == 61
Semicolon == 59

-----------------------------------------------------------------------------
(* Percent escapes.                                                        *)

Nibble(c) == CASE c \in 48..57 -> c - 48 [] c \in 65..70 -> c - 55
               [] c \in 97..102 -> c - 87 [] OTHER -> 0

\* A digit that is missing at the end counts as zero.
NibbleAt(source, k) == IF k \in DOMAIN source THEN Nibble(source[k]) ELSE 0
Escaped(source) == 16 * NibbleAt(source, 2) + NibbleAt(source, 3)

RECURSIVE percentEscapedToRealBytes(_)
percentEscapedToRealBytes(source) ==
  CASE source = <<>> -> <<>>
    [] source # <<>> /\ source[1] = Percent ->
         <<Escaped(source)>> \o percentEscapedToRealBytes(SubSeq(source, 4, Len(source)))
    [] OTHER -> <<IF source[1] = Plus THEN Space ELSE source[1]>>
                \o percentEscapedToRealBytes(Tail(source))

-----------------------------------------------------------------------------
(* Url encoded fields.                                                     *)

\* The name and the value that are being read, the value once there is one, and the
\* container.  To charToString() of char a value is assigned: the last one stays.
NoFields    == [name |-> <<>>, value |-> <<>>, output |-> <<>>]
HasValue(f) == f.value # <<>>
Reading(c, f) == IF HasValue(f) THEN [f EXCEPT !.value[1] = Append(@, c)]
                                ELSE [f EXCEPT !.name = Append(@, c)]

EndsName(f) == [f EXCEPT !.name = percentEscapedToRealBytes(@), !.value = << <<>> >>]

\* In place of the decoded value, the value as it is.
EndsRaw(f) == [NoFields EXCEPT !.output = f.name :> f.value[1] @@ f.output]
EndsField(f) ==
  [NoFields EXCEPT !.output = f.name :> percentEscapedToRealBytes(f.value[1]) @@ f.output]

\* A space before a value moves the name's start by one.
SkipsSpace(f) == [f EXCEPT !.name = Tail(Append(@, Space))]

\* A field without "=" has no end: the separator is read into its name.
Decoded(data, separator, skips) ==
  LET Read(c, f) ==
        CASE c = separator /\ HasValue(f)             -> EndsField(f)
          [] c = Space /\ skips /\ ~HasValue(f)       -> SkipsSpace(f)
          [] c = Equals /\ ~HasValue(f)               -> EndsName(f)
          [] OTHER                                    -> Reading(c, f)
      f == FoldLeft(LAMBDA g, c : Read(c, g), NoFields, data)
  IN IF HasValue(f) THEN EndsField(f).output ELSE f.output

decodeUrlEncoded(data, fieldSeparator) == Decoded(data, fieldSeparator, TRUE)
parsePostsUrlEncoded(postBuffer)       == Decoded(postBuffer, And, FALSE)

\* The pieces of a path that begins with a slash.  A piece keeps the length it had with
\* its escapes: the bytes after its end are those the buffer holds from earlier pieces,
\* or from before.
Slash == 47
Slashes(value) == {k \in DOMAIN value : value[k] = Slash} \cup {Len(value) + 1}
PieceAt(value, k) ==
  SubSeq(value, 1 + Max({1} \cup {j \in Slashes(value) : j < k}), k - 1)
Pieces(value) == SelectSeq([k \in 1..(Len(value) + 1) |->
                              IF k \in Slashes(value) THEN PieceAt(value, k) ELSE <<>>],
                           LAMBDA piece : piece # <<>>)
Filled(buffer, real) == real \o SubSeq(buffer, Len(real) + 1, Len(buffer))
PushPiece(p, source) ==
  LET buffer == Filled(p.buffer, percentEscapedToRealBytes(source))
  IN [buffer |-> buffer, pathInfo |-> Append(p.pathInfo, SubSeq(buffer, 1, Len(source)))]
pathInfo(value, buffer) ==
  FoldLeft(PushPiece, [buffer |-> buffer, pathInfo |-> <<>>], Pieces(value)).pathInfo

-----------------------------------------------------------------------------
(* Multipart posts.                                                        *)

\* The first seven bytes of the boundary are one symbol, and the rest of it another.
\* The dashes before the boundary are its first seven bytes if it begins with dashes.
BoundaryStart(dashes) == IF dashes THEN "--" ELSE "boundary"

NoPart == [name |-> <<>>, filename |-> <<>>, type |-> <<>>, body |-> <<>>]
Header == [state |-> "HEADER", part |-> NoPart, posts |-> <<>>]

\* From the body's symbols the last is taken, two bytes, and then the end of a line.
Shortened(body) ==
  LET cut == IF body = <<>> THEN <<>> ELSE Front(body)
  IN IF cut # <<>> /\ Last(cut) = "crlf" THEN Front(cut) ELSE cut

\* A part is a file if it has a content type.  A file's name is kept as the value.  A
\* name met before keeps of its old post what the new part does not say.
NoPost == [type |-> "form", value |-> <<>>, contentType |-> <<>>, data |-> <<>>]
Old(posts, name) == IF name \in DOMAIN posts THEN posts[name] ELSE NoPost
Post(part, old) ==
  IF part.type = <<>>
    THEN [old EXCEPT !.type = "form", !.value = Shortened(part.body[1])]
    ELSE [old EXCEPT !.type = "file", !.contentType = part.type[1],
                     !.data = Shortened(part.body[1]),
                     !.value = IF part.filename # <<>> THEN part.filename[1] ELSE @]
EndsPart(p) ==
  IF p.part.name = <<>> THEN [Header EXCEPT !.posts = p.posts]
  ELSE [Header EXCEPT !.posts = p.part.name[1] :> Post(p.part, Old(p.posts, p.part.name[1])) @@ p.posts]

\* A header's value begins where its name ends, if the part has none yet.
Starts(p, field, state) ==
  [p EXCEPT !.state = state, !.part = [@ EXCEPT ![field] = << <<>> >>]]
Adds(p, field, c) == [p EXCEPT !.part = [@ EXCEPT ![field] = <<Append(@[1], c)>>]]

\* The symbol before the current one says whether a line has just ended.
InHeader(p, before, c) ==
  CASE c = "name=\"" /\ p.part.name = <<>>         -> Starts(p, "name", "NAME")
    [] c = "filename=\"" /\ p.part.filename = <<>> -> Starts(p, "filename", "FILENAME")
    [] c = "Content-Type: " /\ p.part.type = <<>>  -> Starts(p, "type", "CONTENT_TYPE")
    [] c = "crlf" /\ before = "crlf"               -> Starts(p, "body", "BODY")
    [] OTHER -> p

InQuotes(p, field, c) == IF c = "\"" THEN [p EXCEPT !.state = "HEADER"] ELSE Adds(p, field, c)
InType(p, c)   == IF c = "crlf" THEN [p EXCEPT !.state = "HEADER"] ELSE Adds(p, "type", c)
InBody(p, c, start) == IF c = start THEN EndsPart(p) ELSE Adds(p, "body", c)

Part(p, before, c, start) ==
  CASE p.state = "HEADER"       -> InHeader(p, before, c)
    [] p.state = "NAME"         -> InQuotes(p, "name", c)
    [] p.state = "FILENAME"     -> InQuotes(p, "filename", c)
    [] p.state = "CONTENT_TYPE" -> InType(p, c)
    [] p.state = "BODY"         -> InBody(p, c, start)

\* The first dashes and boundary are passed over.
parsePostsMultipart(postBuffer, dashes) ==
  FoldLeft(LAMBDA p, k : Part(p, postBuffer[k - 1], postBuffer[k], BoundaryStart(dashes)),
           Header, [k \in 1..(Len(postBuffer) - 3) |-> k + 3]).posts

\* What an application asks of the fields: of one that is not there, nothing.
findGet(gets, key)      == IF key \in DOMAIN gets THEN gets[key] ELSE <<>>
checkForGet(gets, key)  == key \in DOMAIN gets
findPost(posts, key)    == IF key \in DOMAIN posts THEN posts[key] ELSE NoPost
checkForPost(posts, key) == key \in DOMAIN posts

-----------------------------------------------------------------------------
(* Base 64: a symbol is its value, and "=" is 64.                          *)

Pad == 64
Bits(values, width) ==
  FlattenSeq([k \in DOMAIN values |->
    [b \in 1..width |-> (values[k] \div 2^(width - b)) % 2]])
Number(bits) == FoldLeft(LAMBDA n, b : 2 * n + b, 0, bits)
Cut(bits, width) ==
  [k \in 1..(Len(bits) \div width) |-> Number(SubSeq(bits, (k - 1) * width + 1, k * width))]

\* The bits of the last group are filled up with zeros, and the group with "=".
Zeros(n)  == [k \in 1..n |-> 0]
Lacking(data) == (3 - (Len(data) % 3)) % 3
base64Encode(data) ==
  Cut(Bits(data, 8) \o Zeros(CASE Lacking(data) = 0 -> 0 [] Lacking(data) = 1 -> 2
                               [] Lacking(data) = 2 -> 4), 6)
  \o [k \in 1..Lacking(data) |-> Pad]

\* The text up to the first "=", where decoding ends.  What is left of a group gives a
\* byte, or two if only one symbol is missing.  Nothing is returned of a text with
\* another symbol, or that ends within a group.
Symbols(text) == IF \E k \in DOMAIN text : text[k] = Pad
                   THEN SubSeq(text, 1, SelectInSeq(text, LAMBDA c : c = Pad) - 1)
                   ELSE text
TakenBytes(symbols) == 3 * (Len(symbols) \div 4) + <<0, 1, 1, 2>>[1 + (Len(symbols) % 4)]
Ill(text) == \/ \E k \in DOMAIN Symbols(text) : Symbols(text)[k] \notin 0..63
             \/ Symbols(text) = text /\ Len(text) % 4 # 0
base64Decode(text) ==
  IF Ill(text) THEN <<>>
  ELSE SubSeq(Cut(Bits(Append(Symbols(text), 0), 6), 8), 1, TakenBytes(Symbols(text)))
=============================================================================
