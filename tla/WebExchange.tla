----------------------------- MODULE WebExchange -----------------------------
(***************************************************************************)
(* What travels between a browser and an action as text: the fields, the   *)
(* path, the addresses and the session of a request, which Fastcgi++       *)
(* reads, and the cookies, which CWebViewData writes and a later request   *)
(* brings back; and what an action leaves in its CWebViewData for the      *)
(* renderer.  The browser and the web server are external: they encode as  *)
(* the standards say.                                                      *)
(***************************************************************************)
EXTENDS HttpText, Sessions
LOCAL INSTANCE HttpAddress

CONSTANTS
  FieldNames, FieldValues,   \* texts of fields: sequences of character codes
  PartNames,    \* names of parts of a multipart post: symbols
  Bodies,       \* texts of parts: sequences of symbols
  Addresses,    \* addresses of clients
  Ids,          \* data of session ids
  CookieNames,  \* names of cookies, single characters
  DataNames,    \* names of user data and of numbers in the dictionary
  CookieStrings,  \* values of cookies that are texts
  Integers64,   \* integers of cookies and of view data
  Room,         \* characters of the buffer for a cookie's name and value
  ByteSize,     \* the numbers of a one byte integer
  MaxCalls      \* bound: calls on the view data

ASSUME ExchangeAssumption ==
  /\ \A text \in FieldNames \cup FieldValues \cup CookieStrings : text \in Seq(0..255)
  /\ \A id \in Ids : id \in Seq(0..255)
  /\ CookieNames \subseteq 97..122 /\ Integers64 \subseteq Int
  /\ Room \in Nat /\ ByteSize \in Nat \ {0} /\ MaxCalls \in Nat

VARIABLES
  request,     \* what the browser sent
  environment, \* what Fastcgi++ made of it
  cookieMap,   \* m_oCookieMap: of each name the cookie, if it has one
  encodeChn,   \* m_bEncodeWithChn
  userData,    \* m_oUserStrDataMap, m_oUserIntDataMap, m_oUserUIntDataMap
  dict,        \* the numbers set in m_oDict, as text
  jar,         \* the browser's cookies
  asked,       \* of each cookie, what the actions have asked for
  given,       \* of each user data and number, what the action gave
  calls        \* how many calls were made

viewVars     == <<cookieMap, encodeChn, userData, dict, jar, asked, given, calls>>
exchangeVars == <<request, environment, viewVars>>

-----------------------------------------------------------------------------
(* Requests.                                                               *)

NoRequest == [how |-> "none"]

\* A browser escapes what is not a letter or a digit.
IsWord(c)  == c \in 48..57 \cup 65..90 \cup 97..122
HexChar(n) == IF n < 10 THEN 48 + n ELSE 55 + n
EscapedChar(c) == IF IsWord(c) THEN <<c>> ELSE <<Percent, HexChar(c \div 16), HexChar(c % 16)>>
Escape(text) == FlattenSeq([k \in DOMAIN text |-> IF text[k] = Space THEN <<Plus>>
                                                  ELSE EscapedChar(text[k])])
Joined(texts, between) ==
  FlattenSeq([k \in DOMAIN texts |-> (IF k = 1 THEN <<>> ELSE between) \o texts[k]])
Form(fields) ==
  Joined([k \in DOMAIN fields |-> Escape(fields[k].name) \o <<Equals>>
                                  \o Escape(fields[k].value)], <<And>>)
Path(fields) == FlattenSeq([k \in DOMAIN fields |-> <<Slash>> \o Escape(fields[k].value)])

Boundary == <<"--", "boundary", "rest">>
PartOf(field) ==
  Boundary \o <<"crlf", "Content-Disposition: form-data; ", "name=\"", field.name, "\"">>
  \o (IF field.file THEN <<"; ", "filename=\"", field.name, "\"", "crlf", "Content-Type: ",
                           "text">>
                    ELSE <<>>)
  \o <<"crlf", "crlf">> \o field.value \o <<"crlf">>
Multipart(fields) ==
  FlattenSeq([k \in DOMAIN fields |-> PartOf(fields[k])]) \o Boundary \o <<"--", "crlf">>

Field(name, value, file) == [name |-> name, value |-> value, file |-> file]
Simple  == {Field(n, v, FALSE) : n \in FieldNames, v \in FieldValues}
Parts   == {Field(n, b, f) : n \in PartNames, b \in Bodies, f \in BOOLEAN}
UpTo2(S) == {<<s>> : s \in S} \cup S \X S

\* Leftover: what a buffer held before.
Leftover == [k \in 1..64 |-> 0]

Idle == request = NoRequest /\ calls = 0
Asks(how, data, got) ==
  /\ request' = [how |-> how, data |-> data] /\ environment' = got
  /\ UNCHANGED viewVars

SendQuery == Idle /\ \E fields \in UpTo2(Simple) :
  Asks("query", fields, decodeUrlEncoded(Form(fields), And))
SendForm == Idle /\ \E fields \in UpTo2(Simple) :
  Asks("form", fields, parsePostsUrlEncoded(Form(fields)))
SendPath == Idle /\ \E fields \in UpTo2(Simple) :
  Asks("path", fields, pathInfo(Path(fields), Leftover))
SendMultipart == Idle /\ \E fields \in UpTo2(Parts), dashes \in BOOLEAN :
  Asks("multipart", [fields |-> fields, dashes |-> dashes],
       parsePostsMultipart(Multipart(fields), dashes))

\* The address the web server sends, and one written by operator<< and read back,
\* with what follows it in the stream.
SendAddress == Idle /\ \E address \in Addresses, follows \in {<<>>, <<Other>>} :
  Asks("address", [address |-> address, follows |-> follows],
       [assigned |-> assign(Zero, Output(address)),
        read     |-> Read(Zero, Output(address) \o follows, Leftover)])
SendSession == Idle /\ \E id \in Ids : Asks("session", id, base64Decode(base64Encode(id)))

-----------------------------------------------------------------------------
(* The view data of a response.                                            *)

\* snprintf(): on a platform of 64 bits the formats of the two long types are "%li"
\* and "%lu" with a letter after them.
Minus == 45
RECURSIVE DigitsOf(_)
DigitsOf(n) == IF n < 10 THEN <<48 + n>> ELSE Append(DigitsOf(n \div 10), 48 + (n % 10))
DecimalText(n) == IF n < 0 THEN <<Minus>> \o DigitsOf(-n) ELSE DigitsOf(n)
Formatted(type, n) == DecimalText(n) \o CASE type = "int64" -> <<100>>
                                          [] type = "uint64" -> <<117>> [] OTHER -> <<>>

Given(type, n) == type \in {"uint32", "uint64"} => n >= 0

Calls == calls < MaxCalls /\ request = NoRequest /\ calls' = calls + 1
Keep  == UNCHANGED <<request, environment>>

\* A response's view data begins empty; what was asked of the browser stays.
NoCookie == [set |-> FALSE]
EmptyView == /\ cookieMap' = [n \in CookieNames |-> NoCookie] /\ encodeChn' = TRUE
             /\ userData' = <<>> /\ dict' = <<>> /\ given' = <<>>

Nothing == [wants |-> "nothing", sure |-> FALSE]
PlainText(text) == \A k \in DOMAIN text : text[k] \notin {Percent, Plus, Semicolon}

\* What the browser should keep, and whether that can be relied on: the text must fit
\* the buffer, or its end and what follows are lost, and be plain, for it is written as
\* it is and read with its escapes.
Fits(text) == Len(text) + Len("Set-Cookie: a=;") < Room
Asked(text, intended, expired) ==
  IF expired THEN [wants |-> "gone", sure |-> Fits(text)]
  ELSE [wants |-> intended, sure |-> text = intended /\ PlainText(text) /\ Fits(text)]

\* An expiry in the past, as an action gives it, or none.
Cookie(text, expired) == [set |-> TRUE, sVal |-> text, expired |-> expired]
PutCookie(n, text, intended, expired) ==
  /\ cookieMap' = [cookieMap EXCEPT ![n] = Cookie(text, expired)]
  /\ asked' = [asked EXCEPT ![n] = Asked(text, intended, expired)]

AddCookieVal(n) ==
  \E expired \in BOOLEAN :
    \/ \E text \in CookieStrings : PutCookie(n, text, text, expired)
    \/ \E type \in {"int32", "uint32", "int64", "uint64"}, i \in Integers64 :
         Given(type, i) /\ PutCookie(n, Formatted(type, i), DecimalText(i), expired)

\* Once one cookie is not to be encoded, none is: encodeChn is what OutputCookie()
\* returns.
UpdateCookieVal(n) ==
  AddCookieVal(n) /\ \E encode \in BOOLEAN : encodeChn' = (encodeChn /\ encode)

\* Only a cookie that this response sets is found.
DelCookieVal(n) ==
  /\ cookieMap' = IF cookieMap[n].set THEN [cookieMap EXCEPT ![n].expired = TRUE]
                                      ELSE cookieMap
  /\ asked' = [asked EXCEPT ![n] = [wants |-> "gone", sure |-> cookieMap[n].set
                                                              /\ Fits(cookieMap[n].sVal)]]

SetCookies ==
  /\ Calls /\ Keep /\ UNCHANGED <<userData, dict, jar, given>>
  /\ \E n \in CookieNames : \/ AddCookieVal(n) /\ UNCHANGED encodeChn
                            \/ UpdateCookieVal(n)
                            \/ DelCookieVal(n) /\ UNCHANGED encodeChn

\* SetUserData(): the texts, the signed and the unsigned integers have a map each.
DataMap(type) == CASE type \in {"int8", "int64"} -> "int" [] type \in {"uint8", "uint64"} -> "uint"
               [] type = "text" -> "text"
SetUserData ==
  /\ Calls /\ Keep /\ UNCHANGED <<cookieMap, encodeChn, dict, jar, asked>>
  /\ \E n \in DataNames, i \in Integers64,
        type \in {"text", "int8", "int64", "uint8", "uint64"} :
       /\ DataMap(type) = "uint" => i >= 0
       /\ type = "int8" => 2 * i \in (-ByteSize)..(ByteSize - 1)
       /\ type = "uint8" => i < ByteSize
       /\ userData' = (<<DataMap(type), n>> :> i) @@ userData
       /\ given' = (<<DataMap(type), n>> :> [type |-> type, value |-> i]) @@ given

\* GetUserData(): zero of a name that is not there; cut to the type asked for.
Cut8(i, signed) == LET low == i % ByteSize
                   IN IF signed /\ 2 * low >= ByteSize THEN low - ByteSize ELSE low
GetUserData(n, type) ==
  IF <<DataMap(type), n>> \notin DOMAIN userData THEN 0
  ELSE LET i == userData[<<DataMap(type), n>>]
       IN IF type \in {"int8", "uint8"} THEN Cut8(i, type = "int8") ELSE i

\* SetValue() of an integer in the dictionary.
SetValue ==
  /\ Calls /\ Keep /\ UNCHANGED <<cookieMap, encodeChn, userData, jar, asked>>
  /\ \E n \in DataNames, i \in Integers64, type \in {"int32", "uint32", "int64", "uint64"} :
       /\ Given(type, i)
       /\ dict' = (n :> Formatted(type, i)) @@ dict
       /\ given' = (<<"dict", n>> :> [type |-> type, value |-> i]) @@ given

\* SetCookie(): the name and the value, whatever is in it, in a buffer; what does not
\* fit is cut off, its end too.  Then the expiry, the path, and an empty domain.
Expires == 1001
PathIs == 1002
DomainIs == 1003
Buffered(n, text) ==
  SubSeq(<<n, Equals>> \o text \o <<Semicolon>>, 1,
         Min({Len(text) + 3, Room - 1 - Len("Set-Cookie: ")}))
CookieLine(n) ==
  Buffered(n, cookieMap[n].sVal)
  \o (IF cookieMap[n].expired THEN <<Space, Expires, Semicolon>> ELSE <<>>)
  \o <<Space, PathIs, Semicolon, Space, DomainIs, Semicolon>>

\* A browser takes the text before the first semicolon, and forgets a cookie that has
\* expired.
Before(text, c) == SubSeq(text, 1, SelectInSeq(Append(text, c), LAMBDA d : d = c) - 1)
After(text, c)  == SubSeq(text, Len(Before(text, c)) + 2, Len(text))
Stored(line) ==
  IF Expires \in ToSet(After(line, Semicolon)) THEN <<>>
  ELSE <<After(Before(line, Semicolon), Equals)>>

\* OutputCookie(), by which a response ends; the action's data end with it.
OutputCookie ==
  /\ Calls /\ Keep /\ UNCHANGED asked
  /\ jar' = [n \in CookieNames |-> IF cookieMap[n].set THEN Stored(CookieLine(n)) ELSE jar[n]]
  /\ EmptyView

\* The next request brings the cookies, which Fastcgi++ reads.
CookieHeader ==
  Joined([k \in 1..Cardinality({n \in CookieNames : jar[n] # <<>>}) |->
            LET n == SetToSortSeq({m \in CookieNames : jar[m] # <<>>}, <)[k]
            IN <<n, Equals>> \o jar[n][1]],
         <<Semicolon, Space>>)
SendCookies ==
  /\ request = NoRequest /\ calls > 0
  /\ request' = [how |-> "cookies"]
  /\ environment' = decodeUrlEncoded(CookieHeader, Semicolon)
  /\ UNCHANGED viewVars

Respond == \* The request is done.
  /\ request # NoRequest
  /\ request' = NoRequest /\ environment' = <<>>
  /\ UNCHANGED viewVars

ExchangeInit ==
  /\ request = NoRequest /\ environment = <<>>
  /\ cookieMap = [n \in CookieNames |-> NoCookie] /\ encodeChn = TRUE
  /\ userData = <<>> /\ dict = <<>> /\ given = <<>>
  /\ jar = [n \in CookieNames |-> <<>>] /\ asked = [n \in CookieNames |-> Nothing]
  /\ calls = 0

ExchangeNext ==
  \/ SendQuery \/ SendForm \/ SendPath \/ SendMultipart \/ SendAddress \/ SendSession
  \/ SetCookies \/ SetUserData \/ SetValue \/ OutputCookie \/ SendCookies \/ Respond

-----------------------------------------------------------------------------
(* Properties.                                                             *)

\* Every variable has its type.
ExchangeTypeOK ==
  /\ request.how \in {"none", "query", "form", "path", "multipart", "address", "session",
                      "cookies"}
  /\ encodeChn \in BOOLEAN /\ calls \in 0..MaxCalls
  /\ \A n \in CookieNames : /\ cookieMap[n].set \in BOOLEAN /\ Len(jar[n]) <= 1
                            /\ asked[n].sure \in BOOLEAN
  /\ DOMAIN given = DOMAIN userData \cup {<<"dict", n>> : n \in DOMAIN dict}

\* Of several fields with a name the last.
LastOf(fields, n, Value(_)) ==
  Value(fields[Max({k \in DOMAIN fields : fields[k].name = n})])
LastByName(fields, Value(_)) ==
  [n \in {fields[k].name : k \in DOMAIN fields} |-> LastOf(fields, n, Value)]

Values(fields) == LastByName(fields, LAMBDA field : field.value)

Escapes(text)  == Len(Escape(text)) # Len(text)

\* A part arrives whole if its text has no beginning of the boundary and, for a
\* boundary that begins with dashes, does not end with a line's end.
Arrives(body, dashes) == /\ BoundaryStart(dashes) \notin ToSet(body)
                         /\ dashes => body = <<>> \/ Last(body) # "crlf"

\* What the request finds of the fields a browser sends: of several with a name the
\* last, and of a name that was not sent nothing; the pieces of a path that need no
\* escapes; each part of a multipart post with its file; the client's address; and the
\* id of the session.
FieldsFound ==
  CASE request.how = "query" ->
         LET sent == Values(request.data)
         IN /\ DOMAIN environment \subseteq FieldNames
            /\ \A n \in FieldNames :
                 /\ checkForGet(environment, n) <=> n \in DOMAIN sent
                 /\ findGet(environment, n) = IF n \in DOMAIN sent THEN sent[n] ELSE <<>>
    [] request.how = "form" -> environment = Values(request.data)
    [] request.how = "path" ->
         (\A k \in DOMAIN request.data : ~Escapes(request.data[k].value)) =>
           environment = SelectSeq([k \in DOMAIN request.data |-> request.data[k].value],
                                   LAMBDA value : value # <<>>)
    [] request.how = "multipart" ->
         (\A k \in DOMAIN request.data.fields :
            Arrives(request.data.fields[k].value, request.data.dashes)) =>
           LET fields == request.data.fields
               sent   == {fields[k].name : k \in DOMAIN fields}
           IN \A n \in PartNames :
                LET last == LastOf(fields, n, LAMBDA field : field)
                    post == findPost(environment, <<n>>)
                IN /\ checkForPost(environment, <<n>>) <=> n \in sent
                   /\ n \notin sent => post = NoPost
                   /\ n \in sent =>
                        IF last.file
                          THEN post.type = "file" /\ post.data = last.value /\ post.value = <<n>>
                          ELSE post.type = "form" /\ post.value = last.value
    [] request.how = "address" ->
         /\ environment.assigned = request.data.address
         /\ request.data.follows # <<>> \/ ~IsV4(request.data.address) =>
              environment.read = request.data.address
    [] request.how = "session" -> environment = request.data
    [] OTHER -> TRUE

\* Each cookie that an action asked for is in the next request, or is not if the action
\* let it expire in the response that sets it, once that response is out
\* (web_view.cpp 276-387, 427-504; http.cpp 484-521).
CookiesArrive ==
  \A n \in CookieNames :
    (request.how = "cookies" /\ asked[n].sure /\ ~cookieMap[n].set) =>
      IF asked[n].wants = "gone" THEN <<n>> \notin DOMAIN environment
      ELSE <<n>> \in DOMAIN environment /\ environment[<<n>>] = asked[n].wants

\* What an action leaves for the renderer is what the renderer reads, by the type it was
\* set with; and a number in the dictionary is that number, if it is no long one
\* (web_view.cpp 64-133, 539-674).
UserDataAsSet ==
  \A what \in DOMAIN given :
    IF what[1] = "dict"
      THEN given[what].type \in {"int32", "uint32"} =>
             dict[what[2]] = DecimalText(given[what].value)
      ELSE GetUserData(what[2], given[what].type) = given[what].value

\* What a browser sends is what the request finds (http.cpp 52-182, 271-600, 610-999),
\* and what an action says to its view data comes true, with the renderer and the
\* browser (web_view.cpp 64-133, 276-504, 539-674).
ExchangeKept == ExchangeTypeOK /\ FieldsFound /\ CookiesArrive /\ UserDataAsSet

\* Once an action has deleted a cookie, the next request does not bring it
\* (the example's action deletes one, echo.cpp:56).
DeletedIsGone ==
  \A n \in CookieNames :
    request.how = "cookies" /\ asked[n].wants = "gone" /\ ~cookieMap[n].set =>
      <<n>> \notin DOMAIN environment

\* An integer of any type arrives as its digits.
LongsArrive ==
  \A what \in DOMAIN given :
    what[1] = "dict" => dict[what[2]] = DecimalText(given[what].value)

\* A piece of a path arrives whole.
PathArrives ==
  request.how = "path" =>
    environment = SelectSeq([k \in DOMAIN request.data |-> request.data[k].value],
                            LAMBDA value : value # <<>>)

\* A part of a multipart post arrives whole, whatever its boundary.
PartsArrive ==
  request.how = "multipart" /\ request.data.dashes =>
    LET fields == request.data.fields
    IN \A n \in {fields[k].name : k \in DOMAIN fields} :
         LET last == LastOf(fields, n, LAMBDA field : field)
         IN last.value = IF last.file THEN environment[<<n>>].data
                                      ELSE environment[<<n>>].value

\* operator>> reads what operator<< has written, to the end of the stream.
AddressesReadBack == request.how = "address" => environment.read = request.data.address
=============================================================================
