---------------------------- MODULE ActionParams ----------------------------
(***************************************************************************)
(* CActionParams: the parameters and cookies of a request, and the getters *)
(* through which an action reads them.  A getter takes the first value of  *)
(* a name as a string, a number of one of eight integer types, or money,   *)
(* checks it against limits, returns a code (0 is success) and, when it    *)
(* fails, leaves a message for GetLastErrMsg().                            *)
(*                                                                         *)
(* A text is what the getters tell apart: digits and their number, a       *)
(* cookie's "o" and digits, a decimal fraction, or other words; its length *)
(* and the length CleanChineseString() leaves of it.  A message is what it *)
(* says and whom it names.  A string that is returned is its length.       *)
(***************************************************************************)
EXTENDS Integers, Sequences, FiniteSets, SequencesExt

CONSTANTS
  ParamNames, \* names of parameters; the empty name has no values
  Numbers,    \* numbers that are sent
  MaxLen,     \* bound: length of words
  MaxLimit,   \* bound: size of limits
  MaxAdded,   \* bound: calls of AddVal() and AddCookiePair()
  Byte, Word, DWord, QWord,   \* numbers of the integer types: 2^8, 2^16, 2^32, 2^64
  Long,       \* numbers of a long: DWord or QWord
  TenDigits,  \* the least number of eleven digits
  Multiple    \* TRANSFER_MONEY_MULTIPLE: 100

ASSUME ParamsAssumption ==
  /\ Numbers \subseteq Nat
  /\ MaxLen \in Nat /\ MaxLimit \in Nat /\ MaxAdded \in Nat /\ Multiple \in Nat
  /\ Byte \in 1..Word /\ Word \in 1..DWord /\ DWord \in 1..QWord /\ QWord \in Nat
  /\ \A w \in {Byte, Word, DWord, QWord} : w % 2 = 0
  /\ Long \in {DWord, QWord}
  /\ TenDigits \in Nat /\ TenDigits > DWord

VARIABLES
  paramsMap, \* m_oParamsMap: the values of each name, in order
  cookies,  \* m_oCookieMap: the value of each name, if it has one
  errMsg,   \* m_sErrMsg
  last,     \* the last getter's arguments and what it gave back
  added     \* how many values were added

paramVars == <<paramsMap, cookies, errMsg, last, added>>

Text(kind, n, len, kept) == [kind |-> kind, n |-> n, len |-> len, kept |-> kept]
Words       == UNION {{Text("words", 0, l, k) : k \in 0..2 * l} : l \in 0..MaxLen}
Plain       == {Text("digits", n, 1, 1) : n \in Numbers} \cup Words
Texts       == Plain \cup {Text("money", n, 2, 2) : n \in Numbers}
CookieTexts == Plain \cup {Text("uin", n, 2, 2) : n \in Numbers} \cup {Text("o", 0, 1, 1)}

Message(says, names) == [says |-> says, names |-> names]
\* No constructor sets m_sErrMsg.
Garbage == Message("garbage", "nothing")

\* The value is <<>> if the caller's variable is left as it was.
Result(code, val, msg) == [code |-> code, val |-> val, msg |-> msg]
Succeeds(v)            == Result(0, <<v>>, <<>>)
Fails(code, val, says, names) == Result(code, val, <<Message(says, names)>>)

\* A message names the field by the caller's prompt; without one, by its name
\* or not at all.
ByName(prompt)  == IF prompt THEN "prompt" ELSE "name"
ByPrompt(prompt) == IF prompt THEN "prompt" ELSE "nothing"

-----------------------------------------------------------------------------
(* Integers of a width: how many numbers each type has.                    *)

Width == [uint8 |-> Byte, uint16 |-> Word, uint32 |-> DWord, uint64 |-> QWord,
          int8  |-> Byte, int16  |-> Word, int32  |-> DWord, int64  |-> QWord]
Integer == DOMAIN Width
Signed  == {"int8", "int16", "int32", "int64"}

MostOf(width, signed) == IF signed THEN width \div 2 - 1 ELSE width - 1
Most(t)  == MostOf(Width[t], t \in Signed)
Least(t) == IF t \in Signed THEN -(Width[t] \div 2) ELSE 0

\* static_cast, and assignment to a shorter integer.
Cast(x, t) ==
  LET low == x % Width[t] IN IF low > Most(t) THEN low - Width[t] ELSE low

\* strtoul(), strtol(), strtoull(), strtoll(): the largest number of their type
\* for one that is too large.
StrTo(n, t) ==
  LET most == MostOf(IF Width[t] = QWord THEN QWord ELSE Long, t \in Signed)
  IN IF n > most THEN most ELSE n

-----------------------------------------------------------------------------
(* Getters of parameters.                                                  *)

Missing(prompt) == Fails(-1, <<0>>, "missing", ByName(prompt))

\* CleanChineseString() is applied if the caller gives a limit.
Returned(t, raw, max, min) ==
  IF raw \/ (max = 0 /\ min = 0) THEN t.len ELSE t.kept

\* GetRawVal() and GetVal() of a string.  AddVal() leaves no name with an empty
\* list, so that the code -2 does not occur.
GetString(n, raw, max, min, prompt) ==
  IF paramsMap[n] = <<>> THEN Missing(prompt)
  ELSE LET t == Head(paramsMap[n])
           l == Returned(t, raw, max, min) IN
       IF min > 0 /\ t.len < min THEN Fails(-3, <<t.len>>, "short", ByPrompt(prompt))
       ELSE IF max > 0 /\ l > max THEN Fails(-6, <<l>>, "long", ByPrompt(prompt))
       ELSE Succeeds(l)

\* GetVal() that filters scripts: DoAntiXss() does nothing, but a configuration
\* is asked for.
GetFiltered(n, conf, max, min, prompt) ==
  LET got == GetString(n, FALSE, max, min, prompt) IN
  IF got.code = 0 /\ ~conf THEN Result(-1, got.val, <<>>) ELSE got

\* GetVal() into a buffer, by snprintf().
GetBuffer(n, size, max, min, prompt) ==
  LET got == GetString(n, FALSE, max, min, prompt) IN
  IF got.code # 0 THEN [got EXCEPT !.val = <<>>]
  ELSE IF got.val[1] < size THEN got ELSE Succeeds(size - 1)

\* IsNumber()
IsNumber(t) == t.kind = "digits"
NotDigits(t) ==
  Message(IF t.len = 0 THEN "empty" ELSE "notnumber", "nothing")

\* The numeric getters put a message of their own over IsNumber()'s.
NotNumberBare(t, prompt) == Result(-99, <<>>, <<NotDigits(t)>>)
NotNumber(t, prompt)     == Fails(-99, <<>>, "notnumber", ByName(prompt))

\* A limit of 0 is no limit to the unsigned getters.
AboveOrAt(v, max, t) == (t \in Signed \/ max > 0) /\ v >= max
Above(v, max, t) == (t \in Signed \/ max > 0) /\ v > max
Below(v, min, t) == (t \in Signed \/ min > 0) /\ v < min

\* GetVal() of the four wide types.  The value is converted before it is
\* compared, and stays in the caller's variable when it is refused.  Without a
\* prompt the message for the lower limit is the one for the upper.
GetWide(n, t, max, min, prompt) ==
  IF paramsMap[n] = <<>> THEN Missing(prompt)
  ELSE IF ~IsNumber(Head(paramsMap[n])) THEN NotNumber(Head(paramsMap[n]), prompt)
  ELSE LET v == Cast(StrTo(Head(paramsMap[n]).n, t), t) IN
       IF Above(v, max, t) THEN Fails(-1, <<v>>, "above", ByPrompt(prompt))
       ELSE IF Below(v, min, t)
              THEN Fails(-2, <<v>>, IF prompt THEN "below" ELSE "above", ByPrompt(prompt))
              ELSE Succeeds(v)

\* The narrow ones use the getter for 32 bits.
Wide(t) == CASE t \in {"uint8", "uint16"} -> "uint32" [] t \in {"int8", "int16"} -> "int32"
             [] OTHER -> t
GetInteger(n, t, max, min, prompt) ==
  LET got == GetWide(n, Wide(t), max, min, prompt) IN
  IF Wide(t) = t THEN got
  ELSE IF got.code # 0 THEN [got EXCEPT !.val = <<0>>]
  ELSE Succeeds(Cast(got.val[1], t))

\* GetIntMoney(): whole units or a fraction of two decimals, in hundredths.  It
\* asks for the string without the prompt.  The limits' messages name the
\* prompt, even if there is none: glibc prints "(null)" then.
Hundredths(t) == IF t.kind = "digits" THEN t.n * Multiple ELSE t.n
GetIntMoney(n, max, min, prompt) ==
  LET got == GetString(n, FALSE, 0, 0, FALSE)
      t   == Head(paramsMap[n])
      named == IF prompt THEN "prompt" ELSE "null" IN
  IF got.code # 0 THEN [got EXCEPT !.val = <<>>]
  ELSE IF t.len = 0 THEN Result(-88, <<>>, <<>>)
  ELSE IF t.kind \notin {"digits", "money"} THEN Result(-99, <<>>, <<>>)
  ELSE IF Hundredths(t) > Most("int32") THEN Fails(-11, <<>>, "above", ByName(prompt))
  ELSE IF min # 0 /\ Hundredths(t) < min THEN Fails(-9, <<>>, "below", named)
  ELSE IF max # 0 /\ Hundredths(t) > max THEN Fails(-10, <<>>, "above", named)
  ELSE Succeeds(Hundredths(t))

\* GetVal() of all values of a name.
GetAll(n) ==
  IF paramsMap[n] = <<>> THEN Fails(-1, <<>>, "missing", "name")
                      ELSE Succeeds(Len(paramsMap[n]))

-----------------------------------------------------------------------------
(* Getters of cookies: no limits, and no message but IsNumber()'s.         *)

GetCookieString(n) ==
  IF cookies[n] = <<>> THEN Result(-1, <<0>>, <<>>) ELSE Succeeds(cookies[n][1].len)

GetCookieInteger(n, t) ==
  IF cookies[n] = <<>> THEN Result(-1, <<0>>, <<>>)
  ELSE LET c == cookies[n][1] IN
       IF IsNumber(c) THEN Succeeds(Cast(StrTo(c.n, t), t))
                      ELSE Result(-99, <<>>, <<NotDigits(c)>>)

\* uint32_t: the login cookie uin, "o" and zeros before a number of at most ten
\* digits.  Of a zero nothing is left.
GetCookieUin(n) ==
  IF cookies[n] = <<>> THEN Result(-1, <<0>>, <<>>)
  ELSE LET c == cookies[n][1] IN
       CASE c.kind = "o" -> Result(-98, <<>>, <<>>)
         [] c.kind \in {"digits", "uin"} /\ c.n >= TenDigits -> Result(-2, <<>>, <<>>)
         [] c.kind \in {"digits", "uin"} /\ c.n = 0 ->
              Result(-99, <<>>, <<Message("empty", "nothing")>>)
         [] c.kind \in {"digits", "uin"} /\ c.n \in 1..TenDigits - 1 ->
              Succeeds(Cast(StrTo(c.n, "uint32"), "uint32"))
         [] c.kind = "words" -> Result(-99, <<>>, <<NotDigits(c)>>)

-----------------------------------------------------------------------------
(* The object.                                                             *)

NoCall == [from |-> "none"]

\* From the parsers, before the action runs; Reset() forgets both maps and keeps
\* the message.
AddVal ==
  /\ last = NoCall /\ added < MaxAdded /\ added' = added + 1
  /\ \E n \in ParamNames, t \in Texts : paramsMap' = [paramsMap EXCEPT ![n] = Append(@, t)]
  /\ UNCHANGED <<cookies, errMsg, last>>

AddCookiePair ==
  /\ last = NoCall /\ added < MaxAdded /\ added' = added + 1
  /\ \E n \in ParamNames, t \in CookieTexts : cookies' = [cookies EXCEPT ![n] = <<t>>]
  /\ UNCHANGED <<paramsMap, errMsg, last>>

Reset ==
  /\ last = NoCall
  /\ paramsMap' = [n \in ParamNames |-> <<>>] /\ cookies' = [n \in ParamNames |-> <<>>]
  /\ UNCHANGED <<errMsg, last, added>>

\* A getter is called with these limits and prompt, and gives this result.
Called(from, get, n, max, min, prompt, result) ==
  /\ last' = [from |-> from, get |-> get, name |-> n, max |-> max, min |-> min,
              prompt |-> prompt, code |-> result.code, val |-> result.val]
  /\ errMsg' = IF result.msg = <<>> THEN errMsg ELSE result.msg[1]
  /\ UNCHANGED <<paramsMap, cookies, added>>

Lengths == 0..MaxLimit

ReadString ==
  /\ last = NoCall
  /\ \E n \in ParamNames, max \in Lengths, min \in Lengths, prompt \in BOOLEAN :
       \/ Called("params", "raw", n, max, min, prompt, GetString(n, TRUE, max, min, prompt))
       \/ Called("params", "string", n, max, min, prompt, GetString(n, FALSE, max, min, prompt))
       \/ \E conf \in BOOLEAN :
            Called("params", "filtered", n, max, min, prompt,
                   GetFiltered(n, conf, max, min, prompt))
       \/ \E size \in 1..MaxLimit :
            Called("params", "buffer", n, max, min, prompt,
                   GetBuffer(n, size, max, min, prompt))

ReadInteger ==
  /\ last = NoCall
  /\ \E n \in ParamNames, t \in Integer, max, min \in -MaxLimit..MaxLimit, prompt \in BOOLEAN :
       /\ {max, min} \subseteq Least(t)..Most(t)
       /\ Called("params", t, n, max, min, prompt, GetInteger(n, t, max, min, prompt))

ReadMoney ==
  /\ last = NoCall
  /\ \E n \in ParamNames, max \in Lengths, min \in Lengths, prompt \in BOOLEAN :
       Called("params", "money", n, max, min, prompt, GetIntMoney(n, max, min, prompt))

ReadAll ==
  last = NoCall /\ \E n \in ParamNames : Called("params", "all", n, 0, 0, FALSE, GetAll(n))

ReadCookie ==
  /\ last = NoCall
  /\ \E n \in ParamNames :
       \/ Called("cookies", "string", n, 0, 0, FALSE, GetCookieString(n))
       \/ Called("cookies", "uint32", n, 0, 0, FALSE, GetCookieUin(n))
       \/ \E t \in Integer \ {"uint32"} :
            Called("cookies", t, n, 0, 0, FALSE, GetCookieInteger(n, t))

\* The action has used the result and goes on.
Use == last # NoCall /\ last' = NoCall /\ UNCHANGED <<paramsMap, cookies, errMsg, added>>

ParamsInit ==
  /\ paramsMap = [n \in ParamNames |-> <<>>] /\ cookies = [n \in ParamNames |-> <<>>]
  /\ errMsg = Garbage /\ last = NoCall /\ added = 0

ParamsNext ==
  \/ AddVal \/ AddCookiePair \/ Reset
  \/ ReadString \/ ReadInteger \/ ReadMoney \/ ReadAll \/ ReadCookie \/ Use

ParamsSpec == ParamsInit /\ [][ParamsNext]_paramVars
-----------------------------------------------------------------------------
(* Properties.                                                             *)

\* Every variable has its type; a number that is returned is one of its type.
ParamsTypeOK ==
  /\ \A n \in ParamNames : /\ ToSet(paramsMap[n]) \subseteq Texts /\ Len(paramsMap[n]) <= MaxAdded
                       /\ ToSet(cookies[n]) \subseteq CookieTexts /\ Len(cookies[n]) <= 1
  /\ errMsg.names \in {"nothing", "name", "prompt", "null"}
  /\ last # NoCall /\ last.get \in Integer /\ last.val # <<>> =>
       last.val[1] \in Least(last.get)..Most(last.get)
  /\ added \in 0..MaxAdded

\* The first value of the name the last getter was called for.
Sent == Head(paramsMap[last.name])

Limited(v, max, min) == (max > 0 => v <= max) /\ (min > 0 => v >= min)

\* What a getter of integers returns with 0 is the number that was sent, if that is
\* a number of the type, and is never above a limit it was given, nor below one
\* if it is wide enough or has an upper one; and a number of the type and within
\* the limits, which a signed getter applies even if they are 0, is returned
\* (action_params.cpp 614-1088).
NumberAsSent ==
  (last.from = "params" /\ last.get \in Integer) =>
    /\ last.code = 0 =>
         /\ Sent.n <= Most(last.get) => last.val = <<Sent.n>>
         /\ last.get \in Signed => last.val[1] \in last.min..last.max
         /\ last.max > 0 \/ Wide(last.get) = last.get =>
              Limited(last.val[1], last.max, last.min)
    /\ (/\ paramsMap[last.name] # <<>> /\ IsNumber(Sent) /\ Sent.n <= Most(last.get)
        /\ IF last.get \in Signed THEN Sent.n \in last.min..last.max
                                  ELSE Limited(Sent.n, last.max, last.min))
       => last.code = 0

\* What a getter of strings returns with 0 is no longer than the caller allows; what
\* GetRawVal() returns is the whole of what was sent, and not too short
\* (action_params.cpp 177-494).
StringAsSent ==
  (/\ last.from = "params" /\ last.get \in {"raw", "string", "filtered", "buffer"}
   /\ last.code = 0) =>
    /\ Limited(last.val[1], last.max, 0)
    /\ last.get = "raw" => last.val = <<Sent.len>> /\ Limited(last.val[1], 0, last.min)

\* A cookie that is a number of the type asked for is returned as it is; the
\* login cookie unless it is zero.
CookieAsSent ==
  LET c == cookies[last.name][1] IN
  (/\ last.from = "cookies" /\ last.get \in Integer /\ cookies[last.name] # <<>>
   /\ IsNumber(c) /\ c.n <= Most(last.get) /\ (last.get = "uint32" => c.n > 0))
  => last.code = 0 /\ last.val = <<c.n>>

\* What a getter returns is of its type, and with 0 what the client sent.
ValuesAsSent == ParamsTypeOK /\ NumberAsSent /\ StringAsSent /\ CookieAsSent

\* Why a getter fails, by what it was asked for and what is there.
Why ==
  CASE paramsMap[last.name] = <<>> -> "missing"
    [] paramsMap[last.name] # <<>> /\ last.get \in Integer /\ ~IsNumber(Sent) -> "notnumber"
    [] OTHER ->
         CASE last.code = -3 -> "short" [] last.code = -6 -> "long"
           [] last.code \in {-1, -10, -11} -> "above" [] last.code \in {-2, -9} -> "below"

\* After a getter of a parameter has failed, the message is about that failure and
\* none that an earlier call left; with a prompt it says why and names the
\* field by it (action_params.h 33).  GetIntMoney() and GetVal() with a
\* configuration have failures without a message.
MessageOfFailure ==
  (/\ last.from = "params" /\ last.get \in Integer \cup {"raw", "string", "buffer", "money"}
   /\ last.code \notin {0, -88} /\ ~(last.get = "money" /\ last.code = -99)
   /\ last.prompt)
  => /\ errMsg.says = Why
     /\ ~(last.get = "money" /\ Why = "missing") => errMsg.names = "prompt"

\* A maximum of 0, which is the default, is no limit (action_params.h 103-194).
ZeroIsNoLimit ==
  (/\ last.from = "params" /\ last.get \in Integer /\ last.max = 0 /\ last.min = 0
   /\ paramsMap[last.name] # <<>>)
  => last.code # -1

\* A number that is returned is not below the minimum asked for
\* (action_params.h 104).
MinimumHolds ==
  (last.from = "params" /\ last.get \in Integer /\ last.code = 0)
  => Limited(last.val[1], 0, last.min)

\* A string that is returned is not shorter than the minimum asked for
\* (action_params.h 32).
MinimumLength ==
  (last.from = "params" /\ last.get \in {"raw", "string"} /\ last.code = 0)
  => Limited(last.val[1], 0, last.min)

\* The message says which limit a number is beyond (action_params.h 33).
MessageNamesLimit ==
  last.from = "params" /\ last.get \in Integer /\ last.code = -2 => errMsg.says = "below"
=============================================================================
