------------------------------ MODULE ValuesMC ------------------------------
(***************************************************************************)
(* The parts that only turn values into others, for TLC: the getters of an *)
(* action, with integers of a few bits, the texts of requests and cookies, *)
(* and the byte stream.  They share no state, so that in a behaviour one   *)
(* of them moves and the others stay as they began.                        *)
(***************************************************************************)
EXTENDS ActionParams, WebExchange, ByteStream

\* Addresses with every placing of zeros, and such as are shown as version 4.
MCAddresses ==
  [1..8 -> {0, 43981}]
  \cup {<<0, 0, 0, 0, 0, 65535, a, b>> : a \in {0, 258, 65535}, b \in {0, 10, 25700}}

\* "a" and "a =": a name that needs its escapes.
MCFieldNames  == {<<97>>, <<97, 32, 61>>}
\* Nothing, "b", "%41", "+&;" and a letter of two bytes.
MCFieldValues == {<<>>, <<98>>, <<37, 52, 49>>, <<43, 38, 59>>, <<195, 169>>}
\* Texts that look like parts of the post's frame.
MCBodies == {<<>>, <<"text">>, <<"text", "crlf">>, <<"crlf", "crlf", "name=\"", "\"">>,
             <<"text", "--", "text">>}
MCIds    == UNION {[1..n -> {0, 129, 255}] : n \in 0..4}
\* "x=y" and "%41".
MCCookieStrings == {<<120, 61, 121>>, <<37, 52, 49>>}
MCIntegers == {-5, 200}

U8 == Fixed(1)
U16 == Fixed(2)
U32 == Fixed(4)
Sent3(type, value, into) == [type |-> type, value |-> value, into |-> into]
Reader == [v \in {<<0>>, <<101>>} |-> <<v, <<9, 8, 7, 6>>, <<5>>, TRUE, <<>>, <<>> >>]

\* A request's kinds of fields, of a version before and after the one that has more,
\* read into an object of another.
MCRequest == Since1(<<U8, U32, String, Bool>>, <<String, String>>)
MCRequests ==
  {Sent3(MCRequest, <<v, <<0, 0, 1, 2>>, t, b, <<>>, <<>> >>, Reader[w]) :
     v \in {<<100>>, <<101>>}, w \in DOMAIN Reader, t \in {<<>>, <<65, 66>>}, b \in BOOLEAN}
  \cup {Sent3(MCRequest, << <<101>>, <<0, 0, 0, 2>>, <<>>, b, <<67>>, <<>> >>, Reader[w]) :
          w \in DOMAIN Reader, b \in BOOLEAN}

\* Containers, read into empty ones; and a vector into a longer one.
MCContainers ==
  {Sent3(Vector(U16), v, <<>>) : v \in {<<>>, << <<1, 2>> >>, << <<0, 1>>, <<2, 3>> >>}}
  \cup {Sent3(Map(U8, String), v, <<>>) :
          v \in {<<>>, <<1>> :> << <<7, 8>> >>,
                 <<2>> :> << <<>> >> @@ <<1>> :> << <<9>> >>}}
  \cup {Sent3(Multimap(U8, U16), <<2>> :> << <<1, 1>>, <<0, 1>> >> @@ <<1>> :> << <<3, 4>> >>,
              <<>>),
        Sent3(Vector(Object(<<String, Vector(Bool)>>)),
              << << <<3>>, <<TRUE>> >>, << <<>>, <<FALSE, TRUE>> >> >>, <<>>),
        Sent3(Vector(U16), << <<4, 5>> >>, << <<7, 7>>, <<8, 8>> >>)}
MCLong(n)  == Sent3(Object(<<Long64, U16>>), <<n, <<5, 6>> >>, <<n, <<1, 2>> >>)
MCMessages == MCRequests \cup MCContainers \cup {MCLong(7)}

\* Numbers of two digits, and an empty container read into one that is not.
MCLongs == {MCLong(10)}
MCStale == {Sent3(Vector(U16), <<>>, << <<7, 7>> >>)}

ParamsStill   == UNCHANGED paramVars
ExchangeStill == UNCHANGED exchangeVars
StreamStill   == UNCHANGED streamVars
SessionsStill == UNCHANGED sessionVars
ParamsBegin   == added = 0 /\ last = NoCall /\ errMsg = Garbage
ExchangeBegin == calls = 0 /\ request = NoRequest
StreamBegin   == phase = "count"
SessionsBegin == now = 0 /\ answered = <<>>

ValuesInit == ParamsInit /\ ExchangeInit /\ StreamInit /\ SessionsInit
ValuesNext ==
  \/ /\ ExchangeBegin /\ StreamBegin /\ SessionsBegin /\ ParamsNext
     /\ ExchangeStill /\ StreamStill /\ SessionsStill
  \/ /\ ParamsBegin /\ StreamBegin /\ SessionsBegin /\ ExchangeNext
     /\ ParamsStill /\ StreamStill /\ SessionsStill
  \/ /\ ParamsBegin /\ ExchangeBegin /\ SessionsBegin /\ StreamNext
     /\ ParamsStill /\ ExchangeStill /\ SessionsStill
  \/ /\ ParamsBegin /\ ExchangeBegin /\ StreamBegin /\ SessionsNext
     /\ ParamsStill /\ ExchangeStill /\ StreamStill
ValuesSpec == ValuesInit /\ [][ValuesNext]_<<paramVars, exchangeVars, streamVars, sessionVars>>
=============================================================================
