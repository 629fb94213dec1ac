------------------------- MODULE FcgiRequestProofs -------------------------
(***************************************************************************)
(* Theorems about FcgiRequest, for every limit, content length and number  *)
(* of records and callbacks:                                               *)
(*                                                                         *)
(*   EndsOnce               Spec => []OneEnd                               *)
(*   BodyFits               Spec => []PostFits                             *)
(*   ParametersReachResponse  Spec => ResponseSeesParameters               *)
(*   BodyWhole              Spec => BodyIntact                             *)
(*                                                                         *)
(* Four inductive invariants, each on top of the one before: the types;    *)
(* that the limits were checked before anything was stored (Limited);      *)
(* where each parameter is that has not been seen (Gathered): with the     *)
(* server, in the environment, or in a record before the one that ends     *)
(* them; and where each byte of the body is (Accounted): on the way, in a  *)
(* record before the one that ends the body, or in the post buffer.        *)
(***************************************************************************)
EXTENDS FcgiRequest, SequenceTheorems, TLAPS

Texts == {"response", "part", "error", "too big", "unknown role", "end"}

MessageType == [kind : {"params", "in", "abort", "callback"}, size : Nat,
                names : SUBSET Names, cut : BOOLEAN]

Environments == [method : {"post", "other"}, length : Lengths \cup {0},
                 type : {"multipart", "urlencoded", "other"}]

Typed ==
  /\ TypeOK
  /\ messages \in Seq(MessageType) /\ output \in Seq(Texts)
  /\ truth \in Values /\ unsent \subseteq Names
  /\ stage \in {"params", "in", "sent", "strayed"}
  /\ body \in Nat
  /\ calls + pending <= MaxCallbacks

\* END_REQUEST is the last thing written, and only by a request that ended.
EndLast == \A k \in 1..Len(output) : output[k] = "end" => k = Len(output) /\ status = "ended"

\* Nothing is stored before the length was compared with the limit, and no more
\* than that length.
Limited ==
  /\ posted.filled <= environment.length
  /\ state = "params" => posted = NoBuffer
  /\ state # "params" => ~TooBig

InputInv == Typed /\ EndLast /\ Limited

-----------------------------------------------------------------------------
\* The record that ends the parameters.
IsLast(m) == m.kind = "params" /\ m.size = 0

\* A record that is still queued brings parameter n, and the parameters do not
\* end before it.
Coming(n, ms) ==
  \E k \in 1..Len(ms) :
    /\ ms[k].kind = "params" /\ ms[k].size > 0 /\ n \in ms[k].names
    /\ \A j \in 1..(k - 1) : ~IsLast(ms[j])

\* While the server sends parameters, nothing that follows them has been sent.
ParamsFirst ==
  stage = "params" =>
    /\ state = "params"
    /\ \A k \in 1..Len(messages) : messages[k].kind # "in" /\ ~IsLast(messages[k])

\* A server that has lost its way has sent one record too many and no other: the
\* end of the parameters or of the body, so that the response is not reached.
StrayedStays ==
  stage = "strayed" =>
    /\ state # "out"
    /\ \/ \A k \in 1..Len(messages) : messages[k].kind # "in"
       \/ state = "params" /\ \A k \in 1..Len(messages) : ~IsLast(messages[k])

\* A parameter is with the server, in the environment, or in a record that will be
\* read.
Somewhere(n) == \/ n \in unsent
                \/ environment[n] = truth[n]
                \/ state = "params" /\ Coming(n, messages)

Gathered ==
  /\ stage \in {"in", "sent"} => unsent = {}
  /\ whole /\ stage # "strayed" => \A n \in Names : Somewhere(n)

GatherInv == InputInv /\ ParamsFirst /\ StrayedStays /\ Gathered

-----------------------------------------------------------------------------
\* The front of the queue and what is behind it.
LEMMA Queues ==
  ASSUME NEW ms \in Seq(MessageType)
  PROVE  /\ ms # <<>> => /\ Head(ms) \in MessageType /\ Head(ms) = ms[1]
                         /\ Len(ms) \in Nat \ {0}
                         /\ Tail(ms) \in Seq(MessageType) /\ Len(Tail(ms)) = Len(ms) - 1
                         /\ \A k \in 1..(Len(ms) - 1) : Tail(ms)[k] = ms[k + 1]
         /\ \A m \in MessageType :
              /\ Append(ms, m) \in Seq(MessageType) /\ Len(Append(ms, m)) = Len(ms) + 1
              /\ \A k \in 1..Len(ms) : Append(ms, m)[k] = ms[k]
              /\ Append(ms, m)[Len(ms) + 1] = m
OBVIOUS

\* What complete() writes ends with the only "end".
LEMMA Ended ==
  ASSUME Typed, EndLast, status = "alive",
         NEW text \in Texts, text # "end",
         output' = (output \o <<text>>) \o <<"end">>, status' = "ended"
  PROVE  EndLast' /\ output' \in Seq(Texts)
<1> DEFINE first == Append(output, text)
<1>1. /\ output \in Seq(Texts) /\ Len(output) \in Nat
      /\ \A k \in 1..Len(output) : output[k] # "end"
  BY DEF Typed, EndLast
<1>2. /\ first \in Seq(Texts) /\ Len(first) = Len(output) + 1
      /\ \A k \in 1..Len(output) : first[k] = output[k]
      /\ first[Len(output) + 1] = text
      /\ first = output \o <<text>>
  BY <1>1, AppendProperties, AppendIsConcat
<1> HIDE DEF first
<1>a. "end" \in Texts
  BY DEF Texts
<1>b. output' = Append(first, "end")
  BY <1>2, <1>a, AppendIsConcat
<1>3. /\ Len(output') = Len(output) + 2
      /\ output' \in Seq(Texts)
      /\ \A k \in 1..(Len(output) + 1) : output'[k] = first[k]
  <2>1. Len(first) \in Nat
    BY <1>1, <1>2
  <2>2. /\ Len(output') = Len(first) + 1 /\ output' \in Seq(Texts)
        /\ \A k \in 1..Len(first) : output'[k] = first[k]
    BY <1>a, <1>b, <1>2, AppendProperties
  <2> QED
    BY <1>1, <1>2, <2>1, <2>2
<1>4. ASSUME NEW k \in 1..Len(output'), output'[k] = "end"
      PROVE  k = Len(output')
  <2>1. k \in 1..Len(output) \/ k = Len(output) + 1 \/ k = Len(output) + 2
    BY <1>1, <1>3
  <2> QED
    BY <1>1, <1>2, <1>3, <1>4, <2>1
<1> QED
  BY <1>3, <1>4 DEF EndLast

\* A step that neither writes nor changes the status.
LEMMA NothingSaid ==
  ASSUME Typed, EndLast, UNCHANGED output, status' = status
  PROVE  EndLast'
BY DEF EndLast

\* The same of what complete() is called with.
LEMMA Completed ==
  ASSUME Typed, EndLast, status = "alive",
         \/ Complete(<<"response">>) \/ Complete(<<"error">>)
         \/ Complete(<<"too big">>) \/ Complete(<<"unknown role">>)
  PROVE  EndLast' /\ output' \in Seq(Texts) /\ status' = "ended"
<1>1. /\ "response" \in Texts /\ "response" # "end" /\ "error" \in Texts /\ "error" # "end"
      /\ "too big" \in Texts /\ "too big" # "end"
      /\ "unknown role" \in Texts /\ "unknown role" # "end"
  BY DEF Texts
<1>2. PICK text \in Texts : /\ text # "end" /\ status' = "ended"
                           /\ output' = (output \o <<text>>) \o <<"end">>
  BY <1>1 DEF Complete
<1> QED
  BY <1>2, Ended

\* A request that stops without a word.
LEMMA Silent ==
  ASSUME Typed, EndLast, status = "alive", UNCHANGED output
  PROVE  EndLast'
BY DEF EndLast

\* response() writes nothing after the end, and asks for no more callbacks than
\* there may be.
LEMMA Response ==
  ASSUME Typed, EndLast, status = "alive", RunResponse, calls' = calls
  PROVE  /\ EndLast' /\ output' \in Seq(Texts)
         /\ status' \in {"alive", "ended"}
         /\ pending' \in 0..MaxCallbacks /\ calls' + pending' <= MaxCallbacks
<1>1. calls \in Nat /\ pending \in Nat /\ MaxCallbacks \in Nat /\ calls + pending <= MaxCallbacks
  BY RequestAssumption DEF Typed, TypeOK
<1>2. CASE Complete(<<"response">>) /\ UNCHANGED pending
  BY <1>1, <1>2, Completed
<1>3. CASE Fail /\ UNCHANGED pending
  BY <1>1, <1>3, Completed DEF Fail
<1>4. CASE /\ calls + pending < MaxCallbacks
           /\ output' = Append(output, "part") /\ UNCHANGED status
           /\ pending' = pending + 1
  <2>a. "part" \in Texts /\ "part" # "end"
    BY DEF Texts
  <2>1. /\ output \in Seq(Texts) /\ Len(output) \in Nat
        /\ \A k \in 1..Len(output) : output[k] # "end"
    BY DEF Typed, EndLast
  <2>2. /\ output' \in Seq(Texts) /\ Len(output') = Len(output) + 1
        /\ \A k \in 1..Len(output) : output'[k] = output[k]
        /\ output'[Len(output) + 1] = "part"
    BY <1>4, <2>a, <2>1, AppendProperties
  <2>3. \A k \in 1..Len(output') : output'[k] # "end"
    BY <2>a, <2>1, <2>2
  <2> QED
    BY <1>1, <1>4, <2>2, <2>3 DEF EndLast
<1> QED
  BY <1>2, <1>3, <1>4 DEF RunResponse
\* fill() keeps the environment's type, and takes over what the record brings.
LEMMA Filled ==
  ASSUME Typed, NEW names \in SUBSET Names
  PROVE  /\ Fill(names) \in Environments
         /\ \A n \in Names : Fill(names)[n] = IF n \in names THEN truth[n] ELSE environment[n]
<1>1. /\ truth \in [method : {"post", "other"}, length : Lengths,
                    type : {"multipart", "urlencoded", "other"}]
      /\ environment \in Environments
  BY DEF Typed, TypeOK, Values, Environments
<1>2. \A n \in Names : Fill(names)[n] = IF n \in names THEN truth[n] ELSE environment[n]
  BY DEF Fill
<1>3. "method" \in Names /\ "length" \in Names /\ "type" \in Names
  BY DEF Names
<1>4. /\ Fill(names)["method"] \in {"post", "other"}
      /\ Fill(names)["length"] \in Lengths \cup {0}
      /\ Fill(names)["type"] \in {"multipart", "urlencoded", "other"}
  BY <1>1, <1>2, <1>3 DEF Environments
<1>5. Fill(names) = [method |-> Fill(names)["method"], length |-> Fill(names)["length"],
                     type |-> Fill(names)["type"]]
  BY DEF Fill, Names
<1> QED
  BY <1>2, <1>4, <1>5 DEF Environments

\* What every message that is sent looks like.
LEMMA Sent ==
  /\ \A names \in SUBSET Names, cut \in BOOLEAN, size \in Nat,
        kind \in {"params", "in", "abort", "callback"} :
       Message(kind, size, names, cut) \in MessageType
  /\ \A names, cut, size, kind :
       LET m == Message(kind, size, names, cut)
       IN m.kind = kind /\ m.size = size /\ m.names = names /\ m.cut = cut
BY DEF Message, MessageType

\* What a pass takes from the queue.
LEMMA Taken ==
  ASSUME Typed, Turn
  PROVE  /\ status = "alive"
         /\ Front \in MessageType /\ Front = messages[1]
         /\ Len(messages) \in Nat \ {0}
         /\ Tail(messages) \in Seq(MessageType) /\ Len(Tail(messages)) = Len(messages) - 1
         /\ \A k \in 1..(Len(messages) - 1) : Tail(messages)[k] = messages[k + 1]
BY Queues DEF Typed, Turn, Front

\* What the server does: all that changes of Typed, EndLast and Limited is the queue
\* and the server's own state.
LEMMA ServerSends ==
  ASSUME InputInv,
         SendParams \/ EndParams \/ SendIn \/ EndIn \/ SendAbort \/ SendStray \/ SendCallback
  PROVE  /\ messages' \in Seq(MessageType)
         /\ UNCHANGED <<role, state, environment, posted, posts, status, output, truth>>
         /\ unsent' \subseteq Names
         /\ stage' \in {"params", "in", "sent", "strayed"}
         /\ body' \in Nat
         /\ pending' \in 0..MaxCallbacks /\ calls' \in 0..MaxCallbacks
         /\ calls' + pending' <= MaxCallbacks
<1>1. /\ messages \in Seq(MessageType) /\ unsent \subseteq Names
      /\ stage \in {"params", "in", "sent", "strayed"} /\ body \in Nat
      /\ pending \in 0..MaxCallbacks /\ calls \in 0..MaxCallbacks
      /\ calls + pending <= MaxCallbacks /\ MaxCallbacks \in Nat
  BY RequestAssumption DEF InputInv, Typed, TypeOK
<1>2. \A m \in MessageType : Append(messages, m) \in Seq(MessageType)
  BY <1>1
<1>3. CASE SendParams
  <2>1. PICK names \in (SUBSET unsent) \ {{}} :
          \/ /\ Queue(Message("params", 1, names, FALSE))
             /\ unsent' = unsent \ names
          \/ /\ \E n \in names :
                  messages' = messages \o << Message("params", 1, names \ {n}, TRUE),
                                             Message("params", 1, {}, TRUE) >>
             /\ unsent' = unsent \ names
    BY <1>3 DEF SendParams
  <2>2. CASE Queue(Message("params", 1, names, FALSE))
    <3>1. Message("params", 1, names, FALSE) \in MessageType
      BY <1>1, Sent
    <3> QED
      BY <1>1, <1>2, <1>3, <2>1, <2>2, <3>1 DEF SendParams, Queue
  <2>3. ASSUME NEW n \in names,
               messages' = messages \o << Message("params", 1, names \ {n}, TRUE),
                                          Message("params", 1, {}, TRUE) >>
        PROVE  messages' \in Seq(MessageType)
    <3> DEFINE m1 == Message("params", 1, names \ {n}, TRUE)
               m2 == Message("params", 1, {}, TRUE)
    <3>1. m1 \in MessageType /\ m2 \in MessageType
      BY <1>1, Sent
    <3> HIDE DEF m1, m2
    <3>2. <<m1, m2>> \in Seq(MessageType)
      BY <3>1
    <3> QED
      BY <1>1, <2>3, <3>2, ConcatProperties DEF m1, m2
  <2> QED
    BY <1>1, <1>3, <2>1, <2>2, <2>3 DEF SendParams
<1>4. CASE EndParams
  BY <1>1, <1>2, <1>4, Sent DEF EndParams, Queue
<1>5. CASE SendIn
  <2>1. PICK n \in Chunks : Queue(Message("in", n, {}, FALSE)) /\ body' = body + n
    BY <1>5 DEF SendIn
  <2>2. n \in Nat
    BY RequestAssumption
  <2>3. Message("in", n, {}, FALSE) \in MessageType
    BY <2>2, Sent
  <2>4. body + n \in Nat
    BY <1>1, <2>2
  <2> QED
    BY <1>1, <1>2, <1>5, <2>1, <2>3, <2>4 DEF SendIn, Queue
<1>6. CASE EndIn
  BY <1>1, <1>2, <1>6, Sent DEF EndIn, Queue
<1>7. CASE SendAbort
  BY <1>1, <1>2, <1>7, Sent DEF SendAbort, Queue
<1>8. CASE SendStray
  <2>1. PICK kind \in {"params", "in"}, size \in {0, 1} : Queue(Message(kind, size, {}, FALSE))
    BY <1>8 DEF SendStray
  <2> QED
    BY <1>1, <1>2, <1>8, <2>1, Sent DEF SendStray, Queue
<1>9. CASE SendCallback
  <2>1. Message("callback", 0, {}, FALSE) \in MessageType
    BY Sent
  <2>2. messages' \in Seq(MessageType)
    BY <1>2, <1>9, <2>1 DEF SendCallback, Queue
  <2>3. /\ pending > 0 /\ calls < MaxCallbacks
        /\ pending' = pending - 1 /\ calls' = calls + 1
    BY <1>9 DEF SendCallback
  <2>4. UNCHANGED <<role, state, environment, posted, posts, status, output, server>>
    BY <1>9 DEF SendCallback
  <2> QED
    BY <1>1, <2>2, <2>3, <2>4 DEF server
<1> QED
  BY <1>3, <1>4, <1>5, <1>6, <1>7, <1>8, <1>9

-----------------------------------------------------------------------------
\* The first invariant.
LEMMA InputInit == Init => InputInv
BY RequestAssumption
   DEF Init, InputInv, Typed, TypeOK, EndLast, Limited, Values, Defaults, NoBuffer, TooBig

\* What a step of handler() leaves of the types, if it takes a message and says
\* what complete() or response() may say.
LEMMA HandlerStep ==
  ASSUME InputInv, Handler
  PROVE  InputInv'
<1>1. Turn /\ status = "alive"
  BY DEF Handler, UnknownRole, OutOfOrder, Params, ParamsEnd, In, InEnd, ParseFails, Abort,
         Callback, Handles, Turn
<1>2. /\ Front \in MessageType /\ Tail(messages) \in Seq(MessageType)
      /\ Front.size \in Nat /\ Front.names \in SUBSET Names
  BY <1>1, Taken DEF InputInv, MessageType
<1>3. /\ environment \in Environments /\ environment.length \in Nat
      /\ posted \in [set : BOOLEAN, filled : Nat] /\ posted.filled \in Nat
      /\ MaxPost \in Nat /\ Typed /\ EndLast /\ Limited
  <2>1. environment \in Environments /\ posted \in [set : BOOLEAN, filled : Nat]
    BY DEF InputInv, Typed, TypeOK, Environments
  <2>2. environment.length \in Lengths \cup {0} /\ posted.filled \in Nat
    BY <2>1 DEF Environments
  <2>3. environment.length \in Nat
    BY <2>2, RequestAssumption, 0 \in Nat
  <2> QED
    BY RequestAssumption, <2>1, <2>2, <2>3 DEF InputInv
<1>4. CASE UnknownRole
  <2>1. EndLast' /\ output' \in Seq(Texts) /\ status' = "ended"
    BY <1>1, <1>3, <1>4, Completed DEF UnknownRole
  <2> QED
    BY <1>3, <1>4, <2>1 DEF UnknownRole, InputInv, Typed, TypeOK, Limited, TooBig, server
<1>5. CASE OutOfOrder
  <2>1. EndLast' /\ output' \in Seq(Texts) /\ status' = "ended"
    BY <1>1, <1>3, <1>5, Completed DEF OutOfOrder, Fail
  <2>2. messages' \in Seq(MessageType)
    BY <1>2, <1>5 DEF OutOfOrder, Take
  <2> QED
    BY <1>3, <1>5, <2>1, <2>2 DEF OutOfOrder, InputInv, Typed, TypeOK, Limited, TooBig, server
<1>6. CASE Params
  <2>1. EndLast' /\ output' \in Seq(Texts) /\ status' \in {"alive", "ended", "crashed"}
    <3>1. CASE Stay
      BY <1>1, <1>3, <3>1, NothingSaid DEF Stay, Typed
    <3>2. CASE Fail
      BY <1>1, <1>3, <3>2, Completed DEF Fail
    <3>3. CASE status' = "crashed" /\ UNCHANGED output
      BY <1>1, <1>3, <3>3, Silent DEF Typed
    <3> QED
      BY <1>6, <3>1, <3>2, <3>3 DEF Params
  <2>2. messages' \in Seq(MessageType) /\ environment' \in Environments
    BY <1>2, <1>3, <1>6, Filled DEF Params, Take, Environments
  <2>3. Limited'
    <3>1. state = "params" /\ state' = state /\ posted = NoBuffer /\ posted' = posted
      BY <1>3, <1>6 DEF Params, Limited
    <3>2. environment'.length \in Lengths \cup {0}
      BY <2>2 DEF Environments
    <3>3. environment'.length \in Nat
      BY <3>2, RequestAssumption, 0 \in Nat
    <3> QED
      BY <3>1, <3>3 DEF Limited, NoBuffer
  <2> QED
    BY <1>3, <1>6, <2>1, <2>2, <2>3
       DEF Params, InputInv, Typed, TypeOK, server, Environments
<1>7. CASE ParamsEnd
  <2>1. CASE TooBig
    <3>1. EndLast' /\ output' \in Seq(Texts) /\ status' = "ended"
      BY <1>1, <1>3, <1>7, <2>1, Completed DEF ParamsEnd
    <3>2. messages' \in Seq(MessageType) /\ UNCHANGED state
      BY <1>2, <1>7, <2>1 DEF ParamsEnd, Take
    <3> QED
      BY <1>3, <1>7, <3>1, <3>2 DEF ParamsEnd, InputInv, Typed, TypeOK, Limited, TooBig, server
  <2>2. CASE ~TooBig
    <3>1. EndLast' /\ UNCHANGED <<output, status>> /\ state = "params" /\ state' = "in"
      BY <1>1, <1>3, <1>7, <2>2, NothingSaid DEF ParamsEnd, Stay
    <3>2. messages' \in Seq(MessageType)
      BY <1>2, <1>7 DEF ParamsEnd, Take
    <3>3. Limited'
      BY <1>3, <1>7, <2>2, <3>1 DEF ParamsEnd, Limited, TooBig
    <3> QED
      BY <1>3, <1>7, <3>1, <3>2, <3>3 DEF ParamsEnd, InputInv, Typed, TypeOK, server
  <2> QED
    BY <2>1, <2>2
<1>8. CASE In
  <2>1. EndLast' /\ output' \in Seq(Texts) /\ status' \in {"alive", "ended"}
    <3>1. CASE Stay
      BY <1>1, <1>3, <3>1, NothingSaid DEF Stay, Typed
    <3>2. CASE Complete(<<"too big">>)
      BY <1>1, <1>3, <3>2, Completed
    <3> QED
      BY <1>8, <3>1, <3>2 DEF In
  <2>2. messages' \in Seq(MessageType)
    BY <1>2, <1>8 DEF In, Take
  <2>3. /\ posted' = [set |-> TRUE, filled |-> posted.filled + Stored(Front.size)]
        /\ posted.filled <= environment.length
    BY <1>3, <1>8 DEF In, Limited
  <2>4. Stored(Front.size) \in 0..(environment.length - posted.filled)
    BY <1>2, <1>3, <2>3 DEF Stored
  <2>5. posted' \in [set : BOOLEAN, filled : Nat] /\ posted'.filled <= environment.length
    BY <1>3, <2>3, <2>4
  <2> QED
    BY <1>3, <1>8, <2>1, <2>2, <2>5 DEF In, InputInv, Typed, TypeOK, Limited, TooBig, server
<1>9. CASE ParseFails
  <2>1. EndLast' /\ output' \in Seq(Texts) /\ status' \in {"ended", "crashed"}
    <3>1. CASE Fail
      BY <1>1, <1>3, <3>1, Completed DEF Fail
    <3>2. CASE status' = "crashed" /\ UNCHANGED output
      BY <1>1, <1>3, <3>2, Silent DEF Typed
    <3> QED
      BY <1>9, <3>1, <3>2 DEF ParseFails
  <2>2. messages' \in Seq(MessageType)
    BY <1>2, <1>9 DEF ParseFails, Take
  <2> QED
    BY <1>3, <1>9, <2>1, <2>2 DEF ParseFails, InputInv, Typed, TypeOK, Limited, TooBig, server
<1>10. CASE InEnd
  <2>1. /\ EndLast' /\ output' \in Seq(Texts) /\ status' \in {"alive", "ended"}
        /\ pending' \in 0..MaxCallbacks /\ calls' + pending' <= MaxCallbacks
    BY <1>1, <1>3, <1>10, Response DEF InEnd
  <2>2. messages' \in Seq(MessageType) /\ posts' \in Nat
    BY <1>2, <1>3, <1>10 DEF InEnd, Take, Typed, TypeOK
  <2>3. Limited' /\ posted' \in [set : BOOLEAN, filled : Nat]
    BY <1>3, <1>10 DEF InEnd, Limited, TooBig, NoBuffer
  <2> QED
    BY <1>3, <1>10, <2>1, <2>2, <2>3 DEF InEnd, InputInv, Typed, TypeOK, server
<1>11. CASE Abort
  <2>1. EndLast' /\ messages' \in Seq(MessageType) /\ UNCHANGED output /\ status' = "aborted"
    BY <1>1, <1>2, <1>3, <1>11, Silent DEF Abort, Take
  <2> QED
    BY <1>3, <1>11, <2>1 DEF Abort, InputInv, Typed, TypeOK, Limited, TooBig, server
<1>12. CASE Callback
  <2>1. /\ EndLast' /\ output' \in Seq(Texts) /\ status' \in {"alive", "ended"}
        /\ pending' \in 0..MaxCallbacks /\ calls' + pending' <= MaxCallbacks
    BY <1>1, <1>3, <1>12, Response DEF Callback
  <2>2. messages' \in Seq(MessageType)
    BY <1>2, <1>12 DEF Callback, Take
  <2> QED
    BY <1>3, <1>12, <2>1, <2>2 DEF Callback, InputInv, Typed, TypeOK, Limited, TooBig, server
<1> QED
  BY <1>4, <1>5, <1>6, <1>7, <1>8, <1>9, <1>10, <1>11, <1>12 DEF Handler

\* Every step keeps the first invariant.
LEMMA InputNext == InputInv /\ [Next]_vars => InputInv'
<1> SUFFICES ASSUME InputInv, [Next]_vars PROVE InputInv'
  OBVIOUS
<1>1. CASE Handler
  BY <1>1, HandlerStep
<1>2. CASE SendParams \/ EndParams \/ SendIn \/ EndIn \/ SendAbort \/ SendStray \/ SendCallback
  BY <1>2, ServerSends
     DEF InputInv, Typed, TypeOK, EndLast, Limited, TooBig
<1>3. CASE UNCHANGED vars
  BY <1>3 DEF vars, request, server, InputInv, Typed, TypeOK, EndLast, Limited, TooBig
<1> QED
  BY <1>1, <1>2, <1>3 DEF Next

\* What the client is sent ends with one END_REQUEST, and the request is over with
\* it (request.cpp 25-44, 102-146).
THEOREM EndsOnce == Spec => []OneEnd
<1>1. InputInv => OneEnd
  BY DEF InputInv, Typed, EndLast, OneEnd
<1> QED
  BY <1>1, InputInit, InputNext, PTL DEF Spec

\* The post buffer never holds more than was allocated for it, nor more than the
\* limit, whatever the server sends (http.cpp 250-267, request.cpp 90-99).
THEOREM BodyFits == Spec => []PostFits
<1>1. InputInv => PostFits
  <2> SUFFICES ASSUME InputInv PROVE PostFits
    OBVIOUS
  <2>1. environment.length \in Lengths \cup {0}
    BY DEF InputInv, Typed, TypeOK
  <2>2. environment.length \in Nat /\ MaxPost \in Nat
    BY <2>1, RequestAssumption, 0 \in Nat
  <2>3. posted.set => ~TooBig
    BY DEF InputInv, Limited, NoBuffer
  <2> QED
    BY <2>2, <2>3 DEF InputInv, Limited, PostFits, TooBig
<1> QED
  BY <1>1, InputInit, InputNext, PTL DEF Spec

-----------------------------------------------------------------------------
(* Where the parameters are.                                               *)

\* Taking a record from the front leaves those behind it to come.
LEMMA ComingBehind ==
  ASSUME NEW ms \in Seq(MessageType), ms # <<>>, NEW n, Coming(n, ms)
  PROVE  /\ ~IsLast(Head(ms))
         /\ ~(Head(ms).kind = "params" /\ n \in Head(ms).names) => Coming(n, Tail(ms))
<1>1. /\ Head(ms) = ms[1] /\ Len(ms) \in Nat \ {0} /\ Len(Tail(ms)) = Len(ms) - 1
      /\ \A k \in 1..(Len(ms) - 1) : Tail(ms)[k] = ms[k + 1]
  BY Queues
<1>2. PICK k \in 1..Len(ms) :
        /\ ms[k].kind = "params" /\ ms[k].size > 0 /\ n \in ms[k].names
        /\ \A j \in 1..(k - 1) : ~IsLast(ms[j])
  BY DEF Coming
<1>3. CASE k = 1
  BY <1>1, <1>2, <1>3 DEF IsLast
<1>4. CASE k # 1
  <2>1. 1 \in 1..(k - 1) /\ k - 1 \in 1..(Len(ms) - 1)
    BY <1>1, <1>4
  <2>2. Tail(ms)[k - 1] = ms[k]
    BY <1>1, <2>1
  <2>3. \A j \in 1..(k - 1 - 1) : ~IsLast(Tail(ms)[j])
    BY <1>1, <1>2, <2>1
  <2> QED
    BY <1>1, <1>2, <2>1, <2>2, <2>3 DEF Coming
<1> QED
  BY <1>3, <1>4

\* What is queued behind the others does not come before them.
LEMMA ComingStill ==
  ASSUME NEW ms \in Seq(MessageType), NEW m \in MessageType, NEW n, Coming(n, ms)
  PROVE  Coming(n, Append(ms, m))
<1>1. PICK k \in 1..Len(ms) :
        /\ ms[k].kind = "params" /\ ms[k].size > 0 /\ n \in ms[k].names
        /\ \A j \in 1..(k - 1) : ~IsLast(ms[j])
  BY DEF Coming
<1>2. /\ Len(ms) \in Nat /\ Len(Append(ms, m)) = Len(ms) + 1
      /\ \A j \in 1..Len(ms) : Append(ms, m)[j] = ms[j]
  BY Queues
<1>3. \A j \in 1..(k - 1) : j \in 1..Len(ms)
  BY <1>2
<1> QED
  BY <1>1, <1>2, <1>3 DEF Coming

\* A parameter that is sent before they end will come.
LEMMA ComingNow ==
  ASSUME NEW ms \in Seq(MessageType), NEW m \in MessageType, NEW n,
         m.kind = "params", m.size > 0, n \in m.names,
         \A k \in 1..Len(ms) : ~IsLast(ms[k])
  PROVE  Coming(n, Append(ms, m))
<1>1. /\ Len(ms) \in Nat /\ Len(Append(ms, m)) = Len(ms) + 1
      /\ \A j \in 1..Len(ms) : Append(ms, m)[j] = ms[j]
      /\ Append(ms, m)[Len(ms) + 1] = m
  BY Queues
<1>2. \A j \in 1..(Len(ms) + 1 - 1) : ~IsLast(Append(ms, m)[j])
  BY <1>1
<1> QED
  BY <1>1, <1>2 DEF Coming

\* A pass that takes a record, stays in the state and the environment, and does not
\* skip a record of parameters.
LEMMA PassKeeps ==
  ASSUME GatherInv, Turn, Take, UNCHANGED <<server, state>>,
         \/ environment' = environment /\ ~(state = "params" /\ Front.kind = "params")
         \/ environment' = Fill(Front.names) /\ Front.kind = "params" /\ state = "params"
  PROVE  ParamsFirst' /\ StrayedStays' /\ Gathered'
<1>1. /\ Typed /\ messages' = Tail(messages) /\ messages # <<>> /\ Front = Head(messages)
      /\ messages \in Seq(MessageType)
      /\ UNCHANGED <<stage, unsent, whole, truth>>
  BY DEF GatherInv, InputInv, Typed, Take, Turn, Front, server
<1>2. /\ Len(messages) \in Nat \ {0} /\ Len(messages') = Len(messages) - 1
      /\ \A k \in 1..(Len(messages) - 1) : messages'[k] = messages[k + 1]
      /\ \A k \in 1..(Len(messages) - 1) : k + 1 \in 1..Len(messages)
  BY <1>1, Queues
<1>a. Front.names \in SUBSET Names
  BY <1>1, Taken DEF MessageType
<1>3. ParamsFirst'
  BY <1>1, <1>2 DEF GatherInv, ParamsFirst, IsLast
<1>4. StrayedStays'
  BY <1>1, <1>2 DEF GatherInv, StrayedStays, IsLast
<1>5. ASSUME NEW n \in Names, Somewhere(n)
      PROVE  Somewhere(n)'
  <2>1. CASE environment' = environment /\ ~(state = "params" /\ Front.kind = "params")
    BY <1>1, <1>5, <2>1, ComingBehind DEF Somewhere
  <2>2. CASE environment' = Fill(Front.names) /\ Front.kind = "params" /\ state = "params"
    <3>1. environment'[n] = IF n \in Front.names THEN truth[n] ELSE environment[n]
      BY <1>1, <1>a, <2>2, Filled
    <3>2. CASE n \in Front.names
      BY <1>1, <3>1, <3>2 DEF Somewhere
    <3>3. CASE n \notin Front.names
      BY <1>1, <1>5, <2>2, <3>1, <3>3, ComingBehind DEF Somewhere
    <3> QED
      BY <3>2, <3>3
  <2> QED
    BY <2>1, <2>2
<1>6. Gathered'
  BY <1>1, <1>5 DEF GatherInv, Gathered
<1> QED
  BY <1>3, <1>4, <1>6

\* handler() leaves every parameter where it is or takes it over.
LEMMA HandlerGathers ==
  ASSUME GatherInv, Handler
  PROVE  ParamsFirst' /\ StrayedStays' /\ Gathered'
<1>1. Turn
  BY DEF Handler, UnknownRole, OutOfOrder, Params, ParamsEnd, In, InEnd, ParseFails, Abort,
         Callback, Handles, Turn
<1>2. /\ Typed /\ messages \in Seq(MessageType) /\ messages # <<>>
      /\ Len(messages) \in Nat \ {0} /\ messages[1] = Front
      /\ Front = Head(messages)
      /\ Len(Tail(messages)) = Len(messages) - 1
      /\ \A k \in 1..(Len(messages) - 1) : Tail(messages)[k] = messages[k + 1]
      /\ \A k \in 1..(Len(messages) - 1) : k + 1 \in 1..Len(messages)
      /\ 1 \in 1..Len(messages)
  BY <1>1, Taken DEF GatherInv, InputInv, Typed, Turn, Front
<1>3. CASE UnknownRole
  BY <1>3 DEF UnknownRole, server, GatherInv, ParamsFirst, StrayedStays, Gathered, Somewhere
<1>4. CASE OutOfOrder
  BY <1>1, <1>4, PassKeeps DEF OutOfOrder
<1>5. CASE Params
  BY <1>1, <1>5, PassKeeps DEF Params, Handles
<1>6. CASE ParamsEnd
  <2>1. /\ IsLast(Front) /\ state = "params" /\ state' \in {"params", "in"}
        /\ messages' = Tail(messages) /\ UNCHANGED <<stage, unsent, whole, truth, environment>>
    BY <1>6 DEF ParamsEnd, Handles, IsLast, Take, Stay, server
  <2>2. \A n : ~Coming(n, messages)
    BY <1>2, <2>1, ComingBehind
  <2>3. Gathered'
    BY <2>1, <2>2 DEF GatherInv, Gathered, Somewhere
  <2>4. stage # "params"
    BY <1>2, <2>1 DEF GatherInv, ParamsFirst
  <2>5. StrayedStays'
    BY <1>2, <2>1 DEF GatherInv, StrayedStays
  <2> QED
    BY <2>1, <2>3, <2>4, <2>5 DEF ParamsFirst
<1>7. CASE In
  BY <1>1, <1>7, PassKeeps DEF In, Handles
<1>8. CASE ParseFails
  BY <1>1, <1>8, PassKeeps DEF ParseFails, Handles
<1>9. CASE InEnd
  <2>1. /\ Front.kind = "in" /\ state = "in" /\ state' = "out"
        /\ messages' = Tail(messages) /\ UNCHANGED <<stage, unsent, whole, truth, environment>>
    BY <1>9 DEF InEnd, Handles, Take, server
  <2>2. stage # "params" /\ stage # "strayed"
    BY <1>2, <2>1 DEF GatherInv, ParamsFirst, StrayedStays
  <2> QED
    BY <2>1, <2>2 DEF GatherInv, ParamsFirst, StrayedStays, Gathered, Somewhere
<1>10. CASE Abort
  BY <1>1, <1>10, PassKeeps DEF Abort, Handles
<1>11. CASE Callback
  BY <1>1, <1>11, PassKeeps DEF Callback, Handles
<1> QED
  BY <1>3, <1>4, <1>5, <1>6, <1>7, <1>8, <1>9, <1>10, <1>11 DEF Handler

\* A message at the end of the queue leaves every parameter where it is.
LEMMA QueuedKeeps ==
  ASSUME Typed, NEW m \in MessageType, messages' = Append(messages, m),
         UNCHANGED <<state, environment, truth, unsent>>, NEW n \in Names, Somewhere(n)
  PROVE  Somewhere(n)'
BY ComingStill DEF Typed, Somewhere

\* What the server and the callbacks do leaves every parameter where it is, or sends it
\* before the end of the parameters.
LEMMA ServerGathers ==
  ASSUME GatherInv,
         SendParams \/ EndParams \/ SendIn \/ EndIn \/ SendAbort \/ SendStray \/ SendCallback
  PROVE  ParamsFirst' /\ StrayedStays' /\ Gathered'
<1>1. /\ InputInv /\ Typed /\ messages \in Seq(MessageType) /\ Len(messages) \in Nat
      /\ unsent \subseteq Names
  BY DEF GatherInv, InputInv, Typed
<1>2. /\ UNCHANGED <<state, environment, truth>> /\ messages' \in Seq(MessageType)
  BY <1>1, ServerSends
<1>3. ASSUME NEW m \in MessageType, messages' = Append(messages, m)
      PROVE  /\ Len(messages') = Len(messages) + 1
             /\ \A k \in 1..Len(messages') :
                  messages'[k] = m \/ (k \in 1..Len(messages) /\ messages'[k] = messages[k])
  <2>1. /\ Len(messages') = Len(messages) + 1
        /\ \A k \in 1..Len(messages) : messages'[k] = messages[k]
        /\ messages'[Len(messages) + 1] = m
    BY <1>1, <1>3, Queues
  <2>2. ASSUME NEW k \in 1..Len(messages')
        PROVE  messages'[k] = m \/ (k \in 1..Len(messages) /\ messages'[k] = messages[k])
    <3>1. k \in 1..Len(messages) \/ k = Len(messages) + 1
      BY <1>1, <2>1
    <3>2. CASE k \in 1..Len(messages)
      BY <2>1, <3>2
    <3>3. CASE k = Len(messages) + 1
      <4>1. messages'[k] = m
        BY <2>1, <3>3
      <4> QED
        BY <4>1
    <3> QED
      BY <3>1, <3>2, <3>3
  <2> QED
    BY <2>1, <2>2
<1>4. CASE SendParams
  <2>1. PICK names \in (SUBSET unsent) \ {{}} :
          \/ /\ Queue(Message("params", 1, names, FALSE))
             /\ unsent' = unsent \ names /\ UNCHANGED whole
          \/ /\ whole' = FALSE
             /\ \E n \in names :
                  messages' = messages \o << Message("params", 1, names \ {n}, TRUE),
                                             Message("params", 1, {}, TRUE) >>
             /\ unsent' = unsent \ names
    BY <1>4 DEF SendParams
  <2>2. /\ stage = "params" /\ stage' = "params" /\ state = "params"
        /\ \A k \in 1..Len(messages) : messages[k].kind # "in" /\ ~IsLast(messages[k])
    BY <1>4 DEF SendParams, GatherInv, ParamsFirst
  <2>3. CASE /\ Queue(Message("params", 1, names, FALSE))
             /\ unsent' = unsent \ names /\ UNCHANGED whole
    <3> DEFINE m == Message("params", 1, names, FALSE)
    <3>1. m \in MessageType /\ m.kind = "params" /\ m.size = 1 /\ m.names = names
      <4>1. m \in MessageType
        BY <1>1, Sent
      <4> QED
        BY <4>1 DEF Message
    <3>2. messages' = Append(messages, m)
      BY <2>3 DEF Queue
    <3> HIDE DEF m
    <3>3. ParamsFirst'
      BY <1>2, <1>3, <2>2, <3>1, <3>2 DEF ParamsFirst, IsLast
    <3>4. ASSUME NEW n \in Names, Somewhere(n) PROVE Somewhere(n)'
      <4>1. CASE n \in names
        BY <1>1, <1>2, <2>2, <3>1, <3>2, <4>1, ComingNow DEF Somewhere
      <4>2. CASE n \notin names
        BY <1>1, <1>2, <2>3, <3>1, <3>2, <3>4, <4>2, ComingStill DEF Somewhere
      <4> QED
        BY <4>1, <4>2
    <3> QED
      BY <2>2, <2>3, <3>3, <3>4 DEF GatherInv, StrayedStays, Gathered
  <2>4. ASSUME NEW n \in names, whole' = FALSE,
               messages' = messages \o << Message("params", 1, names \ {n}, TRUE),
                                          Message("params", 1, {}, TRUE) >>
        PROVE  ParamsFirst' /\ StrayedStays' /\ Gathered'
    <3> DEFINE m1 == Message("params", 1, names \ {n}, TRUE)
               m2 == Message("params", 1, {}, TRUE)
    <3>1. /\ m1 \in MessageType /\ m1.kind = "params" /\ m1.size = 1
          /\ m2 \in MessageType /\ m2.kind = "params" /\ m2.size = 1
      <4>1. m1 \in MessageType /\ m2 \in MessageType
        BY <1>1, Sent
      <4> QED
        BY <4>1 DEF Message
    <3>a. messages' = messages \o <<m1, m2>>
      BY <2>4
    <3> HIDE DEF m1, m2
    <3>2. <<m1, m2>> \in Seq(MessageType) /\ Len(<<m1, m2>>) = 2
          /\ <<m1, m2>>[1] = m1 /\ <<m1, m2>>[2] = m2
      BY <3>1
    <3>3. /\ Len(messages') = Len(messages) + 2
          /\ \A k \in 1..Len(messages') :
               messages'[k] = IF k <= Len(messages) THEN messages[k]
                                                    ELSE <<m1, m2>>[k - Len(messages)]
      BY <1>1, <3>a, <3>2, ConcatProperties
    <3>4. ASSUME NEW k \in 1..Len(messages')
          PROVE  messages'[k].kind # "in" /\ ~IsLast(messages'[k])
      <4>1. k \in 1..Len(messages) \/ k = Len(messages) + 1 \/ k = Len(messages) + 2
        BY <1>1, <3>3
      <4>2. CASE k \in 1..Len(messages)
        BY <1>1, <2>2, <3>3, <4>2
      <4>3. CASE k = Len(messages) + 1
        <5>1. messages'[k] = m1
          BY <1>1, <3>2, <3>3, <4>3
        <5> QED
          BY <3>1, <5>1 DEF IsLast
      <4>4. CASE k = Len(messages) + 2
        <5>1. messages'[k] = m2
          BY <1>1, <3>2, <3>3, <4>4
        <5> QED
          BY <3>1, <5>1 DEF IsLast
      <4> QED
        BY <4>1, <4>2, <4>3, <4>4
    <3> QED
      BY <1>2, <2>2, <2>4, <3>4 DEF ParamsFirst, StrayedStays, Gathered
  <2> QED
    BY <2>1, <2>3, <2>4
<1>5. CASE EndParams
  <2> DEFINE m == Message("params", 0, {}, FALSE)
  <2>1. m \in MessageType
    BY Sent
  <2>2. /\ messages' = Append(messages, m) /\ stage = "params" /\ stage' = "in"
        /\ unsent = {} /\ UNCHANGED <<unsent, whole>>
    BY <1>5 DEF EndParams, Queue
  <2> HIDE DEF m
  <2>3. \A n \in Names : Somewhere(n) => Somewhere(n)'
    BY <1>1, <1>2, <2>1, <2>2, QueuedKeeps
  <2> QED
    BY <2>2, <2>3 DEF GatherInv, ParamsFirst, StrayedStays, Gathered
<1>6. CASE SendIn \/ EndIn
  <2>1. PICK size \in Nat : Queue(Message("in", size, {}, FALSE))
    BY <1>6, RequestAssumption DEF SendIn, EndIn
  <2> DEFINE m == Message("in", size, {}, FALSE)
  <2>2. m \in MessageType
    BY Sent
  <2>3. /\ messages' = Append(messages, m) /\ stage = "in" /\ stage' \in {"in", "sent"}
        /\ UNCHANGED <<unsent, whole>>
    BY <1>6, <2>1 DEF SendIn, EndIn, Queue
  <2> HIDE DEF m
  <2>4. \A n \in Names : Somewhere(n) => Somewhere(n)'
    BY <1>1, <1>2, <2>2, <2>3, QueuedKeeps
  <2> QED
    BY <2>3, <2>4 DEF GatherInv, ParamsFirst, StrayedStays, Gathered
<1>7. CASE SendAbort \/ SendCallback
  <2>1. PICK kind \in {"abort", "callback"} : Queue(Message(kind, 0, {}, FALSE))
    BY <1>7 DEF SendAbort, SendCallback
  <2> DEFINE m == Message(kind, 0, {}, FALSE)
  <2>2. m \in MessageType /\ m.kind # "in" /\ ~IsLast(m)
    <3>1. m \in MessageType
      BY Sent
    <3> QED
      BY <3>1 DEF Message, IsLast
  <2>3. messages' = Append(messages, m) /\ UNCHANGED <<stage, unsent, whole>>
    BY <1>7, <2>1 DEF SendAbort, SendCallback, Queue, server
  <2> HIDE DEF m
  <2>4. \A n \in Names : Somewhere(n) => Somewhere(n)'
    BY <1>1, <1>2, <2>2, <2>3, QueuedKeeps
  <2>5. ParamsFirst' /\ StrayedStays'
    BY <1>2, <1>3, <2>2, <2>3 DEF GatherInv, ParamsFirst, StrayedStays
  <2> QED
    BY <2>3, <2>4, <2>5 DEF GatherInv, Gathered
<1>8. CASE SendStray
  <2>1. PICK kind \in {"params", "in"}, size \in {0, 1} : Queue(Message(kind, size, {}, FALSE))
    BY <1>8 DEF SendStray
  <2> DEFINE m == Message(kind, size, {}, FALSE)
  <2>2. m \in MessageType /\ m.kind = kind
    <3>1. m \in MessageType
      BY Sent
    <3> QED
      BY <3>1 DEF Message
  <2>3. messages' = Append(messages, m) /\ stage = "params" /\ stage' = "strayed"
    BY <1>8, <2>1 DEF SendStray, Queue
  <2> HIDE DEF m
  <2>4. /\ state = "params"
        /\ \A k \in 1..Len(messages) : messages[k].kind # "in" /\ ~IsLast(messages[k])
    BY <2>3 DEF GatherInv, ParamsFirst
  <2>5. CASE kind = "params"
    BY <1>2, <1>3, <2>2, <2>3, <2>4, <2>5 DEF ParamsFirst, StrayedStays, Gathered
  <2>6. CASE kind = "in"
    BY <1>2, <1>3, <2>2, <2>3, <2>4, <2>6 DEF ParamsFirst, StrayedStays, Gathered, IsLast
  <2> QED
    BY <2>1, <2>5, <2>6
<1> QED
  BY <1>4, <1>5, <1>6, <1>7, <1>8

\* The second invariant.
LEMMA GatherHolds == Spec => []GatherInv
<1>1. Init => GatherInv
  BY InputInit DEF Init, GatherInv, ParamsFirst, StrayedStays, Gathered, Somewhere
<1>2. GatherInv /\ [Next]_vars => GatherInv'
  <2> SUFFICES ASSUME GatherInv, [Next]_vars PROVE ParamsFirst' /\ StrayedStays' /\ Gathered'
    BY InputNext DEF GatherInv
  <2>1. CASE UNCHANGED vars
    BY <2>1 DEF vars, request, server, GatherInv, ParamsFirst, StrayedStays, Gathered, Somewhere
  <2> QED
    BY <2>1, HandlerGathers, ServerGathers DEF Next
<1> QED
  BY <1>1, <1>2, PTL DEF Spec

\* The response is made with all the parameters, however they were spread over the
\* records, so long as no parameter was (http.hpp, Environment; http.cpp 105-247).
THEOREM ParametersReachResponse == Spec => ResponseSeesParameters
<1>1. GatherInv /\ [Next]_vars
      => [whole /\ state = "in" /\ state' = "out" => environment = truth]_vars
  <2> SUFFICES ASSUME GatherInv, [Next]_vars, whole, state = "in", state' = "out"
               PROVE  environment = truth
    OBVIOUS
  <2>1. InEnd
    <3>1. Handler
      BY ServerSends DEF Next, vars, request, GatherInv
    <3> QED
      BY <3>1 DEF Handler, UnknownRole, OutOfOrder, Params, ParamsEnd, In, ParseFails, Abort,
                  Callback
  <2>2. Front.kind = "in" /\ Front = messages[1] /\ 1 \in 1..Len(messages) /\ Typed
    BY <2>1, Taken DEF InEnd, Handles, GatherInv, InputInv
  <2>3. stage \in {"in", "sent"}
    BY <2>2 DEF GatherInv, ParamsFirst, StrayedStays, Typed
  <2>4. \A n \in Names : environment[n] = truth[n]
    BY <2>3 DEF GatherInv, Gathered, Somewhere
  <2>5. /\ environment \in Environments
        /\ truth \in [method : {"post", "other"}, length : Lengths,
                      type : {"multipart", "urlencoded", "other"}]
    BY <2>2 DEF Typed, TypeOK, Values, Environments
  <2> QED
    BY <2>4, <2>5 DEF Names, Environments
<1> QED
  BY <1>1, GatherHolds, PTL DEF Spec, ResponseSeesParameters
-----------------------------------------------------------------------------
\* How many bytes of the body a message brings.
Bytes(m) == IF m.kind = "in" THEN m.size ELSE 0

\* P[k] counts the bytes of the body up to the k-th queued message, P[0] those that were
\* taken; `sent' of them were sent.  The record that ends the body comes after all of
\* them, once it was sent.
Ledger(P, ms, sent, closed) ==
  /\ P \in [0..Len(ms) -> Nat] /\ P[Len(ms)] = sent
  /\ \A k \in 1..Len(ms) : P[k] = P[k - 1] + Bytes(ms[k])
  /\ \A k \in 1..Len(ms) : ms[k].kind = "in" /\ ms[k].size = 0 => closed /\ P[k] = sent

Lesser(a, b) == IF a < b THEN a ELSE b

\* As long as the request waits for its body, every byte that was sent is in the queue or
\* was taken, and what was taken is in the buffer as far as there is room.
Accounted ==
  whole /\ status = "alive" /\ state # "out" /\ stage # "strayed" =>
    \E P : /\ Ledger(P, messages, body, stage = "sent")
           /\ state = "params" => P[0] = 0
           /\ posted.filled = Lesser(environment.length, P[0])

BodyInv == GatherInv /\ Accounted

\* The ledger without the front of the queue.
LEMMA LedgerTaken ==
  ASSUME NEW ms \in Seq(MessageType), ms # <<>>, NEW P, NEW sent, NEW closed,
         Ledger(P, ms, sent, closed)
  PROVE  \E Q : Ledger(Q, Tail(ms), sent, closed) /\ Q[0] = P[0] + Bytes(ms[1])
<1> DEFINE Q == [k \in 0..(Len(ms) - 1) |-> P[k + 1]]
<1>1. /\ Len(ms) \in Nat \ {0} /\ Len(Tail(ms)) = Len(ms) - 1
      /\ \A k \in 1..(Len(ms) - 1) : Tail(ms)[k] = ms[k + 1]
  BY Queues
<1>2. /\ P \in [0..Len(ms) -> Nat] /\ P[Len(ms)] = sent
      /\ \A k \in 1..Len(ms) : P[k] = P[k - 1] + Bytes(ms[k])
      /\ \A k \in 1..Len(ms) : ms[k].kind = "in" /\ ms[k].size = 0 => closed /\ P[k] = sent
  BY DEF Ledger
<1>3. Q \in [0..(Len(ms) - 1) -> Nat]
  <2>1. \A k \in 0..(Len(ms) - 1) : k + 1 \in 0..Len(ms)
    BY <1>1
  <2> QED
    BY <1>2, <2>1
<1>4. Q[Len(ms) - 1] = sent /\ Q[0] = P[0] + Bytes(ms[1])
  BY <1>1, <1>2
<1>5. ASSUME NEW k \in 1..(Len(ms) - 1)
      PROVE  /\ Q[k] = Q[k - 1] + Bytes(ms[k + 1])
             /\ ms[k + 1].kind = "in" /\ ms[k + 1].size = 0 => closed /\ Q[k] = sent
  <2>1. /\ k + 1 \in 1..Len(ms) /\ k \in 0..(Len(ms) - 1) /\ k - 1 \in 0..(Len(ms) - 1)
        /\ (k + 1) - 1 = k /\ (k - 1) + 1 = k
    BY <1>1
  <2>2. Q[k] = P[k + 1] /\ Q[k - 1] = P[k]
    BY <2>1
  <2>3. P[k + 1] = P[k] + Bytes(ms[k + 1])
    BY <1>2, <2>1
  <2> QED
    BY <1>2, <2>1, <2>2, <2>3
<1> HIDE DEF Q
<1>6. Ledger(Q, Tail(ms), sent, closed)
  BY <1>1, <1>3, <1>4, <1>5 DEF Ledger
<1> QED
  BY <1>4, <1>6

\* The ledger with one more message: the end of the body comes last.
LEMMA LedgerQueued ==
  ASSUME NEW ms \in Seq(MessageType), NEW m \in MessageType, NEW P, NEW sent \in Nat,
         NEW closed \in BOOLEAN, NEW closing \in BOOLEAN, Ledger(P, ms, sent, closed),
         \/ m.kind # "in" /\ (closed => closing)
         \/ m.kind = "in" /\ ~closed /\ (m.size = 0 => closing)
  PROVE  \E Q : Ledger(Q, Append(ms, m), sent + Bytes(m), closing) /\ Q[0] = P[0]
<1> DEFINE n == Len(ms)
           Q == [k \in 0..(n + 1) |-> IF k <= n THEN P[k] ELSE sent + Bytes(m)]
<1>1. /\ n \in Nat /\ Len(Append(ms, m)) = n + 1
      /\ \A k \in 1..n : Append(ms, m)[k] = ms[k]
      /\ Append(ms, m)[n + 1] = m
  BY Queues
<1>2. /\ P \in [0..n -> Nat] /\ P[n] = sent
      /\ \A k \in 1..n : P[k] = P[k - 1] + Bytes(ms[k])
      /\ \A k \in 1..n : ms[k].kind = "in" /\ ms[k].size = 0 => closed /\ P[k] = sent
  BY DEF Ledger
<1>3. Bytes(m) \in Nat /\ sent + Bytes(m) \in Nat
  BY DEF Bytes, MessageType
<1> HIDE DEF n
<1>4. Q \in [0..(n + 1) -> Nat]
  <2>1. \A k \in 0..(n + 1) : k <= n => k \in 0..n
    BY <1>1
  <2> QED
    BY <1>2, <1>3, <2>1
<1>5. Q[n + 1] = sent + Bytes(m) /\ Q[n] = sent /\ Q[0] = P[0]
  BY <1>1, <1>2
<1>6. ASSUME NEW k \in 1..(n + 1)
      PROVE  /\ Q[k] = Q[k - 1] + Bytes(Append(ms, m)[k])
             /\ Append(ms, m)[k].kind = "in" /\ Append(ms, m)[k].size = 0
                  => closing /\ Q[k] = sent + Bytes(m)
  <2>1. k \in 1..n \/ k = n + 1
    BY <1>1
  <2>2. CASE k \in 1..n
    <3>1. k \in 0..(n + 1) /\ k - 1 \in 0..(n + 1) /\ k <= n /\ k - 1 <= n
      BY <1>1, <2>2
    <3>2. Q[k] = P[k] /\ Q[k - 1] = P[k - 1] /\ Append(ms, m)[k] = ms[k]
      BY <1>1, <2>2, <3>1
    <3>3. closed => m.kind # "in" /\ closing
      OBVIOUS
    <3>4. m.kind # "in" => sent + Bytes(m) = sent
      BY DEF Bytes
    <3> QED
      BY <1>2, <2>2, <3>2, <3>3, <3>4
  <2>3. CASE k = n + 1
    <3>1. k - 1 = n /\ Append(ms, m)[k] = m /\ Q[k] = sent + Bytes(m)
      BY <1>1, <1>5, <2>3
    <3>2. Q[k - 1] = sent
      BY <1>5, <3>1
    <3> QED
      BY <3>1, <3>2
  <2> QED
    BY <2>1, <2>2, <2>3
<1> HIDE DEF Q
<1>7. Ledger(Q, Append(ms, m), sent + Bytes(m), closing)
  BY <1>1, <1>4, <1>5, <1>6 DEF Ledger
<1> QED
  BY <1>5, <1>7

\* A pass that takes a message which brings nothing, or a request that is over.
LEMMA PassAccounts ==
  ASSUME BodyInv, Turn, Take, UNCHANGED <<server, state, posted>>,
         environment'.length \in Nat,
         \/ status' # "alive"
         \/ Bytes(Front) = 0 /\ (environment' = environment \/ state = "params")
  PROVE  Accounted'
<1>1. /\ Typed /\ messages \in Seq(MessageType) /\ messages # <<>> /\ Front = messages[1]
      /\ messages' = Tail(messages) /\ status = "alive"
      /\ UNCHANGED <<stage, whole, body>>
  BY Taken DEF BodyInv, GatherInv, InputInv, Typed, Turn, Take, server
<1> SUFFICES ASSUME whole, status' = "alive", state # "out", stage # "strayed"
             PROVE  \E Q : /\ Ledger(Q, Tail(messages), body, stage = "sent")
                           /\ state = "params" => Q[0] = 0
                           /\ posted.filled = Lesser(environment'.length, Q[0])
  BY <1>1 DEF Accounted
<1>2. PICK P : /\ Ledger(P, messages, body, stage = "sent")
               /\ state = "params" => P[0] = 0
               /\ posted.filled = Lesser(environment.length, P[0])
  BY <1>1 DEF BodyInv, Accounted
<1>3. PICK Q : Ledger(Q, Tail(messages), body, stage = "sent") /\ Q[0] = P[0] + Bytes(Front)
  BY <1>1, <1>2, LedgerTaken
<1>4. P[0] \in Nat
  <2>1. P \in [0..Len(messages) -> Nat] /\ Len(messages) \in Nat
    BY <1>1, <1>2 DEF Ledger
  <2> QED
    BY <2>1
<1>5. Q[0] = P[0]
  BY <1>3, <1>4
<1>6. CASE environment' = environment
  BY <1>2, <1>3, <1>5, <1>6
<1>7. CASE state = "params"
  <2>1. posted.filled = 0
    BY <1>7 DEF BodyInv, GatherInv, InputInv, Limited, NoBuffer
  <2>2. Lesser(environment'.length, 0) = 0
    BY DEF Lesser
  <2> QED
    BY <1>2, <1>3, <1>5, <1>7, <2>1, <2>2
<1> QED
  BY <1>6, <1>7

\* A record of the body: what fits of it is stored, and what was stored so far is what was
\* taken so far or all there is room for.
LEMMA InAccounts ==
  ASSUME BodyInv, In
  PROVE  Accounted'
<1>1. /\ Turn /\ Typed /\ messages \in Seq(MessageType) /\ messages # <<>> /\ Front = messages[1]
      /\ messages' = Tail(messages) /\ status = "alive" /\ state = "in" /\ state' = "in"
      /\ Front \in MessageType /\ Front.kind = "in"
      /\ UNCHANGED <<stage, whole, body, environment>>
      /\ posted'.filled = posted.filled + Stored(Front.size)
  BY Taken DEF BodyInv, GatherInv, InputInv, Typed, Turn, Take, server, In, Handles
<1> SUFFICES ASSUME whole, stage # "strayed"
             PROVE  \E Q : /\ Ledger(Q, Tail(messages), body, stage = "sent")
                           /\ posted'.filled = Lesser(environment.length, Q[0])
  BY <1>1 DEF Accounted
<1>2. PICK P : /\ Ledger(P, messages, body, stage = "sent")
               /\ posted.filled = Lesser(environment.length, P[0])
  BY <1>1 DEF BodyInv, Accounted
<1>3. PICK Q : Ledger(Q, Tail(messages), body, stage = "sent") /\ Q[0] = P[0] + Bytes(Front)
  BY <1>1, <1>2, LedgerTaken
<1>4. P[0] \in Nat /\ Front.size \in Nat /\ Bytes(Front) = Front.size
  <2>1. P \in [0..Len(messages) -> Nat] /\ Len(messages) \in Nat
    BY <1>1, <1>2 DEF Ledger
  <2> QED
    <3>1. P[0] \in Nat
      BY <2>1
    <3>2. Front.size \in Nat
      BY <1>1 DEF MessageType
    <3> QED
      BY <1>1, <3>1, <3>2 DEF Bytes
<1>5. environment.length \in Nat
  <2>1. environment.length \in Lengths \cup {0}
    BY <1>1 DEF Typed, TypeOK
  <2> QED
    BY <2>1, RequestAssumption, 0 \in Nat
<1>6. posted'.filled = Lesser(environment.length, P[0] + Front.size)
  BY <1>1, <1>2, <1>4, <1>5 DEF Lesser, Stored
<1> QED
  BY <1>3, <1>4, <1>6

\* handler() takes from the queue what it puts into the buffer.
LEMMA HandlerAccounts ==
  ASSUME BodyInv, Handler, InputInv'
  PROVE  Accounted'
<1>1. environment'.length \in Nat
  <2>1. environment'.length \in Lengths \cup {0}
    BY DEF InputInv, Typed, TypeOK
  <2> QED
    BY <2>1, RequestAssumption, 0 \in Nat
<1>2. CASE UnknownRole \/ Abort \/ OutOfOrder \/ ParseFails
  <2>1. status' # "alive"
    BY <1>2 DEF UnknownRole, Abort, OutOfOrder, ParseFails, Complete, Fail
  <2> QED
    BY <2>1 DEF Accounted
<1>3. CASE Params
  <2>1. Bytes(Front) = 0 /\ Turn /\ Take /\ state = "params" /\ UNCHANGED <<server, state, posted>>
    BY <1>3 DEF Params, Handles, Bytes
  <2> QED
    BY <1>1, <2>1, PassAccounts
<1>4. CASE ParamsEnd
  <2>1. /\ Turn /\ messages # <<>> /\ messages' = Tail(messages) /\ Bytes(Front) = 0
        /\ state = "params" /\ status = "alive"
        /\ UNCHANGED <<environment, posted, stage, whole, body>>
    BY <1>4 DEF ParamsEnd, Handles, Bytes, Take, Turn, server
  <2>2. messages \in Seq(MessageType) /\ Front = messages[1]
    BY <2>1, Taken DEF BodyInv, GatherInv, InputInv, Typed
  <2>3. SUFFICES ASSUME whole, status' = "alive", stage # "strayed"
                 PROVE  \E Q : /\ Ledger(Q, Tail(messages), body, stage = "sent")
                               /\ Q[0] = 0
                               /\ posted.filled = Lesser(environment.length, Q[0])
    BY <2>1 DEF Accounted
  <2>4. PICK P : /\ Ledger(P, messages, body, stage = "sent") /\ P[0] = 0
                 /\ posted.filled = Lesser(environment.length, P[0])
    BY <2>1, <2>3 DEF BodyInv, Accounted
  <2>5. PICK Q : Ledger(Q, Tail(messages), body, stage = "sent") /\ Q[0] = P[0] + Bytes(Front)
    BY <2>1, <2>2, <2>4, LedgerTaken
  <2> QED
    BY <2>1, <2>4, <2>5
<1>5. CASE In
  BY <1>5, InAccounts
<1>6. CASE InEnd
  BY <1>6 DEF InEnd, Accounted
<1>7. CASE Callback
  <2>1. /\ Bytes(Front) = 0 /\ Turn /\ Take /\ environment' = environment
        /\ UNCHANGED <<server, state, posted>>
    BY <1>7 DEF Callback, Handles, Bytes
  <2> QED
    BY <1>1, <2>1, PassAccounts
<1> QED
  BY <1>2, <1>3, <1>4, <1>5, <1>6, <1>7 DEF Handler

\* What one more message does to the account.
LEMMA QueuedAccounts ==
  ASSUME BodyInv, NEW m \in MessageType, messages' = Append(messages, m),
         UNCHANGED <<state, environment, posted, status, whole>>,
         body' = body + Bytes(m), stage \notin {"strayed"},
         \/ m.kind # "in" /\ (stage = "sent" => stage' = "sent")
         \/ m.kind = "in" /\ stage # "sent" /\ (m.size = 0 => stage' = "sent")
  PROVE  Accounted'
<1>1. messages \in Seq(MessageType) /\ body \in Nat
  BY DEF BodyInv, GatherInv, InputInv, Typed
<1> SUFFICES ASSUME whole, status = "alive", state # "out"
             PROVE  \E Q : /\ Ledger(Q, Append(messages, m), body + Bytes(m), stage' = "sent")
                           /\ state = "params" => Q[0] = 0
                           /\ posted.filled = Lesser(environment.length, Q[0])
  BY DEF Accounted
<1>2. PICK P : /\ Ledger(P, messages, body, stage = "sent")
               /\ state = "params" => P[0] = 0
               /\ posted.filled = Lesser(environment.length, P[0])
  BY DEF BodyInv, Accounted
<1>3. PICK Q : /\ Ledger(Q, Append(messages, m), body + Bytes(m), stage' = "sent")
               /\ Q[0] = P[0]
  <2> DEFINE closed == stage = "sent"
             closing == stage' = "sent"
  <2>1. closed \in BOOLEAN /\ closing \in BOOLEAN
    OBVIOUS
  <2>2. \/ m.kind # "in" /\ (closed => closing)
        \/ m.kind = "in" /\ ~closed /\ (m.size = 0 => closing)
    OBVIOUS
  <2>3. Ledger(P, messages, body, closed)
    BY <1>2
  <2> HIDE DEF closed, closing
  <2>4. \E Q : Ledger(Q, Append(messages, m), body + Bytes(m), closing) /\ Q[0] = P[0]
    BY <1>1, <2>1, <2>2, <2>3, LedgerQueued
  <2> QED
    BY <2>4 DEF closing
<1> QED
  BY <1>2, <1>3

\* What the server sends is entered.
LEMMA ServerAccounts ==
  ASSUME BodyInv,
         SendParams \/ EndParams \/ SendIn \/ EndIn \/ SendAbort \/ SendStray \/ SendCallback
  PROVE  Accounted'
<1>1. /\ InputInv /\ body \in Nat /\ unsent \subseteq Names
      /\ UNCHANGED <<state, environment, posted, status>>
  BY ServerSends DEF BodyInv, GatherInv, InputInv, Typed
<1>2. \A m \in MessageType : m.kind # "in" => body = body + Bytes(m)
  BY <1>1 DEF Bytes
<1>3. CASE SendStray
  BY <1>3 DEF SendStray, Accounted
<1>4. CASE SendParams
  <2>1. CASE whole' = FALSE
    BY <2>1 DEF Accounted
  <2>2. CASE whole' # FALSE
    <3>1. PICK names \in SUBSET Names : messages' = Append(messages, Message("params", 1, names, FALSE))
      BY <1>1, <1>4, <2>2 DEF SendParams, Queue
    <3>2. UNCHANGED <<whole, stage, body>> /\ stage = "params"
      BY <1>4, <2>2 DEF SendParams
    <3>3. Message("params", 1, names, FALSE) \in MessageType
      BY Sent
    <3>4. Message("params", 1, names, FALSE).kind = "params"
      BY DEF Message
    <3> QED
      BY <1>1, <1>2, <3>1, <3>2, <3>3, <3>4, QueuedAccounts
  <2> QED
    BY <2>1, <2>2
<1>5. CASE EndParams
  <2> DEFINE m == Message("params", 0, {}, FALSE)
  <2>1. m \in MessageType /\ m.kind = "params"
    <3>1. m \in MessageType
      BY Sent
    <3> QED
      BY <3>1 DEF Message
  <2>2. messages' = Append(messages, m) /\ UNCHANGED <<whole, body>> /\ stage = "params"
    BY <1>5 DEF EndParams, Queue
  <2> HIDE DEF m
  <2> QED
    BY <1>1, <1>2, <2>1, <2>2, QueuedAccounts
<1>6. CASE SendIn
  <2>1. PICK n \in Chunks : Queue(Message("in", n, {}, FALSE)) /\ body' = body + n
    BY <1>6 DEF SendIn
  <2>a. n \in Nat /\ n # 0
    BY RequestAssumption
  <2> DEFINE m == Message("in", n, {}, FALSE)
  <2>2. m \in MessageType /\ m.kind = "in" /\ m.size = n /\ Bytes(m) = n
    <3>1. m \in MessageType
      BY <2>a, Sent
    <3> QED
      BY <3>1 DEF Message, Bytes
  <2>3. messages' = Append(messages, m) /\ UNCHANGED <<whole, stage>> /\ stage = "in"
    BY <1>6, <2>1 DEF SendIn, Queue
  <2> HIDE DEF m
  <2> QED
    BY <1>1, <2>1, <2>a, <2>2, <2>3, QueuedAccounts
<1>7. CASE EndIn
  <2> DEFINE m == Message("in", 0, {}, FALSE)
  <2>1. m \in MessageType /\ m.kind = "in" /\ m.size = 0 /\ Bytes(m) = 0
    <3>1. m \in MessageType
      BY Sent
    <3> QED
      BY <3>1 DEF Message, Bytes
  <2>2. messages' = Append(messages, m) /\ UNCHANGED <<whole, body>> /\ stage = "in"
        /\ stage' = "sent"
    BY <1>7 DEF EndIn, Queue
  <2> HIDE DEF m
  <2>3. body' = body + Bytes(m)
    BY <1>1, <2>1, <2>2
  <2> QED
    BY <1>1, <2>1, <2>2, <2>3, QueuedAccounts
<1>8. CASE SendAbort \/ SendCallback
  <2>1. PICK kind \in {"abort", "callback"} : Queue(Message(kind, 0, {}, FALSE))
    BY <1>8 DEF SendAbort, SendCallback
  <2> DEFINE m == Message(kind, 0, {}, FALSE)
  <2>2. m \in MessageType /\ m.kind = kind
    <3>1. m \in MessageType
      BY Sent
    <3> QED
      BY <3>1 DEF Message
  <2>3. messages' = Append(messages, m) /\ UNCHANGED <<whole, stage, body>>
    BY <1>8, <2>1 DEF SendAbort, SendCallback, Queue, server
  <2> HIDE DEF m
  <2>4. CASE stage = "strayed"
    BY <2>3, <2>4 DEF Accounted
  <2>5. CASE stage # "strayed"
    BY <1>1, <1>2, <2>2, <2>3, <2>5, QueuedAccounts
  <2> QED
    BY <2>4, <2>5
<1> QED
  BY <1>3, <1>4, <1>5, <1>6, <1>7, <1>8

\* The third invariant.
LEMMA BodyHolds == Spec => []BodyInv
<1>1. Init => BodyInv
  <2> SUFFICES ASSUME Init PROVE BodyInv
    OBVIOUS
  <2>1. GatherInv
    BY InputInit DEF Init, GatherInv, ParamsFirst, StrayedStays, Gathered, Somewhere
  <2> DEFINE P == [k \in 0..0 |-> 0]
  <2>2. /\ P[0] = 0 /\ P \in [0..0 -> Nat]
    OBVIOUS
  <2> HIDE DEF P
  <2>3. Ledger(P, <<>>, 0, FALSE)
    BY <2>2 DEF Ledger
  <2>4. posted.filled = Lesser(environment.length, P[0])
    BY <2>2 DEF Init, Defaults, NoBuffer, Lesser
  <2> QED
    BY <2>1, <2>2, <2>3, <2>4 DEF Init, BodyInv, Accounted
<1>2. GatherInv /\ BodyInv /\ [Next]_vars /\ GatherInv' => BodyInv'
  <2> SUFFICES ASSUME BodyInv, [Next]_vars, GatherInv' PROVE Accounted'
    BY DEF BodyInv
  <2>1. CASE UNCHANGED vars
    BY <2>1 DEF vars, request, server, BodyInv, Accounted
  <2>2. CASE Handler
    BY <2>2, HandlerAccounts DEF GatherInv
  <2> QED
    BY <2>1, <2>2, ServerAccounts DEF Next
<1> QED
  BY <1>1, <1>2, GatherHolds, PTL DEF Spec

\* If the server sends the body it announced, in whatever pieces, all of it is there when
\* it is parsed, and the buffer never holds more than there is room for (http.cpp
\* 250-267, request.cpp 90-127).
THEOREM BodyWhole == Spec => BodyIntact
<1>1. BodyInv /\ [Next]_vars
      => [whole /\ body = truth.length /\ posts' # posts
            => posted.filled = truth.length]_vars
  <2> SUFFICES ASSUME BodyInv, [Next]_vars, whole, body = truth.length, posts' # posts
               PROVE  posted.filled = truth.length
    OBVIOUS
  <2>1. InEnd
    <3>1. Handler
      BY ServerSends DEF Next, vars, request, BodyInv, GatherInv
    <3> QED
      BY <3>1 DEF Handler, UnknownRole, OutOfOrder, Params, ParamsEnd, In, ParseFails, Abort,
                  Callback
  <2>2. /\ Front.kind = "in" /\ Front.size = 0 /\ Front = messages[1] /\ 1 \in 1..Len(messages)
        /\ Typed /\ state = "in" /\ status = "alive"
    BY <2>1, Taken DEF InEnd, Handles, Turn, BodyInv, GatherInv, InputInv
  <2>3. stage \in {"in", "sent"}
    BY <2>2 DEF BodyInv, GatherInv, ParamsFirst, StrayedStays, Typed
  <2>4. environment["length"] = truth["length"]
    BY <2>2, <2>3 DEF BodyInv, GatherInv, Gathered, Somewhere, Names
  <2>5. PICK P : /\ Ledger(P, messages, body, stage = "sent")
                 /\ posted.filled = Lesser(environment.length, P[0])
    BY <2>2, <2>3 DEF BodyInv, Accounted
  <2>6. P[1] = body /\ P[1] = P[1 - 1] + Bytes(messages[1]) /\ P \in [0..Len(messages) -> Nat]
    BY <2>2, <2>5 DEF Ledger
  <2>7. P[0] = body /\ body \in Nat
    <3>1. P[0] \in Nat /\ body \in Nat
      BY <2>2, <2>6 DEF Typed
    <3> QED
      BY <2>2, <2>6, <3>1 DEF Bytes
  <2> QED
    BY <2>4, <2>5, <2>7 DEF Lesser
<1>2. Spec => []PostFits
  BY BodyFits
<1> QED
  BY <1>1, <1>2, BodyHolds, PTL DEF Spec, BodyIntact, ParsedIsReceived
=============================================================================
