---------------------------- MODULE FcgiRequest ----------------------------
(***************************************************************************)
(* One Fastcgipp::Request: handler() takes the request's messages one by   *)
(* one, collects parameters and post data, runs the response and ends the  *)
(* request.  It runs on one thread; what interleaves with it is the web    *)
(* server that sends records and the threads that hold its callback.       *)
(*                                                                         *)
(* Of the parameters the handler looks at three, method, content length    *)
(* and content type; of post data only amounts are kept.                   *)
(***************************************************************************)
EXTENDS Integers, Sequences, FiniteSets

CONSTANTS
  MaxPost,      \* m_maxPostSize; 0 means no limit
  Lengths,      \* CONTENT_LENGTH values
  MaxBody,      \* bound: bytes of body the server sends
  Chunks,       \* content lengths of IN records
  MaxCallbacks, \* bound: callback messages
  Asynchronous  \* response() may wait for a callback

ASSUME RequestAssumption ==
  /\ MaxPost \in Nat /\ MaxBody \in Nat /\ MaxCallbacks \in Nat
  /\ Lengths \subseteq Nat /\ Chunks \subseteq Nat \ {0}
  /\ Asynchronous \in BOOLEAN

VARIABLES
  \* the request
  role,        \* Request::m_role: "served" or not
  state,       \* Request::state
  environment, \* the parameters m_environment has so far
  posted,      \* m_environment's post buffer
  posts,       \* how many bytes were parsed into posts
  messages,    \* Request::messages
  status,      \* alive, ended (END_REQUEST sent), aborted, or crashed
  output,      \* what was written for the client
  \* the web server and the callbacks
  truth,       \* the parameters of the request
  unsent,      \* those of them it has not sent
  stage,       \* where it is: params, in, sent; strayed: it lost its way
  whole,       \* no PARAMS record has ended within a parameter
  body,        \* bytes of the body it has sent
  aborted,     \* it has sent ABORT_REQUEST
  pending,     \* callback messages to come
  calls        \* callback messages so far

request == <<role, state, environment, posted, posts, messages, status, output>>
server  == <<truth, unsent, stage, whole, body, aborted>>
vars    == <<request, server, pending, calls>>

Names  == {"method", "length", "type"}
Values == [method : {"post", "other"}, length : Lengths,
           type : {"multipart", "urlencoded", "other"}]

\* What Environment() starts with.
Defaults == [method |-> "other", length |-> 0, type |-> "other"]
NoBuffer == [set |-> FALSE, filled |-> 0]

-----------------------------------------------------------------------------
(* How a handler() call ends.                                              *)

\* complete(): the output is flushed and END_REQUEST follows it.
CompleteForgotten(written) ==
  output' = output \o written \o <<"end">> /\ UNCHANGED status
Complete(written) ==
  /\ output' = output \o written \o <<"end">>
  /\ status' = "ended"

\* errorHandler() and complete(), from the catch clause.
Fail == Complete(<<"error">>)

\* Wait for the next message.
Stay == UNCHANGED <<output, status>>

\* response(): true, false or thrown.
RunResponse ==
  \/ Complete(<<"response">>) /\ UNCHANGED pending
  \/ /\ Asynchronous /\ calls + pending < MaxCallbacks
     /\ output' = Append(output, "part") /\ UNCHANGED status
     /\ pending' = pending + 1
  \/ Fail /\ UNCHANGED pending

-----------------------------------------------------------------------------
(* handler().                                                              *)

Take == messages' = Tail(messages)
Front == Head(messages)
Turn == status = "alive" /\ messages # <<>>

\* The role is looked at first; the message stays in the queue.
UnknownRole ==
  /\ Turn /\ role # "served"
  /\ Complete(<<"unknown role">>)
  /\ UNCHANGED <<role, state, environment, posted, posts, messages, server,
                 pending, calls>>

Handles(kind) == Turn /\ role = "served" /\ Front.kind = kind

OutOfOrder ==
  /\ Turn /\ role = "served"
  /\ Front.kind \in {"params", "in"} /\ Front.kind # state
  /\ Take
  /\ Fail
  /\ UNCHANGED <<role, state, environment, posted, posts, server, pending, calls>>

\* fill(): the parameters of one record.  If the last one is not all there,
\* `size' wraps below zero and what lies behind the record is read, until
\* something throws or there is no memory to read.
FillAnew(names) == [n \in Names |-> IF n \in names THEN truth[n] ELSE Defaults[n]]
Fill(names)     == [n \in Names |-> IF n \in names THEN truth[n] ELSE environment[n]]

Params ==
  /\ Handles("params") /\ state = "params" /\ Front.size > 0
  /\ Take
  /\ environment' = Fill(Front.names)
  /\ \/ ~Front.cut /\ Stay
     \/ Fail
     \/ Front.cut /\ status' = "crashed" /\ UNCHANGED output
  /\ UNCHANGED <<role, state, posted, posts, server, pending, calls>>

TooBig      == MaxPost > 0 /\ environment.length > MaxPost

ParamsEnd ==
  /\ Handles("params") /\ state = "params" /\ Front.size = 0
  /\ Take
  /\ IF TooBig
       THEN Complete(<<"too big">>) /\ UNCHANGED state
       ELSE Stay /\ state' = "in"
  /\ UNCHANGED <<role, environment, posted, posts, server, pending, calls>>

\* fillPostBuffer(): what fits is stored; false when nothing did.
StoredTail(n) == LET left == environment.length - posted.filled
                 IN IF n < left THEN n ELSE left - 1
Stored(n) == LET left == environment.length - posted.filled
             IN IF n < left THEN n ELSE left

In ==
  /\ Handles("in") /\ state = "in" /\ Front.size > 0
  /\ Take
  /\ posted' = [set |-> TRUE, filled |-> posted.filled + Stored(Front.size)]
  /\ IF Stored(Front.size) = 0 THEN Complete(<<"too big">>) ELSE Stay
  /\ UNCHANGED <<role, state, environment, posts, server, pending, calls>>

\* The input is complete: the post buffer is parsed.  The url-encoded parser
\* looks at the first byte whether there is a buffer or not; the multipart
\* parser does if CONTENT_LENGTH says there is more than a boundary.
Parsed          == environment.method = "post"
NoParser        == Parsed /\ environment.type = "other"
ReadsNothing    == Parsed /\ environment.type = "urlencoded" /\ ~posted.set
MayReadNothing  == Parsed /\ environment.type = "multipart" /\ ~posted.set
                   /\ environment.length > 0

ParseFails ==
  /\ Handles("in") /\ state = "in" /\ Front.size = 0
  /\ Take
  /\ \/ NoParser /\ Fail
     \/ Parsed /\ ~NoParser /\ ~ReadsNothing /\ Fail
     \/ (ReadsNothing \/ MayReadNothing) /\ status' = "crashed" /\ UNCHANGED output
  /\ UNCHANGED <<role, state, environment, posted, posts, server, pending, calls>>

InEnd ==
  /\ Handles("in") /\ state = "in" /\ Front.size = 0
  /\ ~NoParser /\ ~ReadsNothing
  /\ Take
  /\ posts' = IF Parsed THEN environment.length ELSE posts
  /\ posted' = NoBuffer
  /\ state' = "out"
  /\ RunResponse
  /\ UNCHANGED <<role, environment, server, calls>>

\* No END_REQUEST, and nothing is flushed.
Abort ==
  /\ Handles("abort")
  /\ Take
  /\ status' = "aborted"
  /\ UNCHANGED <<role, state, environment, posted, posts, output, server,
                 pending, calls>>

\* A message of another type goes to response() in any state.
Callback ==
  /\ Handles("callback")
  /\ Take
  /\ RunResponse
  /\ UNCHANGED <<role, state, environment, posted, posts, server, calls>>

Handler ==
  \/ UnknownRole \/ OutOfOrder \/ Params     \/ ParamsEnd
  \/ In          \/ InEnd      \/ ParseFails \/ Abort     \/ Callback

-----------------------------------------------------------------------------
(* The web server and the threads that hold a callback.                    *)

Message(kind, size, names, cut) == [kind |-> kind, size |-> size,
                                    names |-> names, cut |-> cut]
Queue(m) == messages' = Append(messages, m)

SendParams ==
  /\ stage = "params" /\ unsent # {}
  /\ \E names \in (SUBSET unsent) \ {{}} :
       \/ /\ Queue(Message("params", 1, names, FALSE))
          /\ unsent' = unsent \ names /\ UNCHANGED whole
       \/ \* the first piece of a parameter ends the record, the rest of it
          \* and the other parameters begin the next one
          /\ whole' = FALSE
          /\ \E n \in names :
               messages' = messages \o << Message("params", 1, names \ {n}, TRUE),
                                          Message("params", 1, {}, TRUE) >>
          /\ unsent' = unsent \ names
  /\ UNCHANGED <<role, state, environment, posted, posts, status, output,
                 truth, stage, body, aborted, pending, calls>>

EndParams ==
  /\ stage = "params" /\ unsent = {}
  /\ Queue(Message("params", 0, {}, FALSE))
  /\ stage' = "in"
  /\ UNCHANGED <<role, state, environment, posted, posts, status, output,
                 truth, unsent, whole, body, aborted, pending, calls>>

SendIn ==
  /\ stage = "in"
  /\ \E n \in Chunks :
       /\ body + n <= MaxBody
       /\ Queue(Message("in", n, {}, FALSE))
       /\ body' = body + n
  /\ UNCHANGED <<role, state, environment, posted, posts, status, output,
                 truth, unsent, stage, whole, aborted, pending, calls>>

EndIn ==
  /\ stage = "in"
  /\ Queue(Message("in", 0, {}, FALSE))
  /\ stage' = "sent"
  /\ UNCHANGED <<role, state, environment, posted, posts, status, output,
                 truth, unsent, whole, body, aborted, pending, calls>>

SendAbort ==
  /\ ~aborted
  /\ Queue(Message("abort", 0, {}, FALSE))
  /\ aborted' = TRUE
  /\ UNCHANGED <<role, state, environment, posted, posts, status, output,
                 truth, unsent, stage, whole, body, pending, calls>>

\* A record where it does not belong.
SendStray ==
  /\ stage = "params" /\ unsent # {}
  /\ \E kind \in {"params", "in"}, size \in {0, 1} :
       Queue(Message(kind, size, {}, FALSE))
  /\ stage' = "strayed"
  /\ UNCHANGED <<role, state, environment, posted, posts, status, output,
                 truth, unsent, whole, body, aborted, pending, calls>>

SendCallback ==
  /\ pending > 0 /\ calls < MaxCallbacks
  /\ Queue(Message("callback", 0, {}, FALSE))
  /\ pending' = pending - 1 /\ calls' = calls + 1
  /\ UNCHANGED <<role, state, environment, posted, posts, status, output,
                 server>>

-----------------------------------------------------------------------------
Init ==
  /\ role \in {"served", "unserved"}
  /\ state = "params"
  /\ environment = Defaults
  /\ posted = NoBuffer /\ posts = 0
  /\ messages = <<>>
  /\ status = "alive" /\ output = <<>>
  /\ truth \in Values
  /\ unsent = Names /\ stage = "params" /\ whole = TRUE /\ body = 0 /\ aborted = FALSE
  /\ pending = 0 /\ calls = 0

Next ==
  \/ Handler
  \/ SendParams \/ EndParams \/ SendIn \/ EndIn \/ SendAbort \/ SendStray
  \/ SendCallback

Spec == Init /\ [][Next]_vars

\* The manager calls handler() while there is a message (FcgiManager:
\* MessagesServed); whoever holds a callback calls it.
FairSpec == Spec /\ WF_vars(Handler) /\ WF_vars(SendCallback)
-----------------------------------------------------------------------------
(* Properties.                                                             *)

\* Every variable has its type.
TypeOK ==
  /\ role \in {"served", "unserved"}
  /\ state \in {"params", "in", "out"}
  /\ environment \in [method : {"post", "other"}, length : Lengths \cup {0},
                      type : {"multipart", "urlencoded", "other"}]
  /\ posted \in [set : BOOLEAN, filled : Nat] /\ posts \in Nat
  /\ status \in {"alive", "ended", "aborted", "crashed"}
  /\ pending \in 0..MaxCallbacks /\ calls \in 0..MaxCallbacks

\* The post buffer never holds more than was allocated for it, nor more than
\* the limit, whatever the server sends (http.cpp 250-267, request.cpp 90-99).
PostFits ==
  /\ posted.filled <= environment.length
  /\ posted.set /\ MaxPost > 0 => environment.length <= MaxPost

\* What the client is sent ends with one END_REQUEST, and the request is over
\* with it (request.cpp 25-44, 102-146).  With it, the types.
OneEnd ==
  /\ TypeOK
  /\ \A k \in DOMAIN output : output[k] = "end" => k = Len(output) /\ status = "ended"

\* The response is made with all the parameters, however they were spread
\* over the records, so long as no parameter was (http.hpp, Environment;
\* http.cpp 105-247).
ResponseSeesParameters ==
  [][whole /\ state = "in" /\ state' = "out" => environment = truth]_vars

\* If the server sends the body it announced, in whatever pieces, all of it is
\* there when it is parsed (request.cpp 109-127).
ParsedIsReceived ==
  [][whole /\ body = truth.length /\ posts' # posts
       => posted.filled = truth.length]_vars

\* The body is kept within its buffer, and is all there when it is parsed
\* (http.cpp 250-267, request.cpp 90-127).
BodyIntact == []PostFits /\ ParsedIsReceived

\* Data beyond CONTENT_LENGTH is not dropped in silence: the request is
\* refused (fillPostBuffer() `returns true unless the buffer overflowed').
OverflowReported ==
  [][posted' # posted /\ posted'.set /\ posted'.filled - posted.filled < Front.size
       => status' = "ended"]_vars

\* The handler reads no memory but the record's and the post buffer's.  (The
\* byte behind the buffer that the url-encoded parser looks at is not counted.)
NeverReadsOutside == status # "crashed"

\* What the server sent lets the handler read outside: a parameter was cut, or a
\* form was announced and nothing of it came (http.cpp 105-246, 271-455).
MayReadOutside ==
  \/ ~whole
  \/ /\ truth.method = "post" /\ body = 0
     /\ truth.type = "urlencoded" \/ (truth.type = "multipart" /\ truth.length > 0)

=============================================================================
