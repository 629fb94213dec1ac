---------------------------- MODULE EchoAdaptor ----------------------------
(***************************************************************************)
(* What a worker does with a request once Fastcgi++ has it: sysmain() of   *)
(* the generated adaptor takes it through the interceptors, the parser of  *)
(* the action's name and parameters, the action, its renderer and the      *)
(* interceptors again, and writes the answer.  One request at a time; what *)
(* outlives a request is the CActionInvocation singleton.                  *)
(*                                                                         *)
(* A path is a sequence of segments.  A parameter of the query string is a *)
(* name with or without a value, which may contain percent escapes; where  *)
(* a value comes from, whether it has been decoded and whether it is all   *)
(* of what was sent is what is kept of it.  The output is kept as header   *)
(* fields, line ends and text.                                             *)
(***************************************************************************)
EXTENDS Integers, Sequences, FiniteSets, SequencesExt

CONSTANTS
  Action,       \* the segment that names the one action, getloc
  Segments,     \* segments of paths
  Names,        \* names of parameters, none of which is `<another>_filename'
  MaxPath,      \* bound: segments of a path
  MaxQuery,     \* bound: parameters of a query string
  MaxChain      \* bound: registered interceptors

ASSUME AdaptorAssumption ==
  /\ Action \in Segments
  /\ MaxPath \in Nat /\ MaxQuery \in Nat /\ MaxChain \in Nat

VARIABLES
  \* CActionInvocation, for the life of the process
  chain,       \* how many interceptors m_oInterceptorList has
  lastErrMsg,  \* m_sLastErrMsg: "none", or of this ("own") or an "old" request
  \* the request under way
  pc,          \* how far sysmain() is
  request,     \* what the web server sent
  params,      \* CActionParams: the values of each name, in order
  filenames,   \* and the names n that it has an `n_filename' for
  response,    \* CWebSvcCntl and CWebViewData, as the action left them
  calls,       \* the interceptor calls so far
  out,         \* what was written
  answer       \* which answer that was

process == <<chain, lastErrMsg>>
given   == <<params, filenames>>
vars    == <<chain, lastErrMsg, pc, request, given, response, calls, out, answer>>

UpTo(S, n)  == UNION {[1..k -> S] : k \in 0..n}
Parameters  == {p \in [name : Names, valued : BOOLEAN, escaped : BOOLEAN] :
                  p.escaped => p.valued}
\* What the form has under a name: nothing, a field, or a file.
Posts       == {"none", "field", "file", "empty file"}
Requests    == [method : {"get", "post", "multipart"}, named : BOOLEAN,
                path : UpTo(Segments, MaxPath), query : UpTo(Parameters, MaxQuery),
                posts : [Names -> Posts]]
NoRequest   == [method |-> "get", named |-> FALSE, path |-> <<>>, query |-> <<>>,
                posts |-> [n \in Names |-> "none"]]
NoParams    == [n \in Names |-> <<>>]
NoResponse  == [result |-> 200, located |-> FALSE, cookies |-> 0, mime |-> FALSE]

\* CInterceptor::INTERCEPTOR_RETURN_TYPE; INPUT_FAIL and LOGIN_FAIL are treated
\* as FAIL is.
Outcomes == {"SUCCESS", "OK", "FAIL"}

-----------------------------------------------------------------------------
(* Output.                                                                 *)

Line      == <<"head", "eol">>
Lines(n)  == [k \in 1..(2 * n) |-> IF k % 2 = 1 THEN "head" ELSE "eol"]  \* n of them
ErrorPage == Line \o <<"eol", "text">>
\* errorHandler(), for what response() throws.
ThrownPage == Lines(2) \o <<"eol", "text">>

\* An error text; sysmain() goes on after it if the renderer failed.
RefuseAndGoOn(what, before) ==
  /\ out' = out \o before \o ErrorPage
  /\ answer' = what /\ pc' = IF what = "render" THEN "after" ELSE "done"
\* An error text, and sysmain() returns.
Refuse(what, before) ==
  /\ out' = out \o before \o ErrorPage
  /\ answer' = what /\ pc' = "done"

-----------------------------------------------------------------------------
(* CActionParams and ParseActionName().                                    *)

Length == Len(request.path)

\* SpliteStrings('/', l_sFileName).  A GET has `?' and the whole REQUEST_URI
\* appended to its file name, a multipart POST a `?', any other POST nothing.
Pieces ==
  CASE request.method = "get" ->
         IF Length = 0 THEN 1 + Cardinality({1} \cap DOMAIN request.query)
                       ELSE 2 * Length
    [] request.method = "multipart" -> IF Length = 0 THEN 1 ELSE Length
    [] request.method = "post"      -> Length

\* What lies between the first `?' and the `/' before it or, if there is no
\* `?', the second piece.
ActionName ==
  IF request.method = "post" THEN request.path[2]
  ELSE IF Length = 0 THEN "" ELSE request.path[Length]

\* AddVal() appends to the values the name has.
AddedOnce(values, v) == IF values = <<>> THEN <<v>> ELSE values
Added(values, v)     == Append(values, v)

\* DoStandardParse() of the REQUEST_URI of a GET.  What precedes the first `&'
\* begins with the path, so its name is none of Names; the values are taken as
\* they are.
Raw(k) == [at |-> k, decoded |-> ~request.query[k].escaped, whole |-> TRUE]
ParsedAs(n) ==
  IF request.method # "get" THEN {}
  ELSE {k \in 2..Len(request.query) : request.query[k].valued /\ request.query[k].name = n}

\* An element without `=' leaves a message behind, though it is no error.
NoEqualSign ==
  /\ request.method = "get"
  /\ \/ request.query = <<>>
     \/ \E k \in DOMAIN request.query : ~request.query[k].valued

\* environment().gets: a name without a value is taken for a part of the next
\* name; the last value of a name is kept, decoded.
GotAs(n) ==
  {k \in DOMAIN request.query :
     /\ request.query[k].valued /\ request.query[k].name = n
     /\ k = 1 \/ request.query[k - 1].valued}
Latest(K) == CHOOSE k \in K : \A j \in K : j <= k
Decoded(k) == [at |-> k, decoded |-> TRUE, whole |-> TRUE]

\* The form, at 0.  A file's data are read as a string that ends at a NUL, though
\* nothing ends them: it may stop short of their end or go on behind it.
PostedAs(kinds) == {n \in Names : request.posts[n] \in kinds}
FileText(n, misread) == [at |-> 0, decoded |-> TRUE, whole |-> n \notin misread]

\* DoStandardParse(), then the gets and posts of SetActionParams().
ValuesOf(n, misread) ==
  LET parsed == [j \in 1..Cardinality(ParsedAs(n)) |->
                   Raw(CHOOSE k \in ParsedAs(n) :
                         Cardinality({i \in ParsedAs(n) : i <= k}) = j)]
      got    == IF GotAs(n) = {} THEN parsed ELSE Added(parsed, Decoded(Latest(GotAs(n))))
  IN CASE n \in PostedAs({"field"}) -> Added(got, Decoded(0))
       [] n \in PostedAs({"file"})  -> Added(got, FileText(n, misread))
       [] OTHER                     -> got

-----------------------------------------------------------------------------
(* The process.                                                            *)

\* SetInterceptor(), SetStdInterceptorByName(): by the application, before it
\* serves; an interceptor whose Init() fails is not added.
SetInterceptor ==
  /\ pc = "setup" /\ chain < MaxChain
  /\ chain' = chain + 1
  /\ UNCHANGED <<lastErrMsg, pc, request, given, response, calls, out, answer>>

\* response() is called: sysmain() begins.
Receive ==
  /\ pc \in {"setup", "idle"}
  /\ \E r \in Requests :
       /\ \A n \in Names :
            /\ r.method = "get"  => r.posts[n] = "none"
            /\ r.method = "post" => r.posts[n] \in {"none", "field"}
       /\ request' = r
  /\ out' = <<"text">> /\ pc' = "init"
  /\ UNCHANGED <<process, given, response, calls, answer>>

\* sysmain() returns, and what it had on its stack is gone.
Return ==
  /\ pc = "done"
  /\ pc' = "idle" /\ request' = NoRequest /\ params' = NoParams /\ filenames' = {}
  /\ response' = NoResponse /\ calls' = <<>> /\ out' = <<>> /\ answer' = "none"
  /\ lastErrMsg' = IF lastErrMsg = "own" THEN "old" ELSE lastErrMsg
  /\ UNCHANGED chain

\* Initialize() of the service.
Initialize ==
  /\ pc = "init"
  /\ \/ pc' = "before" /\ UNCHANGED <<out, answer>>
     \/ Refuse("init", <<>>)
  /\ UNCHANGED <<process, request, given, response, calls>>

\* InvokeInterceptorBefore() and InvokeInterceptorAfter(), a call a step.
Made(phase) == Cardinality({k \in DOMAIN calls : calls[k].phase = phase})
AllCalled(phase)      == Made(phase) = chain
GoesOnAnyhow(outcome) == outcome \in Outcomes
GoesOn(outcome)       == outcome # "FAIL"

Invoke(phase, next) ==
  /\ pc = phase
  /\ \/ /\ AllCalled(phase)
        /\ pc' = next /\ UNCHANGED <<calls, out, answer>>
     \/ /\ ~AllCalled(phase)
        /\ \E o \in Outcomes :
             /\ calls' = Append(calls, [phase |-> phase, outcome |-> o])
             /\ IF GoesOn(o) THEN UNCHANGED <<pc, out, answer>>
                             ELSE Refuse(phase, <<>>)
  /\ UNCHANGED <<process, request, given, response>>

Before == Invoke("before", "parse")
After  == Invoke("after", "answer")

\* MyWebSvcDispatch(): no action in the path.
ParseFails ==
  /\ pc = "parse"
  /\ ~request.named \/ Pieces < 2
  /\ lastErrMsg' = "own"
  /\ Refuse("parse", <<"text">>)
  /\ UNCHANGED <<chain, request, given, response, calls>>

\* ParseActionName() found an action's name; SetActionParams() comes before it is
\* looked at.
NameFound ==
  /\ pc = "parse"
  /\ request.named /\ Pieces >= 2
  /\ lastErrMsg' = IF NoEqualSign THEN "own" ELSE lastErrMsg
  /\ UNCHANGED <<chain, request, calls>>

Parse ==
  /\ NameFound
  /\ PostedAs({"empty file"}) = {}
  /\ \E misread \in SUBSET PostedAs({"file"}) :
       params' = [n \in Names |-> ValuesOf(n, misread)]
  /\ filenames' = PostedAs({"file"})
  /\ IF ActionName = Action
       THEN pc' = "action" /\ UNCHANGED <<out, answer, response>>
       ELSE Refuse("unknown", <<>>) /\ response' = [response EXCEPT !.result = 400]

\* An empty file has no data, and a string made of NULL throws std::logic_error,
\* which handler() catches around response().
EmptyFileThrows ==
  /\ NameFound
  /\ PostedAs({"empty file"}) # {}
  /\ out' = out \o ThrownPage /\ answer' = "thrown" /\ pc' = "done"
  /\ UNCHANGED <<given, response>>

\* What follows a file's data has no NUL before the end of the memory.
FileReadFaults ==
  /\ NameFound
  /\ PostedAs({"file"}) # {}
  /\ pc' = "faulted"
  /\ UNCHANGED <<given, response, out, answer>>

\* The action, and its renderer, are the application's.  The action's own
\* return code is overwritten by the renderer's.  Only a redirection looks at
\* the location, only a page at the MIME type, and only these at the cookies.
RunAction ==
  /\ pc = "action"
  /\ \E result \in {200, 302, 404, 503}, located \in BOOLEAN, cookies \in 0..1 :
       /\ located => result = 302
       /\ cookies > 0 => result \in {200, 302}
       /\ response' = [response EXCEPT !.result = result, !.located = located,
                                    !.cookies = cookies]
  /\ pc' = "render"
  /\ UNCHANGED <<process, request, given, calls, out, answer>>

Render ==
  /\ pc = "render"
  /\ \/ /\ \E mime \in BOOLEAN :
             /\ mime => response.result = 200
             /\ response' = [response EXCEPT !.mime = mime]
        /\ pc' = "after" /\ UNCHANGED <<out, answer>>
     \/ /\ response' = [response EXCEPT !.result = 500]
        /\ Refuse("render", <<"text">>)
  /\ UNCHANGED <<process, request, given, calls>>

-----------------------------------------------------------------------------
(* The end of sysmain().                                                   *)

\* Each field that GetOutputHead() gives ends its line.
Head200 == Lines(response.cookies)
           \o (IF response.mime THEN Line ELSE <<"head">>) \o <<"eol", "eol", "text">>
Head302 == Lines(3 + response.cookies) \o <<"eol", "eol", "eol">>
Head404 == Lines(2) \o <<"eol">>

Written(head, what) ==
  out' = out \o head /\ answer' = what /\ pc' = "done"

Answer ==
  /\ pc = "answer"
  /\ \/ response.result = 200 /\ Written(Head200, "200")
     \/ response.result = 302 /\ response.located /\ Written(Head302, "302")
     \/ \* RedirectLocation() asserts that there is a location
        /\ response.result = 302 /\ ~response.located
        /\ pc' = "aborted" /\ out' = out \o Line /\ UNCHANGED answer
     \/ response.result = 404 /\ Written(Head404, "404")
     \/ response.result \notin {200, 302, 404} /\ Refuse("unsupported", <<>>)
  /\ UNCHANGED <<process, request, given, response, calls>>

-----------------------------------------------------------------------------
Init ==
  /\ chain = 0 /\ lastErrMsg = "none"
  /\ pc = "setup" /\ request = NoRequest
  /\ params = NoParams /\ filenames = {} /\ response = NoResponse
  /\ calls = <<>> /\ out = <<>> /\ answer = "none"

Sysmain ==
  \/ Initialize \/ Before
  \/ ParseFails \/ Parse \/ EmptyFileThrows \/ FileReadFaults
  \/ RunAction  \/ Render \/ After \/ Answer \/ Return

Next == SetInterceptor \/ Receive \/ Sysmain

Spec == Init /\ [][Next]_vars
-----------------------------------------------------------------------------
(* Properties.                                                             *)

\* Every variable has its type.
TypeOK ==
  /\ chain \in 0..MaxChain
  /\ lastErrMsg \in {"none", "own", "old"}
  /\ pc \in {"setup", "idle", "init", "before", "parse", "action", "render", "after",
             "answer", "done", "aborted", "faulted"}
  /\ \A n \in Names : \A v \in ToSet(params[n]) : v.at \in 0..MaxQuery
  /\ filenames \subseteq Names
  /\ response.result \in {200, 302, 400, 404, 500, 503}
  /\ Made("before") <= chain /\ Made("after") <= chain
  /\ ToSet(out) \subseteq {"head", "eol", "text"}

\* A request for .../getloc that the guide describes, or one with multipart
\* post data, reaches the action, wherever the service is mounted
\* (action_invocation.cpp 129-198, echo_adaptor.cpp 211-229), unless a file that
\* was posted stops it: an empty one throws, and the text of another may be
\* read beyond the memory (echo_adaptor.cpp 346-350).
RoutedByPath ==
  (/\ request.named
   /\ \/ request.method = "get" /\ Length >= 1
      \/ request.method = "multipart" /\ Length >= 2
   /\ request.path[Length] = Action)
  => /\ answer \notin {"parse", "unknown"}
     /\ answer = "thrown" => PostedAs({"empty file"}) # {}
     /\ pc = "faulted" => PostedAs({"file"}) # {}

\* The action finds the value the query string gave a name last, the value of a
\* field of the form, decoded, and of a file its name and a text, whatever the
\* name's other values are.
ActionSeesParameters ==
  pc = "action" => \A n \in Names :
    /\ GotAs(n) # {} => Decoded(Latest(GotAs(n))) \in ToSet(params[n])
    /\ request.posts[n] = "field" => Decoded(0) \in ToSet(params[n])
    /\ request.posts[n] # "empty file"
    /\ request.posts[n] = "file" =>
         n \in filenames /\ \E v \in ToSet(params[n]) : v.at = 0

\* A url of the guide gets to its action, and so do its parameters, but for files.
ReachesAction == RoutedByPath /\ ActionSeesParameters

\* A file that is posted reaches the action, whole (http.hpp 50-51, which says of
\* data() and size() together what the file is).
FilesArrive ==
  /\ answer # "thrown" /\ pc # "faulted"
  /\ pc = "action" => \A n \in PostedAs({"file", "empty file"}) :
       FileText(n, {}) \in ToSet(params[n])

\* The values the action is given have been decoded (action_params.cpp 59).
ParametersDecoded ==
  \A n \in Names : \A v \in ToSet(params[n]) : v.decoded

\* No interceptor is called after one that failed, and none after the action
\* unless all were called before it: nothing is undone that was not begun.
InterceptorsBracket ==
  \A k \in DOMAIN calls :
    /\ calls[k].outcome = "FAIL" => k = Len(calls) /\ pc = "done"
    /\ calls[k].phase = "after"  => Made("before") = chain

\* An interceptor that returns SUCCESS is the last that is called in its turn
\* (interceptor.h 59).
SuccessEndsTurn ==
  \A k \in 1..Len(calls) - 1 :
    calls[k].outcome = "SUCCESS" => calls[k + 1].phase # calls[k].phase

\* What is written has one header block: no field comes after its end, and
\* every answer has an end (echo_adaptor.cpp 59-173).  With it, the types.
HeaderEnds(k) == k < Len(out) /\ out[k] = "eol" /\ out[k + 1] = "eol"
OneHeader ==
  /\ TypeOK
  /\ \A k \in DOMAIN out : HeaderEnds(k) =>
       \A j \in DOMAIN out : out[j] = "head" => j < k
  /\ pc = "done" => \E k \in DOMAIN out : HeaderEnds(k)
=============================================================================
