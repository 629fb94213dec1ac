---------------------------- MODULE ActionProofs ----------------------------
(***************************************************************************)
(* Theorems about what comes before an action, about what it is given and  *)
(* about what it uses: the visitors' sessions and the pages' templates.    *)
(*                                                                         *)
(* About EchoAdaptor, for any segments, names and interceptors and         *)
(* requests of any length:                                                 *)
(*                                                                         *)
(*   AnswersHaveOneHeader    Spec => []OneHeader                           *)
(*   BracketsMatch           Spec => []InterceptorsBracket                 *)
(*   ActionsAreReached       Spec => []ReachesAction                       *)
(*                                                                         *)
(* The invariant says what there is at each place of sysmain(): which      *)
(* interceptors were called (CallsMade), what was written (Wrote) and what *)
(* came of the path and the parameters (Routed).                           *)
(*                                                                         *)
(* About ActionParams, for integers of any widths, any limits, and any     *)
(* number of values and calls:                                             *)
(*                                                                         *)
(*   GettersGiveWhatWasSent  ParamsSpec => []ValuesAsSent                  *)
(*   FailuresAreTold         ParamsSpec => []MessageOfFailure              *)
(*                                                                         *)
(* Nothing is said of a call before it, so that the work is in what each   *)
(* getter gives: a cut to a width leaves the numbers of the type as they   *)
(* are (CastFits), and which of its answers a getter gives and when        *)
(* (IntegerGot, StringGot).                                                *)
(*                                                                         *)
(* About Sessions, for any visitors, any number of sessions and seconds,   *)
(* and any times that a session is kept and a clean-up put off:            *)
(*                                                                         *)
(*   VisitorsFindTheirs      SessionsSpec => []SessionsFound               *)
(*                                                                         *)
(* A cookie names the visitor's own session (OwnSession), which lives as   *)
(* long as the cookie does (KeptForCookie) and not much longer, for the    *)
(* next clean-up is never far (CleanupInTime).                             *)
(*                                                                         *)
(* About TemplateCache, for any files, any texts, any parser, and any      *)
(* number of changes of the files and calls of the caches:                 *)
(*                                                                         *)
(*   TemplatesAreFresh       CacheSpec => []FreshTemplates                 *)
(*                                                                         *)
(* The invariant says of every template, whatever its state, where its     *)
(* tree came from (TemplateRight), of what the files have been, recently   *)
(* or ever; what is said stays true when more is told (MoreTold).          *)
(***************************************************************************)
EXTENDS EchoAdaptor, ActionParams, Sessions, TemplateCache, FiniteSetTheorems,
        SequenceTheorems, WellFoundedInduction, TLAPS

Signs  == {"head", "eol", "text"}
Value  == [at : 0..MaxQuery, decoded : BOOLEAN, whole : BOOLEAN]
Answers == [result : {200, 302, 400, 404, 500, 503}, located : BOOLEAN, cookies : 0..1,
           mime : BOOLEAN]
Call   == [phase : {"before", "after"}, outcome : Outcomes]

\* Where sysmain() has not answered yet.
Unanswered == {"setup", "idle", "init", "before", "parse", "action", "render", "after",
               "answer"}

Typed ==
  /\ chain \in 0..MaxChain
  /\ lastErrMsg \in {"none", "own", "old"}
  /\ pc \in Unanswered \cup {"done", "aborted", "faulted"}
  /\ request \in Requests
  /\ params \in [Names -> Seq(Value)]
  /\ filenames \subseteq Names
  /\ response \in Answers
  /\ calls \in Seq(Call)

\* How many of some calls were made in a phase.
MadeIn(cs, phase) == Cardinality({k \in 1..Len(cs) : cs[k].phase = phase})

CallsMade ==
  /\ MadeIn(calls, "before") <= chain /\ MadeIn(calls, "after") <= chain
  /\ pc \in {"setup", "idle", "init"} => calls = <<>>
  /\ pc \in Unanswered => \A k \in 1..Len(calls) : calls[k].outcome # "FAIL"
  /\ pc = "before" => \A k \in 1..Len(calls) : calls[k].phase = "before"
  /\ pc \in {"parse", "action", "render", "after", "answer"} =>
       MadeIn(calls, "before") = chain
  /\ \A k \in 1..Len(calls) :
       /\ calls[k].outcome = "FAIL" => k = Len(calls)
       /\ calls[k].phase = "after" => MadeIn(calls, "before") = chain
  /\ pc \in {"aborted", "faulted"} => \A k \in 1..Len(calls) : calls[k].outcome # "FAIL"

\* Text that has not ended its header: no line of it is empty.
Open(s) == /\ s \in Seq(Signs)
           /\ \A k \in 1..Len(s) : s[k] = "eol" => k > 1 /\ s[k - 1] # "eol"

\* Text whose header has ended, with all its fields.
EndsAt(s, k) == k < Len(s) /\ s[k] = "eol" /\ s[k + 1] = "eol"
Closed(s) == /\ s \in Seq(Signs)
             /\ \A k, j \in 1..Len(s) : EndsAt(s, k) /\ s[j] = "head" => j < k
             /\ \E k \in 1..Len(s) : EndsAt(s, k)

\* The end of a header, where it follows a whole line and where it ends one.
Closing(s) == s \in Seq(Signs) /\ Len(s) > 0 /\ s[1] = "eol" /\ \A k \in 1..Len(s) : s[k] # "head"
Doubled(s) == Len(s) > 1 /\ s[2] = "eol"
Ending(s)  == Len(s) > 0 /\ s[Len(s)] = "eol"

Wrote ==
  /\ pc \in {"setup", "idle"} => out = <<>>
  /\ pc \in Unanswered \ {"setup", "idle"} => out = <<"text">>
  /\ pc \in {"aborted", "faulted"} => Open(out)
  /\ pc = "done" => Closed(out)

Routed ==
  /\ pc \in Unanswered => answer = "none"
  /\ RoutedByPath /\ ActionSeesParameters

AdaptorInv == Typed /\ CallsMade /\ Wrote /\ Routed

-----------------------------------------------------------------------------
\* Texts one after the other.
LEMMA Joined ==
  ASSUME NEW a, NEW b, Open(a), Open(b)
  PROVE  Open(a \o b)
<1>1. /\ a \in Seq(Signs) /\ b \in Seq(Signs) /\ Len(a) \in Nat /\ Len(b) \in Nat
      /\ a \o b \in Seq(Signs) /\ Len(a \o b) = Len(a) + Len(b)
      /\ \A k \in 1..(Len(a) + Len(b)) :
           (a \o b)[k] = IF k <= Len(a) THEN a[k] ELSE b[k - Len(a)]
  BY ConcatProperties DEF Open
<1>2. ASSUME NEW k \in 1..(Len(a) + Len(b)), (a \o b)[k] = "eol"
      PROVE  k > 1 /\ (a \o b)[k - 1] # "eol"
  <2>1. CASE k <= Len(a)
    <3>1. k \in 1..Len(a) /\ a[k] = "eol"
      BY <1>1, <1>2, <2>1
    <3>2. k > 1 /\ a[k - 1] # "eol"
      BY <3>1 DEF Open
    <3>3. (a \o b)[k - 1] = a[k - 1]
      BY <1>1, <2>1, <3>2
    <3> QED
      BY <3>2, <3>3
  <2>2. CASE ~(k <= Len(a))
    <3>1. k - Len(a) \in 1..Len(b) /\ b[k - Len(a)] = "eol"
      BY <1>1, <1>2, <2>2
    <3>2. k - Len(a) > 1 /\ b[(k - Len(a)) - 1] # "eol"
      BY <3>1 DEF Open
    <3>3. (a \o b)[k - 1] = b[(k - 1) - Len(a)] /\ (k - 1) - Len(a) = (k - Len(a)) - 1
      BY <1>1, <2>2, <3>2
    <3> QED
      BY <1>1, <3>2, <3>3
  <2> QED
    BY <2>1, <2>2
<1> QED
  BY <1>1, <1>2 DEF Open

\* The end of the header, and no field after it.
LEMMA Ended ==
  ASSUME NEW a, NEW b, Open(a), Closing(b), Ending(a) \/ Doubled(b)
  PROVE  Closed(a \o b)
<1> USE DEF Closing, Ending, Doubled
<1>1. /\ a \in Seq(Signs) /\ Len(a) \in Nat /\ Len(b) \in Nat /\ b \in Seq(Signs)
      /\ a \o b \in Seq(Signs) /\ Len(a \o b) = Len(a) + Len(b)
      /\ \A k \in 1..(Len(a) + Len(b)) :
           (a \o b)[k] = IF k <= Len(a) THEN a[k] ELSE b[k - Len(a)]
  BY ConcatProperties DEF Open
<1>2. ASSUME NEW k \in 1..(Len(a) + Len(b)), NEW j \in 1..(Len(a) + Len(b)),
             EndsAt(a \o b, k), (a \o b)[j] = "head"
      PROVE  j < k
  <2>1. k >= Len(a)
    <3> SUFFICES ASSUME k + 1 <= Len(a) PROVE FALSE
      BY <1>1
    <3>1. k + 1 \in 1..Len(a) /\ (k + 1) - 1 = k
      BY <1>1
    <3>2. a[k] = "eol" /\ a[k + 1] = "eol"
      BY <1>1, <1>2, <3>1 DEF EndsAt
    <3> QED
      BY <3>1, <3>2 DEF Open
  <2>2. j <= Len(a)
    BY <1>1, <1>2
  <2>3. j # k
    BY <1>2 DEF EndsAt
  <2> QED
    BY <1>1, <2>1, <2>2, <2>3
<1>3. \E k \in 1..(Len(a) + Len(b)) : EndsAt(a \o b, k)
  <2>1. CASE Len(a) > 0 /\ a[Len(a)] = "eol"
    <3>1. Len(a) \in 1..(Len(a) + Len(b)) /\ Len(a) + 1 \in 1..(Len(a) + Len(b))
      BY <1>1, <2>1
    <3>2. (Len(a) + 1) - Len(a) = 1 /\ ~(Len(a) + 1 <= Len(a)) /\ Len(a) <= Len(a)
          /\ Len(a) < Len(a) + Len(b)
      BY <1>1
    <3>3. (a \o b)[Len(a)] = "eol" /\ (a \o b)[Len(a) + 1] = "eol"
      BY <1>1, <2>1, <3>1, <3>2
    <3> QED
      BY <1>1, <3>1, <3>2, <3>3 DEF EndsAt
  <2>2. CASE Len(b) > 1 /\ b[2] = "eol"
    <3>1. Len(a) + 1 \in 1..(Len(a) + Len(b)) /\ Len(a) + 2 \in 1..(Len(a) + Len(b))
      BY <1>1, <2>2
    <3>2. /\ (Len(a) + 1) - Len(a) = 1 /\ ~(Len(a) + 1 <= Len(a))
          /\ (Len(a) + 2) - Len(a) = 2 /\ ~(Len(a) + 2 <= Len(a))
          /\ (Len(a) + 1) + 1 = Len(a) + 2 /\ Len(a) + 1 < Len(a) + Len(b)
      BY <1>1, <2>2
    <3>3. (a \o b)[Len(a) + 1] = "eol" /\ (a \o b)[Len(a) + 2] = "eol"
      BY <1>1, <2>2, <3>1, <3>2
    <3> QED
      BY <1>1, <3>1, <3>2, <3>3 DEF EndsAt
  <2> QED
    BY <2>1, <2>2
<1> QED
  BY <1>1, <1>2, <1>3 DEF Closed

\* What the answers are made of.
LEMMA Pieced ==
  /\ Open(<<>>) /\ Open(<<"text">>) /\ Open(<<"head">>)
  /\ Open(Line) /\ Ending(Line)
  /\ \A n \in Nat : Open(Lines(n)) /\ (n > 0 => Ending(Lines(n)))
<1>1. "head" \in Signs /\ "eol" \in Signs /\ "text" \in Signs
  BY DEF Signs
<1>2. Open(<<>>) /\ Open(<<"text">>) /\ Open(<<"head">>)
  BY <1>1 DEF Open
<1>3. Open(Line) /\ Ending(Line)
  BY <1>1 DEF Open, Line, Ending
<1>4. ASSUME NEW n \in Nat
      PROVE  Open(Lines(n)) /\ (n > 0 => Ending(Lines(n)))
  <2>1. 2 * n \in Nat
    OBVIOUS
  <2>2. Lines(n) \in Seq(Signs) /\ Len(Lines(n)) = 2 * n
    BY <1>1, <2>1 DEF Lines
  <2>3. \A k \in 1..(2 * n) : Lines(n)[k] = IF k % 2 = 1 THEN "head" ELSE "eol"
    BY DEF Lines
  <2>4. ASSUME NEW k \in 1..(2 * n), Lines(n)[k] = "eol"
        PROVE  k > 1 /\ Lines(n)[k - 1] # "eol"
    <3>1. k % 2 # 1
      BY <2>3, <2>4
    <3>2. k > 1 /\ (k - 1) % 2 = 1
      BY <3>1
    <3>3. k - 1 \in 1..(2 * n)
      BY <3>2
    <3> QED
      BY <2>3, <3>2, <3>3
  <2>5. n > 0 => Lines(n)[2 * n] = "eol"
    <3>1. n > 0 => 2 * n \in 1..(2 * n) /\ (2 * n) % 2 # 1
      OBVIOUS
    <3> QED
      BY <2>3, <3>1
  <2> QED
    BY <2>1, <2>2, <2>4, <2>5 DEF Open, Ending
<1> QED
  BY <1>2, <1>3, <1>4

\* A text ends as what was added to it.
LEMMA EndKept ==
  ASSUME NEW a \in Seq(Signs), NEW b \in Seq(Signs), Ending(b)
  PROVE  Ending(a \o b)
<1>1. /\ Len(a) \in Nat /\ Len(b) \in Nat /\ Len(a \o b) = Len(a) + Len(b)
      /\ \A k \in 1..(Len(a) + Len(b)) :
           (a \o b)[k] = IF k <= Len(a) THEN a[k] ELSE b[k - Len(a)]
  BY ConcatProperties
<1>2. /\ Len(a) + Len(b) \in 1..(Len(a) + Len(b)) /\ ~(Len(a) + Len(b) <= Len(a))
      /\ (Len(a) + Len(b)) - Len(a) = Len(b)
  BY <1>1 DEF Ending
<1>3. (a \o b)[Len(a) + Len(b)] = b[Len(b)]
  BY <1>1, <1>2
<1> QED
  BY <1>1, <1>2, <1>3 DEF Ending

\* An error page closes the header, whatever open text it follows.
LEMMA Paged ==
  ASSUME NEW a, Open(a)
  PROVE  Closed(a \o ErrorPage)
<1> DEFINE b == <<"eol", "text">>
<1>1. b \in Seq(Signs) /\ Closing(b)
  BY DEF Signs, Closing
<1>2. a \in Seq(Signs) /\ Line \in Seq(Signs) /\ Open(Line)
  BY Pieced DEF Open
<1> DEFINE c == a \o Line
<1> HIDE DEF b, c
<1>3. Open(c)
  BY <1>2, Joined DEF c
<1>4. Ending(c)
  BY <1>2, Pieced, EndKept DEF c
<1>5. Closed(c \o b)
  BY <1>1, <1>3, <1>4, Ended
<1>6. c \o b = a \o (Line \o b)
  BY <1>1, <1>2, ConcatAssociative DEF c
<1> QED
  BY <1>5, <1>6 DEF ErrorPage, b

\* The three answers that are no error page close the header too.
LEMMA Answered ==
  ASSUME response \in Answers, out = <<"text">>
  PROVE  /\ Closed(out \o Head200) /\ Closed(out \o Head302) /\ Closed(out \o Head404)
         /\ Open(out \o Line)
<1>1. response.cookies \in Nat
  <2>1. response.cookies \in 0..1
    BY DEF Answers
  <2> QED
    BY <2>1
<1>2. Open(out) /\ Open(Line) /\ Open(<<"head">>) /\ Open(out \o Line) /\ out \in Seq(Signs)
  BY Pieced, Joined DEF Open
<1>3. Closed(out \o Head200)
  <2> DEFINE x == Lines(response.cookies)
             y == IF response.mime THEN Line ELSE <<"head">>
             b == <<"eol", "eol", "text">>
  <2>1. Open(x) /\ Open(y)
    BY <1>1, <1>2, Pieced
  <2>2. b \in Seq(Signs) /\ Closing(b) /\ Doubled(b)
    BY DEF Signs, Closing, Doubled
  <2>3. Head200 = (x \o y) \o b
    BY DEF Head200
  <2> HIDE DEF x, y, b
  <2> DEFINE z == x \o y
             c == out \o z
  <2>4. Open(z) /\ z \in Seq(Signs)
    BY <1>2, <2>1, Joined DEF Open
  <2> HIDE DEF z
  <2>5. out \o (z \o b) = c \o b
    BY <1>2, <2>2, <2>4, ConcatAssociative
  <2>6. Open(c)
    BY <1>2, <2>4, Joined
  <2> HIDE DEF c
  <2>7. Closed(c \o b)
    BY <2>2, <2>6, Ended
  <2> QED
    BY <2>3, <2>5, <2>7 DEF z
<1>4. Closed(out \o Head302)
  <2> DEFINE x == Lines(3 + response.cookies)
             b == <<"eol", "eol", "eol">>
  <2>1. Open(x)
    BY <1>1, Pieced
  <2>2. b \in Seq(Signs) /\ Closing(b) /\ Doubled(b)
    BY DEF Signs, Closing, Doubled
  <2>3. Head302 = x \o b
    BY DEF Head302
  <2> HIDE DEF x, b
  <2> DEFINE c == out \o x
  <2>4. Open(c)
    BY <1>2, <2>1, Joined
  <2>5. out \o (x \o b) = c \o b
    BY <1>2, <2>1, <2>2, ConcatAssociative DEF Open
  <2> HIDE DEF c
  <2>6. Closed(c \o b)
    BY <2>2, <2>4, Ended
  <2> QED
    BY <2>3, <2>5, <2>6
<1>5. Closed(out \o Head404)
  <2> DEFINE x == Lines(2)
             b == <<"eol">>
  <2>1. Open(x) /\ Ending(x) /\ x \in Seq(Signs)
    <3>1. 2 \in Nat /\ 2 > 0
      OBVIOUS
    <3> QED
      BY <3>1, Pieced DEF Open
  <2>2. b \in Seq(Signs) /\ Closing(b)
    BY DEF Signs, Closing
  <2>3. Head404 = x \o b
    BY DEF Head404
  <2> HIDE DEF x, b
  <2> DEFINE c == out \o x
  <2>4. Open(c)
    BY <1>2, <2>1, Joined
  <2>5. out \o (x \o b) = c \o b
    BY <1>2, <2>1, <2>2, ConcatAssociative
  <2>8. Ending(c)
    BY <1>2, <2>1, EndKept
  <2> HIDE DEF c
  <2>9. Closed(c \o b)
    BY <2>2, <2>4, <2>8, Ended
  <2> QED
    BY <2>3, <2>5, <2>9
<1> QED
  BY <1>2, <1>3, <1>4, <1>5

-----------------------------------------------------------------------------
\* Counting the calls.
LEMMA CallMade ==
  ASSUME NEW cs \in Seq(Call), NEW c \in Call, NEW phase
  PROVE  /\ MadeIn(cs, phase) \in Nat
         /\ MadeIn(Append(cs, c), phase) = MadeIn(cs, phase) + (IF c.phase = phase THEN 1 ELSE 0)
<1> DEFINE n == Len(cs)
           K == {k \in 1..n : cs[k].phase = phase}
           L == {k \in 1..(n + 1) : Append(cs, c)[k].phase = phase}
<1>1. /\ n \in Nat /\ Len(Append(cs, c)) = n + 1
      /\ \A k \in 1..n : Append(cs, c)[k] = cs[k]
      /\ Append(cs, c)[n + 1] = c
  OBVIOUS
<1>2. IsFiniteSet(K) /\ Cardinality(K) \in Nat
  <2>1. IsFiniteSet(1..n)
    BY <1>1, FS_Interval
  <2>2. K \in SUBSET (1..n)
    OBVIOUS
  <2> QED
    BY <2>1, <2>2, FS_Subset, FS_CardinalityType
<1>3. L = IF c.phase = phase THEN K \cup {n + 1} ELSE K
  <2>1. \A k : k \in 1..(n + 1) <=> k \in 1..n \/ k = n + 1
    BY <1>1
  <2> QED
    BY <1>1, <2>1
<1>4. n + 1 \notin K
  BY <1>1
<1>5. MadeIn(cs, phase) = Cardinality(K) /\ MadeIn(Append(cs, c), phase) = Cardinality(L)
  BY <1>1 DEF MadeIn
<1> HIDE DEF K, L, n
<1>6. Cardinality(K \cup {n + 1}) = Cardinality(K) + 1
  BY <1>2, <1>4, FS_AddElement
<1> QED
  BY <1>2, <1>3, <1>5, <1>6

\* No call was made yet, or none of the kind.
LEMMA NoneMade ==
  ASSUME NEW cs \in Seq(Call), NEW phase, \A k \in 1..Len(cs) : cs[k].phase # phase
  PROVE  MadeIn(cs, phase) = 0
<1>1. {k \in 1..Len(cs) : cs[k].phase = phase} = {}
  OBVIOUS
<1> QED
  BY <1>1, FS_EmptySet DEF MadeIn

-----------------------------------------------------------------------------
\* A set of natural numbers that is not empty has a least one.
LEMMA LeastOf ==
  ASSUME NEW S \in SUBSET Nat, S # {}
  PROVE  \E l \in S : \A n \in S : l <= n
<1> DEFINE R == OpToRel(<, Nat)
<1>1. IsWellFoundedOn(R, Nat)
  BY NatLessThanWellFounded
<1>2. \A l, n \in Nat : l < n => <<l, n>> \in R
  BY DEF OpToRel
<1> HIDE DEF R
<1>3. PICK l \in S : \A n \in S : ~(<<n, l>> \in R)
  BY <1>1, WFMin
<1>4. ASSUME NEW n \in S PROVE l <= n
  <2>1. l \in Nat /\ n \in Nat /\ ~(n < l)
    BY <1>2, <1>3
  <2> QED
    BY <2>1
<1> QED
  BY <1>4

\* One of a set's numbers is the j-th.
LEMMA Ranked ==
  ASSUME NEW n \in Nat, NEW S \in SUBSET (1..n), NEW j \in 1..Cardinality(S)
  PROVE  \E k \in S : Cardinality({i \in S : i <= k}) = j
<1> DEFINE B(k) == {i \in S : i <= k}
           T    == {k \in 0..n : Cardinality(B(k)) >= j}
<1>1. IsFiniteSet(S) /\ Cardinality(S) \in Nat
  <2>1. IsFiniteSet(1..n)
    <3>1. 1 \in Int /\ n \in Int
      OBVIOUS
    <3> QED
      BY <3>1, FS_Interval
  <2> QED
    BY <2>1, FS_Subset, FS_CardinalityType
<1>a. \A i \in S : i \in 1..n /\ i <= n /\ i \in Nat /\ i > 0
  OBVIOUS
<1>b. j \in Nat /\ j > 0 /\ j <= Cardinality(S)
  BY <1>1
<1>2. \A k : IsFiniteSet(B(k)) /\ Cardinality(B(k)) \in Nat
  <2> TAKE k
  <2>1. B(k) \in SUBSET S
    OBVIOUS
  <2> HIDE DEF B
  <2> QED
    BY <1>1, <2>1, FS_Subset, FS_CardinalityType
<1>3. B(n) = S /\ n \in T
  <2>1. B(n) = S
    BY <1>a
  <2> HIDE DEF B
  <2> QED
    BY <1>1, <1>b, <2>1
<1>4. T \in SUBSET Nat /\ T # {}
  <2>1. \A l \in 0..n : l \in Nat
    OBVIOUS
  <2> HIDE DEF B
  <2>2. T \in SUBSET Nat
    BY <2>1
  <2> QED
    BY <1>3, <2>2
<1>5. PICK k \in T : \A l \in T : k <= l
  BY <1>4, LeastOf
<1>6. k # 0
  <2>0. \A i \in S : ~(i <= 0)
    BY <1>a
  <2>1. B(0) = {}
    BY <2>0
  <2> HIDE DEF B
  <2>2. Cardinality(B(0)) = 0
    BY <2>1, FS_EmptySet
  <2>3. \A l \in T : Cardinality(B(l)) >= j
    OBVIOUS
  <2> QED
    BY <1>b, <1>5, <2>2, <2>3
<1>7. k \in 1..n /\ k - 1 \in 0..n /\ k - 1 \notin T
  <2>1. k \in 0..n /\ k \in Nat
    BY <1>4
  <2>2. k \in 1..n /\ k - 1 \in 0..n /\ ~(k <= k - 1)
    BY <1>6, <2>1
  <2> HIDE DEF T
  <2> QED
    BY <1>5, <2>2
<1>8. Cardinality(B(k - 1)) < j /\ Cardinality(B(k)) >= j
  <2>1. Cardinality(B(k - 1)) \in Nat /\ Cardinality(B(k)) \in Nat
    BY <1>2
  <2>2. ~(Cardinality(B(k - 1)) >= j) /\ Cardinality(B(k)) >= j
    BY <1>7
  <2> QED
    BY <1>b, <2>1, <2>2
<1>9. B(k) = IF k \in S THEN B(k - 1) \cup {k} ELSE B(k - 1)
  <2>1. \A i \in S : i <= k <=> (i <= k - 1 \/ i = k)
    BY <1>a, <1>7
  <2> QED
    BY <2>1, <1>7
<1>10. k \notin B(k - 1)
  BY <1>7
<1>11. B(k) = {i \in S : i <= k}
  OBVIOUS
<1> HIDE DEF B, T
<1>12. k \in S
  BY <1>2, <1>8, <1>9
<1>13. Cardinality(B(k)) = Cardinality(B(k - 1)) + 1
  BY <1>2, <1>9, <1>10, <1>12, FS_AddElement
<1> QED
  <2>1. Cardinality(B(k)) \in Nat /\ Cardinality(B(k - 1)) \in Nat
    BY <1>2
  <2>2. Cardinality(B(k)) = j
    BY <1>b, <1>8, <1>13, <2>1
  <2> QED
    BY <1>11, <1>12, <2>2

-----------------------------------------------------------------------------
\* A bounded sequence is a sequence.
LEMMA Bounded ==
  ASSUME NEW S, NEW n \in Nat, NEW s \in UpTo(S, n)
  PROVE  s \in Seq(S) /\ Len(s) \in 0..n /\ DOMAIN s = 1..Len(s)
<1>1. PICK k \in 0..n : s \in [1..k -> S]
  BY DEF UpTo
<1>2. k \in Nat
  OBVIOUS
<1>3. s \in Seq(S) /\ Len(s) = k
  BY <1>1, <1>2
<1> QED
  BY <1>2, <1>3

\* What a request consists of.
LEMMA Asked ==
  ASSUME request \in Requests
  PROVE  /\ request.query \in Seq(Parameters) /\ Len(request.query) \in 0..MaxQuery
         /\ DOMAIN request.query = 1..Len(request.query)
         /\ \A k \in 1..Len(request.query) :
              request.query[k].valued \in BOOLEAN /\ request.query[k].escaped \in BOOLEAN
         /\ Length \in Nat
         /\ request.method \in {"get", "post", "multipart"}
         /\ request.posts \in [Names -> Posts]
<1>1. /\ request.query \in UpTo(Parameters, MaxQuery)
      /\ request.path \in UpTo(Segments, MaxPath)
      /\ request.method \in {"get", "post", "multipart"}
      /\ request.posts \in [Names -> Posts]
  BY DEF Requests
<1>2. /\ request.query \in Seq(Parameters) /\ Len(request.query) \in 0..MaxQuery
      /\ DOMAIN request.query = 1..Len(request.query)
      /\ Len(request.path) \in Nat
  BY <1>1, Bounded, AdaptorAssumption
<1>3. ASSUME NEW k \in 1..Len(request.query)
      PROVE  request.query[k].valued \in BOOLEAN /\ request.query[k].escaped \in BOOLEAN
  <2>1. request.query[k] \in Parameters
    BY <1>2, <1>3
  <2> QED
    BY <2>1 DEF Parameters
<1> QED
  BY <1>1, <1>2, <1>3 DEF Length

\* The values of a name: each comes from a parameter of the query or from the form, and
\* the last one of the query and the form's are among them.
LEMMA Valued ==
  ASSUME request \in Requests, NEW n \in Names, NEW misread
  PROVE  /\ ValuesOf(n, misread) \in Seq(Value)
         /\ GotAs(n) # {} => Decoded(Latest(GotAs(n))) \in ToSet(ValuesOf(n, misread))
         /\ request.posts[n] = "field" => Decoded(0) \in ToSet(ValuesOf(n, misread))
         /\ request.posts[n] = "file" => FileText(n, misread) \in ToSet(ValuesOf(n, misread))
<1> DEFINE S == ParsedAs(n)
           L == Len(request.query)
           first == [j \in 1..Cardinality(S) |->
                       Raw(CHOOSE k \in S : Cardinality({i \in S : i <= k}) = j)]
           got == IF GotAs(n) = {} THEN first ELSE Added(first, Decoded(Latest(GotAs(n))))
<1>1. /\ L \in Nat /\ L <= MaxQuery /\ MaxQuery \in Nat /\ DOMAIN request.query = 1..L
      /\ \A k \in 1..L : request.query[k].escaped \in BOOLEAN
  BY Asked, AdaptorAssumption
<1>2. S \in SUBSET (1..L)
  BY <1>1 DEF ParsedAs
<1>3. \A k \in 1..L : Raw(k) \in Value /\ Decoded(k) \in Value
  <2>1. \A k \in 1..L : k \in 0..MaxQuery
    BY <1>1
  <2> QED
    BY <1>1, <2>1 DEF Raw, Decoded, Value
<1>4. Decoded(0) \in Value /\ FileText(n, misread) \in Value
  <2>1. 0 \in 0..MaxQuery
    BY <1>1
  <2> QED
    BY <2>1 DEF Decoded, FileText, Value
<1>5. Cardinality(S) \in Nat
  <2>1. IsFiniteSet(1..L)
    <3>1. 1 \in Int /\ L \in Int
      BY <1>1
    <3> QED
      BY <3>1, FS_Interval
  <2> QED
    BY <1>2, <2>1, FS_Subset, FS_CardinalityType
<1>6. first \in Seq(Value)
  <2>1. ASSUME NEW j \in 1..Cardinality(S)
        PROVE  Raw(CHOOSE k \in S : Cardinality({i \in S : i <= k}) = j) \in Value
    <3>1. \E k \in S : Cardinality({i \in S : i <= k}) = j
      BY <1>1, <1>2, Ranked
    <3>2. (CHOOSE k \in S : Cardinality({i \in S : i <= k}) = j) \in S
      BY <3>1
    <3> QED
      BY <1>2, <1>3, <3>2
  <2> DEFINE c == Cardinality(S)
             at(j) == Raw(CHOOSE k \in S : Cardinality({i \in S : i <= k}) = j)
  <2>2. c \in Nat /\ (\A j \in 1..c : at(j) \in Value) /\ first = [j \in 1..c |-> at(j)]
    BY <1>5, <2>1
  <2> HIDE DEF c, at, S, first
  <2> QED
    BY <2>2
<1>7. GotAs(n) # {} => Latest(GotAs(n)) \in GotAs(n)
  <2> SUFFICES ASSUME GotAs(n) # {} PROVE Latest(GotAs(n)) \in GotAs(n)
    OBVIOUS
  <2> DEFINE G == GotAs(n)
             D == {L - k : k \in G}
  <2>1. G \in SUBSET (1..L)
    BY <1>1 DEF GotAs
  <2> HIDE DEF G
  <2>2. D \in SUBSET Nat /\ D # {}
    <3>1. \A k \in G : k \in 1..L /\ L - k \in Nat
      BY <1>1, <2>1
    <3>2. G # {}
      BY DEF G
    <3> QED
      BY <3>1, <3>2
  <2>3. PICK d \in D : \A e \in D : d <= e
    BY <2>2, LeastOf
  <2>4. PICK k \in G : d = L - k
    OBVIOUS
  <2>5. ASSUME NEW j \in G PROVE j <= k
    <3>1. L - k <= L - j
      BY <2>3, <2>4
    <3>2. j \in 1..L /\ k \in 1..L
      BY <2>1
    <3> QED
      BY <1>1, <3>1, <3>2
  <2> QED
    BY <2>5 DEF Latest, G
<1>8. Latest(GotAs(n)) \in 1..L \/ GotAs(n) = {}
  BY <1>1, <1>7 DEF GotAs
<1>9. \A s \in Seq(Value), v \in Value :
        /\ Added(s, v) \in Seq(Value) /\ v \in ToSet(Added(s, v))
        /\ \A w \in ToSet(s) : w \in ToSet(Added(s, v))
  <2> TAKE s \in Seq(Value), v \in Value
  <2>1. /\ Append(s, v) \in Seq(Value) /\ Len(s) \in Nat
        /\ Len(Append(s, v)) = Len(s) + 1
        /\ \A i \in 1..Len(s) : Append(s, v)[i] = s[i]
        /\ Append(s, v)[Len(s) + 1] = v
    BY AppendProperties
  <2>2. /\ DOMAIN s = 1..Len(s) /\ DOMAIN Append(s, v) = 1..(Len(s) + 1)
    BY <2>1
  <2>3. /\ \A i \in 1..Len(s) : i \in 1..(Len(s) + 1)
        /\ Len(s) + 1 \in 1..(Len(s) + 1)
    BY <2>1
  <2> QED
    BY <2>1, <2>2, <2>3 DEF Added, ToSet
<1> HIDE DEF first
<1>10. /\ got \in Seq(Value)
       /\ GotAs(n) # {} => Decoded(Latest(GotAs(n))) \in ToSet(got)
  BY <1>3, <1>6, <1>8, <1>9
<1> DEFINE kind == request.posts[n]
           all  == CASE kind = "field" -> Added(got, Decoded(0))
                     [] kind = "file"  -> Added(got, FileText(n, misread))
                     [] OTHER          -> got
<1>11. ValuesOf(n, misread) = all
  <2>1. /\ n \in PostedAs({"field"}) <=> kind = "field"
        /\ n \in PostedAs({"file"}) <=> kind = "file"
    BY DEF PostedAs
  <2> HIDE DEF kind
  <2> QED
    BY <2>1 DEF ValuesOf, first
<1> HIDE DEF got, kind
<1>12. /\ all \in Seq(Value)
       /\ GotAs(n) # {} => Decoded(Latest(GotAs(n))) \in ToSet(all)
       /\ kind = "field" => Decoded(0) \in ToSet(all)
       /\ kind = "file" => FileText(n, misread) \in ToSet(all)
  <2>1. CASE kind = "field"
    <3>1. all = Added(got, Decoded(0)) /\ kind # "file"
      BY <2>1
    <3> HIDE DEF all
    <3> QED
      BY <1>4, <1>9, <1>10, <3>1
  <2>2. CASE kind = "file"
    <3>1. all = Added(got, FileText(n, misread)) /\ kind # "field"
      BY <2>2
    <3> HIDE DEF all
    <3> QED
      BY <1>4, <1>9, <1>10, <3>1
  <2>3. CASE kind # "field" /\ kind # "file"
    BY <1>10, <2>3
  <2> QED
    BY <2>1, <2>2, <2>3
<1> HIDE DEF all
<1> QED
  BY <1>11, <1>12 DEF kind

-----------------------------------------------------------------------------
\* No request.
LEMMA Nothing ==
  /\ NoRequest \in Requests /\ NoParams \in [Names -> Seq(Value)] /\ NoResponse \in Answers
  /\ <<>> \in Seq(Call) /\ \A phase : MadeIn(<<>>, phase) = 0
<1>1. \A S, n : n \in Nat => <<>> \in UpTo(S, n)
  <2> TAKE S, n
  <2> SUFFICES ASSUME n \in Nat PROVE <<>> \in UpTo(S, n)
    OBVIOUS
  <2>1. 0 \in 0..n /\ <<>> \in [1..0 -> S]
    OBVIOUS
  <2> QED
    BY <2>1 DEF UpTo
<1>2. NoRequest \in Requests
  <2>1. [n \in Names |-> "none"] \in [Names -> Posts]
    BY DEF Posts
  <2> QED
    BY <1>1, <2>1, AdaptorAssumption DEF NoRequest, Requests
<1>3. NoParams \in [Names -> Seq(Value)]
  BY DEF NoParams
<1>4. NoResponse \in Answers
  BY DEF NoResponse, Answers
<1>5. ASSUME NEW phase PROVE MadeIn(<<>>, phase) = 0
  <2>1. <<>> \in Seq(Call) /\ \A k \in 1..Len(<<>>) : <<>>[k].phase # phase
    OBVIOUS
  <2> QED
    BY <2>1, NoneMade
<1> QED
  BY <1>2, <1>3, <1>4, <1>5

\* The first state.
LEMMA AdaptorInit == Init => AdaptorInv
<1> SUFFICES ASSUME Init PROVE AdaptorInv
  OBVIOUS
<1>1. Typed
  <2>1. chain \in 0..MaxChain
    BY AdaptorAssumption DEF Init
  <2> QED
    BY <2>1, Nothing DEF Init, Typed, Unanswered
<1>2. CallsMade
  <2>1. calls = <<>> /\ Len(<<>>) = 0 /\ chain = 0 /\ pc = "setup"
    BY DEF Init
  <2>2. MadeIn(calls, "before") = 0 /\ MadeIn(calls, "after") = 0
    BY <2>1, Nothing
  <2> QED
    BY <2>1, <2>2 DEF CallsMade
<1>3. Wrote /\ Routed
  BY DEF Init, Wrote, Routed, RoutedByPath, ActionSeesParameters, given, PostedAs, NoRequest,
         Unanswered
<1> QED
  BY <1>1, <1>2, <1>3 DEF AdaptorInv

\* An error page, wherever sysmain() writes one.
LEMMA Refused ==
  ASSUME AdaptorInv, pc \in Unanswered \ {"setup", "idle"}, NEW what,
         Refuse(what, <<>>) \/ Refuse(what, <<"text">>)
  PROVE  pc' = "done" /\ answer' = what /\ Closed(out')
<1>1. out = <<"text">> /\ Open(out) /\ Open(<<"text">>) /\ Open(<<>>)
  BY Pieced DEF AdaptorInv, Wrote
<1>2. PICK before \in {<<>>, <<"text">>} : Refuse(what, before)
  OBVIOUS
<1> DEFINE a == out \o before
<1>3. Open(a)
  BY <1>1, <1>2, Joined
<1>4. pc' = "done" /\ answer' = what /\ out' = a \o ErrorPage
  BY <1>2 DEF Refuse
<1> HIDE DEF a
<1> QED
  BY <1>3, <1>4, Paged

\* A step that makes no call leaves the calls as they were.
LEMMA NoCallMade ==
  ASSUME AdaptorInv, pc # "setup", UNCHANGED <<calls, chain>>,
         \/ pc \in Unanswered /\ pc' = "done"
         \/ pc \in Unanswered /\ pc' \in {"aborted", "faulted"}
         \/ pc = "init" /\ pc' = "before"
         \/ pc \in {"parse", "action", "render", "after", "answer"}
            /\ pc' \in {"parse", "action", "render", "after", "answer"}
         \/ pc = "idle" /\ pc' = "init"
         \/ pc = "before" /\ pc' = "parse" /\ MadeIn(calls, "before") = chain
  PROVE  CallsMade'
<1>1. calls \in Seq(Call) /\ (pc \in {"idle", "init"} => calls = <<>>)
  BY DEF AdaptorInv, Typed, CallsMade
<1> QED
  BY <1>1 DEF AdaptorInv, CallsMade, Unanswered

\* A call of an interceptor, or the end of its turn.
LEMMA Invoked ==
  ASSUME AdaptorInv,
         NEW phase \in {"before", "after"}, NEW next \in {"parse", "answer"},
         Invoke(phase, next), phase = "before" <=> next = "parse"
  PROVE  AdaptorInv'
<1>1. /\ pc = phase /\ UNCHANGED <<chain, lastErrMsg, request, given, response>>
      /\ \/ AllCalled(phase) /\ pc' = next /\ UNCHANGED <<calls, out, answer>>
         \/ /\ ~AllCalled(phase)
            /\ \E o \in Outcomes :
                 /\ calls' = Append(calls, [phase |-> phase, outcome |-> o])
                 /\ IF GoesOn(o) THEN UNCHANGED <<pc, out, answer>> ELSE Refuse(phase, <<>>)
  BY DEF Invoke, process
<1>2. /\ Typed /\ calls \in Seq(Call) /\ Len(calls) \in Nat /\ DOMAIN calls = 1..Len(calls)
      /\ chain \in Nat
      /\ pc \in Unanswered \ {"setup", "idle"}
      /\ answer = "none"
  BY <1>1, AdaptorAssumption DEF AdaptorInv, Typed, Routed, Unanswered
<1>3. AllCalled(phase) <=> MadeIn(calls, phase) = chain
  BY <1>2 DEF AllCalled, Made, MadeIn
<1>4. CASE AllCalled(phase) /\ pc' = next /\ UNCHANGED <<calls, out, answer>>
  <2>1. CallsMade'
    BY <1>1, <1>3, <1>4, NoCallMade DEF Unanswered
  <2>2. Wrote'
    BY <1>1, <1>4 DEF AdaptorInv, Wrote, Unanswered
  <2>3. Routed'
    BY <1>1, <1>2, <1>4 DEF Routed, RoutedByPath, ActionSeesParameters, given, PostedAs
  <2>4. Typed'
    BY <1>1, <1>4 DEF AdaptorInv, Typed, Unanswered, given
  <2> QED
    BY <2>1, <2>2, <2>3, <2>4 DEF AdaptorInv
<1>5. ASSUME NEW o \in Outcomes, ~AllCalled(phase),
             calls' = Append(calls, [phase |-> phase, outcome |-> o]),
             IF GoesOn(o) THEN UNCHANGED <<pc, out, answer>> ELSE Refuse(phase, <<>>)
      PROVE  AdaptorInv'
  <2> DEFINE c == [phase |-> phase, outcome |-> o]
  <2>1. c \in Call /\ c.phase = phase /\ c.outcome = o
    BY DEF Call
  <2>2. calls' = Append(calls, c)
    BY <1>5
  <2> HIDE DEF c
  <2>3. /\ calls' \in Seq(Call) /\ Len(calls') = Len(calls) + 1
        /\ \A k \in 1..Len(calls) : calls'[k] = calls[k]
        /\ calls'[Len(calls) + 1] = c
    BY <1>2, <2>1, <2>2, AppendProperties
  <2>4. \A k \in 1..Len(calls') : k \in 1..Len(calls) \/ k = Len(calls')
    BY <1>2, <2>3
  <2>5. \A p \in {"before", "after"} :
          MadeIn(calls', p) = MadeIn(calls, p) + (IF phase = p THEN 1 ELSE 0)
          /\ MadeIn(calls, p) \in Nat
    BY <1>2, <2>1, <2>2, CallMade
  <2>6. /\ MadeIn(calls, "before") <= chain /\ MadeIn(calls, "after") <= chain
        /\ MadeIn(calls, phase) # chain
    BY <1>3, <1>5 DEF AdaptorInv, CallsMade
  <2>7. MadeIn(calls', "before") <= chain /\ MadeIn(calls', "after") <= chain
    <3>1. \A m \in Nat : m <= chain /\ m # chain => m + 1 <= chain
      BY <1>2
    <3> QED
      BY <2>5, <2>6, <3>1
  <2>8. phase = "after" => MadeIn(calls, "before") = chain /\ MadeIn(calls', "before") = chain
    <3>1. phase = "after" => MadeIn(calls, "before") = chain
      BY <1>1 DEF AdaptorInv, CallsMade
    <3> QED
      BY <2>5, <3>1
  <2>9. phase = "before" => \A k \in 1..Len(calls') : calls'[k].phase = "before"
    BY <1>1, <2>1, <2>3, <2>4 DEF AdaptorInv, CallsMade
  <2>10. \A k \in 1..Len(calls) : calls[k].outcome # "FAIL"
    BY <1>2 DEF AdaptorInv, CallsMade
  <2>11. \A k \in 1..Len(calls') :
           /\ calls'[k].outcome = "FAIL" => k = Len(calls') /\ o = "FAIL"
           /\ calls'[k].phase = "after" => MadeIn(calls', "before") = chain
    <3> TAKE k \in 1..Len(calls')
    <3>1. CASE k = Len(calls')
      <4>1. calls'[k] = c
        BY <2>3, <3>1
      <4> QED
        BY <2>1, <2>8, <3>1, <4>1
    <3>2. CASE k \in 1..Len(calls)
      <4>1. calls'[k] = calls[k]
        BY <2>3, <3>2
      <4>2. calls[k].phase = "after" => phase = "after"
        BY <1>1, <3>2 DEF AdaptorInv, CallsMade
      <4> QED
        BY <2>8, <2>10, <3>2, <4>1, <4>2
    <3> QED
      BY <2>4, <3>1, <3>2
  <2>12. CASE GoesOn(o)
    <3>1. UNCHANGED <<pc, out, answer>> /\ o # "FAIL"
      BY <1>5, <2>12 DEF GoesOn
    <3>2. CallsMade'
      BY <1>1, <2>7, <2>8, <2>9, <2>11, <3>1 DEF CallsMade
    <3>3. Wrote'
      BY <1>1, <3>1 DEF AdaptorInv, Wrote
    <3>4. Routed'
      BY <1>1, <1>2, <3>1 DEF Routed, RoutedByPath, ActionSeesParameters, given, PostedAs
    <3>5. Typed'
      BY <1>1, <2>3, <3>1 DEF AdaptorInv, Typed, given
    <3> QED
      BY <3>2, <3>3, <3>4, <3>5 DEF AdaptorInv
  <2>13. CASE ~GoesOn(o)
    <3>1. pc' = "done" /\ answer' = phase /\ Closed(out')
      BY <1>2, <1>5, <2>13, Refused
    <3>2. CallsMade'
      BY <1>1, <2>7, <2>11, <3>1 DEF CallsMade, Unanswered
    <3>3. Wrote'
      BY <3>1 DEF Wrote, Unanswered
    <3>4. Routed'
      BY <3>1 DEF Routed, RoutedByPath, ActionSeesParameters, given, PostedAs, Unanswered
    <3>5. Typed'
      BY <1>1, <2>3, <3>1 DEF AdaptorInv, Typed, given
    <3> QED
      BY <3>2, <3>3, <3>4, <3>5 DEF AdaptorInv
  <2> QED
    BY <2>12, <2>13
<1> QED
  BY <1>1, <1>4, <1>5

\* Before and after a request.
LEMMA Between ==
  ASSUME AdaptorInv, SetInterceptor \/ Receive \/ Return
  PROVE  AdaptorInv'
<1>1. /\ Typed /\ chain \in 0..MaxChain /\ MaxChain \in Nat
      /\ Len(<<>>) = 0 /\ \A phase : MadeIn(<<>>, phase) = 0
  BY Nothing, AdaptorAssumption DEF AdaptorInv, Typed
<1>2. CASE SetInterceptor
  <2>1. /\ chain' = chain + 1 /\ chain' \in 0..MaxChain /\ pc = "setup" /\ calls = <<>>
        /\ UNCHANGED <<lastErrMsg, pc, request, given, response, calls, out, answer>>
    BY <1>1, <1>2 DEF SetInterceptor, AdaptorInv, CallsMade
  <2>2. CallsMade'
    BY <1>1, <2>1 DEF CallsMade
  <2> QED
    BY <2>1, <2>2
       DEF AdaptorInv, Typed, Wrote, Routed, RoutedByPath, ActionSeesParameters,
           given, PostedAs
<1>3. CASE Receive
  <2>1. /\ pc \in {"setup", "idle"} /\ calls = <<>> /\ calls' = <<>> /\ request' \in Requests
        /\ out' = <<"text">> /\ pc' = "init" /\ answer = "none" /\ answer' = "none"
        /\ UNCHANGED <<chain, lastErrMsg, given, response>>
    BY <1>3 DEF Receive, AdaptorInv, CallsMade, Routed, process, Unanswered
  <2>2. CallsMade'
    BY <1>1, <2>1 DEF CallsMade
  <2> QED
    BY <2>1, <2>2
       DEF AdaptorInv, Typed, Wrote, Routed, RoutedByPath, ActionSeesParameters,
           given, PostedAs, Unanswered
<1>4. CASE Return
  <2>1. /\ calls' = <<>> /\ request' \in Requests /\ filenames' = {}
        /\ params' \in [Names -> Seq(Value)]
        /\ response' \in Answers /\ out' = <<>> /\ pc' = "idle" /\ answer' = "none"
        /\ chain' = chain /\ lastErrMsg' \in {"none", "own", "old"} /\ calls' \in Seq(Call)
    BY <1>1, <1>4, Nothing DEF Return, Typed
  <2>2. CallsMade'
    BY <1>1, <2>1 DEF CallsMade
  <2> QED
    BY <1>1, <2>1, <2>2
       DEF AdaptorInv, Typed, Wrote, Routed, RoutedByPath, ActionSeesParameters,
           given, PostedAs, Unanswered
<1> QED
  BY <1>2, <1>3, <1>4

\* Initialize() of the service.
LEMMA Initialized ==
  ASSUME AdaptorInv, Initialize
  PROVE  AdaptorInv'
<1>1. /\ pc = "init" /\ UNCHANGED <<chain, lastErrMsg, request, given, response, calls>>
      /\ \/ pc' = "before" /\ UNCHANGED <<out, answer>>
         \/ Refuse("init", <<>>)
  BY DEF Initialize, process
<1>2. CASE pc' = "before" /\ UNCHANGED <<out, answer>>
  <2>1. CallsMade'
    BY <1>1, <1>2, NoCallMade
  <2> QED
    BY <1>1, <1>2, <2>1
       DEF AdaptorInv, Typed, Wrote, Routed, RoutedByPath, ActionSeesParameters,
           given, PostedAs, Unanswered
<1>3. CASE Refuse("init", <<>>)
  <2>1. pc' = "done" /\ answer' = "init" /\ Closed(out')
    BY <1>1, <1>3, Refused DEF Unanswered
  <2>2. CallsMade'
    BY <1>1, <2>1, NoCallMade DEF Unanswered
  <2> QED
    BY <1>1, <2>1, <2>2
       DEF AdaptorInv, Typed, Wrote, Routed, RoutedByPath, ActionSeesParameters,
           given, PostedAs, Unanswered
<1> QED
  BY <1>1, <1>2, <1>3

\* A url of the guide has an action in it.
LEMMA Found ==
  ASSUME request \in Requests, request.named,
         \/ request.method = "get" /\ Length >= 1
         \/ request.method = "multipart" /\ Length >= 2
  PROVE  Pieces >= 2 /\ ActionName = request.path[Length]
<1>1. Length \in Nat
  BY Asked
<1>2. CASE request.method = "get" /\ Length >= 1
  <2>1. Length # 0 /\ 2 * Length >= 2
    BY <1>1, <1>2
  <2>2. Pieces = 2 * Length
    BY <1>2, <2>1 DEF Pieces
  <2>3. ActionName = request.path[Length]
    BY <1>2, <2>1 DEF ActionName
  <2> QED
    BY <2>1, <2>2, <2>3
<1>3. CASE request.method = "multipart" /\ Length >= 2
  <2>1. Length # 0
    BY <1>1, <1>3
  <2>2. Pieces = Length
    BY <1>3, <2>1 DEF Pieces
  <2>3. ActionName = request.path[Length]
    BY <1>3, <2>1 DEF ActionName
  <2> QED
    BY <1>3, <2>2, <2>3
<1> QED
  BY <1>2, <1>3

\* How many pieces a file name has is a number.
LEMMA Few ==
  ASSUME request \in Requests
  PROVE  Pieces \in Nat
<1>1. /\ Length \in Nat /\ request.method \in {"get", "post", "multipart"}
      /\ DOMAIN request.query = 1..Len(request.query)
  BY Asked
<1>2. Cardinality({1} \cap DOMAIN request.query) \in Nat
  <2>1. IsFiniteSet({1})
    BY FS_Singleton
  <2> QED
    BY <2>1, FS_Subset, FS_CardinalityType
<1>3. 2 * Length \in Nat /\ 1 + Cardinality({1} \cap DOMAIN request.query) \in Nat
  BY <1>1, <1>2
<1> QED
  BY <1>1, <1>3 DEF Pieces

\* The parser of the name and the parameters.
LEMMA Dispatched ==
  ASSUME AdaptorInv, ParseFails \/ Parse
  PROVE  AdaptorInv'
<1>1. /\ pc = "parse" /\ UNCHANGED <<chain, request, calls>> /\ Typed
      /\ request \in Requests
      /\ lastErrMsg' \in {"none", "own", "old"} /\ lastErrMsg \in {"none", "own", "old"}
  BY DEF ParseFails, Parse, NameFound, AdaptorInv, Typed
<1>2. CASE ParseFails
  <2>1. pc' = "done" /\ answer' = "parse" /\ Closed(out') /\ UNCHANGED <<given, response>>
    BY <1>1, <1>2, Refused DEF ParseFails, Unanswered
  <2>2. CallsMade'
    BY <1>1, <2>1, NoCallMade DEF Unanswered
  <2>3. RoutedByPath'
    <3>1. ~request.named \/ ~(Pieces >= 2)
      <4>1. ~request.named \/ Pieces < 2
        BY <1>2 DEF ParseFails
      <4>2. ~(Pieces < 2 /\ Pieces >= 2)
        BY Few, <1>1
      <4> QED
        BY <4>1, <4>2
    <3> QED
      BY <1>1, <2>1, <3>1, Found DEF RoutedByPath, Length
  <2> QED
    BY <1>1, <2>1, <2>2, <2>3
       DEF AdaptorInv, Typed, Wrote, Routed, ActionSeesParameters, Unanswered, given
<1>3. CASE Parse
  <2>1. PICK misread \in SUBSET PostedAs({"file"}) :
          params' = [n \in Names |-> ValuesOf(n, misread)]
    BY <1>3 DEF Parse
  <2>2. params' \in [Names -> Seq(Value)]
    BY <1>1, <2>1, Valued
  <2>a. filenames' = PostedAs({"file"}) /\ filenames' \subseteq Names
        /\ \A n \in Names : request.posts[n] # "empty file"
    BY <1>3 DEF Parse, PostedAs
  <2>3. CASE ActionName = Action
    <3>1. pc' = "action" /\ UNCHANGED <<out, answer, response>>
      BY <1>3, <2>3 DEF Parse
    <3>2. CallsMade'
      BY <1>1, <3>1, NoCallMade
    <3>3. ActionSeesParameters'
      <4> SUFFICES ASSUME NEW n \in Names
                   PROVE  /\ GotAs(n) # {} => Decoded(Latest(GotAs(n))) \in ToSet(params'[n])
                          /\ request.posts[n] = "field" => Decoded(0) \in ToSet(params'[n])
                          /\ request.posts[n] # "empty file"
                          /\ request.posts[n] = "file" =>
                               n \in filenames' /\ \E v \in ToSet(params'[n]) : v.at = 0
        BY <1>1 DEF ActionSeesParameters, GotAs
      <4>1. params'[n] = ValuesOf(n, misread)
        BY <2>1
      <4>2. FileText(n, misread).at = 0
        BY DEF FileText
      <4>3. request.posts[n] = "file" => n \in filenames'
        BY <2>a DEF PostedAs
      <4> QED
        BY <1>1, <2>a, <4>1, <4>2, <4>3, Valued
    <3> QED
      BY <1>1, <2>2, <2>a, <3>1, <3>2, <3>3
         DEF AdaptorInv, Typed, Wrote, Routed, RoutedByPath, Unanswered
  <2>4. CASE ActionName # Action
    <3>1. Refuse("unknown", <<>>) /\ response' = [response EXCEPT !.result = 400]
      BY <1>3, <2>4 DEF Parse
    <3>2. pc' = "done" /\ answer' = "unknown" /\ Closed(out')
      BY <1>1, <3>1, Refused DEF Unanswered
    <3>3. CallsMade'
      BY <1>1, <3>2, NoCallMade DEF Unanswered
    <3>4. response' \in Answers
      BY <1>1, <3>1 DEF Typed, Answers
    <3>5. RoutedByPath'
      BY <1>1, <2>4, <3>2, Found DEF RoutedByPath, Length
    <3> QED
      BY <1>1, <2>2, <2>a, <3>2, <3>3, <3>4, <3>5
         DEF AdaptorInv, Typed, Wrote, Routed, ActionSeesParameters, Unanswered
  <2> QED
    BY <2>3, <2>4
<1> QED
  BY <1>2, <1>3

\* What a posted file does to it.
LEMMA FileStopped ==
  ASSUME AdaptorInv, EmptyFileThrows \/ FileReadFaults
  PROVE  AdaptorInv'
<1>1. /\ pc = "parse" /\ UNCHANGED <<chain, request, calls, given, response>> /\ Typed
      /\ lastErrMsg' \in {"none", "own", "old"}
      /\ out = <<"text">> /\ Open(out) /\ answer = "none"
  BY Pieced DEF EmptyFileThrows, FileReadFaults, NameFound, AdaptorInv, Typed, Wrote, Routed,
                Unanswered
<1>2. \/ pc' = "done" /\ answer' = "thrown" /\ Closed(out') /\ PostedAs({"empty file"}) # {}
      \/ pc' = "faulted" /\ UNCHANGED <<out, answer>> /\ PostedAs({"file"}) # {}
  <2>1. CASE EmptyFileThrows
    <3>1. 2 \in Nat /\ 2 > 0
      OBVIOUS
    <3> DEFINE heads == Lines(2)
               end   == <<"eol", "text">>
    <3>2. Open(heads) /\ Ending(heads) /\ heads \in Seq(Signs)
      BY <3>1, Pieced DEF Open
    <3>3. end \in Seq(Signs) /\ Closing(end)
      BY DEF Signs, Closing
    <3>4. out' = out \o (heads \o end)
      BY <2>1 DEF EmptyFileThrows, ThrownPage
    <3> HIDE DEF heads, end
    <3> DEFINE all == out \o heads
    <3>5. out \in Seq(Signs)
      BY <1>1 DEF Open
    <3>6. Open(all) /\ Ending(all)
      BY <1>1, <3>2, <3>5, Joined, EndKept
    <3>7. out' = all \o end
      BY <3>2, <3>3, <3>4, <3>5, ConcatAssociative
    <3> HIDE DEF all
    <3>8. Closed(out')
      BY <3>3, <3>6, <3>7, Ended
    <3> QED
      BY <2>1, <3>8 DEF EmptyFileThrows
  <2>2. CASE FileReadFaults
    BY <2>2 DEF FileReadFaults
  <2> QED
    BY <2>1, <2>2
<1>3. CallsMade'
  BY <1>1, <1>2, NoCallMade DEF Unanswered
<1>4. Typed' /\ Wrote'
  BY <1>1, <1>2 DEF Typed, Wrote, Unanswered, given
<1>5. Routed'
  BY <1>1, <1>2 DEF Routed, RoutedByPath, ActionSeesParameters, Unanswered, PostedAs
<1> QED
  BY <1>3, <1>4, <1>5 DEF AdaptorInv

\* The action and its renderer.
LEMMA Acted ==
  ASSUME AdaptorInv, RunAction \/ Render
  PROVE  AdaptorInv'
<1>1. Typed /\ response \in Answers
  BY DEF AdaptorInv, Typed
<1>2. CASE RunAction
  <2>1. /\ pc = "action" /\ pc' = "render"
        /\ UNCHANGED <<chain, lastErrMsg, request, given, calls, out, answer>>
    BY <1>2 DEF RunAction, process
  <2>2. PICK result \in {200, 302, 404, 503}, located \in BOOLEAN, some \in 0..1 :
          /\ located => result = 302
          /\ some > 0 => result \in {200, 302}
          /\ response' = [response EXCEPT !.result = result, !.located = located,
                                       !.cookies = some]
    BY <1>2, Zenon DEF RunAction
  <2>a. response' = [result |-> result, located |-> located, cookies |-> some,
                     mime |-> response.mime]
    BY <1>1, <2>2 DEF Answers
  <2>b. response.mime \in BOOLEAN
    BY <1>1 DEF Answers
  <2>3. response' \in Answers
    BY <2>a, <2>b DEF Answers
  <2>4. CallsMade'
    BY <2>1, NoCallMade
  <2>5. Typed' /\ Wrote'
    BY <1>1, <2>1, <2>3 DEF AdaptorInv, Typed, Wrote, Unanswered, given
  <2>6. Routed'
    BY <2>1 DEF AdaptorInv, Routed, RoutedByPath, ActionSeesParameters, Unanswered
  <2> QED
    BY <2>4, <2>5, <2>6 DEF AdaptorInv
<1>3. CASE Render
  <2>1. pc = "render" /\ UNCHANGED <<chain, lastErrMsg, request, given, calls>>
    BY <1>3 DEF Render, process
  <2>2. CASE /\ \E mime \in BOOLEAN : response' = [response EXCEPT !.mime = mime]
             /\ pc' = "after" /\ UNCHANGED <<out, answer>>
    <3>1. response' \in Answers
      BY <1>1, <2>2 DEF Answers
    <3>2. CallsMade'
      BY <2>1, <2>2, NoCallMade
    <3> QED
      BY <1>1, <2>1, <2>2, <3>1, <3>2
         DEF AdaptorInv, Typed, Wrote, Routed, RoutedByPath, ActionSeesParameters,
             given, PostedAs, Unanswered
  <2>3. CASE response' = [response EXCEPT !.result = 500] /\ Refuse("render", <<"text">>)
    <3>1. response' \in Answers
      BY <1>1, <2>3 DEF Answers
    <3>2. pc' = "done" /\ answer' = "render" /\ Closed(out')
      BY <2>1, <2>3, Refused DEF Unanswered
    <3>3. CallsMade'
      BY <2>1, <3>2, NoCallMade DEF Unanswered
    <3> QED
      BY <1>1, <2>1, <3>1, <3>2, <3>3
         DEF AdaptorInv, Typed, Wrote, Routed, RoutedByPath, ActionSeesParameters,
             given, PostedAs, Unanswered
  <2> QED
    BY <1>3, <2>2, <2>3 DEF Render
<1> QED
  BY <1>2, <1>3

\* The end of sysmain().
LEMMA AnswerGiven ==
  ASSUME AdaptorInv, Answer
  PROVE  AdaptorInv'
<1>1. /\ pc = "answer" /\ UNCHANGED <<chain, lastErrMsg, request, given, response, calls>>
      /\ response \in Answers /\ out = <<"text">> /\ answer = "none"
  BY DEF Answer, process, AdaptorInv, Typed, Wrote, Routed, Unanswered
<1>2. \/ pc' = "done" /\ Closed(out') /\ answer' \in {"200", "302", "404", "unsupported"}
      \/ pc' = "aborted" /\ Open(out') /\ answer' = "none"
  <2>1. CASE Refuse("unsupported", <<>>)
    BY <1>1, <2>1, Refused DEF Unanswered
  <2> QED
    BY <1>1, <2>1, Answered DEF Answer, Written
<1>3. CallsMade'
  BY <1>1, <1>2, NoCallMade DEF Unanswered
<1> QED
  BY <1>1, <1>2, <1>3
     DEF AdaptorInv, Typed, Wrote, Routed, RoutedByPath, ActionSeesParameters,
         given, PostedAs, Unanswered

LEMMA AdaptorHolds == Spec => []AdaptorInv
<1>1. AdaptorInv /\ [Next]_vars => AdaptorInv'
  <2> SUFFICES ASSUME AdaptorInv, [Next]_vars PROVE AdaptorInv'
    OBVIOUS
  <2>1. CASE Before
    BY <2>1, Invoked DEF Before
  <2>2. CASE After
    BY <2>2, Invoked DEF After
  <2>3. CASE UNCHANGED vars
    <3>1. UNCHANGED <<chain, lastErrMsg, pc, request, params, filenames, response, calls,
                      out, answer>>
      BY <2>3 DEF vars, given
    <3>2. Typed'
      BY <3>1 DEF AdaptorInv, Typed
    <3>3. CallsMade' /\ Wrote'
      BY <3>1 DEF AdaptorInv, CallsMade, Wrote
    <3>4. RoutedByPath'
      BY <3>1 DEF AdaptorInv, Routed, RoutedByPath, Length, PostedAs
    <3>5. ActionSeesParameters'
      BY <3>1 DEF AdaptorInv, Routed, ActionSeesParameters, GotAs
    <3>6. Routed'
      BY <3>1, <3>4, <3>5 DEF AdaptorInv, Routed
    <3> QED
      BY <3>2, <3>3, <3>6 DEF AdaptorInv
  <2> QED
    BY <2>1, <2>2, <2>3, Between, Initialized, Dispatched, FileStopped, Acted,
       AnswerGiven
       DEF Next, Sysmain
<1> QED
  BY <1>1, AdaptorInit, PTL DEF Spec

-----------------------------------------------------------------------------
\* No interceptor is called after one that failed, and none after the action unless all
\* were called before it: nothing is undone that was not begun (action_invocation.cpp
\* 448-484).
THEOREM BracketsMatch == Spec => []InterceptorsBracket
<1>1. AdaptorInv => InterceptorsBracket
  <2> SUFFICES ASSUME AdaptorInv, NEW k \in DOMAIN calls
               PROVE  /\ calls[k].outcome = "FAIL" => k = Len(calls) /\ pc = "done"
                      /\ calls[k].phase = "after"  => Made("before") = chain
    BY DEF InterceptorsBracket
  <2>1. calls \in Seq(Call) /\ k \in 1..Len(calls) /\ DOMAIN calls = 1..Len(calls)
        /\ pc \in Unanswered \cup {"done", "aborted", "faulted"}
    BY DEF AdaptorInv, Typed
  <2> QED
    BY <2>1 DEF AdaptorInv, CallsMade, Made, MadeIn
<1> QED
  BY <1>1, AdaptorHolds, PTL

\* What is written has one header block: no field comes after its end, and every answer
\* has an end (echo_adaptor.cpp 59-173).
THEOREM AnswersHaveOneHeader == Spec => []OneHeader
<1>1. AdaptorInv => OneHeader
  <2> SUFFICES ASSUME AdaptorInv PROVE OneHeader
    OBVIOUS
  <2>1. out \in Seq(Signs) /\ DOMAIN out = 1..Len(out)
    <3>1. <<>> \in Seq(Signs) /\ <<"text">> \in Seq(Signs)
      BY Pieced DEF Open
    <3>2. out \in Seq(Signs)
      BY <3>1 DEF AdaptorInv, Typed, Wrote, Open, Closed
    <3> QED
      BY <3>2
  <2>2. TypeOK
    <3>1. ToSet(out) \subseteq {"head", "eol", "text"}
      BY <2>1 DEF ToSet, Signs
    <3>2. ASSUME NEW n \in Names, NEW v \in ToSet(params[n]) PROVE v.at \in 0..MaxQuery
      <4>1. params[n] \in Seq(Value)
        BY DEF AdaptorInv, Typed
      <4>2. v \in Value
        BY <4>1 DEF ToSet
      <4> QED
        BY <4>2 DEF Value
    <3>3. Made("before") <= chain /\ Made("after") <= chain
      <4>1. DOMAIN calls = 1..Len(calls)
        BY DEF AdaptorInv, Typed
      <4> QED
        BY <4>1 DEF AdaptorInv, CallsMade, Made, MadeIn
    <3> QED
      BY <3>1, <3>2, <3>3 DEF AdaptorInv, Typed, TypeOK, Answers, Unanswered
  <2>3. \A k : HeaderEnds(k) <=> EndsAt(out, k)
    BY DEF HeaderEnds, EndsAt
  <2>4. CASE pc = "done"
    BY <2>1, <2>2, <2>3, <2>4 DEF AdaptorInv, Wrote, Closed, OneHeader
  <2>5. CASE pc # "done"
    <3>1. Open(out)
      BY <2>5, Pieced DEF AdaptorInv, Typed, Wrote
    <3>2. ASSUME NEW k \in 1..Len(out) PROVE ~EndsAt(out, k)
      <4>1. k < Len(out) => k + 1 \in 1..Len(out) /\ (k + 1) - 1 = k
        BY <2>1
      <4> QED
        BY <3>1, <4>1 DEF Open, EndsAt
    <3> QED
      BY <2>1, <2>2, <2>3, <2>5, <3>2 DEF OneHeader
  <2> QED
    BY <2>4, <2>5
<1> QED
  BY <1>1, AdaptorHolds, PTL

\* A url of the guide gets to its action, wherever the service is mounted, and so do its
\* parameters: the value the query string gave a name last and the form's, decoded
\* (action_invocation.cpp 129-198, echo_adaptor.cpp 211-229, 333-351).
THEOREM ActionsAreReached == Spec => []ReachesAction
<1>1. AdaptorInv => ReachesAction
  BY DEF AdaptorInv, Routed, ReachesAction
<1> QED
  BY <1>1, AdaptorHolds, PTL

-----------------------------------------------------------------------------
(* Integers of a width.                                                    *)

Unsigned == {"uint8", "uint16", "uint32", "uint64"}

LEMMA IntegerTypes ==
  /\ Integer = Unsigned \cup Signed
  /\ Width.uint8 = Byte /\ Width.uint16 = Word /\ Width.uint32 = DWord
  /\ Width.uint64 = QWord /\ Width.int8 = Byte /\ Width.int16 = Word
  /\ Width.int32 = DWord /\ Width.int64 = QWord
  /\ \A t \in Integer : Width[t] \in {Byte, Word, DWord, QWord}
<1>1. Integer = Unsigned \cup Signed
  BY DEF Integer, Width, Unsigned, Signed
<1>2. /\ Width.uint8 = Byte /\ Width.uint16 = Word /\ Width.uint32 = DWord
      /\ Width.uint64 = QWord /\ Width.int8 = Byte /\ Width.int16 = Word
      /\ Width.int32 = DWord /\ Width.int64 = QWord
  BY DEF Width
<1>3. \A t \in Integer : Width[t] \in {Byte, Word, DWord, QWord}
  BY <1>1, <1>2 DEF Unsigned, Signed
<1> QED
  BY <1>1, <1>2, <1>3

LEMMA Halves ==
  ASSUME NEW w \in Nat, w > 0, w % 2 = 0
  PROVE  w = 2 * (w \div 2) /\ w \div 2 \in Nat /\ w \div 2 > 0
<1>1. w = 2 * (w \div 2)
  OBVIOUS
<1>2. w \div 2 \in Nat
  OBVIOUS
<1> QED
  BY <1>1, <1>2

\* A type has as many numbers as its width says, about zero or from it.
LEMMA TypeLimits ==
  ASSUME NEW t \in Integer
  PROVE  /\ Width[t] \in Nat /\ Width[t] > 0
         /\ Most(t) \in Nat /\ Least(t) \in Int
         /\ Least(t) <= 0 /\ Least(t) = Most(t) + 1 - Width[t]
         /\ t \in Signed => Width[t] = 2 * (Most(t) + 1)
         /\ t \notin Signed => Least(t) = 0
<1>1. \A w \in {Byte, Word, DWord, QWord} : w \in Nat /\ w > 0 /\ w % 2 = 0
  BY ParamsAssumption
<1>2. PICK w \in Nat : w = Width[t] /\ w > 0 /\ w % 2 = 0
  BY <1>1, IntegerTypes
<1>3. w = 2 * (w \div 2) /\ w \div 2 \in Nat /\ w \div 2 > 0
  BY <1>2, Halves
<1>4. CASE t \in Signed
  <2>1. Most(t) = w \div 2 - 1 /\ Least(t) = -(w \div 2)
    BY <1>2, <1>4 DEF Most, MostOf, Least
  <2> QED
    BY <1>2, <1>3, <1>4, <2>1
<1>5. CASE t \notin Signed
  <2>1. Most(t) = w - 1 /\ Least(t) = 0
    BY <1>2, <1>5 DEF Most, MostOf, Least
  <2> QED
    BY <1>2, <1>5, <2>1
<1> QED
  BY <1>4, <1>5

\* A cast gives a number of the type, and those it has are left as they are.
LEMMA CastFits ==
  ASSUME NEW t \in Integer, NEW x \in Int
  PROVE  /\ Cast(x, t) \in Least(t)..Most(t)
         /\ x \in Least(t)..Most(t) => Cast(x, t) = x
<1> DEFINE w == Width[t]
           m == Most(t)
           l == Least(t)
           low == x % w
<1>1. /\ w \in Nat /\ w > 0 /\ m \in Nat /\ l \in Int /\ l <= 0 /\ l = m + 1 - w
  BY TypeLimits
<1>2. Cast(x, t) = IF low > m THEN low - w ELSE low
  BY DEF Cast
<1> HIDE DEF m, l, w
<1>3. low \in 0..w - 1
  BY <1>1
<1>4. x \in 0..m => low = x
  BY <1>1
<1>5. x \in l..-1 => low = x + w
  BY <1>1
<1> HIDE DEF low
<1>6. (IF low > m THEN low - w ELSE low) \in l..m
  BY <1>1, <1>3
<1>7. x \in l..m => (IF low > m THEN low - w ELSE low) = x
  BY <1>1, <1>3, <1>4, <1>5
<1> QED
  BY <1>2, <1>6, <1>7 DEF m, l, w

\* What the type can hold is read as it is.
LEMMA StrToFits ==
  ASSUME NEW t \in Integer, NEW x \in Nat
  PROVE  /\ StrTo(x, t) \in Nat
         /\ x <= Most(t) => StrTo(x, t) = x
<1> DEFINE width == IF Width[t] = QWord THEN QWord ELSE Long
           most  == MostOf(width, t \in Signed)
<1>1. /\ Width[t] \in Nat /\ width \in Nat /\ Width[t] > 0 /\ width > 0
      /\ Width[t] % 2 = 0 /\ width % 2 = 0
      /\ Width[t] <= width
  BY IntegerTypes, ParamsAssumption
<1>2. StrTo(x, t) = IF x > most THEN most ELSE x
  BY DEF StrTo
<1> HIDE DEF width
<1>3. CASE t \in Signed
  <2>1. most = width \div 2 - 1 /\ Most(t) = Width[t] \div 2 - 1
    BY <1>3 DEF Most, MostOf
  <2> HIDE DEF most
  <2> QED
    BY <1>1, <1>2, <2>1
<1>4. CASE t \notin Signed
  <2>1. most = width - 1 /\ Most(t) = Width[t] - 1
    BY <1>4 DEF Most, MostOf
  <2> HIDE DEF most
  <2> QED
    BY <1>1, <1>2, <2>1
<1> QED
  BY <1>3, <1>4

-----------------------------------------------------------------------------
(* What there is, between calls and after one.                             *)

NamedAs == {"nothing", "name", "prompt", "null"}

\* The values of each name, of parameters and of cookies, and a message.
ParamsTyped ==
  /\ paramsMap \in [ParamNames -> Seq(Texts)]
  /\ cookies \in [ParamNames -> Seq(CookieTexts)]
  /\ added \in 0..MaxAdded
  /\ \A n \in ParamNames : Len(paramsMap[n]) <= added /\ Len(cookies[n]) <= 1
  /\ errMsg.names \in NamedAs

\* A text has a number and two lengths.
LEMMA TextParts ==
  ASSUME NEW t \in Texts \cup CookieTexts
  PROVE  /\ t.n \in Nat /\ t.len \in Nat /\ t.kept \in Nat
         /\ t.kind \in {"words", "digits", "money", "uin", "o"}
         /\ t.kind = "o" => t.n = 0
<1>1. ASSUME NEW u \in Words
      PROVE  u.n \in Nat /\ u.len \in Nat /\ u.kept \in Nat /\ u.kind = "words"
  <2>1. PICK l \in 0..MaxLen : u \in {Text("words", 0, l, k) : k \in 0..2 * l}
    BY DEF Words
  <2>2. PICK k \in 0..2 * l : u = Text("words", 0, l, k)
    BY <2>1
  <2>3. l \in Nat /\ k \in Nat
    BY <2>1, <2>2, ParamsAssumption
  <2> QED
    BY <2>2, <2>3 DEF Text
<1>2. \A x \in Numbers : x \in Nat
  BY ParamsAssumption
<1>3. ASSUME NEW x \in Numbers, NEW kind \in {"digits", "money", "uin"}, NEW l \in {1, 2},
             t = Text(kind, x, l, l)
      PROVE  /\ t.n \in Nat /\ t.len \in Nat /\ t.kept \in Nat /\ t.kind = kind
  BY <1>2, <1>3 DEF Text
<1>4. CASE t \in Words
  BY <1>1, <1>4
<1>5. CASE \E x \in Numbers : t = Text("digits", x, 1, 1)
  BY <1>3, <1>5
<1>6. CASE \E x \in Numbers : t = Text("money", x, 2, 2)
  BY <1>3, <1>6
<1>7. CASE \E x \in Numbers : t = Text("uin", x, 2, 2)
  BY <1>3, <1>7
<1>8. CASE t = Text("o", 0, 1, 1)
  BY <1>8 DEF Text
<1> QED
  BY <1>4, <1>5, <1>6, <1>7, <1>8 DEF Texts, CookieTexts, Plain

\* A getter finds nothing or the first value.
LEMMA FirstValue ==
  ASSUME ParamsTyped, NEW n \in ParamNames
  PROVE  /\ paramsMap[n] # <<>> => Head(paramsMap[n]) \in Texts
         /\ cookies[n] # <<>> => cookies[n][1] \in CookieTexts
  BY DEF ParamsTyped

-----------------------------------------------------------------------------
(* What the getters of integers give.                                      *)

\* The number the getter of 32 or 64 bits compares with the limits.
Converted(n, t) == Cast(StrTo(Head(paramsMap[n]).n, Wide(t)), Wide(t))

\* The number or its cut, and what is left of a number that is refused.
CutTo(v, t)  == IF Wide(t) = t THEN v ELSE Cast(v, t)
LeftOf(v, t) == IF Wide(t) = t THEN v ELSE 0

\* A getter of integers finds nothing, or what is no number, or a number above or
\* below its limits, or gives the number.
GivesMissing(n, prompt, r) == paramsMap[n] = <<>> /\ r = Missing(prompt)
GivesNoNumber(n, t, prompt, r) ==
  /\ paramsMap[n] # <<>> /\ ~IsNumber(Head(paramsMap[n]))
  /\ r = Fails(-99, IF Wide(t) = t THEN <<>> ELSE <<0>>, "notnumber", ByName(prompt))
GivesAbove(n, t, max, prompt, r) ==
  /\ paramsMap[n] # <<>> /\ IsNumber(Head(paramsMap[n]))
  /\ Above(Converted(n, t), max, Wide(t))
  /\ r = Fails(-1, <<LeftOf(Converted(n, t), t)>>, "above", ByPrompt(prompt))
GivesBelow(n, t, max, min, prompt, r) ==
  /\ paramsMap[n] # <<>> /\ IsNumber(Head(paramsMap[n]))
  /\ ~Above(Converted(n, t), max, Wide(t)) /\ Below(Converted(n, t), min, Wide(t))
  /\ r = Fails(-2, <<LeftOf(Converted(n, t), t)>>, IF prompt THEN "below" ELSE "above",
               ByPrompt(prompt))
GivesNumber(n, t, max, min, r) ==
  /\ paramsMap[n] # <<>> /\ IsNumber(Head(paramsMap[n]))
  /\ ~Above(Converted(n, t), max, Wide(t)) /\ ~Below(Converted(n, t), min, Wide(t))
  /\ r = Succeeds(CutTo(Converted(n, t), t))

LEMMA WideTypes ==
  ASSUME NEW t \in Integer
  PROVE  /\ Wide(t) \in Integer /\ Wide(Wide(t)) = Wide(t)
         /\ Wide(t) \in Signed <=> t \in Signed
         /\ Most(t) <= Most(Wide(t)) /\ Least(Wide(t)) <= Least(t)
<1>1. t \in Unsigned \cup Signed
  BY IntegerTypes
<1>2. /\ Wide(t) \in Integer /\ Wide(Wide(t)) = Wide(t)
      /\ Wide(t) \in Signed <=> t \in Signed
  BY <1>1, IntegerTypes DEF Wide, Unsigned, Signed
<1>3. Width[t] <= Width[Wide(t)]
  BY <1>1, IntegerTypes, ParamsAssumption DEF Wide, Unsigned, Signed
<1> DEFINE a == Width[t]
           b == Width[Wide(t)]
           mt == Most(t)
           mw == Most(Wide(t))
           lt == Least(t)
           lw == Least(Wide(t))
<1>4. /\ a \in Nat /\ a > 0 /\ mt \in Nat /\ lt \in Int
      /\ lt <= 0 /\ lt = mt + 1 - a
      /\ t \in Signed => a = 2 * (mt + 1)
      /\ t \notin Signed => lt = 0
  BY TypeLimits
<1>5. /\ b \in Nat /\ b > 0 /\ mw \in Nat /\ lw \in Int
      /\ lw <= 0 /\ lw = mw + 1 - b
      /\ Wide(t) \in Signed => b = 2 * (mw + 1)
      /\ Wide(t) \notin Signed => lw = 0
  BY <1>2, TypeLimits
<1>6. a <= b
  BY <1>3
<1> HIDE DEF a, b, mt, mw, lt, lw
<1>7. mt <= mw /\ lw <= lt
  BY <1>2, <1>4, <1>5, <1>6
<1> QED
  BY <1>2, <1>7 DEF mt, mw, lt, lw

\* Which of them it is, and nothing else.
LEMMA IntegerGot ==
  ASSUME ParamsTyped, NEW n \in ParamNames, NEW t \in Integer, NEW max \in Int, NEW min \in Int,
         NEW prompt \in BOOLEAN
  PROVE  LET r == GetInteger(n, t, max, min, prompt) IN
         \/ GivesMissing(n, prompt, r)
         \/ GivesNoNumber(n, t, prompt, r)
         \/ GivesAbove(n, t, max, prompt, r)
         \/ GivesBelow(n, t, max, min, prompt, r)
         \/ GivesNumber(n, t, max, min, r)
<1> DEFINE W == Wide(t)
           v == Converted(n, t)
           g == GetWide(n, W, max, min, prompt)
           r == GetInteger(n, t, max, min, prompt)
<1>1. r = IF W = t THEN g ELSE IF g.code # 0 THEN [g EXCEPT !.val = <<0>>]
                                             ELSE Succeeds(Cast(g.val[1], t))
  BY Zenon DEF GetInteger
<1>2. g = IF paramsMap[n] = <<>> THEN Missing(prompt)
          ELSE IF ~IsNumber(Head(paramsMap[n])) THEN NotNumber(Head(paramsMap[n]), prompt)
          ELSE IF Above(v, max, W) THEN Fails(-1, <<v>>, "above", ByPrompt(prompt))
          ELSE IF Below(v, min, W)
                 THEN Fails(-2, <<v>>, IF prompt THEN "below" ELSE "above", ByPrompt(prompt))
                 ELSE Succeeds(v)
  BY Zenon DEF GetWide, Converted
<1> HIDE DEF W, v, g, r
<1>3. ASSUME NEW c \in Int, c # 0, NEW l, NEW says, NEW names, g = Fails(c, l, says, names)
      PROVE  r = Fails(c, IF W = t THEN l ELSE <<0>>, says, names)
  BY <1>1, <1>3 DEF Fails, Result
<1>4. ASSUME NEW x, g = Succeeds(x)
      PROVE  r = Succeeds(IF W = t THEN x ELSE Cast(x, t))
  <2>1. g.code = 0 /\ g.val = <<x>> /\ g.val[1] = x
    BY <1>4 DEF Succeeds, Result
  <2> QED
    BY <1>1, <1>4, <2>1
<1>5. CASE paramsMap[n] = <<>>
  <2>1. g = Fails(-1, <<0>>, "missing", ByName(prompt))
    BY <1>2, <1>5 DEF Missing
  <2>2. r = Fails(-1, IF W = t THEN <<0>> ELSE <<0>>, "missing", ByName(prompt))
    BY <1>3, <2>1
  <2> QED
    BY <1>5, <2>2 DEF GivesMissing, Missing, r
<1>6. CASE paramsMap[n] # <<>> /\ ~IsNumber(Head(paramsMap[n]))
  <2>1. g = Fails(-99, <<>>, "notnumber", ByName(prompt))
    BY <1>2, <1>6 DEF NotNumber
  <2>2. r = Fails(-99, IF W = t THEN <<>> ELSE <<0>>, "notnumber", ByName(prompt))
    BY <1>3, <2>1
  <2> QED
    BY <1>6, <2>2 DEF GivesNoNumber, r, W
<1>7. CASE paramsMap[n] # <<>> /\ IsNumber(Head(paramsMap[n])) /\ Above(v, max, W)
  <2>1. g = Fails(-1, <<v>>, "above", ByPrompt(prompt))
    BY <1>2, <1>7
  <2>2. r = Fails(-1, IF W = t THEN <<v>> ELSE <<0>>, "above", ByPrompt(prompt))
    BY <1>3, <2>1
  <2>3. (IF W = t THEN <<v>> ELSE <<0>>) = <<LeftOf(v, t)>>
    BY DEF LeftOf, W
  <2> QED
    BY <1>7, <2>2, <2>3 DEF GivesAbove, r, W, v
<1>8. CASE /\ paramsMap[n] # <<>> /\ IsNumber(Head(paramsMap[n]))
           /\ ~Above(v, max, W) /\ Below(v, min, W)
  <2>1. g = Fails(-2, <<v>>, IF prompt THEN "below" ELSE "above", ByPrompt(prompt))
    BY <1>2, <1>8
  <2>2. r = Fails(-2, IF W = t THEN <<v>> ELSE <<0>>, IF prompt THEN "below" ELSE "above",
                  ByPrompt(prompt))
    BY <1>3, <2>1
  <2>3. (IF W = t THEN <<v>> ELSE <<0>>) = <<LeftOf(v, t)>>
    BY DEF LeftOf, W
  <2> QED
    BY <1>8, <2>2, <2>3 DEF GivesBelow, r, W, v
<1>9. CASE /\ paramsMap[n] # <<>> /\ IsNumber(Head(paramsMap[n]))
           /\ ~Above(v, max, W) /\ ~Below(v, min, W)
  <2>1. g = Succeeds(v)
    BY <1>2, <1>9
  <2>2. r = Succeeds(IF W = t THEN v ELSE Cast(v, t))
    BY <1>4, <2>1
  <2>3. (IF W = t THEN v ELSE Cast(v, t)) = CutTo(v, t)
    BY DEF CutTo, W
  <2> QED
    BY <1>9, <2>2, <2>3 DEF GivesNumber, r, W, v
<1> QED
  BY <1>5, <1>6, <1>7, <1>8, <1>9 DEF r

\* What a number becomes: one of the type, and the one that was sent if it is.
LEMMA NumberRight ==
  ASSUME ParamsTyped, NEW n \in ParamNames, NEW t \in Integer, paramsMap[n] # <<>>
  PROVE  LET v == Converted(n, t)
             x == Head(paramsMap[n]).n IN
         /\ x \in Nat /\ v \in Int /\ CutTo(v, t) \in Least(t)..Most(t)
         /\ x <= Most(t) => v = x
         /\ v \in Least(t)..Most(t) => CutTo(v, t) = v
         /\ LeftOf(v, t) \in Least(t)..Most(t)
         /\ Wide(t) = t => v \in Least(t)..Most(t)
         /\ t \notin Signed => v >= 0
<1> DEFINE W == Wide(t)
           v == Converted(n, t)
           x == Head(paramsMap[n]).n
           mt == Most(t)
           mw == Most(W)
           lt == Least(t)
           lw == Least(W)
           s == StrTo(x, W)
<1>1. Head(paramsMap[n]) \in Texts
  BY FirstValue
<1>2. x \in Nat
  BY <1>1, TextParts
<1>3. W \in Integer /\ mt <= mw /\ lw <= lt
  BY WideTypes
<1>4. mt \in Nat /\ lt \in Int /\ lt <= 0
  BY TypeLimits
<1>5. mw \in Nat /\ lw \in Int /\ lw <= 0
  BY <1>3, TypeLimits
<1>6. s \in Nat /\ (x <= mw => s = x)
  BY <1>2, <1>3, StrToFits
<1>7. v = Cast(s, W)
  BY Zenon DEF Converted
<1>8. v \in lw..mw /\ (s \in lw..mw => v = s)
  <2> HIDE DEF s, v, W
  <2> s \in Int
    BY <1>6
  <2> QED
    BY <1>3, <1>7, CastFits
<1>9. v \in Int
  BY <1>5, <1>8
<1>10. Cast(v, t) \in lt..mt /\ (v \in lt..mt => Cast(v, t) = v)
  <2> HIDE DEF v
  <2> QED
    BY <1>9, CastFits
<1>11. x <= mt => v = x
  <2> HIDE DEF s, v, mt, mw, lt, lw, W, x
  <2> QED
    BY <1>2, <1>3, <1>4, <1>5, <1>6, <1>8
<1>12. W = t => v \in lt..mt
  BY <1>8
<1>13. CutTo(v, t) \in lt..mt /\ (v \in lt..mt => CutTo(v, t) = v)
  <2> HIDE DEF v, lt, mt
  <2> QED
    BY <1>10, <1>12 DEF CutTo, W
<1>14. LeftOf(v, t) \in lt..mt
  <2> HIDE DEF v, lt, mt
  <2> QED
    BY <1>4, <1>12 DEF LeftOf, W
<1>15. t \notin Signed => v >= 0
  <2>1. t \notin Signed => lw = 0
    BY <1>3, WideTypes, TypeLimits
  <2> HIDE DEF v, lw, mw
  <2> QED
    BY <2>1, <1>5, <1>8
<1> QED
  BY <1>2, <1>9, <1>11, <1>12, <1>13, <1>14, <1>15

\* A call leaves this.
LEMMA AfterCall ==
  ASSUME NEW from, NEW get, NEW n, NEW max, NEW min, NEW prompt, NEW r,
         Called(from, get, n, max, min, prompt, r)
  PROVE  /\ last'.from = from /\ last'.get = get /\ last'.name = n
         /\ last'.max = max /\ last'.min = min /\ last'.prompt = prompt
         /\ last'.code = r.code /\ last'.val = r.val
         /\ errMsg' = IF r.msg = <<>> THEN errMsg ELSE r.msg[1]
         /\ paramsMap' = paramsMap /\ cookies' = cookies /\ added' = added
  BY DEF Called

\* What a getter gives back, when it succeeds and when it fails.
LEMMA ResultParts ==
  /\ \A v : /\ Succeeds(v).code = 0 /\ Succeeds(v).val = <<v>> /\ Succeeds(v).msg = <<>>
  /\ \A code, val, says, names :
       LET r == Fails(code, val, says, names) IN
       /\ r.code = code /\ r.val = val
       /\ r.msg # <<>> /\ r.msg[1].says = says /\ r.msg[1].names = names
  BY DEF Succeeds, Fails, Result, Message

\* The invariant: what a getter gave back is used before the next is called.
AllAsSent == ParamsTyped /\ ValuesAsSent /\ MessageOfFailure

\* A message names one of four.
LEMMA MessageNames ==
  ASSUME NEW prompt \in BOOLEAN
  PROVE  ByName(prompt) \in NamedAs /\ ByPrompt(prompt) \in NamedAs
  BY DEF ByName, ByPrompt, NamedAs

\* The type of the number that was given back, if it is one.
NumberTyped ==
  last # NoCall /\ last.get \in Integer /\ last.val # <<>> =>
    last.val[1] \in Least(last.get)..Most(last.get)

LEMMA TypesOfAll ==
  ASSUME ParamsTyped, NumberTyped
  PROVE  ParamsTypeOK
<1>1. ASSUME NEW n \in ParamNames
      PROVE  /\ ToSet(paramsMap[n]) \subseteq Texts /\ Len(paramsMap[n]) <= MaxAdded
             /\ ToSet(cookies[n]) \subseteq CookieTexts /\ Len(cookies[n]) <= 1
  <2>1. paramsMap[n] \in Seq(Texts) /\ cookies[n] \in Seq(CookieTexts)
    BY DEF ParamsTyped
  <2>2. ToSet(paramsMap[n]) \subseteq Texts /\ ToSet(cookies[n]) \subseteq CookieTexts
    BY <2>1 DEF ToSet
  <2>3. Len(paramsMap[n]) <= added /\ Len(cookies[n]) <= 1 /\ added \in 0..MaxAdded
    BY DEF ParamsTyped
  <2>4. MaxAdded \in Nat /\ Len(paramsMap[n]) \in Nat
    BY <2>1, ParamsAssumption
  <2> QED
    BY <2>2, <2>3, <2>4
<1>2. errMsg.names \in {"nothing", "name", "prompt", "null"} /\ added \in 0..MaxAdded
  BY DEF ParamsTyped, NamedAs
<1> QED
  BY <1>1, <1>2 DEF ParamsTypeOK, NumberTyped

\* Between calls there is nothing to say of a call.
LEMMA BetweenCalls ==
  ASSUME ParamsTyped, last = NoCall
  PROVE  AllAsSent
<1>1. last.from = "none"
  BY DEF NoCall
<1>2. NumberTyped
  BY DEF NumberTyped
<1>3. ParamsTypeOK
  BY <1>2, TypesOfAll
<1>4. NumberAsSent /\ StringAsSent
  BY <1>1 DEF NumberAsSent, StringAsSent
<1>5. CookieAsSent
  BY <1>1 DEF CookieAsSent
<1>6. MessageOfFailure
  BY <1>1 DEF MessageOfFailure
<1> QED
  BY <1>3, <1>4, <1>5, <1>6 DEF AllAsSent, ValuesAsSent

LEMMA ReadIntegerKeeps ==
  ASSUME ParamsTyped, ReadInteger
  PROVE  AllAsSent'
<1>1. PICK n \in ParamNames, t \in Integer, max \in -MaxLimit..MaxLimit,
           min \in -MaxLimit..MaxLimit, prompt \in BOOLEAN :
        /\ {max, min} \subseteq Least(t)..Most(t)
        /\ Called("params", t, n, max, min, prompt, GetInteger(n, t, max, min, prompt))
  BY Zenon DEF ReadInteger
<1>2. max \in Int /\ min \in Int /\ max \in Least(t)..Most(t) /\ min \in Least(t)..Most(t)
  <2>1. MaxLimit \in Nat
    BY ParamsAssumption
  <2> QED
    BY <1>1, <2>1
<1>3. PICK r : r = GetInteger(n, t, max, min, prompt)
  OBVIOUS
<1>4. Called("params", t, n, max, min, prompt, r)
  BY <1>1, <1>3
<1>5. /\ last'.from = "params" /\ last'.get = t /\ last'.name = n
      /\ last'.max = max /\ last'.min = min /\ last'.prompt = prompt
      /\ last'.code = r.code /\ last'.val = r.val
      /\ errMsg' = IF r.msg = <<>> THEN errMsg ELSE r.msg[1]
      /\ paramsMap' = paramsMap /\ cookies' = cookies /\ added' = added
  BY <1>4, AfterCall
<1>6. \/ GivesMissing(n, prompt, r)
      \/ GivesNoNumber(n, t, prompt, r)
      \/ GivesAbove(n, t, max, prompt, r)
      \/ GivesBelow(n, t, max, min, prompt, r)
      \/ GivesNumber(n, t, max, min, r)
  BY <1>1, <1>2, <1>3, IntegerGot
<1>7. PICK v, x : v = Converted(n, t) /\ x = Head(paramsMap[n]).n
  OBVIOUS
<1>8. paramsMap[n] # <<>> =>
         /\ x \in Nat /\ v \in Int /\ CutTo(v, t) \in Least(t)..Most(t)
         /\ x <= Most(t) => v = x
         /\ v \in Least(t)..Most(t) => CutTo(v, t) = v
         /\ LeftOf(v, t) \in Least(t)..Most(t)
         /\ Wide(t) = t => v \in Least(t)..Most(t)
         /\ t \notin Signed => v >= 0
  BY <1>7, NumberRight
<1>9. /\ Most(t) \in Nat /\ Least(t) \in Int /\ Least(t) <= 0
      /\ t \notin Signed => Least(t) = 0
      /\ Wide(t) \in Signed <=> t \in Signed
  BY TypeLimits, WideTypes
<1>10. t \notin {"raw", "string", "filtered", "buffer", "money"}
  BY IntegerTypes DEF Unsigned, Signed
<1>11. ByName(prompt) \in NamedAs /\ ByPrompt(prompt) \in NamedAs
  BY MessageNames
<1>12. /\ paramsMap'[last'.name] = paramsMap[n]
       /\ Sent' = Head(paramsMap[n]) /\ Sent'.n = x
  BY <1>5, <1>7 DEF Sent
<1>13. /\ r.val # <<>> => r.val[1] \in Least(t)..Most(t)
       /\ r.msg # <<>> => r.msg[1].names \in NamedAs
       /\ r.code = 0 => GivesNumber(n, t, max, min, r)
  <2>1. CASE GivesMissing(n, prompt, r)
    BY <2>1, <1>9, <1>11, ResultParts DEF GivesMissing, Missing
  <2>2. CASE GivesNoNumber(n, t, prompt, r)
    BY <2>2, <1>9, <1>11, ResultParts DEF GivesNoNumber
  <2>3. CASE GivesAbove(n, t, max, prompt, r)
    BY <2>3, <1>7, <1>8, <1>11, ResultParts DEF GivesAbove
  <2>4. CASE GivesBelow(n, t, max, min, prompt, r)
    BY <2>4, <1>7, <1>8, <1>11, ResultParts DEF GivesBelow
  <2>5. CASE GivesNumber(n, t, max, min, r)
    BY <2>5, <1>7, <1>8, ResultParts DEF GivesNumber
  <2> QED
    BY <1>6, <2>1, <2>2, <2>3, <2>4, <2>5
<1>14. ParamsTyped'
  BY <1>5, <1>13 DEF ParamsTyped
<1>15. NumberTyped'
  BY <1>5, <1>13 DEF NumberTyped
<1>16. ParamsTypeOK'
  BY <1>14, <1>15, TypesOfAll, PTL
<1>17. ASSUME r.code = 0
       PROVE  /\ x <= Most(t) => r.val = <<x>>
              /\ t \in Signed => r.val[1] \in min..max
              /\ max > 0 \/ Wide(t) = t => Limited(r.val[1], max, min)
  <2> DEFINE W == Wide(t)
             cut == CutTo(v, t)
             mt == Most(t)
             lt == Least(t)
  <2>1. GivesNumber(n, t, max, min, r)
    BY <1>13, <1>17
  <2>2. /\ paramsMap[n] # <<>> /\ ~Above(v, max, W) /\ ~Below(v, min, W)
        /\ r.val = <<cut>> /\ r.val[1] = cut
    BY <2>1, <1>7, ResultParts DEF GivesNumber
  <2>3. /\ x \in Nat /\ v \in Int /\ cut \in lt..mt
        /\ x <= mt => v = x
        /\ v \in lt..mt => cut = v
        /\ W = t => v \in lt..mt
        /\ t \notin Signed => v >= 0
    BY <1>8, <2>2
  <2>4. /\ mt \in Nat /\ lt \in Int /\ lt <= 0 /\ (t \notin Signed => lt = 0)
        /\ W \in Signed <=> t \in Signed
    BY <1>9
  <2>5. max \in Int /\ min \in Int /\ max \in lt..mt /\ min \in lt..mt
    BY <1>2
  <2>6. /\ ((W \in Signed \/ max > 0) /\ v > max) = FALSE
        /\ ((W \in Signed \/ min > 0) /\ v < min) = FALSE
    BY <2>2 DEF Above, Below
  <2> HIDE DEF W, cut, mt, lt
  <2>7. x <= mt => cut = x
    BY <2>3, <2>4
  <2>8. t \in Signed => cut \in min..max
    BY <2>3, <2>4, <2>5, <2>6
  <2>9. ASSUME max > 0 \/ W = t
        PROVE  (max > 0 => cut <= max) /\ (min > 0 => cut >= min)
    <3>1. CASE t \in Signed
      BY <2>3, <2>4, <2>5, <2>8, <3>1
    <3>2. CASE t \notin Signed /\ max > 0
      BY <2>3, <2>4, <2>5, <2>6, <3>2
    <3>3. CASE t \notin Signed /\ W = t
      BY <2>3, <2>4, <2>5, <2>6, <3>3
    <3> QED
      BY <2>9, <3>1, <3>2, <3>3
  <2> QED
    BY <2>2, <2>7, <2>8, <2>9 DEF Limited, W, mt
<1>18. ASSUME paramsMap[n] # <<>>, IsNumber(Head(paramsMap[n])), x <= Most(t),
              IF t \in Signed THEN x \in min..max ELSE Limited(x, max, min)
       PROVE  r.code = 0
  <2>1. v = x /\ x \in Nat
    BY <1>8, <1>18
  <2>2. ~Above(v, max, Wide(t)) /\ ~Below(v, min, Wide(t))
    BY <2>1, <1>2, <1>9, <1>18 DEF Above, Below, Limited
  <2>3. GivesNumber(n, t, max, min, r)
    BY <2>2, <1>6, <1>7, <1>18 DEF GivesMissing, GivesNoNumber, GivesAbove, GivesBelow
  <2> QED
    BY <2>3, ResultParts DEF GivesNumber
<1>19. NumberAsSent'
  BY <1>5, <1>12, <1>17, <1>18 DEF NumberAsSent
<1>20. StringAsSent' /\ CookieAsSent'
  BY <1>5, <1>10 DEF StringAsSent, CookieAsSent
<1>21. ASSUME r.code \notin {0, -88}, prompt
       PROVE  errMsg'.says = Why' /\ errMsg'.names = "prompt"
  <2>1. ByName(prompt) = "prompt" /\ ByPrompt(prompt) = "prompt"
    BY <1>21 DEF ByName, ByPrompt
  <2>2. CASE GivesMissing(n, prompt, r)
    <3>1. paramsMap[n] = <<>> /\ errMsg'.says = "missing" /\ errMsg'.names = "prompt"
      BY <2>1, <2>2, <1>5, ResultParts DEF GivesMissing, Missing
    <3> QED
      BY <3>1, <1>12 DEF Why
  <2>3. CASE GivesNoNumber(n, t, prompt, r)
    <3>1. /\ paramsMap[n] # <<>> /\ ~IsNumber(Head(paramsMap[n]))
          /\ errMsg'.says = "notnumber" /\ errMsg'.names = "prompt"
      BY <2>1, <2>3, <1>5, ResultParts DEF GivesNoNumber
    <3> QED
      BY <3>1, <1>5, <1>12 DEF Why
  <2>4. CASE GivesAbove(n, t, max, prompt, r)
    <3>1. /\ paramsMap[n] # <<>> /\ IsNumber(Head(paramsMap[n])) /\ last'.code = -1
          /\ errMsg'.says = "above" /\ errMsg'.names = "prompt"
      BY <2>1, <2>4, <1>5, ResultParts DEF GivesAbove
    <3> QED
      BY <3>1, <1>5, <1>12 DEF Why
  <2>5. CASE GivesBelow(n, t, max, min, prompt, r)
    <3>1. /\ paramsMap[n] # <<>> /\ IsNumber(Head(paramsMap[n])) /\ last'.code = -2
          /\ errMsg'.says = "below" /\ errMsg'.names = "prompt"
      BY <2>1, <2>5, <1>5, <1>21, ResultParts DEF GivesBelow
    <3> QED
      BY <3>1, <1>5, <1>12 DEF Why
  <2>6. CASE GivesNumber(n, t, max, min, r)
    BY <2>6, <1>21, ResultParts DEF GivesNumber
  <2> QED
    BY <1>6, <2>2, <2>3, <2>4, <2>5, <2>6
<1>22. MessageOfFailure'
  BY <1>5, <1>21 DEF MessageOfFailure
<1> QED
  BY <1>14, <1>16, <1>19, <1>20, <1>22 DEF AllAsSent, ValuesAsSent

-----------------------------------------------------------------------------
(* What the getters of strings and of money give.                          *)

\* Why such a getter fails, by its code.
WhyText(n, code) ==
  IF paramsMap[n] = <<>> THEN "missing"
  ELSE IF code = -3 THEN "short" ELSE IF code = -6 THEN "long"
  ELSE IF code \in {-1, -10, -11} THEN "above" ELSE "below"

Strings == {"raw", "string", "filtered", "buffer"}

\* What is said of a result: that what it names is a name, that it is what was
\* sent, and that a failure is told.
NamesWell(r) == r.msg # <<>> => r.msg[1].names \in NamedAs
StringRight(get, n, max, min, r) ==
  r.code = 0 => /\ Limited(r.val[1], max, 0)
                /\ get = "raw" => /\ r.val = <<Head(paramsMap[n]).len>>
                                  /\ Limited(r.val[1], 0, min)
FailureTold(n, prompt, r) ==
  r.code # 0 /\ prompt => /\ r.msg # <<>> /\ r.msg[1].says = WhyText(n, r.code)
                          /\ r.code \in {-1, -3, -6, -9, -10, -11}
                          /\ paramsMap[n] = <<>> <=> r.code = -1
FieldNamed(prompt, r) == r.code # 0 /\ prompt => r.msg[1].names = "prompt"

LEMMA TextCallKeeps ==
  ASSUME ParamsTyped, NEW get \in Strings \cup {"money", "all"}, NEW n \in ParamNames,
         NEW max, NEW min, NEW prompt \in BOOLEAN, NEW r,
         Called("params", get, n, max, min, prompt, r), NamesWell(r),
         get \in Strings => StringRight(get, n, max, min, r),
         get \in {"raw", "string", "buffer"} =>
           FailureTold(n, prompt, r) /\ FieldNamed(prompt, r),
         get = "money" /\ r.code \notin {-88, -99} =>
           FailureTold(n, prompt, r) /\ (paramsMap[n] # <<>> => FieldNamed(prompt, r))
  PROVE  AllAsSent'
<1>1. /\ last'.from = "params" /\ last'.get = get /\ last'.name = n
      /\ last'.max = max /\ last'.min = min /\ last'.prompt = prompt
      /\ last'.code = r.code /\ last'.val = r.val
      /\ errMsg' = IF r.msg = <<>> THEN errMsg ELSE r.msg[1]
      /\ paramsMap' = paramsMap /\ cookies' = cookies /\ added' = added
  BY AfterCall
<1>2. get \notin Integer
  BY IntegerTypes DEF Strings, Unsigned, Signed
<1>3. ParamsTyped'
  BY <1>1 DEF ParamsTyped, NamesWell
<1>4. NumberTyped'
  BY <1>1, <1>2 DEF NumberTyped
<1>5. ParamsTypeOK'
  BY <1>3, <1>4, TypesOfAll, PTL
<1>6. NumberAsSent'
  BY <1>1, <1>2 DEF NumberAsSent
<1>7. CookieAsSent'
  BY <1>1 DEF CookieAsSent
<1>8. Sent' = Head(paramsMap[n])
  BY <1>1 DEF Sent
<1>9. StringAsSent'
  BY <1>1, <1>8 DEF StringAsSent, StringRight, Strings
<1>10. ASSUME get \in {"raw", "string", "buffer", "money"}, r.code \notin {0, -88}, prompt,
              ~(get = "money" /\ r.code = -99)
       PROVE  /\ errMsg'.says = Why'
              /\ ~(get = "money" /\ Why' = "missing") => errMsg'.names = "prompt"
  <2>1. FailureTold(n, prompt, r) /\ (get # "money" \/ paramsMap[n] # <<>> => FieldNamed(prompt, r))
    BY <1>10
  <2>2. /\ r.msg # <<>> /\ r.msg[1].says = WhyText(n, r.code)
        /\ r.code \in {-1, -3, -6, -9, -10, -11} /\ (paramsMap[n] = <<>> <=> r.code = -1)
        /\ get # "money" \/ paramsMap[n] # <<>> => r.msg[1].names = "prompt"
    BY <2>1, <1>10 DEF FailureTold, FieldNamed
  <2>3. Why' = WhyText(n, r.code)
    <3>1. CASE paramsMap[n] = <<>>
      BY <1>1, <3>1 DEF Why, WhyText
    <3>2. CASE paramsMap[n] # <<>>
      BY <1>1, <1>2, <2>2, <3>2 DEF Why, WhyText
    <3> QED
      BY <3>1, <3>2
  <2>4. paramsMap[n] = <<>> => Why' = "missing"
    BY <2>3 DEF WhyText
  <2>5. errMsg' = r.msg[1]
    BY <1>1, <2>2
  <2> QED
    BY <2>2, <2>3, <2>4, <2>5
<1>11. MessageOfFailure'
  BY <1>1, <1>2, <1>10 DEF MessageOfFailure
<1> QED
  BY <1>3, <1>5, <1>6, <1>7, <1>9, <1>11 DEF AllAsSent, ValuesAsSent

\* GetRawVal() and GetVal() find nothing, or a text too short or too long, or give
\* its length.
StringGives(n, max, min, prompt, r, h, l) ==
  \/ paramsMap[n] = <<>> /\ r = Missing(prompt)
  \/ /\ paramsMap[n] # <<>> /\ min > 0 /\ l \in Nat
     /\ r = Fails(-3, <<h.len>>, "short", ByPrompt(prompt))
  \/ /\ paramsMap[n] # <<>> /\ max > 0 /\ l \in Nat
     /\ r = Fails(-6, <<l>>, "long", ByPrompt(prompt))
  \/ /\ paramsMap[n] # <<>> /\ l \in Nat /\ r = Succeeds(l)
     /\ ~(min > 0 /\ h.len < min) /\ ~(max > 0 /\ l > max)
     /\ h.len \in Nat

LEMMA StringGot ==
  ASSUME ParamsTyped, NEW n \in ParamNames, NEW raw \in BOOLEAN, NEW max \in Nat,
         NEW min \in Nat, NEW prompt \in BOOLEAN, NEW r, NEW h, NEW l,
         r = GetString(n, raw, max, min, prompt),
         h = Head(paramsMap[n]), l = Returned(h, raw, max, min)
  PROVE  StringGives(n, max, min, prompt, r, h, l)
<1>1. r = IF paramsMap[n] = <<>> THEN Missing(prompt)
          ELSE IF min > 0 /\ h.len < min THEN Fails(-3, <<h.len>>, "short", ByPrompt(prompt))
          ELSE IF max > 0 /\ l > max THEN Fails(-6, <<l>>, "long", ByPrompt(prompt))
          ELSE Succeeds(l)
  BY DEF GetString
<1>2. paramsMap[n] # <<>> => h.len \in Nat /\ l \in Nat
  BY FirstValue, TextParts DEF Returned
<1> QED
  BY <1>1, <1>2 DEF StringGives

\* So that what it gives is right, and a failure is told.
LEMMA StringGood ==
  ASSUME ParamsTyped, NEW n \in ParamNames, NEW raw \in BOOLEAN, NEW max \in Nat,
         NEW min \in Nat, NEW prompt \in BOOLEAN, NEW r,
         r = GetString(n, raw, max, min, prompt)
  PROVE  /\ NamesWell(r) /\ StringRight("string", n, max, min, r)
         /\ raw => StringRight("raw", n, max, min, r)
         /\ FailureTold(n, prompt, r) /\ FieldNamed(prompt, r)
         /\ r.code = 0 => paramsMap[n] # <<>> /\ r.val[1] \in Nat /\ r.val = <<r.val[1]>>
         /\ r.code \in {0, -1, -3, -6}
         /\ r = Result(r.code, r.val, r.msg)
<1>1. PICK h, l : h = Head(paramsMap[n]) /\ l = Returned(h, raw, max, min)
  OBVIOUS
<1>2. \/ paramsMap[n] = <<>> /\ r = Missing(prompt)
      \/ /\ paramsMap[n] # <<>> /\ min > 0 /\ l \in Nat
         /\ r = Fails(-3, <<h.len>>, "short", ByPrompt(prompt))
      \/ /\ paramsMap[n] # <<>> /\ max > 0 /\ l \in Nat
         /\ r = Fails(-6, <<l>>, "long", ByPrompt(prompt))
      \/ /\ paramsMap[n] # <<>> /\ l \in Nat /\ r = Succeeds(l)
         /\ ~(min > 0 /\ h.len < min) /\ ~(max > 0 /\ l > max)
         /\ h.len \in Nat
  <2>1. StringGives(n, max, min, prompt, r, h, l)
    BY <1>1, StringGot
  <2> QED
    BY <2>1 DEF StringGives
<1>3. ByName(prompt) \in NamedAs /\ ByPrompt(prompt) \in NamedAs
  BY MessageNames
<1>4. prompt => ByName(prompt) = "prompt" /\ ByPrompt(prompt) = "prompt"
  BY DEF ByName, ByPrompt
<1>5. raw => l = h.len
  BY <1>1 DEF Returned
<1>6. r = Result(r.code, r.val, r.msg)
  BY <1>2 DEF Missing, Fails, Succeeds, Result
<1>7. CASE paramsMap[n] = <<>> /\ r = Missing(prompt)
  <2>1. /\ r.code = -1 /\ r.msg # <<>>
        /\ r.msg[1].says = "missing" /\ r.msg[1].names = ByName(prompt)
    BY <1>7, ResultParts DEF Missing
  <2> QED
    BY <2>1, <1>6, <1>3, <1>4, <1>7
    DEF NamesWell, StringRight, FailureTold, FieldNamed, WhyText
<1>8. CASE /\ paramsMap[n] # <<>> /\ min > 0 /\ l \in Nat
           /\ r = Fails(-3, <<h.len>>, "short", ByPrompt(prompt))
  <2>1. /\ r.code = -3 /\ r.msg # <<>>
        /\ r.msg[1].says = "short" /\ r.msg[1].names = ByPrompt(prompt)
    BY <1>8, ResultParts
  <2> QED
    BY <2>1, <1>6, <1>3, <1>4, <1>8
    DEF NamesWell, StringRight, FailureTold, FieldNamed, WhyText
<1>9. CASE /\ paramsMap[n] # <<>> /\ max > 0 /\ l \in Nat
           /\ r = Fails(-6, <<l>>, "long", ByPrompt(prompt))
  <2>1. /\ r.code = -6 /\ r.msg # <<>>
        /\ r.msg[1].says = "long" /\ r.msg[1].names = ByPrompt(prompt)
    BY <1>9, ResultParts
  <2> QED
    BY <2>1, <1>6, <1>3, <1>4, <1>9
    DEF NamesWell, StringRight, FailureTold, FieldNamed, WhyText
<1>10. CASE /\ paramsMap[n] # <<>> /\ l \in Nat /\ r = Succeeds(l)
            /\ ~(min > 0 /\ h.len < min) /\ ~(max > 0 /\ l > max)
            /\ h.len \in Nat
  <2>1. r.code = 0 /\ r.msg = <<>> /\ r.val = <<l>> /\ r.val[1] = l
    BY <1>10, ResultParts
  <2>2. Limited(l, max, 0) /\ (raw => Limited(l, 0, min))
    BY <1>5, <1>10 DEF Limited
  <2> QED
    BY <2>1, <2>2, <1>6, <1>1, <1>5, <1>10
    DEF NamesWell, StringRight, FailureTold, FieldNamed
<1> QED
  BY <1>2, <1>7, <1>8, <1>9, <1>10

LEMMA ReadStringKeeps ==
  ASSUME ParamsTyped, ReadString
  PROVE  AllAsSent'
<1>1. PICK n \in ParamNames, max \in Lengths, min \in Lengths, prompt \in BOOLEAN :
        \/ Called("params", "raw", n, max, min, prompt, GetString(n, TRUE, max, min, prompt))
        \/ Called("params", "string", n, max, min, prompt, GetString(n, FALSE, max, min, prompt))
        \/ \E conf \in BOOLEAN :
             Called("params", "filtered", n, max, min, prompt,
                    GetFiltered(n, conf, max, min, prompt))
        \/ \E size \in 1..MaxLimit :
             Called("params", "buffer", n, max, min, prompt,
                    GetBuffer(n, size, max, min, prompt))
  BY Zenon DEF ReadString
<1>2. max \in Nat /\ min \in Nat /\ \A size \in 1..MaxLimit : size \in Nat /\ size > 0
  BY ParamsAssumption DEF Lengths
<1>3. CASE Called("params", "raw", n, max, min, prompt, GetString(n, TRUE, max, min, prompt))
  <2>a. PICK raw \in BOOLEAN : raw = TRUE
    OBVIOUS
  <2>1. PICK r : raw = TRUE /\ r = GetString(n, raw, max, min, prompt)
    BY <2>a, Zenon
  <2>2. /\ NamesWell(r) /\ StringRight("raw", n, max, min, r)
        /\ FailureTold(n, prompt, r) /\ FieldNamed(prompt, r)
    <3>1. raw /\ r = GetString(n, raw, max, min, prompt)
      BY <2>1, Zenon
    <3>2. /\ NamesWell(r) /\ (raw => StringRight("raw", n, max, min, r))
          /\ FailureTold(n, prompt, r) /\ FieldNamed(prompt, r)
      <4> r = GetString(n, raw, max, min, prompt)
        BY <3>1, Zenon
      <4> QED
        BY <1>2, StringGood
    <3> QED
      BY <3>1, <3>2, Zenon
  <2>3. Called("params", "raw", n, max, min, prompt, r)
    BY <1>3, <2>1, Zenon
  <2> QED
    BY <2>2, <2>3, TextCallKeeps DEF Strings
<1>4. CASE Called("params", "string", n, max, min, prompt,
                  GetString(n, FALSE, max, min, prompt))
  <2>a. PICK raw \in BOOLEAN : raw = FALSE
    OBVIOUS
  <2>1. PICK r : raw = FALSE /\ r = GetString(n, raw, max, min, prompt)
    BY <2>a, Zenon
  <2>2. /\ NamesWell(r) /\ StringRight("string", n, max, min, r)
        /\ FailureTold(n, prompt, r) /\ FieldNamed(prompt, r)
    BY <2>1, <1>2, StringGood
  <2>3. Called("params", "string", n, max, min, prompt, r)
    BY <1>4, <2>1, Zenon
  <2> QED
    BY <2>2, <2>3, TextCallKeeps DEF Strings
<1>5. ASSUME NEW conf \in BOOLEAN,
             Called("params", "filtered", n, max, min, prompt,
                    GetFiltered(n, conf, max, min, prompt))
      PROVE  AllAsSent'
  <2>a. PICK raw \in BOOLEAN : raw = FALSE
    OBVIOUS
  <2>1. PICK got : raw = FALSE /\ got = GetString(n, raw, max, min, prompt)
    BY <2>a, Zenon
  <2>2. PICK r : r = GetFiltered(n, conf, max, min, prompt)
    OBVIOUS
  <2>3. NamesWell(got) /\ StringRight("string", n, max, min, got)
    BY <2>1, <1>2, StringGood
  <2>4. r = IF got.code = 0 /\ ~conf THEN Result(-1, got.val, <<>>) ELSE got
    BY <2>1, <2>2, Zenon DEF GetFiltered
  <2>5. NamesWell(r) /\ StringRight("filtered", n, max, min, r)
    <3>1. CASE r = got
      BY <2>3, <3>1 DEF StringRight
    <3>2. CASE r = Result(-1, got.val, <<>>)
      BY <3>2 DEF NamesWell, StringRight, Result
    <3> QED
      BY <2>4, <3>1, <3>2
  <2>6. Called("params", "filtered", n, max, min, prompt, r)
    BY <1>5, <2>2
  <2> QED
    BY <2>5, <2>6, TextCallKeeps DEF Strings
<1>6. ASSUME NEW size \in 1..MaxLimit,
             Called("params", "buffer", n, max, min, prompt,
                    GetBuffer(n, size, max, min, prompt))
      PROVE  AllAsSent'
  <2>a. PICK raw \in BOOLEAN : raw = FALSE
    OBVIOUS
  <2>1. PICK got : raw = FALSE /\ got = GetString(n, raw, max, min, prompt)
    BY <2>a, Zenon
  <2>2. PICK r : r = GetBuffer(n, size, max, min, prompt)
    OBVIOUS
  <2>3. /\ NamesWell(got) /\ StringRight("string", n, max, min, got)
        /\ FailureTold(n, prompt, got) /\ FieldNamed(prompt, got)
        /\ got.code = 0 => got.val[1] \in Nat
        /\ got = Result(got.code, got.val, got.msg)
    BY <2>1, <1>2, StringGood
  <2>4. r = IF got.code # 0 THEN [got EXCEPT !.val = <<>>]
            ELSE IF got.val[1] < size THEN got ELSE Succeeds(size - 1)
    BY <2>1, <2>2, Zenon DEF GetBuffer
  <2>5. size \in Nat /\ size > 0
    BY <1>2
  <2>6. /\ NamesWell(r) /\ StringRight("buffer", n, max, min, r)
        /\ FailureTold(n, prompt, r) /\ FieldNamed(prompt, r)
    <3>1. CASE got.code # 0
      <4>1. r = [got EXCEPT !.val = <<>>]
        BY <2>4, <3>1
      <4>2. r.code = got.code /\ r.msg = got.msg
        BY <4>1, <2>3 DEF Result
      <4> QED
        BY <4>2, <2>3, <3>1 DEF NamesWell, StringRight, FailureTold, FieldNamed
    <3>2. CASE got.code = 0 /\ got.val[1] < size
      BY <2>3, <2>4, <3>2 DEF StringRight
    <3>3. CASE got.code = 0 /\ ~(got.val[1] < size)
      <4>1. r.code = 0 /\ r.msg = <<>> /\ r.val[1] = size - 1
        BY <2>4, <3>3, ResultParts
      <4>2. Limited(got.val[1], max, 0)
        BY <2>3, <3>3 DEF StringRight
      <4>3. Limited(size - 1, max, 0)
        BY <4>2, <2>3, <2>5, <1>2, <3>3 DEF Limited
      <4> QED
        BY <4>1, <4>3 DEF NamesWell, StringRight, FailureTold, FieldNamed
    <3> QED
      BY <3>1, <3>2, <3>3
  <2>7. Called("params", "buffer", n, max, min, prompt, r)
    BY <1>6, <2>2
  <2> QED
    BY <2>6, <2>7, TextCallKeeps DEF Strings
<1> QED
  BY <1>1, <1>3, <1>4, <1>5, <1>6

LEMMA ReadMoneyKeeps ==
  ASSUME ParamsTyped, ReadMoney
  PROVE  AllAsSent'
<1>1. PICK n \in ParamNames, max \in Lengths, min \in Lengths, prompt \in BOOLEAN :
        Called("params", "money", n, max, min, prompt, GetIntMoney(n, max, min, prompt))
  BY Zenon DEF ReadMoney
<1>2. PICK got, r, t, named : /\ got = GetString(n, FALSE, 0, 0, FALSE)
                              /\ r = GetIntMoney(n, max, min, prompt)
                              /\ t = Head(paramsMap[n])
                              /\ named = IF prompt THEN "prompt" ELSE "null"
  OBVIOUS
<1>3. r = IF got.code # 0 THEN [got EXCEPT !.val = <<>>]
          ELSE IF t.len = 0 THEN Result(-88, <<>>, <<>>)
          ELSE IF t.kind \notin {"digits", "money"} THEN Result(-99, <<>>, <<>>)
          ELSE IF Hundredths(t) > Most("int32") THEN Fails(-11, <<>>, "above", ByName(prompt))
          ELSE IF min # 0 /\ Hundredths(t) < min THEN Fails(-9, <<>>, "below", named)
          ELSE IF max # 0 /\ Hundredths(t) > max THEN Fails(-10, <<>>, "above", named)
          ELSE Succeeds(Hundredths(t))
  BY <1>2 DEF GetIntMoney
<1>4. \/ paramsMap[n] = <<>> /\ got = Missing(FALSE)
      \/ paramsMap[n] # <<>> /\ \E l : got = Succeeds(l)
  <2>a. PICK no \in BOOLEAN, zero \in Nat : no = FALSE /\ zero = 0
    OBVIOUS
  <2>1. PICK l : no = FALSE /\ zero = 0 /\ l = Returned(t, no, zero, zero)
    BY <2>a, Zenon
  <2>2. got = GetString(n, no, zero, zero, no)
    BY <1>2, <2>1, Zenon
  <2>3. \/ paramsMap[n] = <<>> /\ got = Missing(no)
        \/ paramsMap[n] # <<>> /\ zero > 0
        \/ paramsMap[n] # <<>> /\ got = Succeeds(l)
    <3>1. l = Returned(t, no, zero, zero)
      BY <1>2, <2>1, Zenon
    <3>2. t = Head(paramsMap[n])
      BY <1>2, Zenon
    <3>3. StringGives(n, zero, zero, no, got, t, l)
      BY <2>2, <3>1, <3>2, StringGot
    <3> QED
      BY <3>3, Zenon DEF StringGives
  <2>4. ~(zero > 0)
    BY <2>1
  <2> QED
    BY <2>1, <2>3, <2>4, Zenon
<1>5. /\ ByName(prompt) \in NamedAs /\ named \in NamedAs
      /\ prompt => ByName(prompt) = "prompt" /\ named = "prompt"
  BY <1>2, MessageNames DEF ByName, NamedAs
<1>6. CASE paramsMap[n] = <<>> /\ got = Missing(FALSE)
  <2>1. got.code = -1 /\ got = Fails(-1, <<0>>, "missing", "name")
    BY <1>6, ResultParts DEF Missing, ByName
  <2>2. r = Fails(-1, <<>>, "missing", "name")
    BY <1>3, <2>1 DEF Fails, Result
  <2> QED
    BY <2>2, <1>6, <1>1, <1>2, ResultParts, TextCallKeeps
    DEF NamesWell, NamedAs, FailureTold, WhyText, Strings
<1>7. CASE paramsMap[n] # <<>> /\ \E l : got = Succeeds(l)
  <2>1. got.code = 0
    BY <1>7, ResultParts
  <2>2. \/ r = Result(-88, <<>>, <<>>) \/ r = Result(-99, <<>>, <<>>)
        \/ r = Fails(-11, <<>>, "above", ByName(prompt))
        \/ r = Fails(-9, <<>>, "below", named)
        \/ r = Fails(-10, <<>>, "above", named)
        \/ r = Succeeds(Hundredths(t))
    BY <1>3, <2>1
  <2>3. \/ r.msg = <<>> /\ r.code \in {0, -88, -99}
        \/ /\ r.msg # <<>> /\ r.msg[1].names \in {ByName(prompt), named}
           /\ \/ r.code \in {-10, -11} /\ r.msg[1].says = "above"
              \/ r.code = -9 /\ r.msg[1].says = "below"
    <3>1. Result(-88, <<>>, <<>>).msg = <<>> /\ Result(-88, <<>>, <<>>).code = -88
      BY DEF Result
    <3>2. Result(-99, <<>>, <<>>).msg = <<>> /\ Result(-99, <<>>, <<>>).code = -99
      BY DEF Result
    <3> QED
      BY <2>2, <3>1, <3>2, ResultParts
  <2>4. /\ NamesWell(r)
        /\ r.code \notin {-88, -99} => FailureTold(n, prompt, r) /\ FieldNamed(prompt, r)
    BY <2>3, <1>5, <1>7 DEF NamesWell, FailureTold, FieldNamed, WhyText
  <2> QED
    BY <2>4, <1>1, <1>2, TextCallKeeps DEF Strings
<1> QED
  BY <1>4, <1>6, <1>7

LEMMA ReadAllKeeps ==
  ASSUME ParamsTyped, ReadAll
  PROVE  AllAsSent'
<1>1. PICK n \in ParamNames : Called("params", "all", n, 0, 0, FALSE, GetAll(n))
  BY DEF ReadAll
<1>2. PICK r : r = GetAll(n)
  OBVIOUS
<1>3. NamesWell(r)
  BY <1>2, ResultParts DEF GetAll, NamesWell, NamedAs
<1> QED
  BY <1>1, <1>2, <1>3, TextCallKeeps DEF Strings

-----------------------------------------------------------------------------
(* What the getters of cookies give.                                       *)

LEMMA CookieKinds ==
  ASSUME NEW c \in CookieTexts
  PROVE  /\ c.n \in Nat /\ c.len \in Nat
         /\ c.kind = "o" \/ c.kind \in {"digits", "uin"} \/ c.kind = "words"
<1>1. /\ c.n \in Nat /\ c.len \in Nat
      /\ c.kind \in {"words", "digits", "money", "uin", "o"}
  BY TextParts
<1>2. ASSUME c \in Words
      PROVE  c.kind = "words"
  <2>1. PICK l \in 0..MaxLen : c \in {Text("words", 0, l, k) : k \in 0..2 * l}
    BY <1>2 DEF Words
  <2> QED
    BY <2>1 DEF Text
<1>3. c.kind # "money"
  <2>1. CASE c \in Words
    BY <1>2, <2>1
  <2>2. CASE \E x \in Numbers : c = Text("digits", x, 1, 1) \/ c = Text("uin", x, 2, 2)
    BY <2>2 DEF Text
  <2>3. CASE c = Text("o", 0, 1, 1)
    BY <2>3 DEF Text
  <2> QED
    BY <2>1, <2>2, <2>3 DEF CookieTexts, Plain
<1> QED
  BY <1>1, <1>3

\* A number of the type is given as it is, and what is given is one of the type.
CookieRight(get, n, r) ==
  get \in Integer =>
    /\ r.val # <<>> => r.val[1] \in Least(get)..Most(get)
    /\ (/\ cookies[n] # <<>> /\ IsNumber(cookies[n][1])
        /\ cookies[n][1].n <= Most(get) /\ (get = "uint32" => cookies[n][1].n > 0))
       => r.code = 0 /\ r.val = <<cookies[n][1].n>>

LEMMA CookieCallKeeps ==
  ASSUME ParamsTyped, NEW get, NEW n \in ParamNames, NEW max, NEW min, NEW prompt, NEW r,
         Called("cookies", get, n, max, min, prompt, r), NamesWell(r), CookieRight(get, n, r)
  PROVE  AllAsSent'
<1>1. /\ last'.from = "cookies" /\ last'.get = get /\ last'.name = n
      /\ last'.max = max /\ last'.min = min /\ last'.prompt = prompt
      /\ last'.code = r.code /\ last'.val = r.val
      /\ errMsg' = IF r.msg = <<>> THEN errMsg ELSE r.msg[1]
      /\ paramsMap' = paramsMap /\ cookies' = cookies /\ added' = added
  BY AfterCall
<1>2. ParamsTyped'
  BY <1>1 DEF ParamsTyped, NamesWell
<1>3. NumberTyped'
  BY <1>1 DEF NumberTyped, CookieRight
<1>4. ParamsTypeOK'
  BY <1>2, <1>3, TypesOfAll, PTL
<1>5. NumberAsSent' /\ StringAsSent' /\ MessageOfFailure'
  BY <1>1 DEF NumberAsSent, StringAsSent, MessageOfFailure
<1>6. CookieAsSent'
  BY <1>1 DEF CookieAsSent, CookieRight
<1> QED
  BY <1>2, <1>4, <1>5, <1>6 DEF AllAsSent, ValuesAsSent

\* Zero is a number of every type.
LEMMA ZeroFits ==
  ASSUME NEW t \in Integer
  PROVE  0 \in Least(t)..Most(t)
<1>1. Most(t) \in Nat /\ Least(t) \in Int /\ Least(t) <= 0
  BY TypeLimits
<1> QED
  BY <1>1

\* A number that is read and cut to the type.
LEMMA ReadAndCut ==
  ASSUME NEW t \in Integer, NEW x \in Nat
  PROVE  /\ Cast(StrTo(x, t), t) \in Least(t)..Most(t)
         /\ x <= Most(t) => Cast(StrTo(x, t), t) = x
<1>1. PICK s : s = StrTo(x, t)
  OBVIOUS
<1>2. s \in Int /\ (x <= Most(t) => s = x)
  BY <1>1, StrToFits
<1>3. Cast(s, t) \in Least(t)..Most(t) /\ (s \in Least(t)..Most(t) => Cast(s, t) = s)
  BY <1>2, CastFits
<1>4. Most(t) \in Nat /\ Least(t) \in Int /\ Least(t) <= 0
  BY TypeLimits
<1> QED
  BY <1>1, <1>2, <1>3, <1>4

LEMMA ReadCookieKeeps ==
  ASSUME ParamsTyped, ReadCookie
  PROVE  AllAsSent'
<1>1. PICK n \in ParamNames :
        \/ Called("cookies", "string", n, 0, 0, FALSE, GetCookieString(n))
        \/ Called("cookies", "uint32", n, 0, 0, FALSE, GetCookieUin(n))
        \/ \E t \in Integer \ {"uint32"} :
             Called("cookies", t, n, 0, 0, FALSE, GetCookieInteger(n, t))
  BY Zenon DEF ReadCookie
<1>2. PICK c : c = cookies[n][1]
  OBVIOUS
<1>3. cookies[n] # <<>> => c \in CookieTexts
  BY <1>2, FirstValue
<1>4. cookies[n] # <<>> =>
        /\ c.n \in Nat /\ c.len \in Nat
        /\ c.kind = "o" \/ c.kind \in {"digits", "uin"} \/ c.kind = "words"
  BY <1>3, CookieKinds
<1>5. \A code : /\ Result(code, <<0>>, <<>>).msg = <<>> /\ Result(code, <<0>>, <<>>).val = <<0>>
                /\ Result(code, <<>>, <<>>).msg = <<>> /\ Result(code, <<>>, <<>>).val = <<>>
  BY DEF Result
<1>6. \A code, says : /\ Result(code, <<>>, <<Message(says, "nothing")>>).val = <<>>
                      /\ Result(code, <<>>, <<Message(says, "nothing")>>).msg[1].names = "nothing"
  BY DEF Result, Message
<1>7. \A x : NamesWell(Result(x, <<0>>, <<>>)) /\ NamesWell(Result(x, <<>>, <<>>))
             /\ NamesWell(Succeeds(x))
  BY <1>5, ResultParts DEF NamesWell
<1>8. \A code, says : NamesWell(Result(code, <<>>, <<Message(says, "nothing")>>))
  BY <1>6 DEF NamesWell, NamedAs
<1>9. CASE Called("cookies", "string", n, 0, 0, FALSE, GetCookieString(n))
  <2>1. PICK r : r = GetCookieString(n)
    OBVIOUS
  <2>2. r = Result(-1, <<0>>, <<>>) \/ r = Succeeds(c.len)
    BY <1>2, <2>1 DEF GetCookieString
  <2>3. NamesWell(r)
    BY <1>7, <2>2
  <2>4. CookieRight("string", n, r)
    BY IntegerTypes DEF CookieRight, Unsigned, Signed
  <2> QED
    BY <1>9, <2>1, <2>3, <2>4, CookieCallKeeps
<1>10. CASE Called("cookies", "uint32", n, 0, 0, FALSE, GetCookieUin(n))
  <2>1. PICK r : r = GetCookieUin(n)
    OBVIOUS
  <2>2. "uint32" \in Integer /\ "uint32" \notin Signed
    BY IntegerTypes DEF Unsigned, Signed
  <2>3. Most("uint32") = DWord - 1 /\ DWord \in Nat /\ TenDigits \in Nat /\ TenDigits > DWord
    BY <2>2, IntegerTypes, ParamsAssumption DEF Most, MostOf
  <2>4. PICK y : y = Cast(StrTo(c.n, "uint32"), "uint32")
    OBVIOUS
  <2>5. \/ cookies[n] = <<>> /\ r = Result(-1, <<0>>, <<>>)
        \/ /\ cookies[n] # <<>> /\ c.kind = "o" /\ r = Result(-98, <<>>, <<>>)
        \/ /\ cookies[n] # <<>> /\ c.n >= TenDigits /\ r = Result(-2, <<>>, <<>>)
        \/ /\ cookies[n] # <<>> /\ c.n = 0
           /\ r = Result(-99, <<>>, <<Message("empty", "nothing")>>)
        \/ cookies[n] # <<>> /\ c.kind \in {"digits", "uin"} /\ r = Succeeds(y)
        \/ /\ cookies[n] # <<>> /\ c.kind = "words"
           /\ r = Result(-99, <<>>, <<NotDigits(c)>>)
    <3>1. CASE cookies[n] = <<>>
      BY <2>1, <3>1 DEF GetCookieUin
    <3>2. CASE cookies[n] # <<>>
      <4>1. /\ c.kind \in {"digits", "uin"} /\ c.n >= TenDigits => c.n # 0 /\ ~(c.n \in 1..TenDigits - 1)
            /\ c.n \in Nat /\ TenDigits \in Nat
            /\ c.n >= TenDigits \/ c.n = 0 \/ c.n \in 1..TenDigits - 1
        BY <1>4, <2>3, <3>2
      <4>2. r = CASE c.kind = "o" -> Result(-98, <<>>, <<>>)
                  [] c.kind \in {"digits", "uin"} /\ c.n >= TenDigits -> Result(-2, <<>>, <<>>)
                  [] c.kind \in {"digits", "uin"} /\ c.n = 0 ->
                       Result(-99, <<>>, <<Message("empty", "nothing")>>)
                  [] c.kind \in {"digits", "uin"} /\ c.n \in 1..TenDigits - 1 -> Succeeds(y)
                  [] c.kind = "words" -> Result(-99, <<>>, <<NotDigits(c)>>)
        BY <1>2, <2>1, <2>4, <3>2 DEF GetCookieUin
      <4>3. CASE c.kind = "o"
        BY <3>2, <4>2, <4>3
      <4>4. CASE c.kind = "words"
        BY <3>2, <4>2, <4>4
      <4>5. CASE c.kind \in {"digits", "uin"}
        BY <3>2, <4>1, <4>2, <4>5
      <4> QED
        BY <1>4, <3>2, <4>3, <4>4, <4>5
    <3> QED
      BY <3>1, <3>2
  <2>6. cookies[n] # <<>> =>
          /\ y \in Least("uint32")..Most("uint32")
          /\ c.n <= Most("uint32") => y = c.n
    BY <1>4, <2>2, <2>4, ReadAndCut
  <2>7. NamesWell(r)
    BY <1>7, <1>8, <2>5 DEF NotDigits
  <2>8. r.val # <<>> => r.val[1] \in Least("uint32")..Most("uint32")
    BY <1>5, <1>6, <2>2, <2>5, <2>6, ZeroFits, ResultParts DEF NotDigits
  <2>9. ASSUME cookies[n] # <<>>, IsNumber(c), c.n <= Most("uint32"), c.n > 0
        PROVE  r.code = 0 /\ r.val = <<c.n>>
    <3>1. c.kind = "digits" /\ c.n \in Nat /\ ~(c.n >= TenDigits) /\ c.n # 0
      BY <1>4, <2>3, <2>9 DEF IsNumber
    <3>2. r = Succeeds(y) /\ y = c.n
      BY <2>5, <2>6, <2>9, <3>1
    <3> QED
      BY <3>2, ResultParts
  <2>10. CookieRight("uint32", n, r)
    BY <1>2, <2>8, <2>9 DEF CookieRight
  <2> QED
    BY <1>10, <2>1, <2>7, <2>10, CookieCallKeeps
<1>11. ASSUME NEW t \in Integer \ {"uint32"},
              Called("cookies", t, n, 0, 0, FALSE, GetCookieInteger(n, t))
       PROVE  AllAsSent'
  <2>1. PICK r : r = GetCookieInteger(n, t)
    OBVIOUS
  <2>2. PICK y : y = Cast(StrTo(c.n, t), t)
    OBVIOUS
  <2>3. \/ cookies[n] = <<>> /\ r = Result(-1, <<0>>, <<>>)
        \/ cookies[n] # <<>> /\ IsNumber(c) /\ r = Succeeds(y)
        \/ cookies[n] # <<>> /\ ~IsNumber(c) /\ r = Result(-99, <<>>, <<NotDigits(c)>>)
    BY <1>2, <2>1, <2>2 DEF GetCookieInteger
  <2>4. cookies[n] # <<>> =>
          /\ y \in Least(t)..Most(t)
          /\ c.n <= Most(t) => y = c.n
    BY <1>4, <2>2, ReadAndCut
  <2>5. NamesWell(r)
    BY <1>7, <1>8, <2>3 DEF NotDigits
  <2>6. r.val # <<>> => r.val[1] \in Least(t)..Most(t)
    BY <1>5, <1>6, <2>3, <2>4, ZeroFits, ResultParts DEF NotDigits
  <2>7. ASSUME cookies[n] # <<>>, IsNumber(c), c.n <= Most(t)
        PROVE  r.code = 0 /\ r.val = <<c.n>>
    BY <2>3, <2>4, <2>7, ResultParts
  <2>8. CookieRight(t, n, r)
    BY <1>2, <2>6, <2>7 DEF CookieRight
  <2> QED
    BY <1>11, <2>1, <2>5, <2>8, CookieCallKeeps
<1> QED
  BY <1>1, <1>9, <1>10, <1>11

-----------------------------------------------------------------------------
(* The object.                                                             *)

\* Between calls nothing is said of one, and what is stored has its type.
LEMMA StoreKeeps ==
  ASSUME ParamsTyped, AddVal \/ AddCookiePair \/ Reset \/ Use
  PROVE  ParamsTyped' /\ last' = NoCall
<1>1. CASE AddVal
  <2>1. PICK n \in ParamNames, t \in Texts : paramsMap' = [paramsMap EXCEPT ![n] = Append(@, t)]
    BY <1>1 DEF AddVal
  <2>2. /\ added < MaxAdded /\ added' = added + 1 /\ added \in Nat /\ MaxAdded \in Nat
        /\ cookies' = cookies /\ errMsg' = errMsg /\ last' = NoCall
    BY <1>1, ParamsAssumption DEF AddVal, ParamsTyped
  <2>3. /\ paramsMap' \in [ParamNames -> Seq(Texts)] /\ added' \in 0..MaxAdded
    BY <2>1, <2>2 DEF ParamsTyped
  <2>4. \A m \in ParamNames : Len(paramsMap'[m]) <= added'
    BY <2>1, <2>2 DEF ParamsTyped
  <2> QED
    BY <2>2, <2>3, <2>4 DEF ParamsTyped
<1>2. CASE AddCookiePair
  <2>1. PICK n \in ParamNames, t \in CookieTexts : cookies' = [cookies EXCEPT ![n] = <<t>>]
    BY <1>2 DEF AddCookiePair
  <2>2. /\ added < MaxAdded /\ added' = added + 1 /\ added \in Nat /\ MaxAdded \in Nat
        /\ paramsMap' = paramsMap /\ errMsg' = errMsg /\ last' = NoCall
    BY <1>2, ParamsAssumption DEF AddCookiePair, ParamsTyped
  <2>3. \A m \in ParamNames : Len(paramsMap'[m]) <= added' /\ Len(cookies'[m]) <= 1
    BY <2>1, <2>2 DEF ParamsTyped
  <2>4. cookies' \in [ParamNames -> Seq(CookieTexts)] /\ added' \in 0..MaxAdded
    BY <2>1, <2>2 DEF ParamsTyped
  <2> QED
    BY <2>2, <2>3, <2>4 DEF ParamsTyped
<1>3. CASE Reset
  BY <1>3, ParamsAssumption DEF Reset, ParamsTyped
<1>4. CASE Use
  BY <1>4 DEF Use, ParamsTyped
<1> QED
  BY <1>1, <1>2, <1>3, <1>4

LEMMA AllAsSentHolds == ParamsSpec => []AllAsSent
<1>1. ParamsInit => AllAsSent
  <2>1. ASSUME ParamsInit
        PROVE  ParamsTyped /\ last = NoCall
    BY <2>1, ParamsAssumption DEF ParamsInit, ParamsTyped, Garbage, Message, NamedAs
  <2> QED
    BY <2>1, BetweenCalls
<1>2. AllAsSent /\ [ParamsNext]_paramVars => AllAsSent'
  <2> SUFFICES ASSUME AllAsSent, [ParamsNext]_paramVars
               PROVE  AllAsSent'
    OBVIOUS
  <2>1. ParamsTyped
    BY DEF AllAsSent
  <2>2. CASE AddVal \/ AddCookiePair \/ Reset \/ Use
    <3>1. (ParamsTyped /\ last = NoCall)'
      BY <2>1, <2>2, StoreKeeps
    <3> QED
      BY <3>1, BetweenCalls, PTL
  <2>3. CASE ReadString \/ ReadInteger \/ ReadMoney \/ ReadAll \/ ReadCookie
    BY <2>1, <2>3, ReadStringKeeps, ReadIntegerKeeps, ReadMoneyKeeps, ReadAllKeeps,
       ReadCookieKeeps
  <2>4. CASE UNCHANGED paramVars
    <3>1. /\ paramsMap' = paramsMap /\ cookies' = cookies /\ errMsg' = errMsg
          /\ last' = last /\ added' = added
      BY <2>4 DEF paramVars
    <3>2. ParamsTyped'
      BY <2>1, <3>1 DEF ParamsTyped
    <3>3. NumberTyped'
      <4>1. NumberTyped
        BY DEF AllAsSent, ValuesAsSent, ParamsTypeOK, NumberTyped
      <4> QED
        BY <3>1, <4>1 DEF NumberTyped
    <3>4. ParamsTypeOK'
      BY <3>2, <3>3, TypesOfAll, PTL
    <3>5. Sent' = Sent /\ Why' = Why
      BY <3>1 DEF Sent, Why
    <3>6. NumberAsSent'
      BY <3>1, <3>5 DEF AllAsSent, ValuesAsSent, NumberAsSent
    <3>7. StringAsSent'
      BY <3>1, <3>5 DEF AllAsSent, ValuesAsSent, StringAsSent
    <3>8. CookieAsSent'
      BY <3>1 DEF AllAsSent, ValuesAsSent, CookieAsSent
    <3>9. MessageOfFailure'
      BY <3>1, <3>5 DEF AllAsSent, MessageOfFailure
    <3> QED
      BY <3>2, <3>4, <3>6, <3>7, <3>8, <3>9 DEF AllAsSent, ValuesAsSent
  <2> QED
    BY <2>2, <2>3, <2>4 DEF ParamsNext
<1> QED
  BY <1>1, <1>2, PTL DEF ParamsSpec

\* What a getter gives back is of its type, and with 0 it is what the client sent, in
\* the limits the action asked for: numbers of every type, strings and cookies
\* (CActionParams::GetVal, GetRawVal, GetCookieVal).
THEOREM GettersGiveWhatWasSent == ParamsSpec => []ValuesAsSent
<1>1. AllAsSent => ValuesAsSent
  BY DEF AllAsSent
<1> QED
  BY <1>1, AllAsSentHolds, PTL

\* After a getter of a parameter has failed, the message is about that failure and
\* names the field by the caller's prompt (CActionParams::GetLastErrMsg).
THEOREM FailuresAreTold == ParamsSpec => []MessageOfFailure
<1>1. AllAsSent => MessageOfFailure
  BY DEF AllAsSent
<1> QED
  BY <1>1, AllAsSentHolds, PTL

-----------------------------------------------------------------------------
(* The sessions.                                                           *)

\* What a browser may hold, a session's entry, and what was found for the last request.
HeldCookie == [id : 1..drawn, expires : Int]
Entry      == [timestamp : Nat, data : Visitors]

SessionsTyped ==
  /\ now \in Nat /\ cleanupTime \in Nat /\ drawn \in Nat
  /\ DOMAIN sessions \subseteq 1..drawn
  /\ \A i \in DOMAIN sessions : sessions[i] \in Entry /\ sessions[i].timestamp <= now
  /\ DOMAIN held = Visitors
  /\ \A v \in Visitors : held[v] # <<>> => held[v][1] \in HeldCookie

\* The session that a cookie names is the visitor's own.
OwnSession ==
  \A v \in Visitors : held[v] # <<>> /\ held[v][1].id \in DOMAIN sessions =>
    sessions[held[v][1].id].data = v

\* The session of a cookie that has not expired is there, unless it was logged out, and
\* is kept for as long as the cookie.
KeptForCookie ==
  \A v \in Visitors :
    held[v] # <<>> /\ held[v][1].expires >= now /\ held[v][1].id \notin ended =>
      /\ held[v][1].id \in DOMAIN sessions
      /\ held[v][1].expires <= sessions[held[v][1].id].timestamp + keepAlive

\* The next clean-up comes in time for every session.
CleanupInTime ==
  /\ cleanupTime <= now + cleanupFrequency
  /\ \A i \in DOMAIN sessions :
       cleanupTime - sessions[i].timestamp <= keepAlive + cleanupFrequency

SessionsInvariant ==
  SessionsTyped /\ OwnSession /\ KeptForCookie /\ CleanupInTime /\ SessionsFound

LEMMA SessionsInitOK == SessionsInit => SessionsInvariant
  BY SessionsAssumption
     DEF SessionsInit, SessionsInvariant, SessionsTyped, OwnSession, KeptForCookie,
         CleanupInTime, SessionsFound, HeldCookie, Entry

\* What is kept of the sessions keeps what the invariant says.
LEMMA KeptRight ==
  ASSUME SessionsTyped, OwnSession, KeptForCookie, CleanupInTime
  PROVE  /\ DOMAIN Kept \subseteq DOMAIN sessions
         /\ \A i \in DOMAIN Kept : Kept[i] = sessions[i]
         /\ \A v \in Visitors :
              held[v] # <<>> /\ held[v][1].expires >= now /\ held[v][1].id \notin ended =>
                held[v][1].id \in DOMAIN Kept
         /\ \A i \in DOMAIN Kept : now - Kept[i].timestamp < keepAlive + cleanupFrequency
         /\ \A i \in DOMAIN Kept :
              CleansUp => now - Kept[i].timestamp <= keepAlive
  BY SessionsAssumption
     DEF SessionsTyped, OwnSession, KeptForCookie, CleanupInTime, Kept, CleansUp, OlderThan,
         HeldCookie, Entry

\* What every response begins with: the clean-up, and what is found.
LEMMA BeginsRight ==
  ASSUME SessionsInvariant, NEW v \in Visitors, Begins(v), ended \subseteq ended'
  PROVE  /\ now' = now /\ cleanupTime' \in Nat /\ cleanupTime' <= now + cleanupFrequency
         /\ \A i \in DOMAIN Kept :
              cleanupTime' - Kept[i].timestamp <= keepAlive + cleanupFrequency
         /\ SessionsFound'
<1>1. /\ now' = now /\ cleanupTime' \in Nat /\ cleanupTime' <= now + cleanupFrequency
  BY SessionsAssumption
     DEF SessionsInvariant, SessionsTyped, CleanupInTime, Begins, CleansUp
<1>2. ASSUME NEW i \in DOMAIN Kept
      PROVE  cleanupTime' - Kept[i].timestamp <= keepAlive + cleanupFrequency
  <2>1. i \in DOMAIN sessions /\ Kept[i] = sessions[i]
    BY <1>2, KeptRight DEF SessionsInvariant
  <2>2. Kept[i].timestamp \in Nat
    BY <2>1 DEF SessionsInvariant, SessionsTyped, Entry
  <2>3. CASE CleansUp
    <3>1. now - Kept[i].timestamp <= keepAlive
      BY <1>2, <2>3, KeptRight DEF SessionsInvariant
    <3> QED  BY <3>1, <2>2, <2>3, SessionsAssumption DEF Begins, SessionsInvariant, SessionsTyped
  <2>4. CASE ~CleansUp
    BY <2>1, <2>4 DEF Begins, SessionsInvariant, CleanupInTime
  <2> QED  BY <2>3, <2>4
<1>3. SessionsFound'
  <2> DEFINE id == findCookie(v)
             a  == [at |-> now, visitor |-> v, cookie |-> held[v],
                    found |-> IF id \in DOMAIN Kept THEN <<Kept[id]>> ELSE <<>>]
  <2>1. answered' = <<a>>
    BY DEF Begins
  <2>2. a.cookie # <<>> /\ a.cookie[1].expires >= a.at /\ a.cookie[1].id \notin ended' =>
          a.found # <<>>
    BY KeptRight DEF SessionsInvariant, findCookie
  <2>3. ASSUME a.found # <<>>
        PROVE  /\ a.found[1].data = a.visitor
               /\ a.at - a.found[1].timestamp < keepAlive + cleanupFrequency
    <3>1. id \in DOMAIN Kept /\ a.found[1] = Kept[id]
      BY <2>3
    <3>2. id \in DOMAIN sessions /\ Kept[id] = sessions[id]
      BY <3>1, KeptRight DEF SessionsInvariant
    <3>3. held[v] # <<>> /\ id = held[v][1].id
      BY <3>2 DEF findCookie, NoId, SessionsInvariant, SessionsTyped
    <3>4. a.found[1].data = a.visitor
      BY <3>1, <3>2, <3>3 DEF SessionsInvariant, OwnSession
    <3>5. a.at - a.found[1].timestamp < keepAlive + cleanupFrequency
      BY <3>1, KeptRight DEF SessionsInvariant
    <3> QED  BY <3>4, <3>5
  <2>4. DOMAIN <<a>> = {1} /\ <<a>>[1] = a
    OBVIOUS
  <2> HIDE DEF a
  <2> QED  BY <2>1, <2>2, <2>3, <2>4 DEF SessionsFound
<1> QED  BY <1>1, <1>2, <1>3

\* A browser that is sent a cookie has it, or what it had before.
LEMMA CookieSet ==
  ASSUME SessionsTyped, NEW v \in Visitors, NEW cookie, SetCookieTo(v, cookie)
  PROVE  /\ DOMAIN held' = Visitors
         /\ \A w \in Visitors : held'[w] = held[w] \/ (w = v /\ held'[w] = cookie)
  BY DEF SessionsTyped, SetCookieTo

LEMMA LogoutRight ==
  ASSUME SessionsInvariant, NEW v \in Visitors, Logout(v)
  PROVE  SessionsInvariant'
<1> DEFINE id == findCookie(v)
<1>1. /\ now' = now /\ cleanupTime' \in Nat /\ cleanupTime' <= now + cleanupFrequency
      /\ \A i \in DOMAIN Kept :
           cleanupTime' - Kept[i].timestamp <= keepAlive + cleanupFrequency
      /\ SessionsFound'
  BY BeginsRight DEF Logout
<1>2. /\ DOMAIN held' = Visitors
      /\ \A w \in Visitors : held'[w] = held[w] \/ (w = v /\ held'[w] = <<>>)
  BY CookieSet DEF Logout, SessionsInvariant
<1>3. /\ DOMAIN sessions' = DOMAIN Kept \ {id}
      /\ \A i \in DOMAIN sessions' :
           i \in DOMAIN sessions /\ sessions'[i] = Kept[i] /\ sessions'[i] = sessions[i]
      /\ drawn' = drawn /\ ended' = ended \cup {id}
  BY KeptRight DEF Logout, SessionsInvariant
<1>4. SessionsTyped'
  BY <1>1, <1>2, <1>3 DEF SessionsInvariant, SessionsTyped, HeldCookie
<1>5. OwnSession'
  BY <1>2, <1>3 DEF SessionsInvariant, OwnSession
<1>6. KeptForCookie'
  BY <1>1, <1>2, <1>3, KeptRight DEF SessionsInvariant, KeptForCookie
<1>7. CleanupInTime'
  BY <1>1, <1>3 DEF CleanupInTime
<1> QED  BY <1>1, <1>4, <1>5, <1>6, <1>7 DEF SessionsInvariant

LEMMA RefreshRight ==
  ASSUME SessionsInvariant, NEW v \in Visitors, refresh(v)
  PROVE  SessionsInvariant'
<1> DEFINE id == findCookie(v)
<1>1. /\ now' = now /\ cleanupTime' \in Nat /\ cleanupTime' <= now + cleanupFrequency
      /\ \A i \in DOMAIN Kept :
           cleanupTime' - Kept[i].timestamp <= keepAlive + cleanupFrequency
      /\ SessionsFound'
  BY BeginsRight DEF refresh
<1>2. /\ DOMAIN held' = Visitors
      /\ \A w \in Visitors : held'[w] = held[w] \/ (w = v /\ held'[w] = CookieOf(id))
  BY CookieSet DEF refresh, SessionsInvariant
<1>3. id \in DOMAIN sessions /\ held[v] # <<>> /\ id = held[v][1].id /\ id \in 1..drawn
  BY KeptRight DEF refresh, SessionsInvariant, SessionsTyped, findCookie, NoId
<1>4. /\ DOMAIN sessions' = DOMAIN Kept /\ id \in DOMAIN Kept
      /\ \A i \in DOMAIN Kept \ {id} : sessions'[i] = Kept[i]
      /\ drawn' = drawn /\ ended' = ended
  BY DEF refresh
<1>5. /\ DOMAIN sessions' \subseteq DOMAIN sessions
      /\ \A i \in DOMAIN sessions' \ {id} : sessions'[i] = sessions[i]
  BY <1>4, KeptRight DEF SessionsInvariant
<1>6. /\ sessions[id] \in Entry /\ sessions[id].timestamp <= now /\ now \in Nat
      /\ sessions'[id] \in Entry /\ sessions'[id].timestamp = now
      /\ sessions'[id].data = sessions[id].data
  <2>1. sessions'[id] = [Kept[id] EXCEPT !.timestamp = now] /\ Kept[id] = sessions[id]
    BY <1>4, KeptRight DEF refresh, SessionsInvariant
  <2> QED  BY <1>3, <2>1 DEF SessionsInvariant, SessionsTyped, Entry
<1>7. CookieOf(id) = <<[id |-> id, expires |-> now + keepAlive]>>
  BY <1>6 DEF CookieOf, getExpiry
<1> HIDE DEF id
<1>8. SessionsTyped'
  <2>1. ASSUME NEW i \in DOMAIN sessions'
        PROVE  sessions'[i] \in Entry /\ sessions'[i].timestamp <= now
    <3>1. CASE i = id
      BY <1>6, <3>1
    <3>2. CASE i # id
      BY <1>5, <2>1, <3>2 DEF SessionsInvariant, SessionsTyped
    <3> QED  BY <3>1, <3>2
  <2>2. \A w \in Visitors : held'[w] # <<>> => held'[w][1] \in HeldCookie'
    BY <1>2, <1>3, <1>4, <1>6, <1>7, SessionsAssumption
       DEF SessionsInvariant, SessionsTyped, HeldCookie
  <2>3. DOMAIN sessions' \subseteq 1..drawn'
    BY <1>4, <1>5 DEF SessionsInvariant, SessionsTyped
  <2>4. drawn' \in Nat /\ now' \in Nat
    BY <1>1, <1>4 DEF SessionsInvariant, SessionsTyped
  <2> QED  BY <1>1, <1>2, <2>1, <2>2, <2>3, <2>4 DEF SessionsTyped, Entry
<1>9. OwnSession'
  <2>1. \A i \in DOMAIN sessions' : i \in DOMAIN sessions /\ sessions'[i].data = sessions[i].data
    BY <1>5, <1>6
  <2>2. \A w \in Visitors : held'[w] # <<>> => held[w] # <<>> /\ held'[w][1].id = held[w][1].id
    BY <1>2, <1>3, <1>7
  <2> QED  BY <2>1, <2>2 DEF SessionsInvariant, OwnSession
<1>10. KeptForCookie'
  <2> SUFFICES ASSUME NEW w \in Visitors, held'[w] # <<>>, held'[w][1].expires >= now',
                      held'[w][1].id \notin ended'
               PROVE  /\ held'[w][1].id \in DOMAIN sessions'
                      /\ held'[w][1].expires <= sessions'[held'[w][1].id].timestamp + keepAlive
    BY DEF KeptForCookie
  <2>1. CASE held'[w] = held[w]
    <3>1. /\ held[w][1].id \in DOMAIN Kept
          /\ held[w][1].expires <= sessions[held[w][1].id].timestamp + keepAlive
      BY <1>1, <1>4, <2>1, KeptRight DEF SessionsInvariant, KeptForCookie
    <3>2. held[w][1].expires \in Int
      BY <2>1 DEF SessionsInvariant, SessionsTyped, HeldCookie
    <3>3. CASE held[w][1].id = id
      BY <1>4, <1>6, <2>1, <3>1, <3>2, <3>3, SessionsAssumption DEF Entry
    <3>4. CASE held[w][1].id # id
      BY <1>4, <1>5, <2>1, <3>1, <3>4
    <3> QED  BY <3>3, <3>4
  <2>2. CASE w = v /\ held'[w] = CookieOf(id)
    <3>1. held'[w][1].id = id /\ held'[w][1].expires = now + keepAlive
      BY <1>7, <2>2
    <3> QED  BY <1>4, <1>6, <3>1, SessionsAssumption
  <2> QED  BY <1>2, <2>1, <2>2
<1>11. CleanupInTime'
  <2>1. ASSUME NEW i \in DOMAIN sessions'
        PROVE  cleanupTime' - sessions'[i].timestamp <= keepAlive + cleanupFrequency
    <3>1. CASE i = id
      BY <1>1, <1>6, <3>1, SessionsAssumption
    <3>2. CASE i # id
      BY <1>1, <1>4, <2>1, <3>2
    <3> QED  BY <3>1, <3>2
  <2> QED  BY <1>1, <2>1 DEF CleanupInTime
<1> QED  BY <1>1, <1>8, <1>9, <1>10, <1>11 DEF SessionsInvariant

LEMMA GenerateRight ==
  ASSUME SessionsInvariant, NEW v \in Visitors, generate(v)
  PROVE  SessionsInvariant'
<1> DEFINE new == drawn + 1
<1>1. /\ now' = now /\ cleanupTime' \in Nat /\ cleanupTime' <= now + cleanupFrequency
      /\ \A i \in DOMAIN Kept :
           cleanupTime' - Kept[i].timestamp <= keepAlive + cleanupFrequency
      /\ SessionsFound'
  BY BeginsRight DEF generate
<1>2. /\ DOMAIN held' = Visitors
      /\ \A w \in Visitors : held'[w] = held[w] \/ (w = v /\ held'[w] = CookieOf(new))
  BY CookieSet DEF generate, SessionsInvariant
<1>3. /\ drawn \in Nat /\ now \in Nat /\ new \in Nat /\ drawn' = new /\ ended' = ended
      /\ new \notin 1..drawn /\ 1..drawn \subseteq 1..new /\ new \in 1..new
  BY DEF generate, SessionsInvariant, SessionsTyped
<1>4. /\ DOMAIN sessions' = DOMAIN Kept \cup {new} /\ sessions'[new] = Session(v)
      /\ new \notin DOMAIN Kept
      /\ \A i \in DOMAIN Kept : sessions'[i] = Kept[i] /\ sessions'[i] = sessions[i]
                              /\ i \in DOMAIN sessions
  BY <1>3, KeptRight DEF generate, SessionsInvariant, SessionsTyped
<1>5. /\ sessions'[new] \in Entry /\ sessions'[new].timestamp = now /\ sessions'[new].data = v
  BY <1>3, <1>4 DEF Session, Entry
<1>6. CookieOf(new) = <<[id |-> new, expires |-> now + keepAlive]>>
  BY <1>5 DEF CookieOf, getExpiry
<1>7. \A w \in Visitors : held[w] # <<>> => held[w][1].id \in 1..drawn /\ held[w][1].id # new
  BY <1>3 DEF SessionsInvariant, SessionsTyped, HeldCookie
<1>8. SessionsTyped'
  <2>1. \A i \in DOMAIN sessions' : sessions'[i] \in Entry /\ sessions'[i].timestamp <= now
    BY <1>3, <1>4, <1>5 DEF SessionsInvariant, SessionsTyped
  <2>2. \A w \in Visitors : held'[w] # <<>> => /\ held'[w][1].id \in 1..new
                                              /\ held'[w][1] \in HeldCookie'
    BY <1>2, <1>3, <1>6, SessionsAssumption DEF SessionsInvariant, SessionsTyped, HeldCookie
  <2>3. DOMAIN sessions' \subseteq 1..new
    BY <1>3, <1>4 DEF SessionsInvariant, SessionsTyped
  <2> QED  BY <1>1, <1>2, <1>3, <2>1, <2>2, <2>3 DEF SessionsTyped, HeldCookie, Entry
<1>9. OwnSession'
  BY <1>2, <1>4, <1>5, <1>6, <1>7 DEF SessionsInvariant, OwnSession
<1>10. KeptForCookie'
  <2> SUFFICES ASSUME NEW w \in Visitors, held'[w] # <<>>, held'[w][1].expires >= now',
                      held'[w][1].id \notin ended'
               PROVE  /\ held'[w][1].id \in DOMAIN sessions'
                      /\ held'[w][1].expires <= sessions'[held'[w][1].id].timestamp + keepAlive
    BY DEF KeptForCookie
  <2>1. CASE held'[w] = held[w]
    BY <1>1, <1>3, <1>4, <2>1, KeptRight DEF SessionsInvariant, KeptForCookie
  <2>2. CASE w = v /\ held'[w] = CookieOf(new)
    BY <1>3, <1>4, <1>5, <1>6, <2>2, SessionsAssumption
  <2> QED  BY <1>2, <2>1, <2>2
<1>11. CleanupInTime'
  <2>1. ASSUME NEW i \in DOMAIN sessions'
        PROVE  cleanupTime' - sessions'[i].timestamp <= keepAlive + cleanupFrequency
    <3>1. CASE i = new
      BY <1>1, <1>3, <1>5, <3>1, SessionsAssumption
    <3>2. CASE i # new
      BY <1>1, <1>4, <2>1, <3>2
    <3> QED  BY <3>1, <3>2
  <2> QED  BY <1>1, <2>1 DEF CleanupInTime
<1> QED  BY <1>1, <1>8, <1>9, <1>10, <1>11 DEF SessionsInvariant

LEMMA NoSessionRight ==
  ASSUME SessionsInvariant, NEW v \in Visitors, NoSession(v)
  PROVE  SessionsInvariant'
<1>1. /\ now' = now /\ cleanupTime' \in Nat /\ cleanupTime' <= now + cleanupFrequency
      /\ \A i \in DOMAIN Kept :
           cleanupTime' - Kept[i].timestamp <= keepAlive + cleanupFrequency
      /\ SessionsFound'
  BY BeginsRight DEF NoSession
<1>2. /\ DOMAIN sessions' = DOMAIN Kept
      /\ \A i \in DOMAIN sessions' :
           i \in DOMAIN sessions /\ sessions'[i] = Kept[i] /\ sessions'[i] = sessions[i]
      /\ drawn' = drawn /\ ended' = ended /\ held' = held
  BY KeptRight DEF NoSession, SessionsInvariant
<1>3. SessionsTyped'
  BY <1>1, <1>2 DEF SessionsInvariant, SessionsTyped, HeldCookie
<1>4. OwnSession'
  BY <1>2 DEF SessionsInvariant, OwnSession
<1>5. KeptForCookie'
  BY <1>1, <1>2, KeptRight DEF SessionsInvariant, KeptForCookie
<1>6. CleanupInTime'
  BY <1>1, <1>2 DEF CleanupInTime
<1> QED  BY <1>1, <1>3, <1>4, <1>5, <1>6 DEF SessionsInvariant

LEMMA SecondRight ==
  ASSUME SessionsInvariant, Second
  PROVE  SessionsInvariant'
<1>1. SessionsTyped'
  BY DEF SessionsInvariant, SessionsTyped, Second, HeldCookie, Entry
<1>2. OwnSession'
  BY DEF SessionsInvariant, OwnSession, Second
<1>3. KeptForCookie'
  <2>1. \A v \in Visitors : held[v] # <<>> => held[v][1].expires \in Int
    BY DEF SessionsInvariant, SessionsTyped, HeldCookie
  <2> QED  BY <2>1 DEF SessionsInvariant, SessionsTyped, KeptForCookie, Second
<1>4. CleanupInTime'
  BY SessionsAssumption DEF SessionsInvariant, SessionsTyped, CleanupInTime, Second
<1>5. SessionsFound'
  BY DEF SessionsInvariant, SessionsFound, Second
<1> QED  BY <1>1, <1>2, <1>3, <1>4, <1>5 DEF SessionsInvariant

\* Whatever cookies are lost and whoever asks when, a visitor whose cookie has not expired
\* finds the session, unless it was logged out, only the visitor does, and not long after
\* it was last used (http.hpp 558-644).
THEOREM VisitorsFindTheirs == SessionsSpec => []SessionsFound
<1>1. SessionsInit => SessionsInvariant
  BY SessionsInitOK
<1>2. SessionsInvariant /\ [SessionsNext]_sessionVars => SessionsInvariant'
  <2> SUFFICES ASSUME SessionsInvariant, [SessionsNext]_sessionVars
               PROVE  SessionsInvariant'
    OBVIOUS
  <2>1. ASSUME NEW v \in Visitors, Logout(v) \/ refresh(v) \/ generate(v) \/ NoSession(v)
        PROVE  SessionsInvariant'
    BY <2>1, LogoutRight, RefreshRight, GenerateRight, NoSessionRight
  <2>2. CASE UNCHANGED sessionVars
    BY <2>2 DEF sessionVars, SessionsInvariant, SessionsTyped, HeldCookie, Entry, OwnSession,
                KeptForCookie, CleanupInTime, SessionsFound
  <2> QED  BY <2>1, <2>2, SecondRight DEF SessionsNext
<1>3. SessionsInvariant => SessionsFound
  BY DEF SessionsInvariant
<1> QED  BY <1>1, <1>2, <1>3, PTL DEF SessionsSpec

-----------------------------------------------------------------------------
(* The cache of templates.                                                 *)

\* A file as it may be: away, or a text of some time.
IsFile(file) == file # <<>> => file = <<[text |-> file[1].text, mtime |-> file[1].mtime]>>

\* What is told of the files: what each is now is among what it has been.
FilesTold ==
  /\ disk = [f \in Filenames |-> disk[f]]
  /\ DOMAIN since = Filenames /\ DOMAIN ever = Filenames
  /\ \A f \in Filenames :
       /\ disk[f] \in since[f] /\ since[f] \subseteq ever[f]
       /\ \A file \in ever[f] : IsFile(file)

\* In the next three, recent is what the files have been since the reset, all what they
\* have ever been.  The tree came from a text that the file has had.
HadTree(all, key, mtime, tree, text) ==
  \E files \in Together(all) :
    /\ files[key[1]] = <<[text |-> text, mtime |-> mtime]>>
    /\ tree = Tree(key[1], key[2], TextsOf(files))

\* The file had no tree.
HadNone(recent, key) ==
  \E files \in Together(recent) : Tree(key[1], key[2], TextsOf(files)) = <<>>

There(recent, key) == <<>> \notin recent[key[1]]

\* What is true of a template in the cache, whatever its state.
TemplateRight(recent, all, key, tpl) ==
  /\ tpl.tree # <<>> => HadTree(all, key, tpl.mtime, tpl.tree, tpl.text)
  /\ tpl.state \in {"ready", "error", "should_reload"}
  /\ tpl.state = "ready" =>
       tpl.tree # <<>> /\ (There(recent, key) => \E b \in recent[key[1]] : b[1].mtime = tpl.mtime)
  /\ tpl.state = "error" => (There(recent, key) => HadNone(recent, key))

CacheRight(recent, all, c) ==
  DOMAIN c \subseteq Keys /\ \A key \in DOMAIN c : TemplateRight(recent, all, key, c[key])

CacheInvariant == FilesTold /\ CacheRight(since, ever, cache) /\ ViewsCached

LEMMA CacheInvariantFresh == CacheInvariant => FreshTemplates
  BY DEF CacheInvariant, CacheRight, FreshTemplates, TemplateRight, HadTree, HadNone, There

\* The files as they are now are among what they may have been.
LEMMA DiskTogether ==
  ASSUME FilesTold
  PROVE  disk \in Together(since) /\ disk \in Together(ever)
<1>1. \A f \in Filenames : disk[f] \in since[f] /\ disk[f] \in ever[f]
  BY DEF FilesTold
<1>2. ASSUME NEW been, \A f \in Filenames : disk[f] \in been[f]
      PROVE  disk \in Together(been)
  <2>1. \A f \in Filenames : disk[f] \in UNION {been[g] : g \in Filenames}
    BY <1>2
  <2>2. disk = [f \in Filenames |-> disk[f]]
    BY DEF FilesTold
  <2>3. disk \in [Filenames -> UNION {been[g] : g \in Filenames}]
    BY <2>1, <2>2
  <2> QED  BY <1>2, <2>3 DEF Together
<1> QED  BY <1>1, <1>2

\* What was possible stays so when more is told of the files.
LEMMA TogetherGrows ==
  ASSUME NEW been, NEW more, \A f \in Filenames : been[f] \subseteq more[f],
         NEW files \in Together(been)
  PROVE  files \in Together(more)
<1>1. \A f \in Filenames : files[f] \in more[f]
  BY DEF Together
<1>2. files = [f \in Filenames |-> files[f]]
  BY DEF Together
<1>3. files \in [Filenames -> UNION {more[f] : f \in Filenames}]
  BY <1>1, <1>2
<1> QED  BY <1>1, <1>3 DEF Together

\* A template that is loaded again is right, whatever its state was, if what is said of
\* its tree is right, and of its having been refused.
LEMMA ReloadRight ==
  ASSUME FilesTold, NEW key \in Keys, NEW tpl,
         tpl.tree # <<>> => HadTree(ever, key, tpl.mtime, tpl.tree, tpl.text),
         tpl.state = "error" => (There(since, key) => HadNone(since, key))
  PROVE  TemplateRight(since, ever, key, ReloadIfChangedLocked(tpl, key[1], key[2]))
<1> DEFINE f == key[1]
           new == ReloadIfChangedLocked(tpl, key[1], key[2])
<1> SUFFICES TemplateRight(since, ever, key, new)
  OBVIOUS
<1>1. f \in Filenames /\ disk[f] \in since[f]
  BY DEF Keys, FilesTold
<1>2. CASE disk[f] = <<>>
  <2>1. ~There(since, key)
    BY <1>1, <1>2 DEF There
  <2>2. new = Template(IF tpl.tree # <<>> THEN "ready" ELSE "error", tpl.mtime, tpl.tree,
                       tpl.text)
    BY <1>2 DEF ReloadIfChangedLocked, InState, ReadyIf
  <2>3. /\ new.tree = tpl.tree /\ new.mtime = tpl.mtime /\ new.text = tpl.text
        /\ new.state \in {"ready", "error"} /\ (new.state = "ready" => tpl.tree # <<>>)
    BY <2>2 DEF Template
  <2> HIDE DEF new
  <2> QED  BY <2>1, <2>3 DEF TemplateRight
<1>3. CASE disk[f] # <<>> /\ NotNewer(tpl, f)
  <2>1. new = Template("ready", tpl.mtime, tpl.tree, tpl.text)
    BY <1>3 DEF ReloadIfChangedLocked, InState
  <2>2. /\ new.tree = tpl.tree /\ new.mtime = tpl.mtime /\ new.text = tpl.text
        /\ new.state = "ready"
    BY <2>1 DEF Template
  <2>3. tpl.tree # <<>> /\ disk[f][1].mtime = tpl.mtime
    BY <1>3 DEF NotNewer
  <2> HIDE DEF new
  <2> QED  BY <1>1, <2>2, <2>3 DEF TemplateRight
<1>4. CASE disk[f] # <<>> /\ ~NotNewer(tpl, f)
  <2> DEFINE tree == TreeNow(tpl, f, key[2])
             text == IF tpl.state = "error" THEN tpl.text ELSE disk[f][1].text
  <2>1. new = Template(IF tree # <<>> THEN "ready" ELSE "error", disk[f][1].mtime, tree, text)
    BY <1>4 DEF ReloadIfChangedLocked, WithTree, ReadyIf
  <2>2. /\ new.tree = tree /\ new.mtime = disk[f][1].mtime /\ new.text = text
        /\ new.state = IF tree # <<>> THEN "ready" ELSE "error"
    BY <2>1 DEF Template
  <2>3. tpl.state = "error" => tree = <<>>
    BY DEF TreeNow
  <2>4. tpl.state # "error" =>
          tree = Tree(f, key[2], TextsOf(disk)) /\ text = disk[f][1].text
    BY DEF TreeNow
  <2> HIDE DEF new, tree, text
  <2>5. tree # <<>> => HadTree(ever, key, disk[f][1].mtime, tree, text)
    <3>1. disk[f] = <<[text |-> disk[f][1].text, mtime |-> disk[f][1].mtime]>>
      BY <1>1, <1>4 DEF FilesTold, IsFile
    <3> QED  BY <2>3, <2>4, <3>1, DiskTogether DEF HadTree
  <2>6. tree = <<>> => (There(since, key) => HadNone(since, key))
    BY <2>3, <2>4, DiskTogether DEF HadNone
  <2> QED  BY <1>1, <2>2, <2>5, <2>6 DEF TemplateRight
<1> QED  BY <1>2, <1>3, <1>4

\* GetTemplate() finds or makes a template that is right.
LEMMA LoadedRight ==
  ASSUME FilesTold, NEW c, CacheRight(since, ever, c), NEW key \in Keys
  PROVE  TemplateRight(since, ever, key, Loaded(c, key))
<1> DEFINE Reload(tpl) == ReloadIfChangedLocked(tpl, key[1], key[2])
           Fresh(tpl)  == IF tpl.state \in {"should_reload", "empty"} THEN Reload(tpl) ELSE tpl
<1>1. ASSUME NEW tpl, TemplateRight(since, ever, key, tpl)
      PROVE  TemplateRight(since, ever, key, Fresh(tpl))
  BY <1>1, ReloadRight DEF TemplateRight
<1>2. TemplateRight(since, ever, key, Reload(NoTemplate))
  <2>1. NoTemplate.tree = <<>> /\ NoTemplate.state = "empty"
    BY DEF NoTemplate, Template
  <2> QED  BY <2>1, ReloadRight
<1>3. TemplateRight(since, ever, key, IF key \in DOMAIN c THEN c[key] ELSE Reload(NoTemplate))
  BY <1>2 DEF CacheRight
<1> QED  BY <1>1, <1>3 DEF Loaded

LEMMA GetTemplatesRight ==
  ASSUME FilesTold, NEW c, CacheRight(since, ever, c), NEW keys \in SUBSET Keys
  PROVE  CacheRight(since, ever, GetTemplates(c, keys))
<1>1. DOMAIN GetTemplates(c, keys) = DOMAIN c \cup keys
  BY DEF GetTemplates
<1>2. ASSUME NEW key \in DOMAIN c \cup keys
      PROVE  TemplateRight(since, ever, key, GetTemplates(c, keys)[key])
  <2>1. CASE key \in keys
    <3>1. GetTemplates(c, keys)[key] = Loaded(c, key)
      BY <1>2, <2>1 DEF GetTemplates
    <3> QED  BY <2>1, <3>1, LoadedRight
  <2>2. CASE key \notin keys
    <3>1. GetTemplates(c, keys)[key] = c[key] /\ key \in DOMAIN c
      BY <1>2, <2>2 DEF GetTemplates
    <3> QED  BY <3>1 DEF CacheRight
  <2> QED  BY <2>1, <2>2
<1> QED  BY <1>1, <1>2 DEF CacheRight

\* While what is told of the files stays, what is right stays right.
LEMMA CacheStepRight ==
  ASSUME CacheInvariant, UNCHANGED <<fileVars, since>>, CacheRight(since, ever, cache'),
         ViewsCached'
  PROVE  CacheInvariant'
<1>1. FilesTold'
  BY DEF FilesTold, fileVars, CacheInvariant
<1>2. since' = since /\ ever' = ever
  BY DEF fileVars
<1> QED  BY <1>1, <1>2 DEF CacheInvariant

LEMMA UsePageRight ==
  ASSUME CacheInvariant, NEW f \in Filenames, NEW strip \in Strips,
         NEW asked \in SUBSET Keys, UsePage(f, strip, asked)
  PROVE  CacheInvariant'
<1>1. CacheRight(since, ever, Opened(f, strip))
  <2>1. {<<f, strip>>} \in SUBSET Keys
    BY DEF Keys
  <2> QED  BY <2>1, GetTemplatesRight DEF Opened, CacheInvariant
<1>2. CacheRight(since, ever, cache')
  BY <1>1, GetTemplatesRight DEF UsePage, CacheInvariant
<1>3. ViewsCached'
  <2> DEFINE key    == KeyOf(f, strip)
             opened == Opened(f, strip)
  <2>1. key \in DOMAIN opened /\ key[1] = f
    BY DEF CacheInvariant, ViewsCached, KeyOf, Opened, GetTemplates, Known
  <2>2. DOMAIN cache \subseteq DOMAIN opened
    BY DEF Opened, GetTemplates
  <2>3. DOMAIN cache' = DOMAIN opened \cup asked
    BY DEF UsePage, GetTemplates
  <2>4. \A g \in DOMAIN views' :
          \/ g = f /\ views'[g] = key
          \/ g \in DOMAIN views /\ views'[g] = views[g]
    BY DEF UsePage
  <2> HIDE DEF key, opened
  <2> QED  BY <2>1, <2>2, <2>3, <2>4 DEF CacheInvariant, ViewsCached
<1> QED  BY <1>2, <1>3, CacheStepRight DEF UsePage

LEMMA ReloadIfChangedRight ==
  ASSUME CacheInvariant, NEW key \in Keys, ReloadIfChanged(key)
  PROVE  CacheInvariant'
<1>1. TemplateRight(since, ever, key, ReloadIfChangedLocked(cache[key], key[1], key[2]))
  BY ReloadRight DEF ReloadIfChanged, CacheInvariant, CacheRight, TemplateRight
<1>2. /\ DOMAIN cache' = DOMAIN cache
      /\ \A k \in DOMAIN cache :
           cache'[k] = IF k = key THEN ReloadIfChangedLocked(cache[key], key[1], key[2])
                                  ELSE cache[k]
  BY DEF ReloadIfChanged
<1>3. CacheRight(since, ever, cache')
  BY <1>1, <1>2 DEF CacheInvariant, CacheRight
<1>4. ViewsCached'
  BY <1>2 DEF ReloadIfChanged, CacheInvariant, ViewsCached
<1> QED  BY <1>3, <1>4, CacheStepRight DEF ReloadIfChanged

\* A template that will be loaded again is right after a reset too.
LEMMA MarkedRight ==
  ASSUME NEW recent, NEW then, NEW all, NEW key, NEW tpl, TemplateRight(recent, all, key, tpl)
  PROVE  TemplateRight(then, all, key, Marked(tpl))
<1>1. /\ Marked(tpl).tree = tpl.tree /\ Marked(tpl).mtime = tpl.mtime
      /\ Marked(tpl).text = tpl.text /\ Marked(tpl).state = "should_reload"
  BY DEF Marked, InState, Template
<1> QED  BY <1>1 DEF TemplateRight

LEMMA ResetFiles ==
  ASSUME FilesTold, UNCHANGED fileVars, since' = FromNow
  PROVE  FilesTold' /\ ever' = ever
  BY DEF FilesTold, fileVars, FromNow

LEMMA ReloadAllRight ==
  ASSUME CacheInvariant, ReloadAllIfChanged
  PROVE  CacheInvariant'
<1>1. /\ DOMAIN cache' = DOMAIN cache
      /\ \A key \in DOMAIN cache : cache'[key] = Marked(cache[key])
  BY DEF ReloadAllIfChanged
<1>2. FilesTold' /\ ever' = ever
  BY ResetFiles DEF ReloadAllIfChanged, CacheInvariant
<1>3. \A key \in DOMAIN cache : TemplateRight(since', ever, key, Marked(cache[key]))
  <2> TAKE key \in DOMAIN cache
  <2>1. TemplateRight(since, ever, key, cache[key])
    BY DEF CacheInvariant, CacheRight
  <2> QED  BY <2>1, MarkedRight
<1>4. CacheRight(since', ever', cache')
  BY <1>1, <1>2, <1>3 DEF CacheInvariant, CacheRight
<1>5. ViewsCached'
  BY <1>1 DEF ReloadAllIfChanged, CacheInvariant, ViewsCached
<1> QED  BY <1>2, <1>4, <1>5 DEF CacheInvariant

LEMMA ClearCacheRight ==
  ASSUME CacheInvariant, ClearCache
  PROVE  CacheInvariant'
<1>1. FilesTold'
  BY ResetFiles DEF ClearCache, CacheInvariant
<1>2. DOMAIN cache' = {}
  BY DEF ClearCache
<1>3. CacheRight(since', ever', cache')
  BY <1>2 DEF CacheRight
<1>4. ViewsCached'
  BY DEF ClearCache, ForgotViews, ViewsCached
<1> QED  BY <1>1, <1>3, <1>4 DEF CacheInvariant

\* What is said of a template stays true when more is told of the files.
LEMMA MoreTold ==
  ASSUME NEW recent, NEW all, NEW recent2, NEW all2,
         \A f \in Filenames : recent[f] \subseteq recent2[f] /\ all[f] \subseteq all2[f],
         NEW key \in Keys, NEW tpl, TemplateRight(recent, all, key, tpl)
  PROVE  TemplateRight(recent2, all2, key, tpl)
<1>1. /\ \A files \in Together(recent) : files \in Together(recent2)
      /\ \A files \in Together(all) : files \in Together(all2)
  BY TogetherGrows
<1>2. key[1] \in Filenames /\ recent[key[1]] \subseteq recent2[key[1]]
  BY DEF Keys
<1>3. There(recent2, key) => There(recent, key)
  BY <1>2 DEF There
<1>4. HadNone(recent, key) => HadNone(recent2, key)
  BY <1>1 DEF HadNone
<1>5. HadTree(all, key, tpl.mtime, tpl.tree, tpl.text) =>
        HadTree(all2, key, tpl.mtime, tpl.tree, tpl.text)
  BY <1>1 DEF HadTree
<1> QED  BY <1>2, <1>3, <1>4, <1>5 DEF TemplateRight

LEMMA WrittenFile ==
  ASSUME NEW text, NEW mtime
  PROVE  IsFile(<<[text |-> text, mtime |-> mtime]>>)
<1> DEFINE it == [text |-> text, mtime |-> mtime]
<1>1. <<it>>[1] = it /\ it.text = text /\ it.mtime = mtime
  OBVIOUS
<1> QED  BY <1>1 DEF IsFile

\* When a file changes, the caches are not told.
LEMMA BecomesRight ==
  ASSUME CacheInvariant, NEW f \in Filenames, NEW file, IsFile(file), Becomes(f, file)
  PROVE  CacheInvariant'
<1>1. /\ disk' = [disk EXCEPT ![f] = file] /\ cache' = cache
      /\ DOMAIN since' = Filenames /\ DOMAIN ever' = Filenames
      /\ \A g \in Filenames : /\ since'[g] = IF g = f THEN since[g] \cup {file} ELSE since[g]
                              /\ ever'[g] = IF g = f THEN ever[g] \cup {file} ELSE ever[g]
  BY DEF Becomes, CacheInvariant, FilesTold
<1>2. FilesTold'
  BY <1>1 DEF CacheInvariant, FilesTold, IsFile
<1>3. \A g \in Filenames : since[g] \subseteq since'[g] /\ ever[g] \subseteq ever'[g]
  BY <1>1
<1>4. \A key \in DOMAIN cache : TemplateRight(since', ever', key, cache[key])
  <2> TAKE key \in DOMAIN cache
  <2>1. key \in Keys /\ TemplateRight(since, ever, key, cache[key])
    BY DEF CacheInvariant, CacheRight
  <2> QED  BY <1>3, <2>1, MoreTold
<1>5. CacheRight(since', ever', cache')
  BY <1>1, <1>4 DEF CacheInvariant, CacheRight
<1>6. ViewsCached'
  BY DEF Becomes, CacheInvariant, ViewsCached
<1> QED  BY <1>2, <1>5, <1>6 DEF CacheInvariant

\* Whatever happens to the files and the caches, a template that is ready was parsed from
\* a text that its file has had, one of the time of a text it has had since the caches
\* were reset; one that is refused deserved it then; and the map of pages names
\* templates that the cache has (web_view.cpp 190-231, template.cc 1177-1217, 1522-1652).
THEOREM TemplatesAreFresh == CacheSpec => []FreshTemplates
<1>1. (\E s \in Situations : CacheInit(s)) => CacheInvariant
  <2> SUFFICES ASSUME NEW s \in Situations, CacheInit(s)
               PROVE  CacheInvariant
    OBVIOUS
  <2>1. FilesTold
    <3>1. \A f \in Filenames :
            disk[f] = <<[text |-> s.disk[f], mtime |-> 1]>> /\ since[f] = {disk[f]}
            /\ ever[f] = {disk[f]}
      BY DEF CacheInit, FromNow
    <3>2. /\ disk = [f \in Filenames |-> disk[f]]
          /\ DOMAIN since = Filenames /\ DOMAIN ever = Filenames
      BY DEF CacheInit, FromNow
    <3>3. \A f \in Filenames : IsFile(disk[f])
      <4> TAKE f \in Filenames
      <4>1. IsFile(<<[text |-> s.disk[f], mtime |-> 1]>>)
        BY WrittenFile
      <4> QED  BY <3>1, <4>1
    <3> QED  BY <3>1, <3>2, <3>3 DEF FilesTold
  <2>2. DOMAIN cache = {} /\ ViewsCached
    BY DEF CacheInit, ForgotViews, ViewsCached
  <2> QED  BY <2>1, <2>2 DEF CacheInvariant, CacheRight
<1>2. CacheInvariant /\ [CacheNext]_cacheVars => CacheInvariant'
  <2> SUFFICES ASSUME CacheInvariant, [CacheNext]_cacheVars
               PROVE  CacheInvariant'
    OBVIOUS
  <2>1. ASSUME NEW f \in Filenames, EditFile(f)
        PROVE  CacheInvariant'
    <3>1. PICK t \in NewTexts : Becomes(f, <<[text |-> t, mtime |-> clock']>>)
      BY <2>1 DEF EditFile
    <3> QED  BY <3>1, WrittenFile, BecomesRight
  <2>2. ASSUME NEW f \in Filenames, RemoveFile(f)
        PROVE  CacheInvariant'
    BY <2>2, BecomesRight DEF RemoveFile, IsFile
  <2>3. CASE UNCHANGED cacheVars
    <3>1. UNCHANGED <<fileVars, since>> /\ cache' = cache
      BY <2>3 DEF cacheVars
    <3>2. ViewsCached'
      BY <2>3 DEF cacheVars, CacheInvariant, ViewsCached
    <3> QED  BY <3>1, <3>2, CacheStepRight DEF CacheInvariant
  <2> QED  BY <2>1, <2>2, <2>3, UsePageRight, ReloadIfChangedRight, ReloadAllRight,
              ClearCacheRight DEF CacheNext
<1>3. CacheInvariant => FreshTemplates
  BY CacheInvariantFresh
<1> QED  BY <1>1, <1>2, <1>3, PTL DEF CacheSpec
=============================================================================
