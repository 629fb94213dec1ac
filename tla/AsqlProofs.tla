----------------------------- MODULE AsqlProofs -----------------------------
(***************************************************************************)
(* Theorems about Asql, for any number of threads, any transactions and    *)
(* any failures:                                                           *)
(*                                                                         *)
(*   SavedWhole             Spec => []AllOrNothing                         *)
(*   NoneLostUnseen         Spec => []NothingLostUnseen                    *)
(*   EachCalledOnce         Spec => []CalledOnce                           *)
(*                                                                         *)
(* Pool says which threads run while the connection is started, so that    *)
(* m_threads counts them.  Row says that a queue is a row of transactions, *)
(* of the first of which some queries may be gone; Placed, that those are  *)
(* what the thread's session has changed, unless one was cancelled.        *)
(*                                                                         *)
(* Apart says that a query is in one queue, with one thread or over, so    *)
(* that it is executed once; Errors, that the error it got is not taken    *)
(* back; Calls, whose callback a thread is about to call; Hears, that a    *)
(* transaction dumped in part has told so or is about to.                  *)
(***************************************************************************)
EXTENDS Asql, FiniteSetTheorems, SequenceTheorems, WellFoundedInduction, TLAPS

Running == {id \in Threads : pc[id] \notin {"off", "begin"}}

Pool ==
  /\ app.what \in {"stopped", "starting", "awaiting", "running", "notifying", "joining"}
  /\ \A id \in Threads : pc[id] = "begin" => app = Doing("awaiting", id)
  /\ app.what = "awaiting" => app.thread = m_threads
  /\ app.what \in {"starting", "awaiting"} =>
       ~terminateBool /\ \A id \in Threads : id \in Running <=> id < m_threads
  /\ app.what = "stopped" => m_threads = 0

-----------------------------------------------------------------------------
\* e is the entry of the k-th query of t.
Entry(t, k) == [query |-> t[k], commit |-> k = Len(t)]
Entries     == [query : Queries, commit : BOOLEAN]

\* The queries of a transaction follow each other.
Row(s) ==
  /\ s \in Seq(Entries)
  /\ \A j \in 1..Len(s) : \E t \in Transactions : \E k \in 1..Len(t) : s[j] = Entry(t, k)
  /\ \A j \in 1..Len(s), t \in Transactions : \A k \in 1..(Len(t) - 1) :
       s[j] = Entry(t, k) => j + 1 \in 1..Len(s) /\ s[j + 1] = Entry(t, k + 1)
  /\ \A j \in 2..Len(s), t \in Transactions : \A k \in 2..Len(t) :
       s[j] = Entry(t, k) => s[j - 1] = Entry(t, k - 1)

\* A row goes on with a new transaction; or with what follows the k-th query of t.
Fresh(s)       == s # <<>> => \E t \in Transactions : s[1] = Entry(t, 1)
GoesOn(s, t, k) == IF k < Len(t) THEN s # <<>> /\ s[1] = Entry(t, k + 1) ELSE Fresh(s)

\* What a session has changed.
Done(t, k)    == {t[i] : i \in 1..k}
Has(id, t, k) == /\ session[id] \subseteq ToSet(t)
                 /\ session[id] = Done(t, k) \/ ToSet(t) \cap m_cancel # {}

Clean(id)         == session[id] = {} /\ Fresh(queue[id])
Partly(id, t, k)  == k < Len(t) /\ GoesOn(queue[id], t, k) /\ Has(id, t, k)

Idle == {"off", "begin", "check", "fetch", "wait"}

\* Where a thread that is busy with the k-th query of t is.
Busy(id, t, k) ==
  /\ querySet[id] = Entry(t, k)
  /\ pc[id] # "callback" => GoesOn(queue[id], t, k)
  /\ pc[id] = "execute" => Has(id, t, k - 1)
  /\ pc[id] \in {"results", "end", "commit"} => Has(id, t, k)
  /\ pc[id] = "failed" => session[id] \subseteq ToSet(t)
  /\ pc[id] = "dump" => session[id] = {}
  /\ pc[id] = "callback" => Clean(id) \/ Partly(id, t, k)

Placed(id) ==
  IF pc[id] \in Idle
    THEN Clean(id) \/ \E t \in Transactions : \E k \in 1..Len(t) : Partly(id, t, k)
    ELSE \E t \in Transactions : \E k \in 1..Len(t) : Busy(id, t, k)

Typed ==
  /\ queue \in [Threads -> Seq(Entries)] /\ pc \in [Threads -> Places]
  /\ querySet \in [Threads -> Entries \cup {None}]
  /\ session \in [Threads -> SUBSET Queries]
  /\ m_cancel \subseteq Queries

Saved ==
  \A t \in Transactions :
    ToSet(t) \cap saved = {} \/ ToSet(t) \subseteq saved \/ ToSet(t) \cap m_cancel # {}

\* The rest of TypeOK.
Counted ==
  /\ terminateBool \in BOOLEAN /\ starts \in 0..Restarts
  /\ m_threads = Cardinality(Running)
  /\ saved \cup m_error \cup over \cup dumped \cup unsaved \subseteq Queries

SqlInv == Counted /\ Pool /\ Typed /\ Saved /\ \A id \in Threads : Row(queue[id]) /\ Placed(id)

-----------------------------------------------------------------------------
(* Transactions and rows of them.                                          *)

LEMMA Transacted ==
  ASSUME NEW t \in Transactions
  PROVE  /\ t \in Seq(Queries) /\ Len(t) \in Nat \ {0}
         /\ ToSet(t) = Done(t, Len(t)) /\ ToSet(t) \subseteq Queries
         /\ \A k \in 1..Len(t) : /\ t[k] \in ToSet(t) /\ Entry(t, k) \in Entries
                                /\ Done(t, k) \subseteq ToSet(t)
                                /\ Done(t, k) = Done(t, k - 1) \cup {t[k]}
         /\ Done(t, 0) = {}
<1>1. t \in Seq(Queries) /\ t # <<>>
  BY AsqlAssumption
<1>2. Len(t) \in Nat \ {0} /\ DOMAIN t = 1..Len(t) /\ \A k \in 1..Len(t) : t[k] \in Queries
  BY <1>1
<1>3. ToSet(t) = Done(t, Len(t)) /\ ToSet(t) \subseteq Queries
  BY <1>2 DEF ToSet, Done
<1>4. ASSUME NEW k \in 1..Len(t)
      PROVE  /\ t[k] \in ToSet(t) /\ Entry(t, k) \in Entries
             /\ Done(t, k) \subseteq ToSet(t)
             /\ Done(t, k) = Done(t, k - 1) \cup {t[k]}
  <2>1. t[k] \in ToSet(t) /\ Entry(t, k) \in Entries
    BY <1>2 DEF ToSet, Entry, Entries
  <2>2. Done(t, k) \subseteq ToSet(t)
    BY <1>2 DEF ToSet, Done
  <2>3. \A i \in 1..k : i \in 1..(k - 1) \/ i = k
    BY <1>2
  <2>4. \A i \in 1..(k - 1) : i \in 1..k
    BY <1>2
  <2>5. k \in 1..k
    BY <1>2
  <2> QED
    BY <2>1, <2>2, <2>3, <2>4, <2>5 DEF Done
<1>5. Done(t, 0) = {}
  BY DEF Done
<1> QED
  BY <1>1, <1>2, <1>3, <1>4, <1>5

\* A query is in one transaction, in one place.
LEMMA SameQuery ==
  ASSUME NEW t \in Transactions, NEW u \in Transactions,
         NEW k \in 1..Len(t), NEW j \in 1..Len(u), t[k] = u[j]
  PROVE  t = u /\ k = j
<1>1. t[k] \in ToSet(t) \cap ToSet(u)
  BY Transacted
<1>2. t = u
  BY <1>1, AsqlAssumption
<1>3. DOMAIN t = 1..Len(t) /\ IsInjective(t)
  BY Transacted, AsqlAssumption
<1> QED
  BY <1>2, <1>3 DEF IsInjective

LEMMA OnePlace ==
  ASSUME NEW t \in Transactions, NEW u \in Transactions,
         NEW k \in 1..Len(t), NEW j \in 1..Len(u), Entry(t, k) = Entry(u, j)
  PROVE  t = u /\ k = j
BY SameQuery DEF Entry

LEMMA SetsOf ==
  ASSUME NEW t \in Transactions
  PROVE  /\ Sets(t) \in Seq(Entries) /\ Len(Sets(t)) = Len(t)
         /\ \A k \in 1..Len(t) : Sets(t)[k] = Entry(t, k)
<1>1. Len(t) \in Nat /\ DOMAIN t = 1..Len(t) /\ \A k \in 1..Len(t) : Entry(t, k) \in Entries
  BY Transacted
<1>2. Sets(t) = [k \in 1..Len(t) |-> Entry(t, k)]
  BY <1>1 DEF Sets, Entry
<1> QED
  BY <1>1, <1>2

LEMMA EmptyRow == Row(<<>>) /\ Fresh(<<>>)
BY DEF Row, Fresh

\* What is behind the first of a row goes on with its transaction.
LEMMA TailOfRow ==
  ASSUME NEW s, Row(s), s # <<>>
  PROVE  /\ Row(Tail(s)) /\ Head(s) = s[1] /\ Head(s) \in Entries
         /\ \A t \in Transactions : \A k \in 1..Len(t) : s[1] = Entry(t, k) => GoesOn(Tail(s), t, k)
<1>1. /\ s \in Seq(Entries) /\ Len(s) \in Nat \ {0} /\ Head(s) = s[1] /\ Head(s) \in Entries
      /\ Tail(s) \in Seq(Entries) /\ Len(Tail(s)) = Len(s) - 1
      /\ \A j \in 1..(Len(s) - 1) : Tail(s)[j] = s[j + 1]
  BY DEF Row
<1>2. \A j \in 1..Len(Tail(s)) : j + 1 \in 1..Len(s) /\ Tail(s)[j] = s[j + 1]
  BY <1>1
<1>3. Row(Tail(s))
  <2>1. ASSUME NEW j \in 1..Len(Tail(s))
        PROVE  \E t \in Transactions : \E k \in 1..Len(t) : Tail(s)[j] = Entry(t, k)
    BY <1>2 DEF Row
  <2>2. ASSUME NEW j \in 1..Len(Tail(s)), NEW t \in Transactions, NEW k \in 1..(Len(t) - 1),
               Tail(s)[j] = Entry(t, k)
        PROVE  j + 1 \in 1..Len(Tail(s)) /\ Tail(s)[j + 1] = Entry(t, k + 1)
    <3>1. (j + 1) + 1 \in 1..Len(s) /\ s[(j + 1) + 1] = Entry(t, k + 1)
      BY <1>2, <2>2 DEF Row
    <3>2. j + 1 \in 1..Len(Tail(s))
      BY <1>1, <3>1
    <3> QED
      BY <1>2, <3>1, <3>2
  <2>3. ASSUME NEW j \in 2..Len(Tail(s)), NEW t \in Transactions, NEW k \in 2..Len(t),
               Tail(s)[j] = Entry(t, k)
        PROVE  Tail(s)[j - 1] = Entry(t, k - 1)
    <3>1. j \in 1..Len(Tail(s)) /\ j + 1 \in 2..Len(s) /\ j - 1 \in 1..Len(Tail(s))
          /\ (j - 1) + 1 = j /\ (j + 1) - 1 = j
      BY <1>1
    <3>2. s[(j + 1) - 1] = Entry(t, k - 1)
      BY <1>2, <2>3, <3>1 DEF Row
    <3> QED
      BY <1>2, <3>1, <3>2
  <2> QED
    BY <1>1, <2>1, <2>2, <2>3 DEF Row
<1>4. ASSUME NEW t \in Transactions, NEW k \in 1..Len(t), s[1] = Entry(t, k)
      PROVE  GoesOn(Tail(s), t, k)
  <2>1. Len(t) \in Nat
    BY Transacted
  <2>2. CASE k < Len(t)
    <3>1. k \in 1..(Len(t) - 1) /\ 1 \in 1..Len(s)
      BY <1>1, <2>1, <2>2
    <3>2. 1 + 1 \in 1..Len(s) /\ s[1 + 1] = Entry(t, k + 1)
      BY <1>4, <3>1 DEF Row
    <3>3. 1 \in 1..Len(Tail(s))
      BY <1>1, <3>2
    <3>4. Len(Tail(s)) # 0 /\ Len(<<>>) = 0
      BY <1>1, <3>3, EmptySeq
    <3>5. Tail(s) # <<>>
      BY <3>4
    <3> QED
      BY <1>2, <2>2, <3>2, <3>3, <3>5 DEF GoesOn
  <2>3. CASE ~(k < Len(t)) /\ Tail(s) # <<>>
    <3>1. 1 \in 1..Len(Tail(s)) /\ 2 \in 2..Len(s) /\ 2 \in 1..Len(s) /\ Tail(s)[1] = s[2]
      BY <1>1, <2>3
    <3>2. PICK u \in Transactions : \E i \in 1..Len(u) : s[2] = Entry(u, i)
      BY <3>1 DEF Row
    <3>3. PICK i \in 1..Len(u) : s[2] = Entry(u, i)
      BY <3>2
    <3>4. Len(u) \in Nat
      BY Transacted
    <3>5. CASE i # 1
      <4>1. i \in 2..Len(u) /\ i - 1 \in 1..Len(u) /\ i - 1 # Len(u) /\ k = Len(t)
        BY <2>1, <2>3, <3>4, <3>5
      <4>2. s[2 - 1] = Entry(u, i - 1)
        BY <3>1, <3>3, <4>1 DEF Row
      <4>3. Entry(u, i - 1).commit = Entry(t, k).commit
        BY <1>4, <4>2
      <4> QED
        BY <4>1, <4>3 DEF Entry
    <3>6. CASE i = 1
      BY <2>3, <3>1, <3>3, <3>6 DEF GoesOn, Fresh
    <3> QED
      BY <3>5, <3>6
  <2>4. CASE ~(k < Len(t)) /\ Tail(s) = <<>>
    BY <2>4 DEF GoesOn, Fresh
  <2> QED
    BY <2>2, <2>3, <2>4
<1> QED
  BY <1>1, <1>3, <1>4

\* A transaction is put behind a row as a whole.
LEMMA RowAndMore ==
  ASSUME NEW s, Row(s), NEW t \in Transactions
  PROVE  /\ Row(s \o Sets(t))
         /\ Fresh(s) => Fresh(s \o Sets(t))
         /\ \A u \in Transactions : \A k \in 1..Len(u) :
              GoesOn(s, u, k) => GoesOn(s \o Sets(t), u, k)
<1> DEFINE r == s \o Sets(t)
<1>1. /\ s \in Seq(Entries) /\ Len(s) \in Nat /\ Len(t) \in Nat \ {0}
      /\ Sets(t) \in Seq(Entries) /\ Len(Sets(t)) = Len(t)
      /\ \A k \in 1..Len(t) : Sets(t)[k] = Entry(t, k)
  BY SetsOf, Transacted DEF Row
<1>2. /\ r \in Seq(Entries) /\ Len(r) = Len(s) + Len(t)
      /\ \A j \in 1..(Len(s) + Len(t)) :
           r[j] = IF j <= Len(s) THEN s[j] ELSE Sets(t)[j - Len(s)]
  BY <1>1, ConcatProperties
<1> HIDE DEF r
<1>3. \A j \in 1..Len(s) : j \in 1..Len(r) /\ r[j] = s[j]
  BY <1>1, <1>2
<1>4. \A k \in 1..Len(t) : Len(s) + k \in 1..Len(r) /\ r[Len(s) + k] = Entry(t, k)
  <2>1. ASSUME NEW k \in 1..Len(t)
        PROVE  Len(s) + k \in 1..Len(r) /\ r[Len(s) + k] = Entry(t, k)
    <3>1. /\ Len(s) + k \in 1..(Len(s) + Len(t)) /\ ~(Len(s) + k <= Len(s))
          /\ (Len(s) + k) - Len(s) = k
      BY <1>1
    <3> QED
      BY <1>1, <1>2, <3>1
  <2> QED
    BY <2>1
<1>5. \A j \in 1..Len(r) : j \in 1..Len(s) \/ \E k \in 1..Len(t) : j = Len(s) + k
  <2>1. ASSUME NEW j \in 1..Len(r), j \notin 1..Len(s)
        PROVE  \E k \in 1..Len(t) : j = Len(s) + k
    <3>1. j - Len(s) \in 1..Len(t) /\ j = Len(s) + (j - Len(s))
      BY <1>1, <1>2, <2>1
    <3> QED
      BY <3>1
  <2> QED
    BY <2>1
<1>6. Row(r)
  <2>1. ASSUME NEW j \in 1..Len(r)
        PROVE  \E u \in Transactions : \E k \in 1..Len(u) : r[j] = Entry(u, k)
    <3>1. CASE j \in 1..Len(s)
      BY <1>3, <3>1 DEF Row
    <3>2. CASE \E k \in 1..Len(t) : j = Len(s) + k
      BY <1>4, <3>2
    <3> QED
      BY <1>5, <3>1, <3>2
  <2>2. ASSUME NEW j \in 1..Len(r), NEW u \in Transactions, NEW k \in 1..(Len(u) - 1),
               r[j] = Entry(u, k)
        PROVE  j + 1 \in 1..Len(r) /\ r[j + 1] = Entry(u, k + 1)
    <3>1. CASE j \in 1..Len(s)
      <4>1. j + 1 \in 1..Len(s) /\ s[j + 1] = Entry(u, k + 1)
        BY <1>3, <2>2, <3>1 DEF Row
      <4> QED
        BY <1>3, <4>1
    <3>2. ASSUME NEW i \in 1..Len(t), j = Len(s) + i
          PROVE  j + 1 \in 1..Len(r) /\ r[j + 1] = Entry(u, k + 1)
      <4>1. Len(u) \in Nat /\ k \in 1..Len(u) /\ Entry(t, i) = Entry(u, k)
        BY <1>4, <2>2, <3>2, Transacted
      <4>2. u = t /\ k = i
        BY <4>1, OnePlace
      <4>3. i + 1 \in 1..Len(t) /\ j + 1 = Len(s) + (i + 1)
        BY <1>1, <3>2, <4>1, <4>2
      <4> QED
        BY <1>4, <4>2, <4>3
    <3> QED
      BY <1>5, <3>1, <3>2
  <2>3. ASSUME NEW j \in 2..Len(r), NEW u \in Transactions, NEW k \in 2..Len(u),
               r[j] = Entry(u, k)
        PROVE  r[j - 1] = Entry(u, k - 1)
    <3>1. Len(r) \in Nat /\ j \in 1..Len(r)
      BY <1>1, <1>2
    <3>2. CASE j \in 1..Len(s)
      <4>1. j \in 2..Len(s) /\ j - 1 \in 1..Len(s)
        BY <1>1, <3>2
      <4>2. s[j - 1] = Entry(u, k - 1)
        BY <1>3, <2>3, <3>2, <4>1 DEF Row
      <4> QED
        BY <1>3, <4>1, <4>2
    <3>3. ASSUME NEW i \in 1..Len(t), j = Len(s) + i
          PROVE  r[j - 1] = Entry(u, k - 1)
      <4>1. Len(u) \in Nat /\ k \in 1..Len(u) /\ Entry(t, i) = Entry(u, k)
        BY <1>4, <2>3, <3>3, Transacted
      <4>2. u = t /\ k = i
        BY <4>1, OnePlace
      <4>3. i - 1 \in 1..Len(t) /\ j - 1 = Len(s) + (i - 1)
        BY <1>1, <3>3, <4>1, <4>2
      <4> QED
        BY <1>4, <4>2, <4>3
    <3> QED
      BY <1>5, <3>1, <3>2, <3>3
  <2> QED
    BY <1>2, <2>1, <2>2, <2>3 DEF Row
<1>7. s # <<>> => r # <<>> /\ r[1] = s[1]
  BY <1>1, <1>2
<1>8. s = <<>> => r[1] = Entry(t, 1)
  BY <1>1, <1>4
<1>9. Fresh(s) => Fresh(r)
  BY <1>7, <1>8 DEF Fresh
<1>10. \A u \in Transactions : \A k \in 1..Len(u) : GoesOn(s, u, k) => GoesOn(r, u, k)
  BY <1>7, <1>9 DEF GoesOn
<1> QED
  BY <1>6, <1>9, <1>10 DEF r

-----------------------------------------------------------------------------
(* Which threads run.                                                      *)

LEMMA ThreadsFinite ==
  /\ IsFiniteSet(Threads) /\ IsFiniteSet(Running) /\ Cardinality(Running) \in Nat
  /\ Cardinality(Running) = 0 <=> Running = {}
<1>1. IsFiniteSet(Threads)
  BY FS_Interval, AsqlAssumption DEF Threads
<1>2. IsFiniteSet(Running)
  BY <1>1, FS_Subset DEF Running
<1> QED
  BY <1>1, <1>2, FS_CardinalityType, FS_EmptySet

Counts == m_threads = Cardinality(Running)

\* A step that leaves the connection's state alone and makes no thread run or end.
LEMMA PoolAside ==
  ASSUME Pool, Counts, UNCHANGED <<terminateBool, m_threads, app>>,
         \A id \in Threads : pc'[id] = pc[id] \/ /\ pc[id] \notin {"off", "begin"}
                                                 /\ pc'[id] \notin {"off", "begin"}
  PROVE  Pool' /\ Counts'
<1>1. Running' = Running
  BY DEF Running
<1>2. Counts'
  BY <1>1 DEF Counts
<1>3. \A id \in Threads : pc'[id] = "begin" => pc[id] = "begin"
  OBVIOUS
<1> QED
  BY <1>1, <1>2, <1>3 DEF Pool

LEMMA NotifiedRuns ==
  ASSUME NEW n, Typed, pc' = Notified(n)
  PROVE  \A id \in Threads : \/ pc'[id] = pc[id]
                             \/ pc[id] = "wait" /\ pc'[id] = "check"
BY DEF Typed, Notified

LEMMA GoesRuns ==
  ASSUME NEW id \in Threads, NEW from, NEW to, Typed,
         from \notin {"off", "begin"}, to \notin {"off", "begin"}, Goes(id, from, to)
  PROVE  \A i \in Threads : pc'[i] = pc[i] \/ /\ pc[i] \notin {"off", "begin"}
                                              /\ pc'[i] \notin {"off", "begin"}
BY DEF Typed, Goes

LEMMA PoolOfApp ==
  ASSUME Typed, Pool, Counts, Start \/ Terminate \/ App
  PROVE  Pool' /\ Counts'
<1>0. m_threads \in Nat /\ MaxThreads \in Nat \ {0} /\ pc \in [Threads -> Places]
  BY ThreadsFinite, AsqlAssumption DEF Counts, Typed
<1>1. CASE Start
  <2>1. pc' = pc /\ Running' = Running /\ m_threads' = m_threads
    BY <1>1 DEF Start, Running
  <2>2. m_threads = 0 /\ Running = {}
    BY <1>1, ThreadsFinite DEF Start, Pool, Counts
  <2>3. \A id \in Threads : ~(id < m_threads) /\ pc[id] # "begin"
    BY <1>1, <2>2, AsqlAssumption DEF Threads, Start, Pool, Doing
  <2> QED
    BY <1>1, <2>1, <2>2, <2>3 DEF Start, Pool, Counts, Doing
<1>2. CASE Spawn /\ m_threads < MaxThreads
  <2>1. m_threads \in Threads
    BY <1>0, <1>2 DEF Threads
  <2>2. m_threads \notin Running /\ \A id \in Threads : pc[id] # "begin"
    BY <1>0, <1>2, <2>1 DEF Spawn, Pool, Doing
  <2>3. /\ pc' = [pc EXCEPT ![m_threads] = "begin"] /\ app' = Doing("awaiting", m_threads)
        /\ UNCHANGED <<terminateBool, m_threads>> /\ app.what = "starting"
    BY <1>2 DEF Spawn
  <2>4. \A id \in Threads : pc'[id] = IF id = m_threads THEN "begin" ELSE pc[id]
    BY <1>0, <2>3
  <2>5. Running' = Running
    BY <2>1, <2>2, <2>4 DEF Running
  <2> QED
    BY <2>2, <2>3, <2>4, <2>5 DEF Pool, Counts, Doing
<1>3. CASE Spawn /\ ~(m_threads < MaxThreads)
  <2>1. /\ UNCHANGED <<pc, terminateBool, m_threads>> /\ app' = Doing("running", 0)
        /\ app.what = "starting" /\ Running' = Running
    BY <1>3 DEF Spawn, Running
  <2> QED
    BY <2>1 DEF Pool, Counts, Doing
<1>4. CASE Terminate
  <2>1. /\ UNCHANGED <<pc, m_threads>> /\ app' = Doing("notifying", 0)
        /\ app.what = "running" /\ Running' = Running
    BY <1>4 DEF Terminate, Running
  <2> QED
    BY <2>1 DEF Pool, Counts, Doing
<1>5. CASE NotifyTermination
  <2>1. \A id \in Threads : pc'[id] = pc[id] \/ (pc[id] = "wait" /\ pc'[id] = "check")
    <3>1. PICK n : pc' = Notified(n)
      BY <1>5 DEF NotifyTermination
    <3> QED
      BY <3>1, NotifiedRuns
  <2>2. Running' = Running
    BY <2>1 DEF Running
  <2>3. /\ UNCHANGED m_threads /\ app.what = "notifying"
        /\ app'.what \in {"notifying", "joining"}
    BY <1>5 DEF NotifyTermination, Doing
  <2> QED
    BY <2>1, <2>2, <2>3 DEF Pool, Counts, Doing
<1>6. CASE Join
  <2>1. /\ UNCHANGED <<pc, m_threads>> /\ app' = Doing("stopped", 0)
        /\ app.what = "joining" /\ m_threads = 0
    BY <1>6 DEF Join
  <2>2. Counts'
    BY <2>1 DEF Running, Counts
  <2>3. \A id \in Threads : pc'[id] # "begin"
    BY <2>1 DEF Pool, Doing
  <2> QED
    BY <2>1, <2>2, <2>3 DEF Pool, Doing
<1> QED
  BY <1>1, <1>2, <1>3, <1>4, <1>5, <1>6 DEF App

LEMMA PoolOfBegin ==
  ASSUME Typed, Pool, Counts, NEW id \in Threads, Begin(id)
  PROVE  Pool' /\ Counts'
<1>1. m_threads \in Nat /\ id \in Int /\ \A i \in Threads : i \in Int
  BY ThreadsFinite, AsqlAssumption DEF Counts, Threads
<1>2. app = Doing("awaiting", id) /\ id = m_threads /\ ~terminateBool
  BY DEF Pool, Begin, Doing
<1>3. /\ m_threads' = m_threads + 1 /\ app' = Doing("starting", 0)
      /\ terminateBool' = terminateBool /\ pc[id] = "begin"
      /\ \A i \in Threads : pc'[i] = IF i = id THEN "check" ELSE pc[i]
  BY DEF Begin, Typed
<1>4. Running' = Running \cup {id} /\ id \notin Running
  BY <1>3 DEF Running
<1>5. Counts'
  BY <1>3, <1>4, ThreadsFinite, FS_AddElement DEF Counts
<1>6. \A i \in Threads : pc'[i] # "begin"
  BY <1>2, <1>3 DEF Pool, Doing
<1>7. \A i \in Threads : i \in Running' <=> i < m_threads'
  BY <1>1, <1>2, <1>3, <1>4 DEF Pool, Doing
<1> QED
  BY <1>2, <1>3, <1>5, <1>6, <1>7 DEF Pool, Doing

LEMMA PoolOfCheck ==
  ASSUME Typed, Pool, Counts, NEW id \in Threads, Check(id)
  PROVE  Pool' /\ Counts'
<1>1. CASE terminateBool
  <2>1. /\ m_threads' = m_threads - 1 /\ app' = app /\ terminateBool' = terminateBool
        /\ \A i \in Threads : pc'[i] = IF i = id THEN "off" ELSE pc[i]
        /\ pc[id] = "check"
    BY <1>1 DEF Check, Typed
  <2>2. Running' = Running \ {id} /\ id \in Running
    BY <2>1 DEF Running
  <2>3. Counts'
    BY <2>1, <2>2, ThreadsFinite, FS_RemoveElement DEF Counts
  <2>4. app.what \notin {"stopped", "starting", "awaiting"}
    BY <1>1, <2>2, ThreadsFinite DEF Pool, Counts
  <2>5. \A i \in Threads : pc'[i] # "begin"
    BY <2>1, <2>4 DEF Pool, Doing
  <2> QED
    BY <2>1, <2>3, <2>4, <2>5 DEF Pool
<1>2. CASE ~terminateBool
  <2>1. Goes(id, "check", "fetch") /\ UNCHANGED <<terminateBool, m_threads, app>>
    BY <1>2 DEF Check, Goes
  <2> QED
    BY <2>1, GoesRuns, PoolAside
<1> QED
  BY <1>1, <1>2
\* The steps of a thread that runs, and of those that queue and cancel.
LEMMA PoolOfWork ==
  ASSUME Typed, Pool, Counts, NEW id \in Threads,
         \/ Wait(id) \/ Fetch(id) \/ Statement(id) \/ Commit(id) \/ Failed(id) \/ Dump(id)
         \/ Callback(id)
  PROVE  Pool' /\ Counts'
<1>1. UNCHANGED <<terminateBool, m_threads, app>>
  BY DEF Wait, Fetch, Statement, Execute, Results, End, Commit, Failed, Dump, Callback
<1>2. CASE Wait(id) \/ Fetch(id) \/ End(id) \/ Commit(id) \/ Failed(id) \/ Dump(id) \/ Callback(id)
  <2>1. \/ Goes(id, "fetch", "wait") \/ Goes(id, "fetch", "execute") \/ Goes(id, "end", "commit")
        \/ Goes(id, "commit", "callback") \/ Goes(id, "failed", "dump")
        \/ Goes(id, "dump", "callback") \/ Goes(id, "callback", "check")
    BY <1>2 DEF Wait, Fetch, End, Commit, Failed, Dump, Callback
  <2> QED
    BY <1>1, <2>1, GoesRuns, PoolAside
<1>3. CASE Execute(id) \/ Results(id)
  <2>1. \/ Goes(id, "execute", "end") \/ Goes(id, "execute", "failed")
        \/ Goes(id, "execute", "results") \/ Goes(id, "results", "failed")
        \/ Goes(id, "results", "end")
    BY <1>3 DEF Execute, Results, Fails, Goes
  <2> QED
    BY <1>1, <2>1, GoesRuns, PoolAside
<1> QED
  BY <1>2, <1>3 DEF Statement

LEMMA PoolStep ==
  ASSUME Typed, Pool, Counts, [Next]_vars
  PROVE  Pool' /\ Counts'
<1>1. CASE UNCHANGED vars
  BY <1>1, PoolAside DEF vars
<1>2. ASSUME NEW t \in Transactions, NEW n \in Threads, Queue(t, n)
      PROVE  Pool' /\ Counts'
  <2>1. pc' = Notified(n) /\ UNCHANGED <<terminateBool, m_threads, app>>
    BY <1>2 DEF Queue
  <2> QED
    BY <2>1, NotifiedRuns, PoolAside
<1>3. ASSUME NEW q \in MayCancel, Cancel(q)
      PROVE  Pool' /\ Counts'
  BY <1>3, PoolAside DEF Cancel
<1>4. ASSUME NEW id \in Threads, Step(id)
      PROVE  Pool' /\ Counts'
  BY <1>4, PoolOfBegin, PoolOfCheck, PoolOfWork DEF Step
<1> QED
  BY <1>1, <1>2, <1>3, <1>4, PoolOfApp DEF Next

-----------------------------------------------------------------------------
(* The types.                                                              *)

Rest ==
  /\ terminateBool \in BOOLEAN /\ starts \in 0..Restarts
  /\ saved \cup m_error \cup over \cup dumped \cup unsaved \subseteq Queries

\* The query of a thread that is busy is one.
LEMMA BusyWith ==
  ASSUME NEW id \in Threads, Placed(id), pc[id] \notin Idle
  PROVE  querySet[id] \in Entries /\ Query(id) \in Queries
<1>1. PICK t \in Transactions : \E k \in 1..Len(t) : Busy(id, t, k)
  BY DEF Placed
<1>2. PICK k \in 1..Len(t) : Busy(id, t, k)
  BY <1>1
<1>3. querySet[id] \in Entries
  BY <1>2, Transacted DEF Busy
<1> QED
  BY <1>3 DEF Entries, Query

LEMMA TypedOfApp ==
  ASSUME Typed, Pool, Counts, Rest, Start \/ Terminate \/ App
  PROVE  Typed' /\ Rest'
<1>0. MaxThreads \in Nat /\ Restarts \in Nat
  BY AsqlAssumption
<1>1. CASE Start
  <2>0. starts \in 0..Restarts /\ starts < Restarts /\ starts' = starts + 1
    BY <1>1 DEF Start, Rest
  <2>1. starts' \in 0..Restarts
    BY <1>0, <2>0
  <2> QED
    BY <1>1, <2>1 DEF Start, Typed, Rest, shared, history
<1>2. CASE Spawn
  BY <1>2 DEF Spawn, Typed, Rest, Places, shared, history
<1>3. CASE Terminate
  BY <1>3 DEF Terminate, Typed, Rest, shared, history
<1>4. CASE NotifyTermination
  BY <1>4 DEF NotifyTermination, Typed, Rest, Notified, Places, shared, history
<1>5. CASE Join
  BY <1>5 DEF Join, Typed, Rest, shared, history
<1> QED
  BY <1>1, <1>2, <1>3, <1>4, <1>5 DEF App

LEMMA TypedOfQueue ==
  ASSUME Typed, Rest, NEW t \in Transactions, NEW id \in Threads, Queue(t, id)
  PROVE  Typed' /\ Rest'
<1>1. queue[id] \o Sets(t) \in Seq(Entries)
  BY SetsOf, ConcatProperties DEF Typed
<1>2. queue' \in [Threads -> Seq(Entries)]
  BY <1>1 DEF Queue, Typed
<1>3. pc' \in [Threads -> Places]
  BY DEF Queue, Typed, Notified, Places
<1> QED
  BY <1>2, <1>3 DEF Queue, Typed, Rest, shared, history

LEMMA TypedOfStatement ==
  ASSUME Typed, Rest, NEW id \in Threads, Placed(id), Statement(id)
  PROVE  Typed' /\ Rest'
<1>1. pc[id] \notin Idle
  BY DEF Statement, Execute, Results, End, Goes, Idle
<1>2. Query(id) \in Queries
  BY <1>1, BusyWith
<1>3. pc' \in [Threads -> Places]
  BY DEF Statement, Execute, Results, End, Goes, Fails, Typed, Places
<1>4. session' \in [Threads -> SUBSET Queries]
  <2>1. session' = session \/ Changes(id) \/ RollBack(id)
    BY DEF Statement, Execute, Results, End
  <2>2. CASE session' = session
    BY <2>2 DEF Typed
  <2>3. CASE Changes(id)
    BY <1>2, <2>3 DEF Changes, Typed
  <2>4. CASE RollBack(id)
    BY <2>4 DEF RollBack, Typed
  <2> QED
    BY <2>1, <2>2, <2>3, <2>4
<1> QED
  BY <1>3, <1>4 DEF Statement, Execute, Results, End, Typed, Rest, shared, history

LEMMA TypedOfStep ==
  ASSUME Typed, Rest, NEW id \in Threads, Placed(id), Step(id)
  PROVE  Typed' /\ Rest'
<1>1. CASE Begin(id)
  BY <1>1 DEF Begin, Typed, Rest, Places, shared, history
<1>2. CASE Check(id)
  BY <1>2 DEF Check, Typed, Rest, Places, shared, history
<1>3. CASE Wait(id)
  BY <1>3 DEF Wait, Goes, Typed, Rest, Places, shared, history
<1>4. CASE Fetch(id)
  <2>1. Head(queue[id]) \in Entries /\ Tail(queue[id]) \in Seq(Entries)
    BY <1>4, HeadTailProperties DEF Fetch, Typed
  <2>2. queue' \in [Threads -> Seq(Entries)] /\ querySet' \in [Threads -> Entries \cup {None}]
    BY <1>4, <2>1 DEF Fetch, Typed
  <2> QED
    BY <1>4, <2>2 DEF Fetch, Goes, Typed, Rest, Places, shared, history
<1>5. CASE Commit(id)
  <2>1. session' \in [Threads -> SUBSET Queries]
    BY <1>5 DEF Commit, RollBack, Typed
  <2>2. Rest'
    BY <1>5 DEF Commit, Rest, Typed
  <2> QED
    BY <1>5, <2>1, <2>2 DEF Commit, Goes, Typed, Places
<1>6. CASE Failed(id)
  <2>1. Query(id) \in Queries
    BY <1>6, BusyWith DEF Failed, Goes, Idle
  <2>2. session' \in [Threads -> SUBSET Queries]
    BY <1>6 DEF Failed, Undo, RollBack, Typed
  <2> QED
    BY <1>6, <2>1, <2>2 DEF Failed, Goes, Typed, Rest, Places, history
<1>7. CASE Dump(id)
  <2>1. Dumped(id) \subseteq Queries
    <3>1. queue[id] \in Seq(Entries)
      BY DEF Typed
    <3>2. \A k \in DOMAIN queue[id] : queue[id][k] \in Entries
      BY <3>1
    <3> QED
      BY <3>2 DEF Dumped, Entries
  <2>2. queue' \in [Threads -> Seq(Entries)]
    BY <1>7, EmptySeq DEF Dump, Typed
  <2> QED
    BY <1>7, <2>1, <2>2 DEF Dump, Goes, Typed, Rest, Places
<1>8. CASE Callback(id)
  <2>1. Query(id) \in Queries
    BY <1>8, BusyWith DEF Callback, Goes, Idle
  <2> QED
    BY <1>8, <2>1 DEF Callback, Goes, Typed, Rest, Places
<1> QED
  BY <1>1, <1>2, <1>3, <1>4, <1>5, <1>6, <1>7, <1>8, TypedOfStatement DEF Step

LEMMA TypedStep ==
  ASSUME Typed, Pool, Counts, Rest, \A id \in Threads : Placed(id), [Next]_vars
  PROVE  Typed' /\ Rest'
<1>1. CASE UNCHANGED vars
  BY <1>1 DEF vars, Typed, Rest, shared, history
<1>2. ASSUME NEW q \in MayCancel, Cancel(q)
      PROVE  Typed' /\ Rest'
  BY <1>2, AsqlAssumption DEF Cancel, Typed, Rest, history
<1> QED
  BY <1>1, <1>2, TypedOfApp, TypedOfQueue, TypedOfStep DEF Next
-----------------------------------------------------------------------------
(* Where each thread is in its transaction.                                *)

Rows == \A id \in Threads : Row(queue[id])
Kept(id) == Row(queue[id])' /\ Placed(id)'

\* A thread that goes on waiting, or stays where it is, keeps its place: what is
\* cancelled meanwhile and what is queued behind does not matter.
LEMMA PlacedAside ==
  ASSUME NEW id \in Threads, Placed(id), m_cancel \subseteq m_cancel',
         UNCHANGED <<querySet[id], session[id]>>,
         pc'[id] = pc[id] \/ (pc[id] \in Idle /\ pc'[id] \in Idle),
         Fresh(queue[id]) => Fresh(queue'[id]),
         \A t \in Transactions : \A k \in 1..Len(t) :
           GoesOn(queue[id], t, k) => GoesOn(queue'[id], t, k)
  PROVE  Placed(id)'
<1>1. ASSUME NEW t \in Transactions, NEW k \in Nat
      PROVE  Has(id, t, k) => Has(id, t, k)'
  BY DEF Has
<1>2. Clean(id) => Clean(id)'
  BY DEF Clean
<1>3. ASSUME NEW t \in Transactions, NEW k \in 1..Len(t)
      PROVE  Partly(id, t, k) => Partly(id, t, k)'
  BY <1>1 DEF Partly
<1>4. CASE pc[id] \in Idle
  BY <1>2, <1>3, <1>4 DEF Placed
<1>5. ASSUME pc[id] \notin Idle, NEW t \in Transactions, NEW k \in 1..Len(t), Busy(id, t, k)
      PROVE  Busy(id, t, k)'
  <2>1. pc'[id] = pc[id] /\ k \in Nat /\ k - 1 \in Nat
    BY <1>5
  <2> QED
    BY <1>1, <1>2, <1>3, <1>5, <2>1 DEF Busy
<1>6. CASE pc[id] \notin Idle
  <2>1. pc'[id] \notin Idle
    BY <1>6
  <2>2. PICK t \in Transactions : \E k \in 1..Len(t) : Busy(id, t, k)
    BY <1>6 DEF Placed
  <2>3. PICK k \in 1..Len(t) : Busy(id, t, k)
    BY <2>2
  <2>4. Busy(id, t, k)'
    BY <1>5, <1>6, <2>3
  <2> QED
    BY <2>1, <2>4 DEF Placed
<1> QED
  BY <1>4, <1>6

\* So do the threads of which a step changes nothing.
LEMMA KeptAside ==
  ASSUME NEW id \in Threads, Row(queue[id]), Placed(id), m_cancel \subseteq m_cancel',
         UNCHANGED <<queue[id], querySet[id], session[id]>>,
         pc'[id] = pc[id] \/ (pc[id] \in Idle /\ pc'[id] \in Idle)
  PROVE  Kept(id)
BY PlacedAside DEF Kept

\* A thread fetches the first query of a transaction, or the next.
LEMMA KeptByFetch ==
  ASSUME Typed, Typed', NEW id \in Threads, Row(queue[id]), Placed(id), Fetch(id)
  PROVE  Kept(id)
<1>1. /\ queue[id] # <<>> /\ pc[id] = "fetch" /\ pc'[id] = "execute"
      /\ querySet'[id] = Head(queue[id]) /\ queue'[id] = Tail(queue[id])
      /\ UNCHANGED <<session, m_cancel>>
  BY DEF Fetch, Goes, Typed, shared
<1>2. Row(queue'[id]) /\ Head(queue[id]) = queue[id][1]
  BY <1>1, TailOfRow
<1>3. \E t \in Transactions : \E k \in 1..Len(t) :
        queue[id][1] = Entry(t, k) /\ Has(id, t, k - 1)
  <2>1. CASE Clean(id)
    <3>1. PICK t \in Transactions : queue[id][1] = Entry(t, 1)
      BY <1>1, <2>1 DEF Clean, Fresh
    <3>2. 1 \in 1..Len(t) /\ Done(t, 1 - 1) = {}
      BY Transacted
    <3>3. Has(id, t, 1 - 1)
      BY <2>1, <3>2 DEF Clean, Has
    <3> QED
      BY <3>1, <3>2, <3>3
  <2>2. ASSUME NEW t \in Transactions, NEW k \in 1..Len(t), Partly(id, t, k)
        PROVE  \E j \in 1..Len(t) : queue[id][1] = Entry(t, j) /\ Has(id, t, j - 1)
    <3>1. /\ Len(t) \in Nat /\ k < Len(t) /\ Has(id, t, k)
          /\ queue[id][1] = Entry(t, k + 1)
      BY <2>2, Transacted DEF Partly, GoesOn
    <3>2. k + 1 \in 1..Len(t) /\ (k + 1) - 1 = k
      BY <3>1
    <3> QED
      BY <3>1, <3>2
  <2> QED
    BY <1>1, <2>1, <2>2 DEF Placed, Idle
<1>4. PICK t \in Transactions : \E k \in 1..Len(t) :
        queue[id][1] = Entry(t, k) /\ Has(id, t, k - 1)
  BY <1>3
<1>5. PICK k \in 1..Len(t) : queue[id][1] = Entry(t, k) /\ Has(id, t, k - 1)
  BY <1>4
<1>6. GoesOn(queue'[id], t, k)
  BY <1>1, <1>5, TailOfRow
<1>7. Has(id, t, k - 1)'
  BY <1>1, <1>5 DEF Has
<1>8. Busy(id, t, k)'
  BY <1>1, <1>2, <1>5, <1>6, <1>7 DEF Busy
<1>9. Placed(id)'
  BY <1>1, <1>8 DEF Placed, Idle
<1> QED
  BY <1>2, <1>9 DEF Kept
\* The query that is busy, of its transaction.
LEMMA BusyOne ==
  ASSUME NEW id \in Threads, Placed(id), pc[id] \notin Idle
  PROVE  \E t \in Transactions : \E k \in 1..Len(t) :
           Busy(id, t, k) /\ Query(id) = t[k] /\ Query(id) \in ToSet(t)
                          /\ (querySet[id].commit <=> k = Len(t))
<1>1. PICK t \in Transactions : \E k \in 1..Len(t) : Busy(id, t, k)
  BY DEF Placed
<1>2. PICK k \in 1..Len(t) : Busy(id, t, k)
  BY <1>1
<1>3. querySet[id] = Entry(t, k) /\ t[k] \in ToSet(t)
  BY <1>2, Transacted DEF Busy
<1>4. Query(id) = t[k]
  BY <1>3 DEF Entry, Query
<1>5. querySet[id].commit = (k = Len(t))
  BY <1>3 DEF Entry
<1>6. querySet[id].commit <=> k = Len(t)
  BY <1>5, Zenon
<1> QED
  BY <1>2, <1>3, <1>4, <1>6

LEMMA KeptByStatement ==
  ASSUME Typed, Typed', NEW id \in Threads, Row(queue[id]), Placed(id), Statement(id)
  PROVE  Kept(id)
<1>1. UNCHANGED <<queue, querySet, m_cancel>>
  BY DEF Statement, Execute, Results, End, shared
<1>2. pc[id] \in {"execute", "results", "end"} /\ pc[id] \notin Idle
  BY DEF Statement, Execute, Results, End, Goes, Idle
<1>3. PICK t \in Transactions : \E k \in 1..Len(t) :
        Busy(id, t, k) /\ Query(id) = t[k] /\ Query(id) \in ToSet(t)
  BY <1>2, BusyOne
<1>4. PICK k \in 1..Len(t) : Busy(id, t, k) /\ Query(id) = t[k] /\ Query(id) \in ToSet(t)
  BY <1>3
<1>5. /\ querySet'[id] = Entry(t, k) /\ GoesOn(queue'[id], t, k)
      /\ Done(t, k) = Done(t, k - 1) \cup {t[k]}
  BY <1>1, <1>2, <1>4, Transacted DEF Busy
<1>6. Stopped(id) => ToSet(t) \cap m_cancel # {}
  BY <1>4 DEF Stopped
<1>7. CASE Execute(id)
  <2>1. Has(id, t, k - 1) /\ pc[id] = "execute" /\ Row(queue[id])'
    BY <1>1, <1>4, <1>7 DEF Execute, Busy
  <2>2. CASE Stopped(id)
    <3>1. pc'[id] = "end" /\ session' = session
      BY <1>7, <2>2 DEF Execute, Typed
    <3>2. Has(id, t, k)'
      BY <1>1, <1>6, <2>1, <2>2, <3>1 DEF Has
    <3>3. Busy(id, t, k)'
      BY <1>5, <3>1, <3>2 DEF Busy
    <3> QED
      BY <2>1, <3>1, <3>3 DEF Placed, Idle, Kept
  <2>3. CASE ~Stopped(id)
    <3>1. session'[id] = session[id] \cup {t[k]} /\ pc'[id] \in {"failed", "results"}
      BY <1>4, <1>7, <2>3 DEF Execute, Changes, Fails, Typed
    <3>2. Has(id, t, k)'
      BY <1>1, <1>4, <1>5, <2>1, <3>1 DEF Has
    <3>3. session'[id] \subseteq ToSet(t)
      BY <3>2 DEF Has
    <3>4. Busy(id, t, k)'
      BY <1>5, <3>1, <3>2, <3>3 DEF Busy
    <3> QED
      BY <2>1, <3>1, <3>4 DEF Placed, Idle, Kept
  <2> QED
    BY <2>2, <2>3
<1>8. CASE Results(id)
  <2>1. /\ Has(id, t, k) /\ pc'[id] \in {"failed", "end"} /\ session' = session
    BY <1>4, <1>8 DEF Results, Fails, Typed, Busy
  <2>2. Has(id, t, k)' /\ session'[id] \subseteq ToSet(t)
    BY <1>1, <2>1 DEF Has
  <2>3. Busy(id, t, k)'
    BY <1>5, <2>1, <2>2 DEF Busy
  <2> QED
    BY <1>1, <2>1, <2>3 DEF Placed, Idle, Kept
<1>9. CASE End(id)
  <2>1. Has(id, t, k) /\ pc'[id] = "commit"
    BY <1>4, <1>9 DEF End, Goes, Typed, Busy
  <2>2. Has(id, t, k)'
    <3>1. CASE Stopped(id)
      BY <1>1, <1>6, <1>9, <3>1 DEF End, RollBack, Typed, Has
    <3>2. CASE ~Stopped(id)
      BY <1>1, <1>9, <2>1, <3>2 DEF End, Has
    <3> QED
      BY <3>1, <3>2
  <2>3. Busy(id, t, k)'
    BY <1>5, <2>1, <2>2 DEF Busy
  <2> QED
    BY <1>1, <2>1, <2>3 DEF Placed, Idle, Kept
<1> QED
  BY <1>7, <1>8, <1>9 DEF Statement

LEMMA KeptByCommit ==
  ASSUME Typed, Typed', NEW id \in Threads, Row(queue[id]), Placed(id), Commit(id)
  PROVE  Kept(id)
<1>1. /\ pc[id] = "commit" /\ pc'[id] = "callback" /\ pc[id] \notin Idle
      /\ UNCHANGED <<queue, querySet, m_cancel>>
  BY DEF Commit, Goes, Typed, Idle
<1>2. PICK t \in Transactions : \E k \in 1..Len(t) :
        Busy(id, t, k) /\ (querySet[id].commit <=> k = Len(t))
  BY <1>1, BusyOne
<1>3. PICK k \in 1..Len(t) : Busy(id, t, k) /\ (querySet[id].commit <=> k = Len(t))
  BY <1>2
<1>4. /\ querySet'[id] = Entry(t, k) /\ GoesOn(queue[id], t, k) /\ Has(id, t, k)
      /\ Len(t) \in Nat
  BY <1>1, <1>3, Transacted DEF Busy
<1>5. CASE querySet[id].commit
  <2>1. session'[id] = {} /\ k = Len(t)
    BY <1>3, <1>5 DEF Commit, RollBack, Typed
  <2>2. Clean(id)'
    BY <1>1, <1>4, <2>1 DEF Clean, GoesOn
  <2> QED
    BY <1>1, <1>4, <2>2 DEF Busy, Placed, Idle, Kept
<1>6. CASE ~querySet[id].commit
  <2>1. session' = session /\ k < Len(t)
    BY <1>3, <1>4, <1>6 DEF Commit
  <2>2. Has(id, t, k)'
    BY <1>1, <1>4, <2>1 DEF Has
  <2>3. Partly(id, t, k)'
    BY <1>1, <1>4, <2>1, <2>2 DEF Partly
  <2> QED
    BY <1>1, <1>4, <2>3 DEF Busy, Placed, Idle, Kept
<1> QED
  BY <1>5, <1>6

LEMMA KeptByFailure ==
  ASSUME Typed, Typed', NEW id \in Threads, Row(queue[id]), Placed(id), Failed(id) \/ Dump(id)
  PROVE  Kept(id)
<1>1. pc[id] \in {"failed", "dump"} /\ pc[id] \notin Idle /\ UNCHANGED querySet
  BY DEF Failed, Dump, Goes, Idle
<1>2. PICK t \in Transactions : \E k \in 1..Len(t) :
        Busy(id, t, k) /\ (querySet[id].commit <=> k = Len(t))
  BY <1>1, BusyOne
<1>3. PICK k \in 1..Len(t) : Busy(id, t, k) /\ (querySet[id].commit <=> k = Len(t))
  BY <1>2
<1>4. querySet'[id] = Entry(t, k) /\ GoesOn(queue[id], t, k) /\ Len(t) \in Nat
  BY <1>1, <1>3, Transacted DEF Busy
<1>5. CASE Failed(id)
  <2>1. pc'[id] = "dump" /\ queue' = queue /\ session'[id] = {}
    BY <1>5 DEF Failed, Goes, Undo, RollBack, Typed
  <2> QED
    BY <1>4, <2>1 DEF Busy, Placed, Idle, Kept
<1>6. CASE Dump(id)
  <2>1. pc'[id] = "callback" /\ session'[id] = {}
    BY <1>3, <1>6 DEF Dump, Goes, Typed, Busy
  <2>2. Row(queue'[id]) /\ Fresh(queue'[id])
    <3>1. CASE querySet[id].commit
      BY <1>3, <1>4, <1>6, <3>1 DEF Dump, Typed, GoesOn
    <3>2. CASE ~querySet[id].commit
      <4>1. queue'[id] = <<>>
        BY <1>6, <3>2 DEF Dump, Typed
      <4> QED
        BY <4>1, EmptyRow
    <3> QED
      BY <3>1, <3>2
  <2>3. Clean(id)'
    BY <2>1, <2>2 DEF Clean
  <2> QED
    BY <1>4, <2>1, <2>2, <2>3 DEF Busy, Placed, Idle, Kept
<1> QED
  BY <1>5, <1>6

LEMMA KeptByCallback ==
  ASSUME Typed, Typed', NEW id \in Threads, Row(queue[id]), Placed(id), Callback(id)
  PROVE  Kept(id)
<1>1. /\ pc[id] = "callback" /\ pc'[id] = "check" /\ pc[id] \notin Idle
      /\ UNCHANGED <<queue, session, m_cancel>>
  BY DEF Callback, Goes, Typed, Idle
<1>2. PICK t \in Transactions : \E k \in 1..Len(t) : Busy(id, t, k)
  BY <1>1, BusyOne
<1>3. PICK k \in 1..Len(t) : Busy(id, t, k)
  BY <1>2
<1>4. Clean(id) \/ Partly(id, t, k)
  BY <1>1, <1>3 DEF Busy
<1>5. Clean(id)' \/ Partly(id, t, k)'
  BY <1>1, <1>4 DEF Clean, Partly, Has
<1> QED
  BY <1>1, <1>5 DEF Placed, Idle, Kept
\* A step of a thread keeps its own place, and that of the others.
LEMMA KeptByStep ==
  ASSUME Typed, Typed', NEW id \in Threads, Row(queue[id]), Placed(id), Step(id)
  PROVE  Kept(id)
<1>1. CASE Begin(id) \/ Check(id) \/ Wait(id)
  <2>1. pc[id] \in Idle /\ pc'[id] \in Idle /\ UNCHANGED <<queue, querySet, session, m_cancel>>
    BY <1>1 DEF Begin, Check, Wait, Goes, Typed, Idle, shared
  <2> QED
    BY <2>1, KeptAside
<1> QED
  BY <1>1, KeptByFetch, KeptByStatement, KeptByCommit, KeptByFailure, KeptByCallback DEF Step

LEMMA OthersKept ==
  ASSUME Typed, NEW i \in Threads, Step(i), NEW id \in Threads, id # i,
         Row(queue[id]), Placed(id)
  PROVE  Kept(id)
<1>1. m_cancel' = m_cancel
  BY DEF Step, Begin, Check, Wait, Fetch, Statement, Execute, Results, End, Commit, Failed, Dump,
         Callback, shared
<1>2. queue'[id] = queue[id]
  BY DEF Step, Begin, Check, Wait, Fetch, Statement, Execute, Results, End, Commit, Failed, Dump,
         Callback, Typed
<1>3. querySet'[id] = querySet[id]
  BY DEF Step, Begin, Check, Wait, Fetch, Statement, Execute, Results, End, Commit, Failed, Dump,
         Callback, Typed
<1>4. session'[id] = session[id]
  BY DEF Step, Begin, Check, Wait, Fetch, Statement, Execute, Results, End, Commit, Failed, Dump,
         Callback, Changes, Undo, RollBack, Typed
<1>5. pc'[id] = pc[id]
  BY DEF Step, Begin, Check, Wait, Fetch, Statement, Execute, Results, End, Commit, Failed, Dump,
         Callback, Goes, Fails, Typed
<1> QED
  BY <1>1, <1>2, <1>3, <1>4, <1>5, KeptAside

LEMMA KeptByQueue ==
  ASSUME Typed, NEW t \in Transactions, NEW n \in Threads, Queue(t, n),
         NEW id \in Threads, Row(queue[id]), Placed(id)
  PROVE  Kept(id)
<1>1. UNCHANGED <<querySet, session, m_cancel>>
  BY DEF Queue, shared
<1>2. pc'[id] = pc[id] \/ (pc[id] \in Idle /\ pc'[id] \in Idle)
  BY NotifiedRuns DEF Queue, Idle
<1>3. CASE id = n
  <2>1. queue'[id] = queue[id] \o Sets(t)
    BY <1>3 DEF Queue, Typed
  <2>2. Placed(id)'
    BY <1>1, <1>2, <2>1, RowAndMore, PlacedAside
  <2>3. Row(queue[id])'
    BY <2>1, RowAndMore
  <2> QED
    BY <2>2, <2>3 DEF Kept
<1>4. CASE id # n
  <2>1. queue'[id] = queue[id]
    BY <1>4 DEF Queue, Typed
  <2> QED
    BY <1>1, <1>2, <2>1, KeptAside
<1> QED
  BY <1>3, <1>4

LEMMA KeptByApp ==
  ASSUME Typed, Pool, Counts, NEW id \in Threads, Row(queue[id]), Placed(id),
         Start \/ Terminate \/ App
  PROVE  Kept(id)
<1>1. UNCHANGED <<queue, querySet, session, m_cancel>>
  BY DEF Start, Terminate, App, Spawn, NotifyTermination, Join, shared
<1>2. CASE Start \/ Terminate \/ Join
  BY <1>1, <1>2, KeptAside DEF Start, Terminate, Join
<1>3. CASE Spawn
  <2>1. CASE id # m_threads \/ ~(m_threads < MaxThreads)
    <3>1. pc'[id] = pc[id]
      BY <1>3, <2>1 DEF Spawn, Typed
    <3> QED
      BY <1>1, <3>1, KeptAside
  <2>2. CASE id = m_threads /\ m_threads < MaxThreads
    <3>1. m_threads \in Nat
      BY ThreadsFinite DEF Counts
    <3>2. id \notin Running /\ pc'[id] = "begin"
      BY <1>3, <2>2, <3>1 DEF Spawn, Pool, Typed
    <3>3. pc[id] \in Idle /\ pc'[id] \in Idle
      BY <3>2 DEF Running, Idle
    <3> QED
      BY <1>1, <3>3, KeptAside
  <2> QED
    BY <2>1, <2>2
<1>4. CASE NotifyTermination
  <2>1. PICK n : pc' = Notified(n)
    BY <1>4 DEF NotifyTermination
  <2>2. pc'[id] = pc[id] \/ (pc[id] \in Idle /\ pc'[id] \in Idle)
    BY <2>1, NotifiedRuns DEF Idle
  <2> QED
    BY <1>1, <2>2, KeptAside
<1> QED
  BY <1>2, <1>3, <1>4 DEF App

LEMMA KeptStep ==
  ASSUME Typed, Typed', Pool, Counts, NEW id \in Threads, Row(queue[id]), Placed(id), [Next]_vars
  PROVE  Kept(id)
<1>1. CASE UNCHANGED vars
  BY <1>1, KeptAside DEF vars, shared
<1>2. ASSUME NEW q \in MayCancel, Cancel(q)
      PROVE  Kept(id)
  BY <1>2, KeptAside DEF Cancel
<1>3. ASSUME NEW i \in Threads, Step(i)
      PROVE  Kept(id)
  BY <1>3, KeptByStep, OthersKept
<1> QED
  BY <1>1, <1>2, <1>3, KeptByApp, KeptByQueue DEF Next

-----------------------------------------------------------------------------
(* What is saved.                                                          *)

LEMMA SavedByCommit ==
  ASSUME Typed, NEW id \in Threads, Placed(id), Saved, Commit(id)
  PROVE  Saved'
<1>1. pc[id] = "commit" /\ pc[id] \notin Idle /\ m_cancel' = m_cancel
  BY DEF Commit, Goes, Idle
<1>2. PICK t \in Transactions : \E k \in 1..Len(t) :
        Busy(id, t, k) /\ (querySet[id].commit <=> k = Len(t))
  BY <1>1, BusyOne
<1>3. PICK k \in 1..Len(t) : Busy(id, t, k) /\ (querySet[id].commit <=> k = Len(t))
  BY <1>2
<1>4. CASE saved' = saved
  BY <1>1, <1>4 DEF Saved
<1>5. CASE saved' # saved
  <2>1. saved' = saved \cup session[id] /\ querySet[id].commit
    BY <1>5 DEF Commit
  <2>2. Has(id, t, Len(t)) /\ ToSet(t) = Done(t, Len(t))
    BY <1>1, <1>3, <2>1, Transacted DEF Busy
  <2>3. ToSet(t) \subseteq saved' \/ ToSet(t) \cap m_cancel # {}
    BY <2>1, <2>2 DEF Has
  <2>4. ASSUME NEW u \in Transactions, u # t
        PROVE  ToSet(u) \cap saved' = ToSet(u) \cap saved
    <3>1. ToSet(u) \cap ToSet(t) = {}
      BY <2>4, AsqlAssumption
    <3> QED
      BY <2>1, <2>2, <3>1 DEF Has
  <2> QED
    BY <1>1, <2>1, <2>3, <2>4 DEF Saved
<1> QED
  BY <1>4, <1>5

LEMMA SavedStep ==
  ASSUME Typed, \A id \in Threads : Placed(id), Saved, [Next]_vars
  PROVE  Saved'
<1>1. CASE saved' = saved /\ m_cancel \subseteq m_cancel'
  BY <1>1 DEF Saved
<1>2. CASE UNCHANGED vars \/ Start \/ Terminate \/ App
  BY <1>1, <1>2 DEF vars, shared, Start, Terminate, App, Spawn, NotifyTermination, Join
<1>3. ASSUME NEW t \in Transactions, NEW n \in Threads, Queue(t, n)
      PROVE  Saved'
  BY <1>1, <1>3 DEF Queue, shared
<1>4. ASSUME NEW q \in MayCancel, Cancel(q)
      PROVE  Saved'
  BY <1>1, <1>4 DEF Cancel
<1>5. ASSUME NEW id \in Threads, Step(id), ~Commit(id)
      PROVE  Saved'
  BY <1>1, <1>5 DEF Step, Begin, Check, Wait, Fetch, Statement, Execute, Results, End, Failed,
                    Dump, Callback, shared
<1> QED
  BY <1>2, <1>3, <1>4, <1>5, SavedByCommit DEF Next

\* What a session has changed is of one transaction.
LEMMA OfOne ==
  ASSUME Typed, NEW id \in Threads, Placed(id)
  PROVE  session[id] = {} \/ \E u \in Transactions : session[id] \subseteq ToSet(u)
<1>1. CASE pc[id] \in Idle
  BY <1>1 DEF Placed, Clean, Partly, Has
<1>2. ASSUME pc[id] \notin Idle, pc[id] \in Places,
             NEW t \in Transactions, NEW k \in 1..Len(t), Busy(id, t, k)
      PROVE  session[id] = {} \/ session[id] \subseteq ToSet(t)
  BY <1>2 DEF Busy, Clean, Partly, Has, Places, Idle
<1> QED
  BY <1>1, <1>2 DEF Placed, Typed
-----------------------------------------------------------------------------
LEMMA Started == Init => SqlInv
<1> SUFFICES ASSUME Init PROVE SqlInv
  OBVIOUS
<1>1. Restarts \in Nat /\ m_threads = 0 /\ starts = 0
  BY AsqlAssumption DEF Init
<1>2. Running = {}
  BY DEF Init, Running
<1>3. Counted
  <2>1. m_threads = Cardinality(Running) /\ starts \in 0..Restarts
    BY <1>1, <1>2, ThreadsFinite
  <2> QED
    BY <2>1 DEF Counted, Init
<1>4. Pool
  BY DEF Init, Pool, Doing
<1>5. Typed
  BY EmptySeq DEF Init, Connected, Typed, Places
<1>6. Saved
  BY DEF Init, Saved
<1>7. \A id \in Threads : Row(queue[id]) /\ Placed(id)
  BY EmptyRow DEF Init, Connected, Placed, Clean, Idle
<1> QED
  BY <1>3, <1>4, <1>5, <1>6, <1>7 DEF SqlInv

LEMMA SqlStep == SqlInv /\ [Next]_vars => SqlInv'
<1> SUFFICES ASSUME SqlInv, [Next]_vars PROVE SqlInv'
  OBVIOUS
<1>1. Counts /\ Rest
  BY DEF SqlInv, Counted, Counts, Rest
<1>2. Typed' /\ Rest'
  BY <1>1, TypedStep DEF SqlInv
<1>3. Pool' /\ Counts'
  BY <1>1, PoolStep DEF SqlInv
<1>4. Saved'
  BY SavedStep DEF SqlInv
<1>5. \A id \in Threads : (Row(queue[id]) /\ Placed(id))'
  BY <1>1, <1>2, KeptStep DEF SqlInv, Kept
<1> QED
  BY <1>2, <1>3, <1>4, <1>5 DEF SqlInv, Counted, Counts, Rest

LEMMA SqlInvEnough == SqlInv => AllOrNothing
<1> SUFFICES ASSUME SqlInv PROVE AllOrNothing
  OBVIOUS
<1>1. \A id \in Threads : \A k \in DOMAIN queue[id] : queue[id][k].query \in Queries
  <2>1. \A id \in Threads : queue[id] \in Seq(Entries)
    BY DEF SqlInv, Typed
  <2>2. \A id \in Threads : \A k \in DOMAIN queue[id] : queue[id][k] \in Entries
    BY <2>1
  <2> QED
    BY <2>2 DEF Entries
<1>2. \A id \in Threads : /\ session[id] \subseteq Queries
                          /\ querySet[id] = None \/ Query(id) \in Queries
  BY DEF SqlInv, Typed, Entries, Query
<1>3. TypeOK
  BY <1>1, <1>2 DEF SqlInv, Counted, Typed, Running, TypeOK
<1>4. ASSUME NEW t \in Transactions, NEW id \in Threads
      PROVE  ToSet(t) \cap session[id] = {} \/ session[id] \subseteq ToSet(t)
  <2>1. session[id] = {} \/ \E u \in Transactions : session[id] \subseteq ToSet(u)
    BY OfOne DEF SqlInv
  <2> QED
    BY <2>1, AsqlAssumption
<1> QED
  BY <1>3, <1>4 DEF SqlInv, Saved, AllOrNothing

\* A transaction is saved as a whole or not at all, whatever fails, unless one of its
\* queries was cancelled by itself; and sessions never mix transactions
\* (asql.hpp 290-310, 337-361; mysql.cpp 230-236).
THEOREM SavedWhole == Spec => []AllOrNothing
<1>1. Init => SqlInv
  BY Started
<1>2. SqlInv /\ [Next]_vars => SqlInv'
  BY SqlStep
<1>3. SqlInv => AllOrNothing
  BY SqlInvEnough
<1> QED
  BY <1>1, <1>2, <1>3, PTL DEF Spec


-----------------------------------------------------------------------------
(* Where a query is: in one queue, with one thread, or over.               *)

In(s)   == {s[j].query : j \in DOMAIN s}
Uniq(s) == \A j, i \in DOMAIN s : s[i].query = s[j].query => i = j

Given       == UNION {ToSet(t) : t \in given}
Waiting(id) == In(queue[id])
Held(id)    == IF pc[id] \in Idle THEN {} ELSE {Query(id)}
Here(id)    == Waiting(id) \cup Held(id)

Once(id) ==
  /\ Uniq(queue[id]) /\ Waiting(id) \cap Held(id) = {}
  /\ Here(id) \subseteq Given /\ Here(id) \cap over = {}

Apart ==
  /\ \A id \in Threads : Once(id)
  /\ \A i, id \in Threads : i # id => Here(id) \cap Here(i) = {}
  /\ over \subseteq Given /\ m_error \subseteq Given /\ dumped \subseteq over
  /\ given \subseteq Transactions

\* The queries of a transaction before the one that is next or with the thread.
Earlier(id) ==
  /\ \A t \in Transactions : \A k \in 1..Len(t) :
       queue[id] # <<>> /\ queue[id][1] = Entry(t, k) =>
         \A i \in 1..(k - 1) : t[i] \in over \cup Held(id)
  /\ \A t \in Transactions : \A k \in 1..Len(t) :
       pc[id] \notin Idle /\ querySet[id] = Entry(t, k) => \A i \in 1..(k - 1) : t[i] \in over

Told(t) == \/ ToSet(t) \subseteq saved
           \/ ToSet(t) \cap (m_error \cup m_cancel \cup dumped \cup unsaved) # {}

Working == {"execute", "results", "end", "commit", "failed"}

\* Only a query that failed has an error, until it is over.
Errors(id) ==
  /\ m_error \cap Waiting(id) = {}
  /\ pc[id] \in Working => Query(id) \notin m_error
  /\ pc[id] = "dump" => Query(id) \in m_error
  /\ pc[id] = "callback" /\ querySet[id].commit =>
       \A t \in Transactions : Query(id) \in ToSet(t) => Told(t)

Telling == \A t \in Transactions : t[Len(t)] \in over => Told(t)

\* The callback a query was given with; that of the query a thread is done with.
Own(q)      == IF q \in WithCallback THEN q ELSE "none"
Calling(id) == pc[id] = "callback"
Theirs(id)  == m_callback[Query(id)]

Inherits(id) ==
  /\ Own(Query(id)) = "none"
  /\ Theirs(id) \in dumped \cap WithCallback /\ called[Theirs(id)] = 0

Calls ==
  /\ m_callback \in [Queries -> WithCallback \cup {"none"}]
  /\ called \in [WithCallback -> {0, 1}]
  /\ \A q \in Queries \ over :
       m_callback[q] = Own(q) \/ \E id \in Threads : Calling(id) /\ Query(id) = q
  /\ \A id \in Threads : Calling(id) => Theirs(id) = Own(Query(id)) \/ Inherits(id)
  /\ \A i, id \in Threads :
       Calling(i) /\ Calling(id) /\ i # id => Theirs(i) # Theirs(id) \/ Theirs(i) = "none"
  /\ \A q \in WithCallback : /\ called[q] = 1 => q \in over
                             /\ q \in over /\ q \notin dumped => called[q] = 1

\* A transaction of which some was dumped, not all, tells of it.
Tells(t)   == \E q \in ToSet(t) \cap WithCallback : called[q] = 1
Pending(t) == \E id \in Threads : /\ Calling(id) /\ Query(id) \in ToSet(t)
                                  /\ Theirs(id) \in ToSet(t) \cap WithCallback
Hears(t) ==
  \/ ToSet(t) \cap dumped = {} \/ ToSet(t) \subseteq dumped \/ ToSet(t) \cap WithCallback = {}
  \/ Tells(t) \/ Pending(t)
Heard == \A t \in Transactions : Hears(t)

CallInv ==
  Apart /\ (\A id \in Threads : Errors(id) /\ Earlier(id)) /\ Telling /\ Calls /\ Heard

-----------------------------------------------------------------------------
(* Rows and their queries.                                                 *)

\* The least of a set of numbers.
LEMMA Least == ASSUME NEW S \in SUBSET Nat, S # {} PROVE \E m \in S : \A n \in S : m <= n
<1> DEFINE R == OpToRel(<, Nat)
<1>1. IsWellFoundedOn(R, Nat)
  BY NatLessThanWellFounded
<1>2. \A m, n \in Nat : m < n => <<m, n>> \in R
  BY DEF OpToRel
<1> HIDE DEF R
<1>3. PICK m \in S : \A n \in S : ~(<<n, m>> \in R)
  BY <1>1, WFMin
<1>4. ASSUME NEW n \in S PROVE m <= n
  <2>1. m \in Nat /\ n \in Nat /\ ~(n < m)
    BY <1>2, <1>3
  <2> QED
    BY <2>1
<1> QED
  BY <1>4

\* What is in a row.
LEMMA RowIn ==
  ASSUME NEW s, Row(s)
  PROVE  /\ DOMAIN s = 1..Len(s) /\ Len(s) \in Nat /\ In(s) = {s[j].query : j \in 1..Len(s)}
         /\ \A j \in 1..Len(s) : s[j] \in Entries /\ s[j].query \in In(s) /\ s[j].query \in Queries
         /\ In(s) \subseteq Queries
<1>1. DOMAIN s = 1..Len(s) /\ Len(s) \in Nat /\ \A j \in 1..Len(s) : s[j] \in Entries
  BY DEF Row
<1>2. \A j \in 1..Len(s) : s[j].query \in Queries
  BY <1>1 DEF Entries
<1> QED
  BY <1>1, <1>2 DEF In

LEMMA RowInOf ==
  ASSUME NEW s, Row(s), NEW j \in 1..Len(s), NEW t \in Transactions, s[j].query \in ToSet(t)
  PROVE  \E k \in 1..Len(t) : s[j] = Entry(t, k)
<1>1. PICK u \in Transactions : \E k \in 1..Len(u) : s[j] = Entry(u, k)
  BY DEF Row
<1>2. PICK k \in 1..Len(u) : s[j] = Entry(u, k)
  BY <1>1
<1>3. s[j].query = u[k] /\ u[k] \in ToSet(u)
  BY <1>2, Transacted DEF Entry
<1>4. u = t
  BY <1>3, AsqlAssumption
<1> QED
  BY <1>2, <1>4

LEMMA NothingIn == In(<<>>) = {} /\ Uniq(<<>>)
BY DEF In, Uniq

LEMMA TailIn ==
  ASSUME NEW s, Row(s), s # <<>>
  PROVE  /\ In(s) = In(Tail(s)) \cup {Head(s).query}
         /\ Uniq(s) => Uniq(Tail(s)) /\ Head(s).query \notin In(Tail(s))
<1>1. /\ s \in Seq(Entries) /\ Len(s) \in Nat \ {0} /\ Head(s) = s[1] /\ DOMAIN s = 1..Len(s)
      /\ Tail(s) \in Seq(Entries) /\ DOMAIN Tail(s) = 1..(Len(s) - 1)
      /\ \A j \in 1..(Len(s) - 1) : Tail(s)[j] = s[j + 1]
  BY DEF Row
<1>2. \A j \in 1..(Len(s) - 1) : j + 1 \in 1..Len(s) /\ j + 1 # 1
  BY <1>1
<1>3. \A j \in 1..Len(s) : j = 1 \/ \E i \in 1..(Len(s) - 1) : j = i + 1
  <2>1. ASSUME NEW j \in 1..Len(s), j # 1 PROVE j - 1 \in 1..(Len(s) - 1) /\ j = (j - 1) + 1
    BY <1>1, <2>1
  <2> QED
    BY <2>1
<1>4. In(s) = In(Tail(s)) \cup {Head(s).query}
  <2>1. ASSUME NEW j \in 1..Len(s) PROVE s[j].query \in In(Tail(s)) \cup {Head(s).query}
    <3>1. CASE j = 1
      BY <1>1, <3>1
    <3>2. ASSUME NEW i \in 1..(Len(s) - 1), j = i + 1 PROVE s[j].query \in In(Tail(s))
      <4>1. s[j].query = Tail(s)[i].query
        BY <1>1, <3>2
      <4> QED
        BY <1>1, <4>1 DEF In
    <3> QED
      BY <1>3, <3>1, <3>2
  <2>2. In(Tail(s)) \subseteq In(s)
    BY <1>1, <1>2 DEF In
  <2>3. Head(s).query \in In(s)
    BY <1>1 DEF In
  <2>4. In(s) = {s[j].query : j \in 1..Len(s)}
    BY <1>1 DEF In
  <2> QED
    BY <2>1, <2>2, <2>3, <2>4
<1>5. ASSUME Uniq(s) PROVE Uniq(Tail(s)) /\ Head(s).query \notin In(Tail(s))
  <2>1. Uniq(Tail(s))
    <3>1. \A i, j \in 1..(Len(s) - 1) : s[i + 1].query = s[j + 1].query => i + 1 = j + 1
      BY <1>1, <1>2, <1>5 DEF Uniq
    <3>2. \A i, j \in 1..(Len(s) - 1) : i + 1 = j + 1 => i = j
      BY <1>1
    <3> QED
      BY <1>1, <3>1, <3>2 DEF Uniq
  <2>2. \A j \in 1..(Len(s) - 1) : s[j + 1].query # s[1].query
    BY <1>1, <1>2, <1>5 DEF Uniq
  <2> QED
    BY <1>1, <2>1, <2>2 DEF In
<1> QED
  BY <1>4, <1>5

LEMMA MoreIn ==
  ASSUME NEW s, Row(s), NEW t \in Transactions
  PROVE  /\ In(s \o Sets(t)) = In(s) \cup ToSet(t)
         /\ Uniq(s) /\ In(s) \cap ToSet(t) = {} => Uniq(s \o Sets(t))
<1> DEFINE r == s \o Sets(t)
<1>1. /\ s \in Seq(Entries) /\ Len(s) \in Nat /\ Len(t) \in Nat \ {0} /\ DOMAIN s = 1..Len(s)
      /\ Sets(t) \in Seq(Entries) /\ Len(Sets(t)) = Len(t) /\ DOMAIN t = 1..Len(t)
      /\ \A k \in 1..Len(t) : Sets(t)[k] = Entry(t, k)
  BY SetsOf, Transacted DEF Row
<1>0. /\ r \in Seq(Entries) /\ Len(r) = Len(s) + Len(t)
      /\ \A j \in 1..(Len(s) + Len(t)) :
           r[j] = IF j <= Len(s) THEN s[j] ELSE Sets(t)[j - Len(s)]
  <2>1. s \in Seq(Entries) /\ Sets(t) \in Seq(Entries) /\ Len(Sets(t)) = Len(t)
    BY <1>1
  <2>2. r \in Seq(Entries) /\ Len(r) = Len(s) + Len(t)
    BY <2>1
  <2>3. \A j \in 1..(Len(s) + Len(t)) :
          r[j] = IF j <= Len(s) THEN s[j] ELSE Sets(t)[j - Len(s)]
    BY <2>1
  <2> QED
    BY <2>2, <2>3
<1> HIDE DEF r
<1>2. DOMAIN r = 1..Len(r)
  BY <1>0
<1>3. \A j \in 1..Len(s) : j \in 1..Len(r) /\ r[j] = s[j]
  BY <1>0, <1>1
<1>4. ASSUME NEW k \in 1..Len(t)
      PROVE  Len(s) + k \in 1..Len(r) /\ r[Len(s) + k].query = t[k]
  <2>1. /\ Len(s) + k \in 1..(Len(s) + Len(t)) /\ ~(Len(s) + k <= Len(s))
        /\ (Len(s) + k) - Len(s) = k
    BY <1>1
  <2>2. r[Len(s) + k] = Entry(t, k) /\ Len(s) + k \in 1..Len(r)
    BY <1>0, <1>1, <2>1
  <2> QED
    BY <2>2 DEF Entry
<1>5. \A j \in 1..Len(r) : j \in 1..Len(s) \/ \E k \in 1..Len(t) : j = Len(s) + k
  <2>1. ASSUME NEW j \in 1..Len(r), j \notin 1..Len(s)
        PROVE  j - Len(s) \in 1..Len(t) /\ j = Len(s) + (j - Len(s))
    BY <1>0, <1>1, <2>1
  <2> QED
    BY <2>1
<1>6. In(r) = In(s) \cup ToSet(t)
  <2>1. ASSUME NEW j \in 1..Len(r) PROVE r[j].query \in In(s) \cup ToSet(t)
    <3>1. CASE j \in 1..Len(s)
      BY <1>1, <1>3, <3>1 DEF In
    <3>2. ASSUME NEW k \in 1..Len(t), j = Len(s) + k PROVE r[j].query \in ToSet(t)
      BY <1>1, <1>4, <3>2 DEF ToSet
    <3> QED
      BY <1>5, <3>1, <3>2
  <2>2. In(s) \subseteq In(r)
    BY <1>1, <1>2, <1>3 DEF In
  <2>3. ToSet(t) \subseteq In(r)
    BY <1>1, <1>2, <1>4 DEF In, ToSet
  <2>4. In(r) = {r[j].query : j \in 1..Len(r)}
    BY <1>2 DEF In
  <2> QED
    BY <2>1, <2>2, <2>3, <2>4
<1>7. ASSUME Uniq(s), In(s) \cap ToSet(t) = {} PROVE Uniq(r)
  <2>1. ASSUME NEW i \in 1..Len(r), NEW j \in 1..Len(r), r[i].query = r[j].query
        PROVE  i = j
    <3>1. CASE i \in 1..Len(s) /\ j \in 1..Len(s)
      BY <1>1, <1>3, <1>7, <2>1, <3>1 DEF Uniq
    <3>2. ASSUME NEW k \in 1..Len(t), NEW l \in 1..Len(t), i = Len(s) + k, j = Len(s) + l
          PROVE  i = j
      <4>1. t[k] = t[l]
        BY <1>4, <2>1, <3>2
      <4> QED
        BY <3>2, <4>1, SameQuery
    <3>3. ASSUME NEW n \in 1..Len(s), NEW k \in 1..Len(t)
          PROVE  r[n].query # r[Len(s) + k].query
      <4>1. r[n].query \in In(s) /\ r[Len(s) + k].query \in ToSet(t)
        BY <1>1, <1>3, <1>4 DEF In, ToSet
      <4> QED
        BY <1>7, <4>1
    <3> QED
      BY <1>5, <2>1, <3>1, <3>2, <3>3
  <2> QED
    BY <1>2, <2>1 DEF Uniq
<1> QED
  BY <1>6, <1>7 DEF r

LEMMA FirstStays ==
  ASSUME NEW s, Row(s), s # <<>>, NEW t \in Transactions
  PROVE  (s \o Sets(t))[1] = s[1]
<1>1. s \in Seq(Entries) /\ Sets(t) \in Seq(Entries) /\ Len(s) \in Nat \ {0} /\ Len(Sets(t)) \in Nat
  BY SetsOf, Transacted DEF Row
<1> QED
  BY <1>1, ConcatProperties

LEMMA FirstOfMore ==
  ASSUME NEW t \in Transactions
  PROVE  (<<>> \o Sets(t))[1] = Entry(t, 1)
<1>1. Sets(t) \in Seq(Entries) /\ Len(t) \in Nat \ {0} /\ Sets(t)[1] = Entry(t, 1)
  BY SetsOf, Transacted
<1> QED
  BY <1>1

\* What follows a query in a row is the rest of its transaction.
LEMMA RestFollows ==
  ASSUME NEW s, Row(s), NEW p \in 1..Len(s), NEW t \in Transactions, NEW k \in 1..Len(t),
         s[p] = Entry(t, k), NEW d \in Nat, k + d <= Len(t)
  PROVE  p + d \in 1..Len(s) /\ s[p + d] = Entry(t, k + d)
<1> DEFINE At(n) == p + n \in 1..Len(s) /\ s[p + n] = Entry(t, k + n)
           Odd   == {n \in Nat : k + n <= Len(t) /\ ~At(n)}
<1>1. Len(t) \in Nat /\ Len(s) \in Nat
  BY Transacted DEF Row
<1>2. ASSUME Odd # {} PROVE FALSE
  <2>1. PICK m \in Odd : \A n \in Odd : m <= n
    BY <1>2, Least
  <2>2. m \in Nat /\ k + m <= Len(t) /\ ~At(m)
    BY <2>1
  <2>3. m # 0
    <3>1. p + 0 = p /\ k + 0 = k
      BY <1>1
    <3> QED
      BY <2>2, <3>1
  <2>4. m - 1 \in Nat /\ ~(m <= m - 1) /\ k + (m - 1) <= Len(t) /\ k + (m - 1) \in 1..(Len(t) - 1)
    BY <1>1, <2>2, <2>3
  <2>5. At(m - 1)
    BY <2>1, <2>4
  <2>6. /\ (p + (m - 1)) + 1 \in 1..Len(s)
        /\ s[(p + (m - 1)) + 1] = Entry(t, (k + (m - 1)) + 1)
    BY <2>4, <2>5 DEF Row
  <2>7. (p + (m - 1)) + 1 = p + m /\ (k + (m - 1)) + 1 = k + m
    BY <1>1, <2>2
  <2> QED
    BY <2>2, <2>6, <2>7
<1>3. At(d)
  BY <1>2
<1> QED
  BY <1>3

\* A transaction that a row does not begin with is in it as a whole.
LEMMA WholeBehind ==
  ASSUME NEW s, Row(s), NEW t \in Transactions, NEW j \in 1..Len(s), NEW k \in 1..Len(t),
         s[j] = Entry(t, k), \A i \in 1..Len(t) : i # 1 => s[1] # Entry(t, i)
  PROVE  ToSet(t) \subseteq In(s)
<1> DEFINE At(n) == j - n \in 1..Len(s) /\ s[j - n] = Entry(t, k - n)
           Odd   == {n \in Nat : n <= k - 1 /\ ~At(n)}
<1>1. Len(t) \in Nat /\ Len(s) \in Nat /\ DOMAIN t = 1..Len(t)
  BY Transacted DEF Row
<1>2. ASSUME Odd # {} PROVE FALSE
  <2>1. PICK m \in Odd : \A n \in Odd : m <= n
    BY <1>2, Least
  <2>2. m \in Nat /\ m <= k - 1 /\ ~At(m)
    BY <2>1
  <2>3. m # 0
    <3>1. j - 0 = j /\ k - 0 = k
      BY <1>1
    <3> QED
      BY <2>2, <3>1
  <2>4. /\ m - 1 \in Nat /\ ~(m <= m - 1) /\ m - 1 <= k - 1
        /\ k - (m - 1) \in 2..Len(t) /\ k - (m - 1) \in 1..Len(t) /\ k - (m - 1) # 1
    BY <1>1, <2>2, <2>3
  <2>5. At(m - 1)
    BY <2>1, <2>4
  <2>6. j - (m - 1) # 1
    BY <2>4, <2>5
  <2>7. j - (m - 1) \in 2..Len(s)
    BY <1>1, <2>2, <2>5, <2>6
  <2>8. s[(j - (m - 1)) - 1] = Entry(t, (k - (m - 1)) - 1)
    BY <2>4, <2>5, <2>7 DEF Row
  <2>9. /\ (j - (m - 1)) - 1 = j - m /\ (k - (m - 1)) - 1 = k - m
        /\ (j - (m - 1)) - 1 \in 1..Len(s)
    BY <1>1, <2>2, <2>7
  <2> QED
    BY <2>2, <2>8, <2>9
<1>3. At(k - 1)
  <2>1. k - 1 \in Nat /\ k - 1 <= k - 1
    BY <1>1
  <2> QED
    BY <1>2, <2>1
<1>4. j - (k - 1) \in 1..Len(s) /\ s[j - (k - 1)] = Entry(t, 1)
  <2>1. k - (k - 1) = 1
    BY <1>1
  <2> QED
    BY <1>3, <2>1
<1>5. PICK p \in 1..Len(s) : s[p] = Entry(t, 1)
  BY <1>4
<1>6. ASSUME NEW i \in 1..Len(t) PROVE t[i] \in In(s)
  <2>1. PICK d \in Nat : 1 + d = i
    <3>1. i - 1 \in Nat /\ 1 + (i - 1) = i
      BY <1>1
    <3> QED
      BY <3>1
  <2>2. 1 \in 1..Len(t) /\ 1 + d <= Len(t)
    BY <1>1, <2>1
  <2> HIDE DEF At, Odd
  <2>3. p + d \in 1..Len(s) /\ s[p + d] = Entry(t, 1 + d)
    BY <1>5, <2>2, RestFollows
  <2>4. s[p + d].query \in In(s)
    BY <2>3, RowIn
  <2> QED
    BY <2>1, <2>3, <2>4 DEF Entry
<1> QED
  BY <1>1, <1>6 DEF ToSet

-----------------------------------------------------------------------------
(* Steps that no query notices.                                            *)

Aside ==
  /\ UNCHANGED <<queue, querySet, over, given, dumped, m_error, m_callback, called, saved,
                 unsaved>>
  /\ m_cancel \subseteq m_cancel'
  /\ \A id \in Threads : \/ pc'[id] = pc[id]
                         \/ pc[id] \in Idle /\ pc'[id] \in Idle
                         \/ pc[id] \in Working /\ pc'[id] \in Working

LEMMA AsideOfApp ==
  ASSUME Typed, Pool, Counts, Start \/ Terminate \/ App
  PROVE  Aside
<1>1. UNCHANGED <<queue, querySet, over, given, dumped, m_error, m_callback, called, saved,
                  unsaved, m_cancel>>
  BY DEF Start, Terminate, App, Spawn, NotifyTermination, Join, shared, history
<1>2. CASE Start \/ Terminate \/ Join \/ pc' = pc
  BY <1>1, <1>2 DEF Aside, Start, Terminate, Join
<1>3. CASE Spawn /\ m_threads < MaxThreads
  <2>1. m_threads \in Threads /\ m_threads \notin Running
    BY <1>3, ThreadsFinite, AsqlAssumption DEF Spawn, Pool, Counts, Threads
  <2>2. pc[m_threads] \in Idle
    BY <2>1 DEF Running, Idle
  <2>3. \A id \in Threads : pc'[id] = IF id = m_threads THEN "begin" ELSE pc[id]
    BY <1>3 DEF Spawn, Typed
  <2> QED
    BY <1>1, <2>2, <2>3 DEF Aside, Idle
<1>4. CASE NotifyTermination
  <2>1. PICK n : pc' = Notified(n)
    BY <1>4 DEF NotifyTermination
  <2> QED
    BY <1>1, <2>1, NotifiedRuns DEF Aside, Idle
<1> QED
  BY <1>2, <1>3, <1>4 DEF App, Spawn

LEMMA AsideOfWork ==
  ASSUME Typed, NEW id \in Threads, Begin(id) \/ Check(id) \/ Wait(id) \/ Statement(id)
  PROVE  Aside
<1>1. UNCHANGED <<queue, querySet, over, given, dumped, m_error, m_callback, called, saved,
                  unsaved, m_cancel>>
  BY DEF Begin, Check, Wait, Statement, Execute, Results, End, shared, history
<1>2. CASE Begin(id) \/ Check(id) \/ Wait(id)
  <2>1. pc[id] \in Idle /\ pc'[id] \in Idle /\ \A i \in Threads : i # id => pc'[i] = pc[i]
    BY <1>2 DEF Begin, Check, Wait, Goes, Typed, Idle
  <2> QED
    BY <1>1, <2>1 DEF Aside
<1>3. CASE Statement(id)
  <2>1. pc[id] \in Working /\ pc'[id] \in Working /\ \A i \in Threads : i # id => pc'[i] = pc[i]
    BY <1>3 DEF Statement, Execute, Results, End, Goes, Fails, Typed, Working
  <2> QED
    BY <1>1, <2>1 DEF Aside
<1> QED
  BY <1>2, <1>3

\* A step is one of these.
LEMMA StepKinds ==
  ASSUME Typed, Pool, Counts, [Next]_vars
  PROVE  \/ Aside
         \/ \E t \in Transactions, id \in Threads : Queue(t, id)
         \/ \E id \in Threads : Fetch(id) \/ Commit(id) \/ Failed(id) \/ Dump(id) \/ Callback(id)
<1>1. CASE UNCHANGED vars
  BY <1>1 DEF vars, shared, history, Aside
<1>2. ASSUME NEW q \in MayCancel, Cancel(q) PROVE Aside
  BY <1>2 DEF Cancel, history, Aside
<1> QED
  BY <1>1, <1>2, AsideOfApp, AsideOfWork DEF Next, Step

-----------------------------------------------------------------------------
(* What stays.                                                             *)

\* A transaction that has told has, as long as no error is taken back.
LEMMA ToldStays ==
  ASSUME saved \subseteq saved', m_error \subseteq m_error', m_cancel \subseteq m_cancel',
         dumped \subseteq dumped', unsaved \subseteq unsaved'
  PROVE  \A t \in Transactions : Told(t) => Told(t)'
BY DEF Told

\* Calls and Heard are of the threads that are calling.
LEMMA CallsStay ==
  ASSUME Calls, Heard, UNCHANGED <<over, dumped, m_callback, called>>,
         \A id \in Threads : Calling(id)' <=> Calling(id),
         \A id \in Threads : Calling(id) => querySet'[id] = querySet[id]
  PROVE  Calls' /\ Heard'
<1>1. \A id \in Threads : Calling(id) => Query(id)' = Query(id) /\ Theirs(id)' = Theirs(id)
  BY DEF Query, Theirs
<1>2. \A id \in Threads : Calling(id) => (Inherits(id)' <=> Inherits(id))
  BY <1>1 DEF Inherits, Own
<1>3. Calls'
  <2>1. \A q \in Queries \ over :
          m_callback'[q] = Own(q) \/ \E id \in Threads : Calling(id)' /\ Query(id)' = q
    BY <1>1 DEF Calls
  <2>2. \A id \in Threads : Calling(id)' => Theirs(id)' = Own(Query(id)') \/ Inherits(id)'
    BY <1>1, <1>2 DEF Calls
  <2>3. \A i, id \in Threads : Calling(i)' /\ Calling(id)' /\ i # id =>
          Theirs(i)' # Theirs(id)' \/ Theirs(i)' = "none"
    BY <1>1 DEF Calls
  <2> QED
    BY <2>1, <2>2, <2>3 DEF Calls, Own
<1>4. \A t \in Transactions : Pending(t) => Pending(t)'
  BY <1>1 DEF Pending
<1>5. \A t \in Transactions : Tells(t) => Tells(t)'
  BY DEF Tells
<1> QED
  BY <1>3, <1>4, <1>5 DEF Heard, Hears

LEMMA CallsAside ==
  ASSUME CallInv, Aside
  PROVE  CallInv'
<1>1. \A id \in Threads : (pc'[id] \in Idle <=> pc[id] \in Idle) /\ (Calling(id)' <=> Calling(id))
  BY DEF Aside, Calling, Idle, Working
<1>2. \A id \in Threads : /\ Waiting(id)' = Waiting(id) /\ Query(id)' = Query(id)
                          /\ Held(id)' = Held(id)
  BY <1>1 DEF Aside, Waiting, Held, Query
<1>3. Apart'
  BY <1>2 DEF CallInv, Apart, Once, Here, Given, Aside
<1>4. \A t \in Transactions : Told(t) => Told(t)'
  BY ToldStays DEF Aside
<1>5. Telling'
  BY <1>4 DEF CallInv, Telling, Aside
<1>6. \A id \in Threads : Earlier(id)'
  BY <1>1, <1>2 DEF CallInv, Earlier, Aside
<1>7. ASSUME NEW id \in Threads PROVE Errors(id)'
  <2>1. /\ pc'[id] \in Working => pc[id] \in Working
        /\ pc'[id] \in {"dump", "callback"} => pc[id] = pc'[id]
    BY DEF Aside, Working, Idle
  <2> QED
    BY <1>2, <1>4, <2>1 DEF CallInv, Errors, Aside
<1>8. Calls' /\ Heard'
  BY <1>1, CallsStay DEF CallInv, Aside
<1> QED
  BY <1>3, <1>5, <1>6, <1>7, <1>8 DEF CallInv

LEMMA CallsByQueue ==
  ASSUME Typed, \A id \in Threads : Row(queue[id]), CallInv,
         NEW t \in Transactions, NEW n \in Threads, Queue(t, n)
  PROVE  CallInv'
<1>1. /\ t \notin given /\ given' = given \cup {t}
      /\ UNCHANGED <<querySet, over, dumped, m_error, m_callback, called, saved, unsaved, m_cancel>>
  BY DEF Queue, shared, history
<1>2. \A id \in Threads : /\ pc'[id] \in Idle <=> pc[id] \in Idle
                          /\ Calling(id)' <=> Calling(id)
                          /\ pc'[id] \notin Idle => pc'[id] = pc[id]
  BY NotifiedRuns DEF Queue, Idle, Calling
<1>3. \A id \in Threads : queue'[id] = IF id = n THEN queue[n] \o Sets(t) ELSE queue[id]
  BY DEF Queue, Typed
<1>4. \A id \in Threads : Query(id)' = Query(id) /\ Held(id)' = Held(id)
  BY <1>1, <1>2 DEF Query, Held
<1>5. ToSet(t) \cap Given = {} /\ Given' = Given \cup ToSet(t)
  <2>1. \A u \in given : ToSet(u) \cap ToSet(t) = {}
    BY <1>1, AsqlAssumption DEF CallInv, Apart
  <2> QED
    BY <1>1, <2>1 DEF Given
<1>6. /\ Waiting(n)' = Waiting(n) \cup ToSet(t)
      /\ \A id \in Threads : id # n => Waiting(id)' = Waiting(id)
  BY <1>3, MoreIn DEF Waiting
<1>7. Apart'
  <2>1. ToSet(t) \cap Waiting(n) = {} /\ ToSet(t) \cap Held(n) = {} /\ ToSet(t) \cap over = {}
        /\ \A id \in Threads : ToSet(t) \cap Here(id) = {}
    BY <1>5 DEF CallInv, Apart, Once, Here
  <2>2. Uniq(queue'[n])
    BY <1>3, <2>1, MoreIn DEF CallInv, Apart, Once, Waiting
  <2>3. \A id \in Threads : Here(id)' = IF id = n THEN Here(n) \cup ToSet(t) ELSE Here(id)
    BY <1>4, <1>6 DEF Here
  <2>4. \A id \in Threads : Waiting(id)' \cap Held(id)' = {}
    BY <1>4, <1>6, <2>1 DEF CallInv, Apart, Once
  <2>5. \A id \in Threads : Uniq(queue'[id])
    BY <1>3, <2>2 DEF CallInv, Apart, Once
  <2>6. \A id \in Threads : Once(id)'
    BY <1>1, <1>5, <2>1, <2>3, <2>4, <2>5 DEF CallInv, Apart, Once
  <2>7. \A i, id \in Threads : i # id => Here(id)' \cap Here(i)' = {}
    BY <2>1, <2>3 DEF CallInv, Apart
  <2> QED
    BY <1>1, <1>5, <2>6, <2>7 DEF CallInv, Apart
<1>8. \A u \in Transactions : Told(u) => Told(u)'
  BY <1>1, ToldStays
<1>9. Telling'
  BY <1>1, <1>8 DEF CallInv, Telling
<1>10. ASSUME NEW id \in Threads PROVE Errors(id)'
  <2>1. m_error' \cap Waiting(id)' = {}
    BY <1>1, <1>5, <1>6 DEF CallInv, Apart, Errors
  <2>2. /\ pc'[id] \in Working => pc[id] \in Working
        /\ pc'[id] \in {"dump", "callback"} => pc[id] = pc'[id]
    BY <1>2 DEF Working, Idle
  <2> QED
    BY <1>1, <1>4, <1>8, <2>1, <2>2 DEF CallInv, Errors
<1>11. ASSUME NEW id \in Threads PROVE Earlier(id)'
  <2>1. ASSUME NEW u \in Transactions, NEW k \in 1..Len(u),
               queue'[id] # <<>>, queue'[id][1] = Entry(u, k), NEW i \in 1..(k - 1)
        PROVE  u[i] \in over \cup Held(id)
    <3>1. CASE queue[id] # <<>>
      <4>1. queue'[id][1] = queue[id][1]
        <5>1. CASE id = n
          <6>1. queue'[n] = queue[n] \o Sets(t) /\ Row(queue[n]) /\ queue[n] # <<>>
            BY <1>3, <3>1, <5>1
          <6>2. (queue[n] \o Sets(t))[1] = queue[n][1]
            BY <6>1, FirstStays
          <6> QED
            BY <5>1, <6>1, <6>2
        <5>2. CASE id # n
          BY <1>3, <5>2
        <5> QED
          BY <5>1, <5>2
      <4> QED
        BY <2>1, <3>1, <4>1 DEF CallInv, Earlier
    <3>2. CASE queue[id] = <<>>
      <4>1. id = n /\ queue'[id][1] = Entry(t, 1)
        BY <1>3, <2>1, <3>2, FirstOfMore
      <4>2. 1 \in 1..Len(t) /\ Len(u) \in Nat
        BY Transacted
      <4>3. k = 1
        BY <2>1, <4>1, <4>2, OnePlace
      <4> QED
        BY <4>3
    <3> QED
      BY <3>1, <3>2
  <2> QED
    BY <1>1, <1>2, <1>4, <2>1 DEF CallInv, Earlier
<1>12. Calls' /\ Heard'
  BY <1>1, <1>2, CallsStay DEF CallInv
<1> QED
  BY <1>7, <1>9, <1>10, <1>11, <1>12 DEF CallInv

LEMMA CallsByFetch ==
  ASSUME Typed, NEW id \in Threads, Row(queue[id]), CallInv, Fetch(id)
  PROVE  CallInv'
<1> DEFINE q == Head(queue[id]).query
<1>1. /\ pc[id] = "fetch" /\ pc'[id] = "execute" /\ pc[id] \in Idle /\ pc'[id] \notin Idle
      /\ queue[id] # <<>> /\ queue'[id] = Tail(queue[id]) /\ querySet'[id] = Head(queue[id])
      /\ UNCHANGED <<given, over, dumped, m_error, m_callback, called, saved, unsaved, m_cancel>>
  BY DEF Fetch, Goes, Typed, Idle, shared, history
<1>2. \A i \in Threads : i # id =>
        pc'[i] = pc[i] /\ queue'[i] = queue[i] /\ querySet'[i] = querySet[i]
  BY DEF Fetch, Goes, Typed
<1>3. /\ Waiting(id) = Waiting(id)' \cup {q} /\ Uniq(queue[id])' /\ q \notin Waiting(id)'
      /\ Held(id) = {} /\ Held(id)' = {q} /\ Query(id)' = q
  BY <1>1, TailIn DEF Waiting, Held, Query, CallInv, Apart, Once
<1>4. \A i \in Threads : i # id =>
        Waiting(i)' = Waiting(i) /\ Held(i)' = Held(i) /\ Query(i)' = Query(i)
  BY <1>2 DEF Waiting, Held, Query
<1>5. \A i \in Threads : Here(i)' = Here(i)
  BY <1>3, <1>4 DEF Here
<1>6. Apart'
  <2>1. Once(id)'
    BY <1>1, <1>3, <1>5 DEF CallInv, Apart, Once, Given
  <2>2. \A i \in Threads : i # id => Once(i)'
    BY <1>1, <1>2, <1>4, <1>5 DEF CallInv, Apart, Once, Given
  <2> QED
    BY <1>1, <1>5, <2>1, <2>2 DEF CallInv, Apart, Given
<1>7. \A t \in Transactions : Told(t) => Told(t)'
  BY <1>1, ToldStays
<1>8. Telling'
  BY <1>1, <1>7 DEF CallInv, Telling
<1>9. Errors(id)'
  BY <1>1, <1>3 DEF CallInv, Errors
<1>10. \A i \in Threads : i # id => Errors(i)'
  BY <1>1, <1>2, <1>4, <1>7 DEF CallInv, Errors
<1>11. \A i \in Threads : i # id => Earlier(i)'
  BY <1>1, <1>2, <1>4 DEF CallInv, Earlier
<1>12. Earlier(id)'
  <2>1. /\ Head(queue[id]) = queue[id][1] /\ Row(Tail(queue[id])) /\ queue[id] \in Seq(Entries)
        /\ Len(queue[id]) \in Nat
    BY <1>1, TailOfRow DEF Row
  <2>2. ASSUME NEW t \in Transactions, NEW k \in 1..Len(t), querySet'[id] = Entry(t, k)
        PROVE  \A i \in 1..(k - 1) : t[i] \in over
    BY <1>1, <1>3, <2>1, <2>2 DEF CallInv, Earlier
  <2>3. ASSUME NEW t \in Transactions, NEW k \in 1..Len(t), NEW i \in 1..(k - 1),
               Tail(queue[id]) # <<>>, Tail(queue[id])[1] = Entry(t, k)
        PROVE  t[i] \in over \cup {q}
    <3>1. /\ Len(t) \in Nat /\ k \in 2..Len(t) /\ k - 1 \in 1..Len(t) /\ i \in 1..Len(t)
          /\ i = k - 1 \/ i \in 1..((k - 1) - 1)
      BY Transacted
    <3>2. 2 \in 2..Len(queue[id]) /\ queue[id][2] = Entry(t, k)
      BY <2>1, <2>3
    <3>3. queue[id][2 - 1] = Entry(t, k - 1)
      BY <3>1, <3>2 DEF Row
    <3>4. queue[id][1] = Entry(t, k - 1) /\ q = t[k - 1]
      BY <2>1, <3>3 DEF Entry
    <3>5. i \in 1..((k - 1) - 1) => t[i] \in over \cup Held(id)
      BY <1>1, <3>1, <3>4 DEF CallInv, Earlier
    <3> QED
      BY <1>3, <3>1, <3>4, <3>5
  <2> QED
    BY <1>1, <1>3, <2>2, <2>3 DEF Earlier
<1>13. Calls' /\ Heard'
  <2>1. \A i \in Threads : Calling(i)' <=> Calling(i)
    BY <1>1, <1>2 DEF Calling
  <2>2. \A i \in Threads : Calling(i) => querySet'[i] = querySet[i]
    BY <1>1, <1>2 DEF Calling
  <2> QED
    BY <1>1, <2>1, <2>2, CallsStay DEF CallInv
<1> QED
  BY <1>6, <1>8, <1>9, <1>10, <1>11, <1>12, <1>13 DEF CallInv

\* The thread goes on with its query, and every query stays where it is.
LEMMA ApartStays ==
  ASSUME Apart, UNCHANGED <<queue, querySet, over, given, dumped>>,
         \A i \in Threads : pc'[i] \in Idle <=> pc[i] \in Idle,
         \A q \in m_error' \ m_error : \E i \in Threads : q \in Held(i)
  PROVE  /\ Apart'
         /\ \A i \in Threads : /\ Waiting(i)' = Waiting(i) /\ Held(i)' = Held(i)
                               /\ Query(i)' = Query(i) /\ (Earlier(i) => Earlier(i)')
<1>1. \A i \in Threads : /\ Waiting(i)' = Waiting(i) /\ Query(i)' = Query(i)
                         /\ Held(i)' = Held(i)
  BY DEF Waiting, Held, Query
<1>2. m_error' \subseteq Given
  BY DEF Apart, Once, Here
<1>3. Apart'
  BY <1>1, <1>2 DEF Apart, Once, Here, Given
<1>4. \A i \in Threads : Earlier(i) => Earlier(i)'
  BY <1>1 DEF Earlier
<1> QED
  BY <1>1, <1>3, <1>4

LEMMA CallsByFailed ==
  ASSUME Typed, NEW id \in Threads, CallInv, Failed(id)
  PROVE  CallInv'
<1>1. /\ pc[id] = "failed" /\ pc'[id] = "dump" /\ pc[id] \notin Idle /\ pc'[id] \notin Idle
      /\ m_error' = m_error \cup {Query(id)}
      /\ UNCHANGED <<queue, querySet, given, over, dumped, m_callback, called, saved, unsaved,
                     m_cancel>>
  BY DEF Failed, Goes, Typed, Idle, history
<1>2. \A i \in Threads : i # id => pc'[i] = pc[i]
  BY DEF Failed, Goes, Typed
<1>3. \A i \in Threads : pc'[i] \in Idle <=> pc[i] \in Idle
  BY <1>1, <1>2
<1>4. Held(id) = {Query(id)}
  BY <1>1 DEF Held
<1>5. /\ Apart' /\ \A i \in Threads : Earlier(i)'
      /\ \A i \in Threads : Waiting(i)' = Waiting(i) /\ Held(i)' = Held(i) /\ Query(i)' = Query(i)
  BY <1>1, <1>3, <1>4, ApartStays DEF CallInv
<1>6. \A t \in Transactions : Told(t) => Told(t)'
  BY <1>1, ToldStays
<1>7. Telling'
  BY <1>1, <1>6 DEF CallInv, Telling
<1>8. \A i \in Threads : Query(id) \notin Waiting(i)
  BY <1>4 DEF CallInv, Apart, Once, Here
<1>9. \A i \in Threads : i # id /\ pc[i] \in Working => Query(i) # Query(id)
  BY <1>4 DEF CallInv, Apart, Here, Held, Working, Idle
<1>10. Errors(id)'
  BY <1>1, <1>5, <1>8 DEF CallInv, Errors, Working
<1>11. \A i \in Threads : i # id => Errors(i)'
  BY <1>1, <1>2, <1>5, <1>6, <1>8, <1>9 DEF CallInv, Errors
<1>12. Calls' /\ Heard'
  <2>1. \A i \in Threads : Calling(i)' <=> Calling(i)
    BY <1>1, <1>2 DEF Calling
  <2> QED
    BY <1>1, <2>1, CallsStay DEF CallInv
<1> QED
  BY <1>5, <1>7, <1>10, <1>11, <1>12 DEF CallInv

\* A thread that is about to call has its query's own callback, and no other has.
LEMMA NotYetCalled ==
  ASSUME CallInv, NEW id \in Threads, pc[id] \notin Idle, ~Calling(id), Query(id) \in Queries
  PROVE  /\ Query(id) \in Given /\ Query(id) \notin over
         /\ Theirs(id) = Own(Query(id))
         /\ \A i \in Threads : Calling(i) =>
              i # id /\ Query(i) # Query(id) /\ (Theirs(i) # Theirs(id) \/ Theirs(i) = "none")
<1>1. Held(id) = {Query(id)}
  BY DEF Held
<1>2. Query(id) \in Given /\ Query(id) \notin over
  BY <1>1 DEF CallInv, Apart, Once, Here
<1>3. ASSUME NEW i \in Threads, Calling(i) PROVE i # id /\ Query(i) # Query(id)
  <2>1. Held(i) = {Query(i)}
    BY <1>3 DEF Held, Calling, Idle
  <2> QED
    BY <1>1, <1>3, <2>1 DEF CallInv, Apart, Here
<1>4. Theirs(id) = Own(Query(id))
  BY <1>2, <1>3 DEF CallInv, Calls, Theirs
<1>5. ASSUME NEW i \in Threads, Calling(i), Theirs(i) # "none" PROVE Theirs(i) # Theirs(id)
  <2>1. CASE Theirs(i) = Own(Query(i))
    BY <1>3, <1>4, <1>5, <2>1 DEF Own
  <2>2. CASE Inherits(i)
    <3>1. Theirs(i) \in over
      BY <2>2 DEF Inherits, CallInv, Apart
    <3> QED
      BY <1>2, <1>4, <1>5, <3>1 DEF Own
  <2> QED
    BY <1>5, <2>1, <2>2 DEF CallInv, Calls
<1> QED
  BY <1>2, <1>3, <1>4, <1>5

LEMMA CallsByCommit ==
  ASSUME Typed, NEW id \in Threads, Placed(id), CallInv, Commit(id)
  PROVE  CallInv'
<1>1. /\ pc[id] = "commit" /\ pc'[id] = "callback" /\ pc[id] \notin Idle /\ pc'[id] \notin Idle
      /\ m_error' = m_error \ {Query(id)}
      /\ UNCHANGED <<queue, querySet, given, over, dumped, m_callback, called, m_cancel>>
  BY DEF Commit, Goes, Typed, Idle
<1>2. \A i \in Threads : i # id => pc'[i] = pc[i]
  BY DEF Commit, Goes, Typed
<1>3. saved \subseteq saved' /\ unsaved \subseteq unsaved'
  BY DEF Commit
<1>4. m_error' = m_error
  BY <1>1 DEF CallInv, Errors, Working
<1>5. \A i \in Threads : pc'[i] \in Idle <=> pc[i] \in Idle
  BY <1>1, <1>2
<1>6. /\ Apart' /\ \A i \in Threads : Earlier(i)'
      /\ \A i \in Threads : Waiting(i)' = Waiting(i) /\ Held(i)' = Held(i) /\ Query(i)' = Query(i)
  BY <1>1, <1>4, <1>5, ApartStays DEF CallInv
<1>7. \A t \in Transactions : Told(t) => Told(t)'
  BY <1>1, <1>3, <1>4, ToldStays
<1>8. Telling'
  BY <1>1, <1>7 DEF CallInv, Telling
<1>9. ASSUME querySet[id].commit, NEW u \in Transactions, Query(id) \in ToSet(u)
      PROVE  Told(u)'
  <2>1. PICK t \in Transactions : \E k \in 1..Len(t) :
          Busy(id, t, k) /\ (querySet[id].commit <=> k = Len(t))
    BY <1>1, BusyOne
  <2>2. PICK k \in 1..Len(t) : Busy(id, t, k) /\ (querySet[id].commit <=> k = Len(t))
    BY <2>1
  <2>3. /\ Query(id) \in ToSet(t) /\ Has(id, t, Len(t)) /\ ToSet(t) = Done(t, Len(t))
        /\ t[k] \in ToSet(t)
    BY <1>1, <1>9, <2>2, Transacted DEF Busy, Query, Entry
  <2>4. u = t
    BY <1>9, <2>3, AsqlAssumption
  <2>5. CASE session[id] = ToSet(t)
    BY <1>9, <2>3, <2>4, <2>5 DEF Commit, Told
  <2>6. CASE ToSet(t) \cap m_cancel # {}
    BY <1>1, <2>4, <2>6 DEF Told
  <2> QED
    BY <2>3, <2>5, <2>6 DEF Has
<1>10. Errors(id)'
  BY <1>1, <1>4, <1>6, <1>9 DEF CallInv, Errors, Working
<1>11. \A i \in Threads : i # id => Errors(i)'
  BY <1>1, <1>2, <1>4, <1>6, <1>7 DEF CallInv, Errors
<1>12. /\ Calling(id)' /\ Theirs(id)' = Own(Query(id))
       /\ \A i \in Threads : Calling(i) => Theirs(id)' # Theirs(i) \/ Theirs(i) = "none"
       /\ \A i \in Threads : i # id => (Calling(i)' <=> Calling(i))
       /\ \A i \in Threads : Theirs(i)' = Theirs(i)
       /\ ~Calling(id)
  <2>1. Query(id) \in Queries
    BY <1>1, BusyWith
  <2> QED
    BY <1>1, <1>2, <1>6, <2>1, NotYetCalled DEF Calling, Theirs
<1>13. Calls'
  <2>1. \A q \in Queries \ over :
          m_callback[q] = Own(q) \/ \E i \in Threads : Calling(i)' /\ Query(i)' = q
    BY <1>6, <1>12 DEF CallInv, Calls
  <2>2. \A i \in Threads : Inherits(i)' <=> Inherits(i)
    BY <1>1, <1>6, <1>12 DEF Inherits, Own
  <2>3. \A i \in Threads : Calling(i)' => Theirs(i)' = Own(Query(i)') \/ Inherits(i)'
    BY <1>6, <1>12, <2>2 DEF CallInv, Calls
  <2>4. \A i, j \in Threads : Calling(i)' /\ Calling(j)' /\ i # j =>
          Theirs(i)' # Theirs(j)' \/ Theirs(i)' = "none"
    BY <1>12 DEF CallInv, Calls
  <2> QED
    BY <1>1, <2>1, <2>3, <2>4 DEF CallInv, Calls, Own
<1>14. Heard'
  <2>1. \A t \in Transactions : Pending(t) => Pending(t)'
    BY <1>6, <1>12 DEF Pending
  <2>2. \A t \in Transactions : Tells(t) => Tells(t)'
    BY <1>1 DEF Tells
  <2> QED
    BY <1>1, <2>1, <2>2 DEF CallInv, Heard, Hears
<1> QED
  BY <1>6, <1>8, <1>10, <1>11, <1>13, <1>14 DEF CallInv

-----------------------------------------------------------------------------
(* A query that failed takes a callback of those it dumps.                 *)

Found(id) == {k \in DOMAIN queue[id] : /\ queue[id][k].query \in Dumped(id)
                                       /\ m_callback[queue[id][k].query] # "none"}

LEMMA InheritedIs ==
  ASSUME CallInv, NEW id \in Threads, Row(queue[id]), pc[id] = "dump", Query(id) \in Queries
  PROVE  \/ /\ Inherited(id) = Own(Query(id))
            /\ Own(Query(id)) = "none" => Found(id) = {}
         \/ /\ Own(Query(id)) = "none"
            /\ \E k \in Found(id) : /\ Inherited(id) = queue[id][k].query
                                    /\ \A j \in Found(id) : k <= j
<1>1. m_callback[Query(id)] = Own(Query(id))
  BY NotYetCalled DEF Calling, Idle, Theirs
<1>2. CASE ~(Own(Query(id)) = "none" /\ Found(id) # {})
  BY <1>1, <1>2 DEF Inherited, OwnCallback, Found
<1>3. CASE Own(Query(id)) = "none" /\ Found(id) # {}
  <2>1. DOMAIN queue[id] = 1..Len(queue[id])
    BY RowIn
  <2>2. Found(id) \in SUBSET Nat
    BY <2>1 DEF Found
  <2>3. PICK m \in Found(id) : \A j \in Found(id) : m <= j
    BY <1>3, <2>2, Least
  <2> DEFINE k == CHOOSE k \in Found(id) : \A j \in Found(id) : k <= j
  <2>4. k \in Found(id) /\ \A j \in Found(id) : k <= j
    BY <2>3
  <2>5. Inherited(id) = m_callback[queue[id][k].query]
    BY <1>1, <1>3 DEF Inherited, Found
  <2> HIDE DEF k
  <2>6. m_callback[queue[id][k].query] = queue[id][k].query
    <3>1. k \in 1..Len(queue[id]) /\ m_callback[queue[id][k].query] # "none"
      BY <2>1, <2>4 DEF Found
    <3>2. queue[id][k].query \in Waiting(id) /\ queue[id][k].query \in Queries
      BY <3>1, RowIn DEF Waiting
    <3>3. queue[id][k].query \notin over
      BY <3>2 DEF CallInv, Apart, Once, Here
    <3>4. \A i \in Threads : Calling(i) => Query(i) # queue[id][k].query
      <4>1. \A i \in Threads : Calling(i) => Query(i) \in Held(i)
        BY DEF Held, Calling, Idle
      <4> QED
        BY <3>2, <4>1 DEF CallInv, Apart, Once, Here
    <3> QED
      BY <3>1, <3>2, <3>3, <3>4 DEF CallInv, Calls, Own
  <2> QED
    BY <1>3, <2>4, <2>5, <2>6
<1> QED
  BY <1>2, <1>3

LEMMA DumpedAre ==
  ASSUME NEW id \in Threads, Row(queue[id])
  PROVE  /\ querySet[id].commit => Dumped(id) = {}
         /\ ~querySet[id].commit => Dumped(id) = Waiting(id)
         /\ Dumped(id) \subseteq Waiting(id)
BY DEF Dumped, Waiting, In

\* What Dump does to the calls.
Inherit(id) ==
  /\ \A i \in Threads : i # id => /\ Calling(i)' <=> Calling(i)
                                  /\ Calling(i) => Theirs(i)' = Theirs(i)
  /\ ~Calling(id) /\ Calling(id)' /\ Theirs(id)' = Inherited(id)
  /\ \A q \in Queries : q # Query(id) => m_callback'[q] = m_callback[q]
  /\ called' = called /\ over' = over \cup Dumped(id) /\ dumped' = dumped \cup Dumped(id)
  /\ \A i \in Threads : Query(i)' = Query(i)

LEMMA CallsInherited ==
  ASSUME CallInv, NEW id \in Threads, Row(queue[id]), pc[id] = "dump", Query(id) \in Queries,
         m_callback' = [m_callback EXCEPT ![Query(id)] = Inherited(id)], Inherit(id)
  PROVE  Calls'
<1>1. /\ Query(id) \in Given /\ Query(id) \notin over /\ Theirs(id) = Own(Query(id))
      /\ \A i \in Threads : Calling(i) =>
           i # id /\ Query(i) # Query(id) /\ (Theirs(i) # Theirs(id) \/ Theirs(i) = "none")
  BY NotYetCalled DEF Calling, Idle
<1>2. \A q \in Dumped(id) : q \in Queries /\ q \notin over
  BY DumpedAre, RowIn DEF CallInv, Apart, Once, Here, Waiting
<1>3. ASSUME Inherited(id) # Own(Query(id))
      PROVE  /\ Own(Query(id)) = "none" /\ Inherited(id) \in Dumped(id) \cap WithCallback
             /\ called[Inherited(id)] = 0
  <2>1. Own(Query(id)) = "none"
    BY <1>3, InheritedIs
  <2>2. PICK k \in Found(id) : Inherited(id) = queue[id][k].query
    BY <1>3, InheritedIs
  <2>3. Inherited(id) \in Dumped(id) /\ m_callback[Inherited(id)] # "none"
    BY <2>2 DEF Found
  <2>4. \A i \in Threads : Calling(i) => Query(i) # Inherited(id)
    <3>1. \A i \in Threads : Calling(i) => Query(i) \in Held(i)
      BY DEF Held, Calling, Idle
    <3> QED
      BY <2>3, <3>1, DumpedAre DEF CallInv, Apart, Once, Here
  <2>5. Inherited(id) \in WithCallback
    BY <1>2, <2>3, <2>4 DEF CallInv, Calls, Own
  <2>6. called[Inherited(id)] # 1
    BY <1>2, <2>3, <2>5 DEF CallInv, Calls
  <2> QED
    BY <2>1, <2>3, <2>5, <2>6 DEF CallInv, Calls
<1>4. Inherited(id) \in WithCallback \cup {"none"}
  BY <1>3 DEF Own
<1>5. m_callback' \in [Queries -> WithCallback \cup {"none"}]
  BY <1>4 DEF CallInv, Calls
<1>6. \A q \in Queries \ over' :
        m_callback'[q] = Own(q) \/ \E i \in Threads : Calling(i)' /\ Query(i)' = q
  <2>1. ASSUME NEW q \in Queries, q \notin over', q # Query(id)
        PROVE  m_callback'[q] = Own(q) \/ \E i \in Threads : Calling(i)' /\ Query(i)' = q
    <3>1. m_callback[q] = Own(q) \/ \E i \in Threads : Calling(i) /\ Query(i) = q
      BY <2>1 DEF CallInv, Calls, Inherit
    <3> QED
      BY <1>1, <2>1, <3>1 DEF Inherit
  <2> QED
    BY <2>1 DEF Inherit
<1>7. \A i \in Threads : Calling(i)' => Theirs(i)' = Own(Query(i)') \/ Inherits(i)'
  <2>1. ASSUME NEW i \in Threads, i # id, Calling(i)
        PROVE  Theirs(i)' = Own(Query(i)') \/ Inherits(i)'
    <3>1. Theirs(i)' = Theirs(i) /\ Query(i)' = Query(i) /\ (Inherits(i) => Inherits(i)')
      BY <2>1 DEF Inherit, Inherits, Own
    <3> QED
      BY <2>1, <3>1 DEF CallInv, Calls
  <2>2. Theirs(id)' = Own(Query(id)') \/ Inherits(id)'
    BY <1>3 DEF Inherit, Inherits, Own
  <2> QED
    BY <2>1, <2>2 DEF Inherit
<1>8. ASSUME NEW i \in Threads, Calling(i), i # id
      PROVE  Theirs(i)' # Theirs(id)' \/ Theirs(i)' = "none"
  <2>1. Theirs(i)' = Theirs(i) /\ Theirs(id)' = Inherited(id)
    BY <1>8 DEF Inherit
  <2>2. CASE Inherited(id) = Own(Query(id))
    BY <1>1, <1>8, <2>1, <2>2
  <2>3. CASE Inherited(id) # Own(Query(id))
    <3>1. Inherited(id) \in Dumped(id) /\ Inherited(id) \notin over
      BY <1>2, <1>3, <2>3
    <3>2. CASE Theirs(i) = Own(Query(i))
      <4>1. Query(i) \in Held(i)
        BY <1>8 DEF Held, Calling, Idle
      <4>2. Query(i) # Inherited(id)
        BY <1>8, <3>1, <4>1, DumpedAre DEF CallInv, Apart, Here
      <4> QED
        BY <2>1, <3>2, <4>2 DEF Own
    <3>3. CASE Inherits(i)
      BY <2>1, <3>1, <3>3 DEF Inherits, CallInv, Apart
    <3> QED
      BY <1>8, <3>2, <3>3 DEF CallInv, Calls
  <2> QED
    BY <2>2, <2>3
<1>9. \A i, j \in Threads : Calling(i)' /\ Calling(j)' /\ i # j =>
        Theirs(i)' # Theirs(j)' \/ Theirs(i)' = "none"
  <2>1. ASSUME NEW i \in Threads, NEW j \in Threads, i # id, j # id, i # j,
               Calling(i)', Calling(j)'
        PROVE  Theirs(i)' # Theirs(j)' \/ Theirs(i)' = "none"
    BY <2>1 DEF CallInv, Calls, Inherit
  <2>2. ASSUME NEW i \in Threads, i # id, Calling(i)'
        PROVE  Calling(i)
    BY <2>2 DEF Inherit
  <2> QED
    BY <1>8, <2>1, <2>2
<1>10. \A q \in WithCallback : /\ called'[q] = 1 => q \in over'
                               /\ q \in over' /\ q \notin dumped' => called'[q] = 1
  BY DEF CallInv, Calls, Inherit
<1> QED
  BY <1>5, <1>6, <1>7, <1>9, <1>10 DEF CallInv, Calls, Own, Inherit

LEMMA HeardInherited ==
  ASSUME CallInv, NEW id \in Threads, Row(queue[id]), Placed(id), pc[id] = "dump",
         Query(id) \in Queries, Inherit(id)
  PROVE  Heard'
<1>1. PICK t \in Transactions : \E k \in 1..Len(t) :
        Busy(id, t, k) /\ (querySet[id].commit <=> k = Len(t))
  BY BusyOne DEF Idle
<1>2. PICK k \in 1..Len(t) : Busy(id, t, k) /\ (querySet[id].commit <=> k = Len(t))
  BY <1>1
<1>3. /\ querySet[id] = Entry(t, k) /\ GoesOn(queue[id], t, k) /\ Query(id) = t[k]
      /\ Query(id) \in ToSet(t) /\ Len(t) \in Nat /\ DOMAIN t = 1..Len(t)
  BY <1>2, Transacted DEF Busy, Query, Entry
<1>4. \A u \in Transactions : Pending(u) => Pending(u)'
  <2>1. \A i \in Threads : Calling(i) => i # id
    BY DEF Calling
  <2> QED
    BY <2>1 DEF Pending, Inherit
<1>5. \A u \in Transactions : Tells(u) => Tells(u)'
  BY DEF Tells, Inherit
<1>6. \A q \in ToSet(t) : q \in WithCallback /\ Theirs(id)' = q => Pending(t)'
  BY <1>3 DEF Pending, Inherit
<1>7. ASSUME NEW u \in Transactions, ToSet(u) \cap dumped = {}, ToSet(u) \cap dumped' # {}
      PROVE  Hears(u)'
  <2>1. Dumped(id) = Waiting(id) /\ k < Len(t) /\ ToSet(u) \cap Waiting(id) # {}
    BY <1>2, <1>3, <1>7, DumpedAre DEF Inherit
  <2>2. queue[id] # <<>> /\ queue[id][1] = Entry(t, k + 1) /\ k + 1 \in 1..Len(t)
    BY <1>3, <2>1 DEF GoesOn
  <2>3. PICK p \in 1..Len(queue[id]) : queue[id][p].query \in ToSet(u)
    BY <2>1, RowIn DEF Waiting
  <2>4. PICK l \in 1..Len(u) : queue[id][p] = Entry(u, l)
    BY <2>3, RowInOf
  <2>5. ASSUME NEW d \in Nat, (k + 1) + d <= Len(t)
        PROVE  1 + d \in 1..Len(queue[id]) /\ queue[id][1 + d] = Entry(t, (k + 1) + d)
    <3>1. 1 \in 1..Len(queue[id])
      BY <2>3, RowIn
    <3> QED
      BY <2>2, <2>5, <3>1, RestFollows
  <2>6. CASE u # t
    <3>1. \A i \in 1..Len(u) : queue[id][1] # Entry(u, i)
      BY <2>2, <2>6, OnePlace
    <3>2. ToSet(u) \subseteq Waiting(id)
      BY <2>4, <3>1, WholeBehind DEF Waiting
    <3> QED
      BY <2>1, <3>2 DEF Hears, Inherit
  <2>7. ASSUME u = t, NEW c \in ToSet(t) \cap WithCallback
        PROVE  Tells(t)' \/ Pending(t)'
    <3>1. PICK i \in 1..Len(t) : t[i] = c
      BY <1>3, <2>7 DEF ToSet
    <3>2. CASE i < k
      <4>1. i \in 1..(k - 1)
        BY <1>3, <3>2
      <4>2. c \in over
        BY <1>3, <3>1, <4>1 DEF CallInv, Earlier, Idle
      <4>3. called[c] = 1
        BY <1>7, <2>7, <4>2 DEF CallInv, Calls
      <4> QED
        BY <2>7, <4>3 DEF Tells, Inherit
    <3>3. CASE Own(Query(id)) # "none"
      <4>1. Query(id) \in WithCallback /\ Theirs(id)' = Query(id)
        BY <3>3, InheritedIs DEF Own, Inherit
      <4> QED
        BY <1>3, <1>6, <4>1
    <3>4. CASE Own(Query(id)) = "none" /\ ~(i < k)
      <4>1. i # k
        <5>1. c # "none"
          BY AsqlAssumption
        <5> QED
          BY <1>3, <2>7, <3>1, <3>4, <5>1 DEF Own
      <4>2. PICK d \in Nat : i = (k + 1) + d
        <5>1. i - (k + 1) \in Nat /\ i = (k + 1) + (i - (k + 1))
          BY <1>3, <3>4, <4>1
        <5> QED
          BY <5>1
      <4>3. (k + 1) + d <= Len(t)
        BY <1>3, <4>2
      <4>4. 1 + d \in 1..Len(queue[id]) /\ queue[id][1 + d] = Entry(t, i)
        BY <2>5, <4>2, <4>3
      <4>5. queue[id][1 + d].query = c
        BY <3>1, <4>4 DEF Entry
      <4>6. 1 + d \in Found(id)
        <5>1. c \in Waiting(id) /\ c \in Queries
          BY <4>4, <4>5, RowIn DEF Waiting
        <5>2. c \notin over
          BY <5>1 DEF CallInv, Apart, Once, Here
        <5>3. \A j \in Threads : Calling(j) => Query(j) # c
          <6>1. \A j \in Threads : Calling(j) => Query(j) \in Held(j)
            BY DEF Held, Calling, Idle
          <6> QED
            BY <5>1, <6>1 DEF CallInv, Apart, Once, Here
        <5>4. m_callback[c] = c /\ c # "none"
          BY <2>7, <5>1, <5>2, <5>3, AsqlAssumption DEF CallInv, Calls, Own
        <5> QED
          BY <2>1, <4>4, <4>5, <5>1, <5>4, RowIn DEF Found
      <4>7. PICK m \in Found(id) : /\ Inherited(id) = queue[id][m].query
                                   /\ \A j \in Found(id) : m <= j
        BY <3>4, <4>6, InheritedIs
      <4>8. m \in 1..Len(queue[id]) /\ m <= 1 + d
        BY <4>6, <4>7, RowIn DEF Found
      <4>9. PICK e \in Nat : m = 1 + e
        <5>1. m - 1 \in Nat /\ m = 1 + (m - 1)
          BY <4>8, RowIn
        <5> QED
          BY <5>1
      <4>10. PICK l2 \in 1..Len(t) : l2 = (k + 1) + e
        BY <1>3, <4>2, <4>3, <4>8, <4>9
      <4>11. 1 + e \in 1..Len(queue[id]) /\ queue[id][1 + e] = Entry(t, l2)
        <5>1. (k + 1) + e <= Len(t)
          BY <1>3, <4>10
        <5> QED
          BY <2>5, <4>10, <5>1
      <4>12. Inherited(id) \in ToSet(t)
        BY <4>7, <4>9, <4>11, Transacted DEF Entry
      <4>13. Inherited(id) \in WithCallback
        <5>1. Inherited(id) \in Waiting(id) /\ Inherited(id) \in Queries
          BY <4>7, <4>8, RowIn DEF Waiting
        <5>2. Inherited(id) \notin over
          BY <5>1 DEF CallInv, Apart, Once, Here
        <5>3. \A j \in Threads : Calling(j) => Query(j) # Inherited(id)
          <6>1. \A j \in Threads : Calling(j) => Query(j) \in Held(j)
            BY DEF Held, Calling, Idle
          <6> QED
            BY <5>1, <6>1 DEF CallInv, Apart, Once, Here
        <5>4. m_callback[Inherited(id)] # "none"
          BY <4>7 DEF Found
        <5> QED
          BY <5>1, <5>2, <5>3, <5>4 DEF CallInv, Calls, Own
      <4> QED
        BY <1>6, <4>12, <4>13 DEF Inherit
    <3> QED
      BY <3>2, <3>3, <3>4
  <2>8. CASE u = t
    BY <2>7, <2>8 DEF Hears
  <2> QED
    BY <2>6, <2>8
<1>8. ASSUME NEW u \in Transactions PROVE Hears(u)'
  <2>1. Hears(u)
    BY DEF CallInv, Heard
  <2>2. dumped \subseteq dumped'
    BY DEF Inherit
  <2> QED
    BY <1>4, <1>5, <1>7, <2>1, <2>2 DEF Hears
<1> QED
  BY <1>8 DEF Heard

LEMMA CallsByDump ==
  ASSUME Typed, NEW id \in Threads, Row(queue[id]), Placed(id), CallInv, Dump(id)
  PROVE  CallInv'
<1>1. /\ pc[id] = "dump" /\ pc'[id] = "callback" /\ pc[id] \notin Idle /\ pc'[id] \notin Idle
      /\ over' = over \cup Dumped(id) /\ dumped' = dumped \cup Dumped(id)
      /\ m_callback' = [m_callback EXCEPT ![Query(id)] = Inherited(id)]
      /\ UNCHANGED <<querySet, given, m_error, called, saved, unsaved, m_cancel>>
  BY DEF Dump, Goes, Typed, Idle
<1>2. \A i \in Threads : i # id => pc'[i] = pc[i] /\ queue'[i] = queue[i]
  BY DEF Dump, Goes, Typed
<1>3. queue'[id] = IF querySet[id].commit THEN queue[id] ELSE <<>>
  BY DEF Dump, Typed
<1>4. \A i \in Threads : Query(i)' = Query(i) /\ Held(i)' = Held(i)
  BY <1>1, <1>2 DEF Query, Held
<1>5. /\ \A i \in Threads : i # id => Waiting(i)' = Waiting(i)
      /\ Waiting(id)' = Waiting(id) \ Dumped(id) /\ Dumped(id) \subseteq Waiting(id)
  BY <1>2, <1>3, DumpedAre, NothingIn DEF Waiting
<1>6. Query(id) \in Queries /\ Query(id) \in Held(id)
  BY <1>1, BusyWith DEF Held
<1>7. Apart'
  <2>1. Here(id)' = Here(id) \ Dumped(id)
    BY <1>4, <1>5 DEF Here, CallInv, Apart, Once
  <2>2. \A i \in Threads : i # id => Here(i)' = Here(i) /\ Here(i) \cap Dumped(id) = {}
    BY <1>4, <1>5 DEF Here, CallInv, Apart
  <2>3. Uniq(queue'[id])
    BY <1>3, NothingIn DEF CallInv, Apart, Once
  <2>4. Given' = Given
    BY <1>1 DEF Given
  <2>5. Once(id)'
    BY <1>1, <1>4, <1>5, <2>1, <2>3, <2>4 DEF CallInv, Apart, Once
  <2>6. \A i \in Threads : i # id => Once(i)'
    BY <1>1, <1>2, <1>4, <1>5, <2>2, <2>4 DEF CallInv, Apart, Once
  <2>7. \A i, j \in Threads : i # j => Here(j)' \cap Here(i)' = {}
    BY <2>1, <2>2 DEF CallInv, Apart
  <2>8. over' \subseteq Given
    BY <1>1, <1>5 DEF CallInv, Apart, Once, Here
  <2>9. dumped' \subseteq over' /\ m_error' \subseteq Given' /\ given' \subseteq Transactions
    BY <1>1, <2>4 DEF CallInv, Apart
  <2> QED
    BY <2>4, <2>5, <2>6, <2>7, <2>8, <2>9 DEF Apart
<1>8. \A t \in Transactions : Told(t) => Told(t)'
  BY <1>1, ToldStays
<1>9. Telling'
  <2>1. ASSUME NEW t \in Transactions, t[Len(t)] \in Dumped(id) PROVE Told(t)'
    <3>1. t[Len(t)] \in ToSet(t)
      BY Transacted
    <3> QED
      BY <1>1, <2>1, <3>1 DEF Told
  <2> QED
    BY <1>1, <1>8, <2>1 DEF CallInv, Telling
<1>10. \A i \in Threads : i # id => Errors(i)'
  BY <1>1, <1>2, <1>4, <1>5, <1>8 DEF CallInv, Errors
<1>11. Errors(id)'
  <2>1. \A t \in Transactions : Query(id) \in ToSet(t) => Told(t)'
    BY <1>1 DEF CallInv, Errors, Told
  <2>2. m_error' \cap Waiting(id)' = {}
    BY <1>1, <1>5 DEF CallInv, Errors
  <2> QED
    BY <1>1, <1>4, <2>1, <2>2 DEF Errors, Working
<1>12. \A i \in Threads : Earlier(i)'
  BY <1>1, <1>2, <1>3, <1>4 DEF CallInv, Earlier
<1>13. Inherit(id)
  <2>1. \A i \in Threads : i # id => (Calling(i)' <=> Calling(i))
    BY <1>2 DEF Calling
  <2>2. Theirs(id)' = Inherited(id)
    BY <1>1, <1>4, <1>6 DEF Theirs, CallInv, Calls
  <2>3. \A q \in Queries : q # Query(id) => m_callback'[q] = m_callback[q]
    BY <1>1 DEF CallInv, Calls
  <2>4. ASSUME NEW i \in Threads, Calling(i) PROVE Theirs(i)' = Theirs(i)
    <3>1. Query(i) \in Held(i)
      BY <2>4 DEF Held, Calling, Idle
    <3>2. Query(i) \in Queries
      BY <3>1, AsqlAssumption DEF CallInv, Apart, Once, Here, Given, Queries
    <3>3. Query(i) # Query(id)
      BY <1>1, <1>6, <2>4, NotYetCalled DEF Calling
    <3> QED
      BY <1>4, <2>3, <3>2, <3>3 DEF Theirs
  <2> QED
    BY <1>1, <1>4, <2>1, <2>2, <2>3, <2>4 DEF Inherit, Calling
<1>14. Calls'
  BY <1>1, <1>6, <1>13, CallsInherited
<1>15. Heard'
  BY <1>1, <1>6, <1>13, HeardInherited
<1> QED
  BY <1>7, <1>9, <1>10, <1>11, <1>12, <1>14, <1>15 DEF CallInv

LEMMA CallsByCallback ==
  ASSUME Typed, NEW id \in Threads, Placed(id), CallInv, Callback(id)
  PROVE  CallInv'
<1> DEFINE q == Query(id)
           c == Theirs(id)
<1>1. /\ pc[id] = "callback" /\ pc'[id] = "check" /\ pc[id] \notin Idle /\ pc'[id] \in Idle
      /\ over' = over \cup {q}
      /\ called' = IF c = "none" THEN called ELSE [called EXCEPT ![c] = @ + 1]
      /\ UNCHANGED <<queue, given, dumped, m_error, m_callback, saved, unsaved, m_cancel>>
  BY DEF Callback, Goes, Typed, Idle, Theirs
<1>2. \A i \in Threads : i # id => pc'[i] = pc[i] /\ querySet'[i] = querySet[i]
  BY DEF Callback, Goes, Typed
<1>3. /\ \A i \in Threads : Waiting(i)' = Waiting(i)
      /\ \A i \in Threads : i # id => Query(i)' = Query(i) /\ Held(i)' = Held(i)
      /\ Held(id) = {q} /\ Held(id)' = {}
  BY <1>1, <1>2 DEF Waiting, Query, Held
<1>4. q \in Queries /\ q \in Given /\ q \notin over
  BY <1>1, <1>3, BusyWith DEF CallInv, Apart, Once, Here
<1>5. \A i \in Threads : i # id => q \notin Here(i)
  BY <1>3 DEF CallInv, Apart, Here
<1>6. Apart'
  <2>1. Given' = Given
    BY <1>1 DEF Given
  <2>2. Here(id)' = Waiting(id) /\ q \notin Waiting(id)
    BY <1>3 DEF Here, CallInv, Apart, Once
  <2>3. \A i \in Threads : i # id => Here(i)' = Here(i)
    BY <1>3 DEF Here
  <2>4. Once(id)'
    BY <1>1, <1>3, <2>1, <2>2 DEF CallInv, Apart, Once, Here
  <2>5. \A i \in Threads : i # id => Once(i)'
    BY <1>1, <1>3, <1>5, <2>1, <2>3 DEF CallInv, Apart, Once
  <2>6. \A i, j \in Threads : i # j => Here(j)' \cap Here(i)' = {}
    BY <2>2, <2>3 DEF CallInv, Apart, Here
  <2> QED
    BY <1>1, <1>4, <2>1, <2>4, <2>5, <2>6 DEF CallInv, Apart
<1>7. \A t \in Transactions : Told(t) => Told(t)'
  BY <1>1, ToldStays
<1>8. Telling'
  <2>1. ASSUME NEW t \in Transactions, t[Len(t)] = q PROVE Told(t)
    <3>1. PICK u \in Transactions : \E k \in 1..Len(u) :
            Busy(id, u, k) /\ (querySet[id].commit <=> k = Len(u))
      BY <1>1, BusyOne
    <3>2. PICK k \in 1..Len(u) : Busy(id, u, k) /\ (querySet[id].commit <=> k = Len(u))
      BY <3>1
    <3>0. Len(t) \in 1..Len(t) /\ t[Len(t)] \in ToSet(t)
      BY Transacted
    <3>3. q = u[k]
      BY <3>2 DEF Busy, Query, Entry
    <3>4. u = t /\ k = Len(t)
      BY <2>1, <3>0, <3>3, SameQuery
    <3> QED
      BY <1>1, <2>1, <3>0, <3>2, <3>4 DEF CallInv, Errors
  <2> QED
    BY <1>1, <1>7, <2>1 DEF CallInv, Telling
<1>9. ASSUME NEW i \in Threads PROVE Errors(i)'
  <2>1. CASE i = id
    BY <1>1, <1>3, <2>1 DEF CallInv, Errors, Working
  <2>2. CASE i # id
    BY <1>1, <1>2, <1>3, <1>7, <2>2 DEF CallInv, Errors
  <2> QED
    BY <2>1, <2>2
<1>10. ASSUME NEW i \in Threads PROVE Earlier(i)'
  <2>1. CASE i = id
    BY <1>1, <1>3, <2>1 DEF CallInv, Earlier
  <2>2. CASE i # id
    BY <1>1, <1>2, <1>3, <2>2 DEF CallInv, Earlier
  <2> QED
    BY <2>1, <2>2
<1>11. /\ ~Calling(id)' /\ Calling(id)
       /\ \A i \in Threads : i # id => /\ Calling(i)' <=> Calling(i)
                                       /\ Theirs(i)' = Theirs(i)
  BY <1>1, <1>2, <1>3 DEF Calling, Idle, Theirs
<1>12. c = Own(q) \/ Inherits(id)
  BY <1>11 DEF CallInv, Calls
<1>13. c # "none" => c \in WithCallback /\ called[c] = 0 /\ c \in over'
  <2>1. CASE c = Own(q)
    BY <1>1, <1>4, <2>1 DEF CallInv, Calls, Own
  <2>2. CASE Inherits(id)
    BY <1>1, <2>2 DEF Inherits, CallInv, Apart
  <2> QED
    BY <1>12, <2>1, <2>2
<1>14. \A p \in WithCallback : called'[p] = IF p = c THEN 1 ELSE called[p]
  <2>1. CASE c = "none"
    <3>1. "none" \notin WithCallback
      BY AsqlAssumption
    <3> QED
      BY <1>1, <2>1, <3>1
  <2>2. CASE c # "none"
    BY <1>1, <1>13, <2>2 DEF CallInv, Calls
  <2> QED
    BY <2>1, <2>2
<1>15. called' \in [WithCallback -> {0, 1}]
  <2>1. CASE c = "none"
    BY <1>1, <2>1 DEF CallInv, Calls
  <2>2. CASE c # "none"
    BY <1>1, <1>13, <2>2 DEF CallInv, Calls
  <2> QED
    BY <2>1, <2>2
<1>16. Calls'
  <2>1. \A p \in Queries \ over' :
          m_callback[p] = Own(p) \/ \E i \in Threads : Calling(i)' /\ Query(i)' = p
    <3>1. ASSUME NEW p \in Queries, p \notin over, p # q,
                 NEW i \in Threads, Calling(i), Query(i) = p
          PROVE  Calling(i)' /\ Query(i)' = p
      BY <1>3, <1>11, <3>1
    <3> QED
      BY <1>1, <3>1 DEF CallInv, Calls
  <2>2. ASSUME NEW i \in Threads, Calling(i)' PROVE Theirs(i)' = Own(Query(i)') \/ Inherits(i)'
    <3>1. /\ i # id /\ Calling(i) /\ Theirs(i)' = Theirs(i) /\ Query(i)' = Query(i)
          /\ Theirs(i) # c \/ Theirs(i) = "none"
      BY <1>3, <1>11, <2>2 DEF CallInv, Calls
    <3>2. ASSUME Inherits(i) PROVE Inherits(i)'
      <4>1. Theirs(i) \in WithCallback /\ Theirs(i) # "none"
        BY <3>2, AsqlAssumption DEF Inherits
      <4>2. called'[Theirs(i)] = 0
        BY <1>14, <3>1, <3>2, <4>1 DEF Inherits
      <4> QED
        BY <1>1, <3>1, <3>2, <4>2 DEF Inherits, Own
    <3> QED
      BY <3>1, <3>2 DEF CallInv, Calls
  <2>3. \A i, j \in Threads : Calling(i)' /\ Calling(j)' /\ i # j =>
          Theirs(i)' # Theirs(j)' \/ Theirs(i)' = "none"
    BY <1>11 DEF CallInv, Calls
  <2>4. ASSUME NEW p \in WithCallback
        PROVE  /\ called'[p] = 1 => p \in over'
               /\ p \in over' /\ p \notin dumped' => called'[p] = 1
    <3>1. called'[p] = 1 => p \in over'
      <4>1. CASE p = c
        <5>1. p # "none"
          BY AsqlAssumption
        <5> QED
          BY <1>13, <4>1, <5>1
      <4>2. CASE p # c
        BY <1>1, <1>14, <4>2 DEF CallInv, Calls
      <4> QED
        BY <4>1, <4>2
    <3>2. ASSUME p \in over', p \notin dumped PROVE called'[p] = 1
      <4>1. CASE p = q
        <5>1. Own(q) = p /\ p # "none"
          BY <4>1, AsqlAssumption DEF Own
        <5>2. c = p
          BY <1>12, <5>1 DEF Inherits
        <5> QED
          BY <1>14, <5>2
      <4>2. CASE p # q
        BY <1>1, <1>14, <3>2, <4>2 DEF CallInv, Calls
      <4> QED
        BY <4>1, <4>2
    <3> QED
      BY <1>1, <3>1, <3>2
  <2> QED
    BY <1>1, <1>15, <2>1, <2>2, <2>3, <2>4 DEF CallInv, Calls, Own
<1>17. Heard'
  <2>1. \A t \in Transactions : Tells(t) => Tells(t)'
    BY <1>14 DEF Tells
  <2>2. ASSUME NEW t \in Transactions, NEW i \in Threads, Calling(i), Query(i) \in ToSet(t),
               Theirs(i) \in ToSet(t) \cap WithCallback
        PROVE  Tells(t)' \/ Pending(t)'
    <3>1. CASE i = id
      BY <1>14, <2>2, <3>1 DEF Tells
    <3>2. CASE i # id
      BY <1>3, <1>11, <2>2, <3>2 DEF Pending
    <3> QED
      BY <3>1, <3>2
  <2>3. \A t \in Transactions : Pending(t) => Tells(t)' \/ Pending(t)'
    BY <2>2 DEF Pending
  <2> QED
    BY <1>1, <2>1, <2>3 DEF CallInv, Heard, Hears
<1> QED
  BY <1>6, <1>8, <1>9, <1>10, <1>16, <1>17 DEF CallInv

-----------------------------------------------------------------------------
LEMMA CallsStarted == Init => CallInv
<1> SUFFICES ASSUME Init PROVE CallInv
  OBVIOUS
<1>1. \A id \in Threads : /\ queue[id] = <<>> /\ pc[id] = "off" /\ pc[id] \in Idle
                          /\ Waiting(id) = {} /\ Held(id) = {} /\ Here(id) = {}
                          /\ ~Calling(id)
  BY NothingIn DEF Init, Idle, Waiting, Held, Here, Calling
<1>2. Apart
  BY <1>1, NothingIn DEF Init, Apart, Once
<1>3. \A id \in Threads : Errors(id) /\ Earlier(id)
  BY <1>1 DEF Init, Errors, Earlier, Working
<1>4. Telling
  BY DEF Init, Telling
<1>5. Calls
  BY <1>1 DEF Init, Calls, Own
<1>6. Heard
  BY DEF Init, Heard, Hears
<1> QED
  BY <1>2, <1>3, <1>4, <1>5, <1>6 DEF CallInv

LEMMA CallsStep == SqlInv /\ CallInv /\ [Next]_vars => CallInv'
<1> SUFFICES ASSUME SqlInv, CallInv, [Next]_vars PROVE CallInv'
  OBVIOUS
<1>1. Typed /\ Pool /\ Counts /\ \A id \in Threads : Row(queue[id]) /\ Placed(id)
  BY DEF SqlInv, Counted, Counts
<1>2. ASSUME NEW t \in Transactions, NEW id \in Threads, Queue(t, id) PROVE CallInv'
  BY <1>1, <1>2, CallsByQueue
<1>3. ASSUME NEW id \in Threads,
             Fetch(id) \/ Commit(id) \/ Failed(id) \/ Dump(id) \/ Callback(id)
      PROVE  CallInv'
  BY <1>1, <1>3, CallsByFetch, CallsByCommit, CallsByFailed, CallsByDump, CallsByCallback
<1> QED
  BY <1>1, <1>2, <1>3, StepKinds, CallsAside

LEMMA CallsEnough == CallInv => NothingLostUnseen /\ CalledOnce
<1> SUFFICES ASSUME CallInv PROVE NothingLostUnseen /\ CalledOnce
  OBVIOUS
<1>1. NothingLostUnseen
  <2>1. \A t \in Transactions : t[Len(t)] \in ToSet(t)
    BY Transacted
  <2> QED
    BY <2>1 DEF CallInv, Telling, Told, NothingLostUnseen
<1>2. \A q \in WithCallback : /\ called[q] <= 1
                              /\ called[q] = 1 => q \in over
                              /\ q \in over \ dumped => called[q] = 1
  <2>1. \A q \in WithCallback : called[q] \in {0, 1}
    BY DEF CallInv, Calls
  <2> QED
    BY <2>1 DEF CallInv, Calls
<1>3. ASSUME NEW t \in Transactions, ToSet(t) \subseteq over, ~(ToSet(t) \subseteq dumped)
      PROVE  ToSet(t) \cap WithCallback = {} \/ Tells(t)
  <2>1. CASE ToSet(t) \cap dumped = {}
    BY <1>2, <1>3, <2>1 DEF Tells
  <2>2. ~Pending(t)
    <3>1. \A id \in Threads : Calling(id) => Query(id) \notin over
      BY DEF Calling, Idle, Held, Here, CallInv, Apart, Once
    <3> QED
      BY <1>3, <3>1 DEF Pending
  <2> QED
    BY <1>3, <2>1, <2>2 DEF CallInv, Heard, Hears
<1> QED
  BY <1>1, <1>2, <1>3 DEF CalledOnce, Tells

\* A transaction that is over and of which nothing is saved has told so: one of its
\* queries has an error, was cancelled, or was dumped for another's; or its commit
\* failed unseen (asql.hpp 290-313).
THEOREM NoneLostUnseen == Spec => []NothingLostUnseen
<1>1. Init => SqlInv /\ CallInv
  BY Started, CallsStarted
<1>2. (SqlInv /\ CallInv) /\ [Next]_vars => (SqlInv /\ CallInv)'
  BY SqlStep, CallsStep
<1>3. SqlInv /\ CallInv => NothingLostUnseen
  BY CallsEnough
<1> QED
  BY <1>1, <1>2, <1>3, PTL DEF Spec

\* A callback is called at most once, and only when its query is over; if the query
\* was not dumped it was called.  When a transaction is over, unless it was dumped whole,
\* one of the callbacks it has was called (asql.hpp 50-51, 303-314; query.hpp 141-146).
THEOREM EachCalledOnce == Spec => []CalledOnce
<1>1. Init => SqlInv /\ CallInv
  BY Started, CallsStarted
<1>2. (SqlInv /\ CallInv) /\ [Next]_vars => (SqlInv /\ CallInv)'
  BY SqlStep, CallsStep
<1>3. SqlInv /\ CallInv => CalledOnce
  BY CallsEnough
<1> QED
  BY <1>1, <1>2, <1>3, PTL DEF Spec
=============================================================================
